-------------------------- MODULE MessagingIngress --------------------------
(***************************************************************************)
(* The messaging side of the HTTP ingress, src/demo/http_ingress.rs.  A     *)
(* POST is dispatched to the provider's ingest_http and answered; the       *)
(* messages it carried are worked on by a thread of their own, which        *)
(* routes each (route_messaging_envelopes) to a card, a GitHub tool, an app *)
(* flow or an echo, and sends the replies.  The threads share the           *)
(* TelegramFormStore, one pending form per chat, and the GitHub token       *)
(* files, one per tenant.  Card rendering and payloads are left out.        *)
(***************************************************************************)
EXTENDS Integers, Sequences, FiniteSets, SequencesExt

CONSTANTS Reqs,      \* the POSTs, and the threads they start
          Tenants, Chats,
          Texts,     \* what users type; also what may be saved as a token
          Pack,      \* Pack[t]: [pack, flow, welcome, cards] of tenant t's app pack
          Casts      \* [token, posts]: whether the bundle's secrets file has a GITHUB_TOKEN, for
                     \* every tenant, and what each POST may be, [tenant, provider, envelopes]

None == "none"

(* chat is the metadata entry chat_id, to the first address of the message. *)
Envelope == [from : {"user", "bot"}, chat : Chats \cup {None}, to : Chats \cup {None}, text : Texts \cup {None},
             form_reply : BOOLEAN, action : {None, "mcp", "save_token"},
             card : {None, "GH-connected", "GH-oauth-personal", "other"},
             token : Texts \cup {None}]

Providers == {"messaging-telegram", "messaging-webchat", "other"}
Post == [tenant : Tenants, provider : Providers, envelopes : Seq(Envelope)]

ASSUME IngressAssumption ==
    /\ \A c \in Casts : c.token \in BOOLEAN /\ \A r \in Reqs : c.posts[r] \subseteq Post
    /\ Pack \in [Tenants -> [pack : BOOLEAN, flow : BOOLEAN, welcome : BOOLEAN, cards : BOOLEAN]]
    /\ None \notin Chats \cup Texts

(***************************************************************************)
(* A form: the first input its card asks for and the data of its first      *)
(* submit action.  A reply: whether it is a card, and the form it has.      *)
(***************************************************************************)
NoForm == [input |-> None, submit |-> None]
TokenForm == [input |-> "github_token", submit |-> "save_token"]
PackForm == [input |-> "field", submit |-> "mcp"]
Forms == {TokenForm, PackForm}

Reply == [card : BOOLEAN, form : Forms \cup {NoForm}]
Text == [card |-> FALSE, form |-> NoForm]
Card(form) == [card |-> TRUE, form |-> form]
PackCards == {Card(NoForm), Card(PackForm)}

VARIABLES cast,      \* the bundle and the POSTs of this behaviour
          pc,        \* where each POST or its thread is
          post,      \* the POST
          todo,      \* envelopes still to be prepared, or routed
          ready,     \* envelopes prepared, not yet routed
          replies,   \* replies of the current envelope still to be sent
          forms,     \* TelegramFormStore
          tokens,    \* the token files
          sent,      \* history: replies attempted or pushed, per request, in order
          stored,    \* history: <<chat, form id>> of the forms stored, in order
          taken,     \* history: <<form id, request>> of the forms taken
          shown,     \* history: <<chat, form id>> of the forms users saw
          routed,    \* history: envelopes routed, per request
          failed     \* the thread ended with an Err

vars == <<cast, pc, post, todo, ready, replies, forms, tokens, sent, stored, taken, shown, routed, failed>>

PCs == {"idle", "prepare", "route", "reply", "send", "done"}

(* A form that is stored is known by the request and the place of its card  *)
(* among the request's replies.                                             *)
FormIds == Reqs \X Nat
Pending == [form : Forms, id : FormIds]
NoPending == [form |-> NoForm, id |-> <<>>]
NoPost == [tenant |-> None, provider |-> None, envelopes |-> <<>>]

Init ==
    /\ cast \in Casts
    /\ pc = [r \in Reqs |-> "idle"]
    /\ post = [r \in Reqs |-> NoPost]
    /\ todo = [r \in Reqs |-> <<>>] /\ ready = [r \in Reqs |-> <<>>]
    /\ replies = [r \in Reqs |-> <<>>]
    /\ forms = [c \in Chats |-> NoPending]
    /\ tokens = [t \in Tenants |-> None]
    /\ sent = [r \in Reqs |-> <<>>] /\ stored = <<>> /\ taken = <<>> /\ shown = {}
    /\ routed = [r \in Reqs |-> <<>>]
    /\ failed = [r \in Reqs |-> FALSE]

Goto(r, l) == pc' = [pc EXCEPT ![r] = l]

(* The loops over the messages and over the replies of one message. *)
NextStep(envelopes, outputs) ==
    IF outputs # <<>> THEN "reply" ELSE IF envelopes # <<>> THEN "route" ELSE "done"

-----------------------------------------------------------------------------
FromUser(e) == e.from # "bot"

(* The messages of a POST without the bot's own, in their order. *)
UserMessages(p) ==
    FlattenSeq([k \in DOMAIN p.envelopes |->
                  IF FromUser(p.envelopes[k]) THEN <<p.envelopes[k]>> ELSE <<>>])

(***************************************************************************)
(* handle_request_inner: the dispatch fails and the client gets 502, or the *)
(* messages that are not the bot's own are given to a thread.               *)
(***************************************************************************)
Receive(r) ==
    /\ pc[r] = "idle"
    /\ \E p \in cast.posts[r] :
         LET es == UserMessages(p) IN
         /\ post' = [post EXCEPT ![r] = p]
         /\ \/ Goto(r, "done") /\ UNCHANGED todo
            \/ /\ Goto(r, IF es = <<>> THEN "done" ELSE "prepare")
               /\ todo' = [todo EXCEPT ![r] = es]
    /\ UNCHANGED <<ready, replies, forms, tokens, sent, stored, taken, shown, routed, failed>>

(* An explicit reply, or plain text while a form may be pending. *)
AnswersForm(e) ==
    \/ e.form_reply
    \/ e.chat # None /\ e.action = None /\ e.card = None /\ e.text # None

(* The typed text becomes the value of the first input, the submit action's *)
(* data is added.                                                           *)
Filled(e, f) ==
    [e EXCEPT !.token = IF f.input = "github_token" /\ e.text # None THEN e.text ELSE @,
              !.action = IF f.submit # None THEN f.submit ELSE @]

(* Mutant: the form stays in the store. *)
Bug_AfterTake(c) == forms

AfterTake(c) == [forms EXCEPT ![c] = NoPending]

TakesForm(e) == AnswersForm(e) /\ e.chat # None /\ forms[e.chat] # NoPending

Prepare(r) ==
    LET e == Head(todo[r]) IN
    /\ pc[r] = "prepare"
    /\ todo' = [todo EXCEPT ![r] = Tail(@)]
    /\ Goto(r, IF Len(todo[r]) = 1 THEN "route" ELSE "prepare")
    /\ \/ /\ TakesForm(e)
          /\ ready' = [ready EXCEPT ![r] = Append(@, Filled(e, forms[e.chat].form))]
          /\ taken' = Append(taken, <<forms[e.chat].id, r>>)
          /\ forms' = AfterTake(e.chat)
       \/ /\ ~TakesForm(e)
          /\ ready' = [ready EXCEPT ![r] = Append(@, e)]
          /\ UNCHANGED <<forms, taken>>
    /\ UNCHANGED <<post, replies, tokens, sent, stored, shown, routed, failed>>

-----------------------------------------------------------------------------
(* Routing an envelope: the sequences of replies it may lead to. *)

(* run_app_flow_safe: an error gives the message itself back.               *)
FlowReplies == {<<>>, <<Text>>, <<Text, Text>>} \cup {<<c>> : c \in PackCards}

(* The tenant has an app pack, and it has a flow to run. *)
HasFlow(t) == Pack[t].pack /\ Pack[t].flow

FlowOrEcho(t) == IF HasFlow(t) THEN FlowReplies ELSE {<<Text>>}

WelcomeOr(t, otherwise) ==
    IF Pack[t].pack /\ Pack[t].welcome THEN {<<c>> : c \in PackCards} ELSE otherwise

HasToken(t) == cast.token \/ tokens[t] # None

(* The tool's result or error card, or a card that asks for a token.        *)
Mcp(t) == IF HasToken(t) THEN {<<Card(NoForm)>>} ELSE {<<Card(TokenForm)>>}

(* The connected card if GitHub accepts the token. *)
Connected(t) ==
    (IF HasToken(t) THEN {<<Card(NoForm)>>} ELSE {}) \cup WelcomeOr(t, {<<Text>>})

PackCard(t) ==
    {<<c>> : c \in IF Pack[t].cards THEN PackCards ELSE {}} \cup FlowOrEcho(t)

(* The first case that applies, in the order of the code.  tokens[t] is     *)
(* what a save_token has just written.                                      *)
Outputs(t, e) ==
    CASE e.action = "mcp" -> Mcp(t)
      [] e.action = "save_token" -> IF e.token # None THEN {<<Card(NoForm)>>} ELSE {<<Text>>}
      [] e.card = "GH-connected" -> Connected(t)
      [] e.card = "GH-oauth-personal" -> {<<Card(TokenForm)>>}
      [] e.card = "other" /\ Pack[t].pack -> PackCard(t)
      [] OTHER -> WelcomeOr(t, FlowOrEcho(t))

(* Mutant: one token file for all tenants. *)
Bug_TokenFiles(t) == Tenants

(* save_github_token writes the file of the request's tenant. *)
TokenFiles(t) == {t}

Route(r) ==
    LET e == Head(ready[r])
        t == post[r].tenant IN
    /\ pc[r] = "route" /\ ready[r] # <<>>
    /\ ready' = [ready EXCEPT ![r] = Tail(@)]
    /\ routed' = [routed EXCEPT ![r] = Append(@, e)]
    /\ tokens' = IF e.action = "save_token" /\ e.token # None
                 THEN [u \in Tenants |-> IF u \in TokenFiles(t) THEN e.token ELSE tokens[u]] ELSE tokens
    /\ \E out \in Outputs(t, e) :
         /\ replies' = [replies EXCEPT ![r] = out]
         /\ Goto(r, NextStep(Tail(ready[r]), out))
    /\ UNCHANGED <<post, todo, forms, sent, stored, taken, shown, failed>>

-----------------------------------------------------------------------------
(* Sending the replies.  A reply goes to the chat of its message. *)

Current(r) == routed[r][Len(routed[r])]
FormChat(r) == IF Current(r).chat # None THEN Current(r).chat ELSE Current(r).to
FormId(r) == <<r, Len(sent[r]) + 1>>

KeepsForm(r) ==
    /\ post[r].provider = "messaging-telegram" /\ Head(replies[r]).card
    /\ Head(replies[r]).form # NoForm /\ FormChat(r) # None

(* Mutant: a form that is pending is not replaced. *)
Bug_Remember(c, f) == IF forms[c] = NoPending THEN [forms EXCEPT ![c] = f] ELSE forms

Remember(c, f) == [forms EXCEPT ![c] = f]

(* The form of a Telegram card is stored before the card is sent. *)
StoreForm(r) ==
    /\ pc[r] = "reply" /\ KeepsForm(r)
    /\ forms' = Remember(FormChat(r), [form |-> Head(replies[r]).form, id |-> FormId(r)])
    /\ stored' = Append(stored, <<FormChat(r), FormId(r)>>)
    /\ Goto(r, "send")
    /\ UNCHANGED <<post, todo, ready, replies, tokens, sent, taken, shown, routed, failed>>

MaySend(r) == pc[r] = "send" \/ (pc[r] = "reply" /\ ~KeepsForm(r))
Webchat(r) == post[r].provider = "messaging-webchat" /\ Head(replies[r]).card

(* Webchat cards go to the BotActivityStore, which the server does not      *)
(* pass: the reply is dropped.                                              *)
DropWebchatCard(r) ==
    /\ MaySend(r) /\ Webchat(r)
    /\ sent' = [sent EXCEPT ![r] = Append(@, "dropped")]
    /\ replies' = [replies EXCEPT ![r] = Tail(@)]
    /\ Goto(r, NextStep(ready[r], Tail(replies[r])))
    /\ UNCHANGED <<post, todo, ready, forms, tokens, stored, taken, shown, routed, failed>>

(* Mutant: a send that fails ends the thread, like one that cannot be made. *)
Bug_AfterSend(r, ok) == IF ok THEN NextStep(ready[r], Tail(replies[r])) ELSE "done"

AfterSend(r, ok) == NextStep(ready[r], Tail(replies[r]))

(***************************************************************************)
(* render_plan and encode have fallbacks; send_payload is answered ok or    *)
(* not ok, or cannot be made, which ends the thread.                        *)
(***************************************************************************)
Send(r) ==
    /\ MaySend(r) /\ ~Webchat(r)
    /\ \/ \E ok \in BOOLEAN :
            /\ Goto(r, AfterSend(r, ok))
            /\ sent' = [sent EXCEPT ![r] = Append(@, IF ok THEN "ok" ELSE "failed")]
            /\ replies' = [replies EXCEPT ![r] = Tail(@)]
            /\ shown' = IF ok /\ KeepsForm(r) THEN shown \cup {<<FormChat(r), FormId(r)>>} ELSE shown
            /\ UNCHANGED failed
       \/ /\ failed' = [failed EXCEPT ![r] = TRUE]
          /\ Goto(r, "done")
          /\ UNCHANGED <<sent, replies, shown>>
    /\ UNCHANGED <<post, todo, ready, forms, tokens, stored, taken, routed>>

Work(r) == Prepare(r) \/ Route(r) \/ StoreForm(r) \/ DropWebchatCard(r) \/ Send(r)

Next == (\E r \in Reqs : Receive(r) \/ Work(r)) /\ UNCHANGED cast

Spec == Init /\ [][Next]_vars

-----------------------------------------------------------------------------
(* Every variable has its type. *)
TypeOK ==
    /\ cast \in Casts
    /\ pc \in [Reqs -> PCs]
    /\ \A r \in Reqs :
         /\ \A k \in DOMAIN todo[r] : todo[r][k] \in Envelope
         /\ \A k \in DOMAIN ready[r] : ready[r][k] \in Envelope
         /\ \A k \in DOMAIN replies[r] : replies[r][k] \in Reply
         /\ \A k \in DOMAIN routed[r] : routed[r][k] \in Envelope
    /\ \A c \in Chats : forms[c] \in Pending \cup {NoPending}
    /\ tokens \in [Tenants -> Texts \cup {None}]

(***************************************************************************)
(* A form is answered once: however many messages of a chat are worked on   *)
(* at the same time, at most one of them takes a stored form.               *)
(***************************************************************************)
FormAnsweredOnce ==
    \A j, k \in DOMAIN taken : taken[j][1] = taken[k][1] => j = k

(***************************************************************************)
(* A form the user sees can be answered: once its card has been sent, it is *)
(* pending, was answered, or was replaced by a form stored later in the     *)
(* same chat.                                                               *)
(***************************************************************************)
ShownFormsCanBeAnswered ==
    \A s \in shown :
      \/ forms[s[1]].id = s[2]
      \/ \E k \in DOMAIN taken : taken[k][1] = s[2]
      \/ \E j, k \in DOMAIN stored : j < k /\ stored[j] = s /\ stored[k][1] = s[1]

(***************************************************************************)
(* A token that is kept for a tenant was given in a message to that tenant, *)
(* even when chats, and so pending forms, are shared between tenants.       *)
(***************************************************************************)
TokensStayInTenant ==
    \A t \in Tenants : tokens[t] # None =>
      \E r \in Reqs : post[r].tenant = t /\ \E k \in DOMAIN routed[r] : routed[r][k].token = tokens[t]

(***************************************************************************)
(* One failure does not cost the others: a thread that ends without an Err  *)
(* has routed every message that is not the bot's own and tried to send     *)
(* every reply, whichever flows, tools and sends failed.                    *)
(***************************************************************************)
EverythingTried ==
    \A r \in Reqs : pc[r] = "done" /\ routed[r] # <<>> /\ ~failed[r] =>
      /\ Len(routed[r]) = Cardinality({k \in DOMAIN post[r].envelopes : post[r].envelopes[k].from # "bot"})
      /\ replies[r] = <<>>
=============================================================================
