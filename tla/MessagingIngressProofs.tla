----------------------- MODULE MessagingIngressProofs -----------------------
(***************************************************************************)
(* Proofs about the messaging side of the HTTP ingress, for any number of   *)
(* POSTs and of messages in them, any tenants, chats, texts and app packs.  *)
(***************************************************************************)
EXTENDS MessagingIngress, SequenceLemmas

(* The types of TypeOK with the domains and the variables it leaves out. *)
TypeInv ==
    /\ cast \in Casts
    /\ pc \in [Reqs -> PCs]
    /\ post \in [Reqs -> Post \cup {NoPost}]
    /\ todo \in [Reqs -> Seq(Envelope)] /\ ready \in [Reqs -> Seq(Envelope)]
    /\ routed \in [Reqs -> Seq(Envelope)]
    /\ replies \in [Reqs -> Seq(Reply)]
    /\ forms \in [Chats -> Pending \cup {NoPending}]
    /\ tokens \in [Tenants -> Texts \cup {None}]
    /\ sent \in [Reqs -> Seq({"ok", "failed", "dropped"})]
    /\ stored \in Seq(Chats \X FormIds) /\ taken \in Seq(FormIds \X Reqs)
    /\ DOMAIN failed = Reqs

(***************************************************************************)
(* What a thread has in hand tells where it is: it prepares all of its      *)
(* messages before it routes the first, and has a message to route, or a    *)
(* reply and the message it answers, whenever it is to do so.               *)
(***************************************************************************)
WhereInv ==
    \A r \in Reqs :
      /\ pc[r] \in {"idle", "prepare"} => routed[r] = <<>>
      /\ pc[r] = "prepare" => todo[r] # <<>>
      /\ pc[r] \in {"route", "reply", "send"} => todo[r] = <<>>
      /\ pc[r] = "route" => ready[r] # <<>>
      /\ pc[r] \in {"reply", "send"} => replies[r] # <<>> /\ routed[r] # <<>>
      /\ pc[r] \in {"prepare", "route", "reply", "send"} => post[r] \in Post
      /\ routed[r] # <<>> => post[r] \in Post
      /\ pc[r] = "idle" => ready[r] = <<>>

Base == TypeInv /\ WhereInv

(* A form in the store, an entry of it and a POST differ from there being none. *)
LEMMA Distinct ==
    /\ NoForm \notin Forms /\ NoPending \notin Pending
    /\ \A f \in Pending : f.form \in Forms /\ f.id \in FormIds
    /\ \A p \in Post : p.tenant \in Tenants /\ p.envelopes \in Seq(Envelope)
<1>1. NoForm \notin Forms
  BY DEF NoForm, Forms, TokenForm, PackForm, None
<1> QED
  BY <1>1 DEF NoPending, Pending, Post

(* The fields of an envelope that are looked at. *)
LEMMA EnvelopeFields ==
    ASSUME NEW e \in Envelope
    PROVE  /\ e.chat \in Chats \cup {None} /\ e.to \in Chats \cup {None}
           /\ e.text \in Texts \cup {None} /\ e.token \in Texts \cup {None}
BY DEF Envelope

(* A message that a form was filled in from is still a message. *)
LEMMA FilledType ==
    ASSUME NEW e \in Envelope, NEW f \in Forms
    PROVE  Filled(e, f) \in Envelope
<1> DEFINE tok == IF f.input = "github_token" /\ e.text # None THEN e.text ELSE e.token
           act == IF f.submit # None THEN f.submit ELSE e.action
<1>1. tok \in Texts \cup {None}
  BY EnvelopeFields
<1>2. f.submit \in {"save_token", "mcp"}
  BY DEF Forms, TokenForm, PackForm
<1>3. act \in {None, "mcp", "save_token"}
  BY <1>2 DEF Envelope
<1>4. Filled(e, f) = [e EXCEPT !.token = tok, !.action = act]
  BY DEF Filled
<1> HIDE DEF tok, act
<1>5. [e EXCEPT !.token = tok] \in Envelope
  BY <1>1 DEF Envelope
<1>6. [[e EXCEPT !.token = tok] EXCEPT !.action = act] \in Envelope
  BY <1>3, <1>5 DEF Envelope
<1> QED
  BY <1>4, <1>6

(* Dropping the bot's own messages leaves messages, and counts them. *)
LEMMA UserMessagesType ==
    ASSUME NEW p \in Post
    PROVE  /\ UserMessages(p) \in Seq(Envelope)
           /\ Len(UserMessages(p)) = Cardinality({k \in DOMAIN p.envelopes : p.envelopes[k].from # "bot"})
<1> DEFINE es == p.envelopes
           n == Len(es)
           kept == [k \in 1..n |-> IF FromUser(es[k]) THEN <<es[k]>> ELSE <<>>]
<1>1. es \in Seq(Envelope) /\ n \in Nat /\ DOMAIN es = 1..n
  BY Distinct
<1>2. UserMessages(p) = FlattenSeq(kept)
  BY <1>1 DEF UserMessages
<1>3. ASSUME NEW k \in 1..n
      PROVE  kept[k] \in Seq(Envelope) /\ Len(kept[k]) <= 1 /\ (kept[k] # <<>> <=> es[k].from # "bot")
  <2>1. es[k] \in Envelope
    BY <1>1
  <2> QED
    BY <2>1 DEF FromUser
<1>4. kept \in [1..n -> Seq(Envelope)] /\ \A k \in 1..n : Len(kept[k]) <= 1
  BY <1>3
<1>5. {k \in 1..n : kept[k] # <<>>} = {k \in DOMAIN es : es[k].from # "bot"}
  BY <1>1, <1>3
<1> HIDE DEF kept, n
<1>6. FlattenSeq(kept) \in Seq(Envelope)
  BY <1>1, <1>4, FlattenSeqType
<1>7. Len(FlattenSeq(kept)) = Cardinality({k \in 1..n : kept[k] # <<>>})
  BY <1>1, <1>4, FilterLength
<1> QED
  BY <1>2, <1>5, <1>6, <1>7

(* Whatever a message is routed to answers with cards and texts. *)
LEMMA OutputsType ==
    ASSUME NEW t \in Tenants, NEW e
    PROVE  Outputs(t, e) \subseteq Seq(Reply)
<1>1. Text \in Reply /\ Card(NoForm) \in Reply /\ Card(TokenForm) \in Reply /\ PackCards \subseteq Reply
  BY DEF Text, Card, Reply, PackCards, Forms
<1>0. \A c \in Reply : <<c>> \in Seq(Reply) /\ <<c, c>> \in Seq(Reply)
  OBVIOUS
<1>2. {<<c>> : c \in PackCards} \subseteq Seq(Reply) /\ {<<Text>>} \subseteq Seq(Reply)
  BY <1>0, <1>1, Zenon
<1>3. FlowReplies \subseteq Seq(Reply)
  <2>1. <<>> \in Seq(Reply) /\ <<Text>> \in Seq(Reply) /\ <<Text, Text>> \in Seq(Reply)
    BY <1>0, <1>1
  <2> QED
    BY <1>2, <2>1, Zenon DEF FlowReplies
<1>4. FlowOrEcho(t) \subseteq Seq(Reply)
  BY <1>2, <1>3 DEF FlowOrEcho
<1>5. \A o : o \subseteq Seq(Reply) => WelcomeOr(t, o) \subseteq Seq(Reply)
  BY <1>2 DEF WelcomeOr
<1>9. {<<Card(NoForm)>>} \subseteq Seq(Reply) /\ {<<Card(TokenForm)>>} \subseteq Seq(Reply)
  BY <1>0, <1>1, Zenon
<1>6. Mcp(t) \subseteq Seq(Reply)
  BY <1>9, Zenon DEF Mcp
<1>7. Connected(t) \subseteq Seq(Reply)
  <2>1. WelcomeOr(t, {<<Text>>}) \subseteq Seq(Reply)
    BY <1>2, <1>5
  <2> QED
    BY <1>9, <2>1 DEF Connected
<1>8. PackCard(t) \subseteq Seq(Reply)
  BY <1>2, <1>4 DEF PackCard
<1> QED
  BY <1>2, <1>4, <1>5, <1>6, <1>7, <1>8, <1>9 DEF Outputs

LEMMA BaseInit == Init => Base
<1> SUFFICES ASSUME Init PROVE Base
  OBVIOUS
<1>1. \A S : <<>> \in Seq(S)
  OBVIOUS
<1>2. TypeInv
  BY <1>1 DEF Init, TypeInv, PCs
<1>3. WhereInv
  BY DEF Init, WhereInv
<1> QED
  BY <1>2, <1>3 DEF Base

LEMMA ReceiveBase ==
    ASSUME Base, cast' = cast, NEW r \in Reqs, Receive(r)
    PROVE  Base'
<1>0. TypeInv /\ WhereInv
  BY DEF Base
<1>1. PICK p \in cast.posts[r] :
         /\ post' = [post EXCEPT ![r] = p]
         /\ \/ Goto(r, "done") /\ UNCHANGED todo
            \/ /\ Goto(r, IF UserMessages(p) = <<>> THEN "done" ELSE "prepare")
               /\ todo' = [todo EXCEPT ![r] = UserMessages(p)]
  BY DEF Receive
<1>2. p \in Post
  BY <1>0, <1>1, IngressAssumption DEF TypeInv
<1>3. UserMessages(p) \in Seq(Envelope)
  BY <1>2, UserMessagesType
<1>4. UNCHANGED <<ready, replies, forms, tokens, sent, stored, taken, shown, routed, failed>> /\ pc[r] = "idle"
  BY DEF Receive
<1>5. TypeInv'
  <2>1. pc' \in [Reqs -> PCs]
    BY <1>0, <1>1 DEF TypeInv, Goto, PCs
  <2>2. todo' \in [Reqs -> Seq(Envelope)]
    BY <1>0, <1>1, <1>3 DEF TypeInv
  <2>3. post' \in [Reqs -> Post \cup {NoPost}]
    BY <1>0, <1>1, <1>2 DEF TypeInv
  <2> QED
    BY <1>0, <1>4, <2>1, <2>2, <2>3 DEF TypeInv
<1>6. WhereInv'
  <2>1. \A q \in Reqs : q # r => pc'[q] = pc[q] /\ todo'[q] = todo[q] /\ post'[q] = post[q]
    BY <1>0, <1>1 DEF TypeInv, Goto
  <2>2. /\ post'[r] = p /\ pc'[r] \in {"done", "prepare"}
        /\ pc'[r] = "prepare" => todo'[r] # <<>>
    BY <1>0, <1>1 DEF TypeInv, Goto
  <2>3. ready' = ready /\ replies' = replies /\ routed' = routed
    BY <1>4
  <2>4. routed[r] = <<>>
    BY <1>0, <1>4 DEF WhereInv
  <2> QED
    BY <1>0, <1>2, <2>1, <2>2, <2>3, <2>4 DEF WhereInv
<1> QED
  BY <1>5, <1>6 DEF Base

LEMMA PrepareBase ==
    ASSUME Base, cast' = cast, NEW r \in Reqs, Prepare(r)
    PROVE  Base'
<1>0. TypeInv /\ WhereInv
  BY DEF Base
<1> DEFINE e == Head(todo[r])
<1>1. pc[r] = "prepare" /\ todo[r] \in Seq(Envelope) /\ ready[r] \in Seq(Envelope) /\ todo[r] # <<>>
  BY <1>0 DEF Prepare, TypeInv, WhereInv
<1>2. e \in Envelope /\ Tail(todo[r]) \in Seq(Envelope) /\ (Tail(todo[r]) = <<>> <=> Len(todo[r]) = 1)
  <2>1. e \in Envelope /\ Tail(todo[r]) \in Seq(Envelope) /\ Len(Tail(todo[r])) = Len(todo[r]) - 1
        /\ Len(todo[r]) \in Nat
    BY <1>1, SeqFacts
  <2>2. Tail(todo[r]) = <<>> <=> Len(Tail(todo[r])) = 0
    BY <2>1, SeqFacts
  <2> QED
    BY <2>1, <2>2
<1>3. /\ todo' = [todo EXCEPT ![r] = Tail(@)]
      /\ Goto(r, IF Len(todo[r]) = 1 THEN "route" ELSE "prepare")
      /\ UNCHANGED <<post, replies, tokens, sent, stored, shown, routed, failed>>
  BY DEF Prepare
<1>4. \E x \in Envelope : ready' = [ready EXCEPT ![r] = Append(ready[r], x)]
  <2>1. CASE TakesForm(e)
    <3>1. e.chat \in Chats /\ forms[e.chat] \in Pending
      BY <1>0, <1>2, <2>1, EnvelopeFields DEF TakesForm, TypeInv
    <3>2. Filled(e, forms[e.chat].form) \in Envelope
      BY <1>2, <3>1, Distinct, FilledType
    <3> QED
      BY <2>1, <3>2 DEF Prepare
  <2>2. CASE ~TakesForm(e)
    BY <1>2, <2>2 DEF Prepare
  <2> QED
    BY <2>1, <2>2
<1>5. forms' \in [Chats -> Pending \cup {NoPending}] /\ taken' \in Seq(FormIds \X Reqs)
  <2>1. CASE TakesForm(e)
    <3>1. e.chat \in Chats /\ forms[e.chat].id \in FormIds
      BY <1>0, <1>2, <2>1, EnvelopeFields, Distinct DEF TakesForm, TypeInv
    <3>2. <<forms[e.chat].id, r>> \in FormIds \X Reqs
      BY <3>1
    <3>3. taken' = Append(taken, <<forms[e.chat].id, r>>) /\ forms' = [forms EXCEPT ![e.chat] = NoPending]
      BY <2>1 DEF Prepare, AfterTake
    <3>4. taken' \in Seq(FormIds \X Reqs)
      BY <1>0, <3>2, <3>3, SeqFacts DEF TypeInv
    <3> QED
      BY <1>0, <3>3, <3>4 DEF TypeInv
  <2>2. CASE ~TakesForm(e)
    BY <1>0, <2>2 DEF Prepare, TypeInv
  <2> QED
    BY <2>1, <2>2
<1>6. PICK x \in Envelope : ready' = [ready EXCEPT ![r] = Append(ready[r], x)]
  BY <1>4
<1>7. Append(ready[r], x) \in Seq(Envelope) /\ Append(ready[r], x) # <<>>
  BY <1>1, SeqFacts
<1> HIDE DEF e
<1>8. TypeInv'
  BY <1>0, <1>2, <1>3, <1>5, <1>6, <1>7 DEF TypeInv, Goto, PCs
<1>9. WhereInv'
  BY <1>0, <1>1, <1>2, <1>3, <1>6, <1>7 DEF TypeInv, WhereInv, Goto
<1> QED
  BY <1>8, <1>9 DEF Base

LEMMA RouteBase ==
    ASSUME Base, cast' = cast, NEW r \in Reqs, Route(r)
    PROVE  Base'
<1>0. TypeInv /\ WhereInv
  BY DEF Base
<1> DEFINE e == Head(ready[r])
           t == post[r].tenant
<1>1. pc[r] = "route" /\ ready[r] \in Seq(Envelope) /\ ready[r] # <<>> /\ post[r] \in Post /\ t \in Tenants
      /\ routed[r] \in Seq(Envelope)
  BY <1>0, Distinct DEF Route, TypeInv, WhereInv
<1>2. e \in Envelope /\ Tail(ready[r]) \in Seq(Envelope)
  BY <1>1, SeqFacts
<1>3. /\ ready' = [ready EXCEPT ![r] = Tail(@)]
      /\ routed' = [routed EXCEPT ![r] = Append(@, e)]
      /\ UNCHANGED <<post, todo, forms, sent, stored, taken, shown, failed>>
  BY DEF Route
<1>4. Append(routed[r], e) \in Seq(Envelope) /\ Append(routed[r], e) # <<>>
  BY <1>1, <1>2, SeqFacts
<1>5. PICK out \in Outputs(t, e) :
         /\ replies' = [replies EXCEPT ![r] = out]
         /\ Goto(r, NextStep(Tail(ready[r]), out))
  BY DEF Route
<1>6. out \in Seq(Reply)
  BY <1>1, OutputsType
<1>7. tokens' \in [Tenants -> Texts \cup {None}]
  <2>1. e.token \in Texts \cup {None}
    BY <1>2, EnvelopeFields
  <2>2. [u \in Tenants |-> IF u \in TokenFiles(t) THEN e.token ELSE tokens[u]] \in [Tenants -> Texts \cup {None}]
    BY <1>0, <2>1 DEF TypeInv
  <2> QED
    BY <1>0, <2>2 DEF Route, TypeInv
<1> HIDE DEF e, t
<1>8. TypeInv'
  BY <1>0, <1>2, <1>3, <1>4, <1>5, <1>6, <1>7 DEF TypeInv, Goto, NextStep, PCs
<1>9. WhereInv'
  BY <1>0, <1>1, <1>3, <1>4, <1>5, <1>6 DEF TypeInv, WhereInv, Goto, NextStep
<1> QED
  BY <1>8, <1>9 DEF Base

(* The chat a form is kept for, and the message it answers. *)
LEMMA FormChatType ==
    ASSUME TypeInv, NEW r \in Reqs, routed[r] # <<>>
    PROVE  Current(r) \in Envelope /\ FormChat(r) \in Chats \cup {None} /\ FormId(r) \in FormIds
<1>1. routed[r] \in Seq(Envelope) /\ Len(sent[r]) \in Nat
  BY DEF TypeInv
<1>2. Current(r) \in Envelope
  <2>1. Len(routed[r]) \in 1..Len(routed[r])
    BY <1>1, SeqFacts
  <2> QED
    BY <1>1, <2>1 DEF Current
<1> QED
  BY <1>1, <1>2, EnvelopeFields DEF FormChat, FormId, FormIds

LEMMA StoreFormBase ==
    ASSUME Base, cast' = cast, NEW r \in Reqs, StoreForm(r)
    PROVE  Base'
<1>0. TypeInv /\ WhereInv
  BY DEF Base
<1>1. pc[r] = "reply" /\ routed[r] # <<>> /\ replies[r] \in Seq(Reply) /\ replies[r] # <<>>
  BY <1>0 DEF StoreForm, TypeInv, WhereInv
<1>2. Head(replies[r]) \in Reply /\ Head(replies[r]).form # NoForm /\ FormChat(r) \in Chats
      /\ FormId(r) \in FormIds
  BY <1>0, <1>1, FormChatType, SeqFacts DEF StoreForm, KeepsForm
<1>3. [form |-> Head(replies[r]).form, id |-> FormId(r)] \in Pending
  BY <1>2 DEF Pending, Reply
<1>4. /\ forms' = [forms EXCEPT ![FormChat(r)] = [form |-> Head(replies[r]).form, id |-> FormId(r)]]
      /\ stored' = Append(stored, <<FormChat(r), FormId(r)>>)
      /\ Goto(r, "send")
      /\ UNCHANGED <<post, todo, ready, replies, tokens, sent, taken, shown, routed, failed>>
  BY DEF StoreForm, Remember
<1>5. stored' \in Seq(Chats \X FormIds)
  <2>1. <<FormChat(r), FormId(r)>> \in Chats \X FormIds
    BY <1>2
  <2> QED
    BY <1>0, <1>4, <2>1, SeqFacts DEF TypeInv
<1>6. forms' \in [Chats -> Pending \cup {NoPending}]
  BY <1>0, <1>3, <1>4 DEF TypeInv
<1>7. TypeInv'
  BY <1>0, <1>4, <1>5, <1>6 DEF TypeInv, Goto, PCs
<1>8. WhereInv'
  BY <1>0, <1>1, <1>4 DEF TypeInv, WhereInv, Goto
<1> QED
  BY <1>7, <1>8 DEF Base

(* A reply that is dropped or sent, and what comes after it. *)
LEMMA ReplyBase ==
    ASSUME Base, NEW r \in Reqs, MaySend(r), NEW result \in {"ok", "failed", "dropped"},
           sent' = [sent EXCEPT ![r] = Append(@, result)],
           replies' = [replies EXCEPT ![r] = Tail(@)],
           Goto(r, NextStep(ready[r], Tail(replies[r]))),
           UNCHANGED <<cast, post, todo, ready, forms, tokens, stored, taken, routed, failed>>
    PROVE  Base'
<1>0. TypeInv /\ WhereInv
  BY DEF Base
<1>1. pc[r] \in {"reply", "send"} /\ replies[r] \in Seq(Reply) /\ replies[r] # <<>> /\ routed[r] # <<>>
  BY <1>0 DEF MaySend, TypeInv, WhereInv
<1>2. Tail(replies[r]) \in Seq(Reply) /\ Append(sent[r], result) \in Seq({"ok", "failed", "dropped"})
  <2>1. sent[r] \in Seq({"ok", "failed", "dropped"})
    BY <1>0 DEF TypeInv
  <2> QED
    BY <1>1, <2>1, SeqFacts
<1>3. TypeInv'
  BY <1>0, <1>2 DEF TypeInv, Goto, NextStep, PCs
<1>4. WhereInv'
  BY <1>0, <1>1, <1>2 DEF TypeInv, WhereInv, Goto, NextStep
<1> QED
  BY <1>3, <1>4 DEF Base

(* Every step keeps the types and the places. *)
LEMMA BaseStep ==
    ASSUME Base, [Next]_vars
    PROVE  Base'
<1>0. TypeInv /\ WhereInv
  BY DEF Base
<1>1. ASSUME NEW r \in Reqs, DropWebchatCard(r), cast' = cast
      PROVE  Base'
  BY <1>1, ReplyBase DEF DropWebchatCard
<1>2. ASSUME NEW r \in Reqs, Send(r), cast' = cast
      PROVE  Base'
  <2>1. ASSUME NEW ok \in BOOLEAN, Goto(r, AfterSend(r, ok)),
               sent' = [sent EXCEPT ![r] = Append(@, IF ok THEN "ok" ELSE "failed")],
               replies' = [replies EXCEPT ![r] = Tail(@)], UNCHANGED failed
        PROVE  Base'
    <3> DEFINE result == IF ok THEN "ok" ELSE "failed"
    <3>1. result \in {"ok", "failed", "dropped"}
      OBVIOUS
    <3>2. sent' = [sent EXCEPT ![r] = Append(@, result)]
      BY <2>1
    <3> HIDE DEF result
    <3> QED
      BY <1>2, <2>1, <3>1, <3>2, ReplyBase DEF Send, AfterSend
  <2>2. CASE /\ failed' = [failed EXCEPT ![r] = TRUE]
             /\ Goto(r, "done")
             /\ UNCHANGED <<sent, replies, shown>>
    <3>1. UNCHANGED <<post, todo, ready, forms, tokens, stored, taken, routed>>
      BY <1>2 DEF Send
    <3>2. TypeInv'
      BY <1>0, <1>2, <2>2, <3>1 DEF TypeInv, Goto, PCs
    <3>3. WhereInv'
      BY <1>0, <2>2, <3>1 DEF TypeInv, WhereInv, Goto
    <3> QED
      BY <3>2, <3>3 DEF Base
  <2> QED
    BY <1>2, <2>1, <2>2 DEF Send
<1>3. CASE UNCHANGED vars
  BY <1>0, <1>3 DEF vars, Base, TypeInv, WhereInv
<1> QED
  BY <1>1, <1>2, <1>3, ReceiveBase, PrepareBase, RouteBase, StoreFormBase DEF Next, Work

(* Every variable keeps its type, whatever the threads do at the same time. *)
THEOREM TypeCorrect == Spec => []TypeOK
<1>1. Base => TypeOK
  BY DEF Base, TypeInv, TypeOK
<1> QED
  BY BaseInit, BaseStep, <1>1, PTL DEF Spec

-----------------------------------------------------------------------------
(* A form is answered once. *)

(***************************************************************************)
(* The id of a form has been given out: its card is among the replies that  *)
(* were sent (s), or is the next one, of a thread that has stored it (l).   *)
(***************************************************************************)
Used(id, s, l) ==
    \/ id[2] <= Len(s[id[1]])
    \/ id[2] = Len(s[id[1]]) + 1 /\ l[id[1]] \in {"send", "done"}

(* Every form is in one place only: pending in one chat, or taken once. *)
FormsInv ==
    /\ \A c \in Chats : forms[c] # NoPending => Used(forms[c].id, sent, pc)
    /\ \A k \in DOMAIN taken : Used(taken[k][1], sent, pc)
    /\ \A c, d \in Chats : forms[c] # NoPending /\ forms[d] # NoPending /\ forms[c].id = forms[d].id => c = d
    /\ \A c \in Chats, k \in DOMAIN taken : forms[c] # NoPending => taken[k][1] # forms[c].id
    /\ \A j, k \in DOMAIN taken : taken[j][1] = taken[k][1] => j = k

(* An id that has been given out is never free again. *)
LEMMA UsedStays ==
    ASSUME Base, [Next]_vars, NEW id \in FormIds, Used(id, sent, pc)
    PROVE  Used(id, sent', pc')
<1>0. TypeInv /\ WhereInv
  BY DEF Base
<1>a. id[1] \in Reqs /\ id[2] \in Nat /\ \A q \in Reqs : sent[q] \in Seq({"ok", "failed", "dropped"}) /\ Len(sent[q]) \in Nat
  BY <1>0 DEF FormIds, TypeInv
<1>1. ASSUME NEW r \in Reqs, NEW l, pc[r] \notin {"send", "done"}, Goto(r, l), sent' = sent
      PROVE  Used(id, sent', pc')
  BY <1>0, <1>1, <1>a DEF Used, Goto, TypeInv
<1>2. ASSUME NEW r \in Reqs, NEW result \in {"ok", "failed", "dropped"}, NEW l,
             sent' = [sent EXCEPT ![r] = Append(@, result)], Goto(r, l)
      PROVE  Used(id, sent', pc')
  <2>1. Len(sent'[r]) = Len(sent[r]) + 1
    BY <1>0, <1>2, <1>a, SeqFacts DEF TypeInv
  <2>2. \A q \in Reqs : q # r => sent'[q] = sent[q] /\ pc'[q] = pc[q]
    BY <1>0, <1>2 DEF TypeInv, Goto
  <2> DEFINE m == Len(sent[id[1]])
             n == Len(sent'[id[1]])
  <2>3. m \in Nat /\ id[1] \in Reqs /\ id[2] \in Nat
    BY <1>a
  <2>4. CASE id[1] = r
    <3>1. n = m + 1 /\ (id[2] <= m \/ id[2] = m + 1)
      BY <2>1, <2>4 DEF Used
    <3>2. id[2] <= n
      BY <2>3, <3>1
    <3> QED
      BY <3>2 DEF Used
  <2>5. CASE id[1] # r
    BY <2>2, <2>3, <2>5 DEF Used
  <2> QED
    BY <2>4, <2>5
<1>3. ASSUME NEW r \in Reqs, Receive(r)
      PROVE  Used(id, sent', pc')
  <2>1. (\E l : Goto(r, l)) /\ pc[r] = "idle" /\ sent' = sent
    BY <1>3 DEF Receive
  <2> QED
    BY <1>1, <2>1
<1>4. ASSUME NEW r \in Reqs, Prepare(r) \/ Route(r) \/ StoreForm(r)
      PROVE  Used(id, sent', pc')
  <2>1. (\E l : Goto(r, l)) /\ pc[r] \in {"prepare", "route", "reply"} /\ sent' = sent
    BY <1>4 DEF Prepare, Route, StoreForm
  <2> QED
    BY <1>1, <2>1
<1>5. ASSUME NEW r \in Reqs, DropWebchatCard(r)
      PROVE  Used(id, sent', pc')
  BY <1>2, <1>5 DEF DropWebchatCard
<1>6. ASSUME NEW r \in Reqs, Send(r)
      PROVE  Used(id, sent', pc')
  <2>1. CASE \E ok \in BOOLEAN :
               /\ Goto(r, AfterSend(r, ok))
               /\ sent' = [sent EXCEPT ![r] = Append(@, IF ok THEN "ok" ELSE "failed")]
    BY <1>2, <2>1
  <2>2. CASE Goto(r, "done") /\ sent' = sent
    BY <1>0, <1>a, <2>2 DEF Used, Goto, TypeInv
  <2> QED
    BY <1>6, <2>1, <2>2 DEF Send
<1>7. CASE UNCHANGED vars
  BY <1>7 DEF vars
<1> QED
  BY <1>3, <1>4, <1>5, <1>6, <1>7 DEF Next, Work

(* Only the take of Prepare and StoreForm change the forms. *)
LEMMA FormsChange ==
    ASSUME [Next]_vars
    PROVE  \/ UNCHANGED <<forms, taken, stored>>
           \/ \E r \in Reqs : Prepare(r) /\ TakesForm(Head(todo[r]))
           \/ \E r \in Reqs : StoreForm(r)
BY DEF Next, Work, vars, Receive, Prepare, Route, DropWebchatCard, Send

(* What a take does: the form of the message's chat, and no other, is taken. *)
LEMMA TakeFacts ==
    ASSUME Base, NEW r \in Reqs, Prepare(r), TakesForm(Head(todo[r]))
    PROVE  \E c \in Chats : /\ forms[c] \in Pending /\ forms[c] # NoPending /\ forms[c].id \in FormIds
                            /\ forms' = [forms EXCEPT ![c] = NoPending]
                            /\ taken' = Append(taken, <<forms[c].id, r>>)
                            /\ stored' = stored
<1>0. TypeInv /\ WhereInv
  BY DEF Base
<1>1. Head(todo[r]) \in Envelope
  BY <1>0, SeqFacts DEF Prepare, TypeInv, WhereInv
<1>2. Head(todo[r]).chat \in Chats /\ forms[Head(todo[r]).chat] # NoPending
  BY <1>1, EnvelopeFields DEF TakesForm
<1>3. forms[Head(todo[r]).chat] \in Pending
  BY <1>0, <1>2 DEF TypeInv
<1> QED
  BY <1>2, <1>3, Distinct DEF Prepare, AfterTake

(* What storing does: the chat's form is one nobody has seen before. *)
LEMMA StoreFacts ==
    ASSUME Base, NEW r \in Reqs, StoreForm(r)
    PROVE  /\ FormChat(r) \in Chats /\ FormId(r) \in FormIds
           /\ \E f : forms' = [forms EXCEPT ![FormChat(r)] = [form |-> f, id |-> FormId(r)]]
           /\ stored' = Append(stored, <<FormChat(r), FormId(r)>>) /\ taken' = taken
           /\ ~Used(FormId(r), sent, pc) /\ Used(FormId(r), sent', pc')
<1>0. TypeInv /\ WhereInv
  BY DEF Base
<1>1. routed[r] # <<>> /\ pc[r] = "reply" /\ Len(sent[r]) \in Nat /\ sent' = sent /\ pc'[r] = "send"
  BY <1>0 DEF StoreForm, TypeInv, WhereInv, Goto
<1>2. FormChat(r) \in Chats /\ FormId(r) \in FormIds
  BY <1>0, <1>1, FormChatType DEF StoreForm, KeepsForm
<1>3. ~Used(FormId(r), sent, pc) /\ Used(FormId(r), sent', pc')
  BY <1>1 DEF FormId, Used
<1> QED
  BY <1>2, <1>3 DEF StoreForm, Remember

(* The ids that are pending or taken are ids of forms. *)
LEMMA IdTypes ==
    ASSUME TypeInv
    PROVE  /\ \A c \in Chats : forms[c] # NoPending => forms[c].id \in FormIds
           /\ \A k \in DOMAIN taken : taken[k][1] \in FormIds
           /\ Len(taken) \in Nat /\ DOMAIN taken = 1..Len(taken)
<1>1. \A c \in Chats : forms[c] # NoPending => forms[c] \in Pending
  BY DEF TypeInv
<1>2. \A k \in DOMAIN taken : taken[k] \in FormIds \X Reqs
  BY DEF TypeInv
<1> QED
  BY <1>1, <1>2, Distinct DEF TypeInv

LEMMA FormsStep ==
    ASSUME Base, FormsInv, [Next]_vars
    PROVE  FormsInv'
<1>0. TypeInv
  BY DEF Base
<1>1. CASE UNCHANGED <<forms, taken, stored>>
  BY <1>0, <1>1, UsedStays, IdTypes DEF FormsInv
<1>2. ASSUME NEW r \in Reqs, Prepare(r), TakesForm(Head(todo[r]))
      PROVE  FormsInv'
  <2>1. PICK c \in Chats : /\ forms[c] \in Pending /\ forms[c] # NoPending /\ forms[c].id \in FormIds
                           /\ forms' = [forms EXCEPT ![c] = NoPending]
                           /\ taken' = Append(taken, <<forms[c].id, r>>)
    BY <1>2, TakeFacts
  <2> DEFINE n == Len(taken)
  <2>2. n \in Nat /\ DOMAIN taken = 1..n
    BY <1>0, IdTypes
  <2>3. /\ DOMAIN taken' = 1..(n + 1) /\ taken'[n + 1][1] = forms[c].id
        /\ \A k \in 1..n : taken'[k] = taken[k]
    <3>1. <<forms[c].id, r>> \in FormIds \X Reqs /\ taken \in Seq(FormIds \X Reqs)
      BY <1>0, <2>1 DEF TypeInv
    <3> QED
      BY <2>1, <2>2, <3>1
  <2>4. \A d \in Chats : forms'[d] # NoPending => d # c /\ forms'[d] = forms[d]
    BY <1>0, <2>1 DEF TypeInv
  <2> HIDE DEF n
  <2>5. \A d \in Chats : forms'[d] # NoPending => Used(forms'[d].id, sent', pc')
    BY <1>0, <2>4, UsedStays, IdTypes DEF FormsInv
  <2>6. \A k \in 1..(n + 1) : Used(taken'[k][1], sent', pc')
    BY <1>0, <2>1, <2>2, <2>3, UsedStays, IdTypes DEF FormsInv
  <2>7. \A d, x \in Chats : forms'[d] # NoPending /\ forms'[x] # NoPending /\ forms'[d].id = forms'[x].id => d = x
    BY <2>4 DEF FormsInv
  <2>8. \A d \in Chats, k \in 1..(n + 1) : forms'[d] # NoPending => taken'[k][1] # forms'[d].id
    BY <2>1, <2>2, <2>3, <2>4 DEF FormsInv
  <2>9. \A j, k \in 1..(n + 1) : taken'[j][1] = taken'[k][1] => j = k
    BY <2>1, <2>2, <2>3 DEF FormsInv
  <2> QED
    BY <2>3, <2>5, <2>6, <2>7, <2>8, <2>9 DEF FormsInv
<1>3. ASSUME NEW r \in Reqs, StoreForm(r)
      PROVE  FormsInv'
  <2> DEFINE c == FormChat(r)
             i == FormId(r)
  <2>1. PICK f : forms' = [forms EXCEPT ![c] = [form |-> f, id |-> i]]
    BY <1>3, StoreFacts
  <2>2. c \in Chats /\ i \in FormIds /\ taken' = taken /\ ~Used(i, sent, pc) /\ Used(i, sent', pc')
    BY <1>3, StoreFacts
  <2> HIDE DEF c, i
  <2>3. forms'[c].id = i /\ \A d \in Chats : d # c => forms'[d] = forms[d]
    BY <1>0, <2>1, <2>2 DEF TypeInv
  <2>4. \A d \in Chats : d # c /\ forms'[d] # NoPending => forms'[d].id # i
    BY <2>2, <2>3 DEF FormsInv
  <2>5. \A k \in DOMAIN taken : taken[k][1] # i
    BY <2>2 DEF FormsInv
  <2>6. \A d \in Chats : forms'[d] # NoPending => Used(forms'[d].id, sent', pc')
    BY <1>0, <2>2, <2>3, UsedStays, IdTypes DEF FormsInv
  <2>7. \A k \in DOMAIN taken' : Used(taken'[k][1], sent', pc')
    BY <1>0, <2>2, UsedStays, IdTypes DEF FormsInv
  <2>8. \A d, x \in Chats : forms'[d] # NoPending /\ forms'[x] # NoPending /\ forms'[d].id = forms'[x].id => d = x
    BY <2>2, <2>3, <2>4 DEF FormsInv
  <2>9. \A d \in Chats, k \in DOMAIN taken' : forms'[d] # NoPending => taken'[k][1] # forms'[d].id
    BY <2>2, <2>3, <2>5 DEF FormsInv
  <2> QED
    BY <2>2, <2>6, <2>7, <2>8, <2>9 DEF FormsInv
<1> QED
  BY <1>1, <1>2, <1>3, FormsChange

(***************************************************************************)
(* A stored form is taken by at most one message (TelegramFormStore::take), *)
(* however many threads answer in the same chat at the same time.           *)
(***************************************************************************)
THEOREM FormsAnsweredOnce == Spec => []FormAnsweredOnce
<1>1. Init => FormsInv
  BY DEF Init, FormsInv
<1>2. FormsInv => FormAnsweredOnce
  BY DEF FormsInv, FormAnsweredOnce
<1> QED
  BY BaseInit, BaseStep, FormsStep, <1>1, <1>2, PTL DEF Spec

-----------------------------------------------------------------------------
(* A form that is shown can be answered. *)

(* The form of a chat is pending, was taken, or was replaced later: j is the *)
(* place in stored.                                                          *)
Answerable(j) ==
    \/ forms[stored[j][1]].id = stored[j][2]
    \/ \E k \in DOMAIN taken : taken[k][1] = stored[j][2]
    \/ \E k \in DOMAIN stored : j < k /\ stored[k][1] = stored[j][1]

(* This holds of every form that was ever stored, every form that is shown   *)
(* was stored, and a thread about to send a card has stored the card's form. *)
ShownInv ==
    /\ \A j \in DOMAIN stored : Answerable(j)
    /\ \A s \in shown : \E j \in DOMAIN stored : stored[j] = s
    /\ \A r \in Reqs : pc[r] = "send" => \E j \in DOMAIN stored : stored[j] = <<FormChat(r), FormId(r)>>

(* Forms that were stored stay answerable, in the same places of stored. *)
LEMMA AnswerableStep ==
    ASSUME Base, \A j \in DOMAIN stored : Answerable(j), [Next]_vars
    PROVE  /\ \A j \in DOMAIN stored' : Answerable(j)'
           /\ \A j \in DOMAIN stored : j \in DOMAIN stored' /\ stored'[j] = stored[j]
<1>0. TypeInv
  BY DEF Base
<1>a. Len(stored) \in Nat /\ DOMAIN stored = 1..Len(stored) /\ Len(taken) \in Nat /\ DOMAIN taken = 1..Len(taken)
      /\ \A j \in DOMAIN stored : stored[j] \in Chats \X FormIds
  BY <1>0 DEF TypeInv
<1>1. CASE UNCHANGED <<forms, taken, stored>>
  BY <1>1 DEF Answerable
<1>2. ASSUME NEW r \in Reqs, Prepare(r), TakesForm(Head(todo[r]))
      PROVE  stored' = stored /\ \A j \in DOMAIN stored' : Answerable(j)'
  <2>1. PICK c \in Chats : /\ forms[c].id \in FormIds
                           /\ forms' = [forms EXCEPT ![c] = NoPending]
                           /\ taken' = Append(taken, <<forms[c].id, r>>)
                           /\ stored' = stored
    BY <1>2, TakeFacts
  <2> DEFINE n == Len(taken)
  <2>2. /\ DOMAIN taken' = 1..(n + 1) /\ taken'[n + 1][1] = forms[c].id
        /\ \A k \in 1..n : taken'[k] = taken[k]
    <3>1. <<forms[c].id, r>> \in FormIds \X Reqs /\ taken \in Seq(FormIds \X Reqs)
      BY <1>0, <2>1 DEF TypeInv
    <3> QED
      BY <1>a, <2>1, <3>1
  <2>3. \A d \in Chats : d # c => forms'[d] = forms[d]
    BY <1>0, <2>1 DEF TypeInv
  <2> HIDE DEF n
  <2>4. n \in Nat /\ DOMAIN taken = 1..n
    BY <1>a DEF n
  <2>5. ASSUME NEW j \in DOMAIN stored
        PROVE  Answerable(j)'
    <3>1. CASE stored[j][1] = c /\ forms[c].id = stored[j][2]
      BY <2>1, <2>2, <2>4, <3>1 DEF Answerable
    <3>2. CASE stored[j][1] # c /\ forms[stored[j][1]].id = stored[j][2]
      BY <1>a, <2>1, <2>3, <3>2 DEF Answerable
    <3>3. CASE \E k \in DOMAIN taken : taken[k][1] = stored[j][2]
      BY <2>1, <2>2, <2>4, <3>3 DEF Answerable
    <3>4. CASE \E k \in DOMAIN stored : j < k /\ stored[k][1] = stored[j][1]
      BY <2>1, <3>4 DEF Answerable
    <3> QED
      BY <3>1, <3>2, <3>3, <3>4 DEF Answerable
  <2> QED
    BY <2>1, <2>5
<1>3. ASSUME NEW r \in Reqs, StoreForm(r)
      PROVE  /\ \A j \in DOMAIN stored' : Answerable(j)'
             /\ \A j \in DOMAIN stored : j \in DOMAIN stored' /\ stored'[j] = stored[j]
  <2> DEFINE c == FormChat(r)
             i == FormId(r)
             n == Len(stored)
  <2>1. PICK f : forms' = [forms EXCEPT ![c] = [form |-> f, id |-> i]]
    BY <1>3, StoreFacts
  <2>2. c \in Chats /\ i \in FormIds /\ taken' = taken /\ stored' = Append(stored, <<c, i>>)
    BY <1>3, StoreFacts
  <2> HIDE DEF c, i
  <2>3. DOMAIN stored' = 1..(n + 1) /\ stored'[n + 1] = <<c, i>> /\ \A k \in 1..n : stored'[k] = stored[k]
    <3>1. <<c, i>> \in Chats \X FormIds /\ stored \in Seq(Chats \X FormIds)
      BY <1>0, <2>2 DEF TypeInv
    <3> QED
      BY <1>a, <2>2, <3>1
  <2>4. forms'[c].id = i /\ \A d \in Chats : d # c => forms'[d] = forms[d]
    BY <1>0, <2>1, <2>2 DEF TypeInv
  <2>a. n \in Nat /\ DOMAIN stored = 1..n
    BY <1>a
  <2> HIDE DEF n
  <2>5. ASSUME NEW j, j = n + 1
        PROVE  Answerable(j)'
    BY <2>3, <2>4, <2>5 DEF Answerable
  <2>6. ASSUME NEW j \in 1..n
        PROVE  Answerable(j)'
    <3>0. stored'[j] = stored[j] /\ Answerable(j) /\ stored[j] \in Chats \X FormIds
      BY <1>a, <2>3, <2>a
    <3>1. CASE stored[j][1] = c
      <4>1. n + 1 \in DOMAIN stored' /\ j < n + 1 /\ stored'[n + 1][1] = stored'[j][1]
        BY <2>3, <2>a, <3>0, <3>1
      <4> QED
        BY <4>1 DEF Answerable
    <3>2. CASE stored[j][1] # c /\ forms[stored[j][1]].id = stored[j][2]
      BY <2>4, <3>0, <3>2 DEF Answerable
    <3>3. CASE \E k \in DOMAIN taken : taken[k][1] = stored[j][2]
      BY <2>2, <3>0, <3>3 DEF Answerable
    <3>4. CASE \E k \in DOMAIN stored : j < k /\ stored[k][1] = stored[j][1]
      BY <2>3, <2>a, <3>0, <3>4 DEF Answerable
    <3> QED
      BY <3>0, <3>1, <3>2, <3>3, <3>4 DEF Answerable
  <2> QED
    BY <2>3, <2>5, <2>6, <2>a
<1> QED
  BY <1>1, <1>2, <1>3, FormsChange

(* A form that is shown is shown by a thread that has stored it. *)
LEMMA ShownStep ==
    ASSUME Base, ShownInv, [Next]_vars
    PROVE  ShownInv'
<1>0. TypeInv /\ WhereInv
  BY DEF Base
<1>1. /\ \A j \in DOMAIN stored' : Answerable(j)'
      /\ \A j \in DOMAIN stored : j \in DOMAIN stored' /\ stored'[j] = stored[j]
  BY AnswerableStep DEF ShownInv
<1>2. \A s \in shown : \E j \in DOMAIN stored' : stored'[j] = s
  BY <1>1 DEF ShownInv
<1>3. ASSUME NEW r \in Reqs, NEW l, Goto(r, l), l # "send", UNCHANGED <<shown>>,
             \A q \in Reqs : q # r => sent'[q] = sent[q] /\ routed'[q] = routed[q]
      PROVE  ShownInv'
  <2>1. ASSUME NEW q \in Reqs, pc'[q] = "send"
        PROVE  \E j \in DOMAIN stored' : stored'[j] = <<FormChat(q), FormId(q)>>'
    <3>1. q # r /\ pc[q] = "send"
      BY <1>0, <1>3, <2>1 DEF Goto, TypeInv
    <3>2. FormChat(q)' = FormChat(q) /\ FormId(q)' = FormId(q)
      BY <1>3, <3>1 DEF FormChat, FormId, Current
    <3> QED
      BY <1>1, <3>1, <3>2 DEF ShownInv
  <2> QED
    BY <1>1, <1>2, <1>3, <2>1 DEF ShownInv
<1>4. ASSUME NEW r \in Reqs, Receive(r)
      PROVE  ShownInv'
  <2>1. \E l \in {"done", "prepare"} : Goto(r, l)
    BY <1>4 DEF Receive
  <2>2. UNCHANGED <<shown, sent, routed>>
    BY <1>4 DEF Receive
  <2> QED
    BY <1>3, <2>1, <2>2
<1>5. ASSUME NEW r \in Reqs, Prepare(r)
      PROVE  ShownInv'
  <2>1. \E l \in {"route", "prepare"} : Goto(r, l)
    BY <1>5 DEF Prepare
  <2>2. UNCHANGED <<shown, sent, routed>>
    BY <1>5 DEF Prepare
  <2> QED
    BY <1>3, <2>1, <2>2
<1>6. ASSUME NEW r \in Reqs, Route(r)
      PROVE  ShownInv'
  <2>1. \E l \in {"reply", "route", "done"} : Goto(r, l)
    BY <1>6 DEF Route, NextStep
  <2>2. UNCHANGED <<shown, sent>> /\ \A q \in Reqs : q # r => routed'[q] = routed[q]
    BY <1>0, <1>6 DEF Route, TypeInv
  <2> QED
    BY <1>3, <2>1, <2>2
<1>7. ASSUME NEW r \in Reqs, DropWebchatCard(r)
      PROVE  ShownInv'
  <2>1. \E l \in {"reply", "route", "done"} : Goto(r, l)
    BY <1>7 DEF DropWebchatCard, NextStep
  <2>2. UNCHANGED <<shown, routed>> /\ \A q \in Reqs : q # r => sent'[q] = sent[q]
    BY <1>0, <1>7 DEF DropWebchatCard, TypeInv
  <2> QED
    BY <1>3, <2>1, <2>2
<1>8. ASSUME NEW r \in Reqs, StoreForm(r)
      PROVE  ShownInv'
  <2> DEFINE n == Len(stored)
  <2>1. n + 1 \in DOMAIN stored' /\ stored'[n + 1] = <<FormChat(r), FormId(r)>>
    <3>1. <<FormChat(r), FormId(r)>> \in Chats \X FormIds /\ stored' = Append(stored, <<FormChat(r), FormId(r)>>)
      BY <1>8, StoreFacts
    <3>2. stored \in Seq(Chats \X FormIds)
      BY <1>0 DEF TypeInv
    <3> QED
      BY <3>1, <3>2
  <2>2. UNCHANGED <<shown, sent, routed>>
    BY <1>8 DEF StoreForm
  <2>3. ASSUME NEW q \in Reqs, pc'[q] = "send"
        PROVE  \E j \in DOMAIN stored' : stored'[j] = <<FormChat(q), FormId(q)>>'
    <3>1. FormChat(q)' = FormChat(q) /\ FormId(q)' = FormId(q)
      BY <2>2 DEF FormChat, FormId, Current
    <3>2. CASE q = r
      BY <2>1, <3>1, <3>2
    <3>3. CASE q # r
      <4>1. pc[q] = "send"
        BY <1>0, <1>8, <2>3, <3>3 DEF StoreForm, Goto, TypeInv
      <4> QED
        BY <1>1, <3>1, <4>1 DEF ShownInv
    <3> QED
      BY <3>2, <3>3
  <2> QED
    BY <1>1, <1>2, <2>2, <2>3 DEF ShownInv
<1>9. ASSUME NEW r \in Reqs, Send(r)
      PROVE  ShownInv'
  <2>1. \E l \in {"reply", "route", "done"} : Goto(r, l)
    BY <1>9 DEF Send, AfterSend, NextStep
  <2>2. UNCHANGED <<stored, routed>> /\ \A q \in Reqs : q # r => sent'[q] = sent[q]
    BY <1>0, <1>9 DEF Send, TypeInv
  <2>3. shown' \subseteq shown \cup {<<FormChat(r), FormId(r)>>} /\ (shown' # shown => KeepsForm(r))
    BY <1>9 DEF Send
  <2>4. shown' # shown => \E j \in DOMAIN stored : stored[j] = <<FormChat(r), FormId(r)>>
    BY <1>9, <2>3 DEF Send, MaySend, ShownInv
  <2>5. \A s \in shown' : \E j \in DOMAIN stored' : stored'[j] = s
    BY <1>2, <2>2, <2>3, <2>4
  <2>6. ASSUME NEW q \in Reqs, pc'[q] = "send"
        PROVE  \E j \in DOMAIN stored' : stored'[j] = <<FormChat(q), FormId(q)>>'
    <3>1. q # r /\ pc[q] = "send"
      BY <1>0, <2>1, <2>6 DEF Goto, TypeInv
    <3>2. FormChat(q)' = FormChat(q) /\ FormId(q)' = FormId(q)
      BY <2>2, <3>1 DEF FormChat, FormId, Current
    <3> QED
      BY <1>1, <3>1, <3>2 DEF ShownInv
  <2> QED
    BY <1>1, <2>5, <2>6 DEF ShownInv
<1>10. CASE UNCHANGED vars
  <2>1. \A q \in Reqs : FormChat(q)' = FormChat(q) /\ FormId(q)' = FormId(q)
    BY <1>10 DEF vars, FormChat, FormId, Current
  <2> QED
    BY <1>1, <1>2, <1>10, <2>1 DEF vars, ShownInv
<1> QED
  BY <1>4, <1>5, <1>6, <1>7, <1>8, <1>9, <1>10 DEF Next, Work

(***************************************************************************)
(* A form whose card was sent is pending in its chat, was answered, or was  *)
(* replaced by a later form of the chat: the store before the send is early *)
(* enough, whatever other threads store and take in between.                *)
(***************************************************************************)
THEOREM ShownFormsStayAnswerable == Spec => []ShownFormsCanBeAnswered
<1>1. Init => ShownInv
  BY DEF Init, ShownInv
<1>2. ShownInv => ShownFormsCanBeAnswered
  BY DEF ShownInv, Answerable, ShownFormsCanBeAnswered
<1> QED
  BY BaseInit, BaseStep, ShownStep, <1>1, <1>2, PTL DEF Spec

-----------------------------------------------------------------------------
(* A token is kept for the tenant it was given to. *)

(* A thread's POST stays the one it was once a message of it was routed, and *)
(* messages that were routed stay so.                                        *)
LEMMA RoutedStays ==
    ASSUME Base, [Next]_vars, NEW r \in Reqs, NEW k \in DOMAIN routed[r]
    PROVE  post'[r] = post[r] /\ k \in DOMAIN routed'[r] /\ routed'[r][k] = routed[r][k]
<1>0. TypeInv /\ WhereInv
  BY DEF Base
<1>a. routed[r] \in Seq(Envelope) /\ DOMAIN routed[r] = 1..Len(routed[r]) /\ Len(routed[r]) \in Nat
  BY <1>0 DEF TypeInv
<1>1. ASSUME NEW q \in Reqs, Receive(q)
      PROVE  UNCHANGED routed /\ post'[r] = post[r]
  <2>1. routed[r] # <<>>
    BY <1>a
  <2>2. q # r
    BY <1>0, <1>1, <2>1 DEF Receive, WhereInv
  <2> QED
    BY <1>0, <1>1, <2>2 DEF Receive, TypeInv
<1>2. ASSUME NEW q \in Reqs, Route(q)
      PROVE  post' = post /\ k \in DOMAIN routed'[r] /\ routed'[r][k] = routed[r][k]
  <2>1. CASE q # r
    BY <1>0, <1>2, <2>1 DEF Route, TypeInv
  <2>2. CASE q = r
    <3>1. Head(ready[r]) \in Envelope
      BY <1>0, <1>2, <2>2, SeqFacts DEF Route, TypeInv
    <3>2. routed'[r] = Append(routed[r], Head(ready[r]))
      BY <1>0, <1>2, <2>2 DEF Route, TypeInv
    <3> QED
      BY <1>2, <1>a, <3>1, <3>2 DEF Route
  <2> QED
    BY <2>1, <2>2
<1>3. ASSUME NEW q \in Reqs, Prepare(q) \/ StoreForm(q) \/ DropWebchatCard(q) \/ Send(q)
      PROVE  UNCHANGED <<post, routed>>
  BY <1>3 DEF Prepare, StoreForm, DropWebchatCard, Send
<1> QED
  BY <1>1, <1>2, <1>3 DEF Next, Work, vars

LEMMA TokensStep ==
    ASSUME Base, TokensStayInTenant, [Next]_vars
    PROVE  TokensStayInTenant'
<1>0. TypeInv /\ WhereInv
  BY DEF Base
<1>1. ASSUME NEW t \in Tenants, tokens'[t] # None, tokens'[t] = tokens[t]
      PROVE  \E r \in Reqs : post'[r].tenant = t /\ \E k \in DOMAIN routed'[r] : routed'[r][k].token = tokens'[t]
  BY <1>1, RoutedStays DEF TokensStayInTenant
<1>2. ASSUME NEW r \in Reqs, Route(r), NEW t \in Tenants, tokens'[t] # tokens[t]
      PROVE  post'[r].tenant = t /\ \E k \in DOMAIN routed'[r] : routed'[r][k].token = tokens'[t]
  <2>1. t = post[r].tenant /\ tokens'[t] = Head(ready[r]).token /\ post' = post
    BY <1>0, <1>2 DEF Route, TokenFiles, TypeInv
  <2>2. routed'[r] = Append(routed[r], Head(ready[r])) /\ routed[r] \in Seq(Envelope)
    BY <1>0, <1>2 DEF Route, TypeInv
  <2>3. Head(ready[r]) \in Envelope
    BY <1>0, <1>2, SeqFacts DEF Route, TypeInv
  <2>4. Len(routed[r]) + 1 \in DOMAIN routed'[r] /\ routed'[r][Len(routed[r]) + 1] = Head(ready[r])
    BY <2>2, <2>3
  <2> QED
    BY <2>1, <2>4
<1>3. (\E r \in Reqs : Route(r)) \/ tokens' = tokens
  BY DEF Next, Work, vars, Receive, Prepare, StoreForm, DropWebchatCard, Send
<1> QED
  BY <1>1, <1>2, <1>3 DEF TokensStayInTenant

(***************************************************************************)
(* A token kept for a tenant came in a message to that tenant               *)
(* (save_github_token), although the pending forms are shared by chat id    *)
(* between tenants.                                                         *)
(***************************************************************************)
THEOREM TokensKeptApart == Spec => []TokensStayInTenant
<1>1. Init => TokensStayInTenant
  BY DEF Init, TokensStayInTenant
<1> QED
  BY BaseInit, BaseStep, TokensStep, <1>1, PTL DEF Spec

-----------------------------------------------------------------------------
(* A failure costs nothing else. *)

(* The messages of a POST are to be prepared, prepared or routed, and a      *)
(* thread that ends without an Err has nothing left.                         *)
CountInv ==
    \A r \in Reqs :
      /\ pc[r] \in {"prepare", "route", "reply", "send"} =>
           Len(todo[r]) + Len(ready[r]) + Len(routed[r]) = Len(UserMessages(post[r]))
      /\ pc[r] = "done" /\ routed[r] # <<>> /\ ~failed[r] =>
           Len(routed[r]) = Len(UserMessages(post[r])) /\ replies[r] = <<>>

(* Each step keeps the count of the thread that takes it, and of the others. *)
LEMMA CountStep ==
    ASSUME Base, CountInv, [Next]_vars
    PROVE  CountInv'
<1>0. TypeInv /\ WhereInv
  BY DEF Base
<1> DEFINE C(q) == /\ pc[q] \in {"prepare", "route", "reply", "send"} =>
                        Len(todo[q]) + Len(ready[q]) + Len(routed[q]) = Len(UserMessages(post[q]))
                   /\ pc[q] = "done" /\ routed[q] # <<>> /\ ~failed[q] =>
                        Len(routed[q]) = Len(UserMessages(post[q])) /\ replies[q] = <<>>
<1>a. \A q \in Reqs : /\ todo[q] \in Seq(Envelope) /\ ready[q] \in Seq(Envelope) /\ routed[q] \in Seq(Envelope)
                      /\ replies[q] \in Seq(Reply)
                      /\ Len(todo[q]) \in Nat /\ Len(ready[q]) \in Nat /\ Len(routed[q]) \in Nat
  BY <1>0 DEF TypeInv
<1>b. \A a, b, c \in Nat : /\ a + (b - 1) + (c + 1) = a + b + c /\ (a - 1) + (b + 1) + c = a + b + c
                           /\ 0 + 0 + c = c
  OBVIOUS
<1>1. ASSUME NEW r \in Reqs, NEW q \in Reqs, q # r, Receive(r) \/ Work(r)
      PROVE  C(q)'
  <2>1. /\ pc'[q] = pc[q] /\ post'[q] = post[q] /\ todo'[q] = todo[q] /\ ready'[q] = ready[q]
        /\ routed'[q] = routed[q] /\ replies'[q] = replies[q] /\ failed'[q] = failed[q]
    BY <1>0, <1>1 DEF TypeInv, Receive, Work, Prepare, Route, StoreForm, DropWebchatCard, Send, Goto
  <2> QED
    BY <2>1 DEF CountInv
<1>2. ASSUME NEW r \in Reqs, Receive(r), cast' = cast
      PROVE  C(r)'
  <2>1. PICK p \in cast.posts[r] :
         /\ post' = [post EXCEPT ![r] = p]
         /\ \/ Goto(r, "done") /\ UNCHANGED todo
            \/ /\ Goto(r, IF UserMessages(p) = <<>> THEN "done" ELSE "prepare")
               /\ todo' = [todo EXCEPT ![r] = UserMessages(p)]
    BY <1>2 DEF Receive
  <2>2. routed'[r] = <<>> /\ ready'[r] = <<>> /\ post'[r] = p
    BY <1>0, <1>2, <2>1 DEF Receive, TypeInv, WhereInv
  <2>3. pc'[r] = "done" \/ (pc'[r] = "prepare" /\ todo'[r] = UserMessages(p))
    BY <1>0, <2>1 DEF Goto, TypeInv
  <2>4. UserMessages(p) \in Seq(Envelope)
    <3>1. p \in Post
      BY <1>0, <2>1, IngressAssumption DEF TypeInv
    <3> QED
      BY <3>1, UserMessagesType
  <2>5. Len(<<>>) = 0 /\ Len(UserMessages(p)) \in Nat
    BY <2>4
  <2> QED
    BY <2>2, <2>3, <2>5
<1>3. ASSUME NEW r \in Reqs, Prepare(r)
      PROVE  C(r)'
  <2>1. /\ pc[r] = "prepare" /\ pc'[r] \in {"prepare", "route"} /\ UNCHANGED <<post, routed>>
        /\ todo'[r] = Tail(todo[r]) /\ (\E x : ready'[r] = Append(ready[r], x))
        /\ todo[r] # <<>>
    BY <1>0, <1>3 DEF Prepare, Goto, TypeInv, WhereInv
  <2>2. Len(todo'[r]) = Len(todo[r]) - 1 /\ Len(ready'[r]) = Len(ready[r]) + 1
    <3>1. Len(todo'[r]) = Len(todo[r]) - 1
      BY <1>a, <2>1, SeqFacts
    <3> QED
      BY <1>a, <2>1, <3>1
  <2>3. Len(todo[r]) + Len(ready[r]) + Len(routed[r]) = Len(UserMessages(post[r]))
    BY <2>1 DEF CountInv
  <2>4. Len(todo'[r]) + Len(ready'[r]) + Len(routed'[r]) = Len(UserMessages(post'[r]))
    <3>1. (Len(todo[r]) - 1) + (Len(ready[r]) + 1) + Len(routed[r]) = Len(todo[r]) + Len(ready[r]) + Len(routed[r])
      BY <1>a, <1>b, Zenon
    <3>2. post'[r] = post[r] /\ routed'[r] = routed[r]
      BY <2>1
    <3> QED
      BY <2>2, <2>3, <3>1, <3>2, Zenon
  <2>5. pc'[r] # "done"
    BY <2>1
  <2> QED
    BY <2>4, <2>5
<1>4. ASSUME NEW r \in Reqs, Route(r)
      PROVE  C(r)'
  <2>1. /\ pc[r] = "route" /\ UNCHANGED <<post, todo>> /\ todo[r] = <<>> /\ ready[r] # <<>>
        /\ ready'[r] = Tail(ready[r]) /\ routed'[r] = Append(routed[r], Head(ready[r]))
        /\ pc'[r] = NextStep(ready'[r], replies'[r])
    BY <1>0, <1>4 DEF Route, Goto, TypeInv, WhereInv
  <2>2. Len(ready'[r]) = Len(ready[r]) - 1 /\ Len(routed'[r]) = Len(routed[r]) + 1 /\ Len(todo[r]) = 0
    <3>1. Head(ready[r]) \in Envelope /\ Len(ready'[r]) = Len(ready[r]) - 1
      BY <1>a, <2>1, SeqFacts
    <3>2. Len(routed'[r]) = Len(routed[r]) + 1
      BY <1>a, <2>1, <3>1, SeqFacts
    <3> QED
      BY <1>a, <2>1, <3>1, <3>2
  <2>3. Len(todo[r]) + Len(ready[r]) + Len(routed[r]) = Len(UserMessages(post[r]))
    BY <2>1 DEF CountInv
  <2>4. pc'[r] = "done" => replies'[r] = <<>> /\ ready'[r] = <<>>
    BY <2>1 DEF NextStep
  <2>5. ready'[r] = <<>> => Len(ready'[r]) = 0
    OBVIOUS
  <2>6. Len(todo'[r]) + Len(ready'[r]) + Len(routed'[r]) = Len(UserMessages(post'[r]))
    <3>1. Len(todo[r]) + (Len(ready[r]) - 1) + (Len(routed[r]) + 1) = Len(todo[r]) + Len(ready[r]) + Len(routed[r])
      BY <1>a, <1>b, Zenon
    <3>2. post'[r] = post[r] /\ todo'[r] = todo[r]
      BY <2>1
    <3> QED
      BY <2>2, <2>3, <3>1, <3>2, Zenon
  <2>7. pc'[r] = "done" => Len(routed'[r]) = Len(UserMessages(post'[r]))
    <3>1. Len(routed'[r]) \in Nat /\ todo'[r] = todo[r]
      BY <1>a, <2>1, <2>2
    <3> QED
      BY <1>b, <2>2, <2>4, <2>5, <2>6, <3>1, Zenon
  <2> QED
    BY <2>4, <2>6, <2>7
<1>5. ASSUME NEW r \in Reqs, StoreForm(r)
      PROVE  C(r)'
  <2>1. pc[r] = "reply" /\ pc'[r] = "send" /\ UNCHANGED <<post, todo, ready, routed>>
    BY <1>0, <1>5 DEF StoreForm, Goto, TypeInv
  <2> QED
    BY <2>1 DEF CountInv
<1>6. ASSUME NEW r \in Reqs, MaySend(r), UNCHANGED <<post, todo, ready, routed>>,
             replies' = [replies EXCEPT ![r] = Tail(@)],
             Goto(r, NextStep(ready[r], Tail(replies[r])))
      PROVE  C(r)'
  <2>1. pc[r] \in {"reply", "send"} /\ todo[r] = <<>> /\ pc'[r] = NextStep(ready[r], replies'[r])
    BY <1>0, <1>6 DEF MaySend, Goto, TypeInv, WhereInv
  <2>2. Len(todo[r]) + Len(ready[r]) + Len(routed[r]) = Len(UserMessages(post[r]))
    BY <2>1 DEF CountInv
  <2>3. pc'[r] = "done" => replies'[r] = <<>> /\ ready[r] = <<>>
    BY <2>1 DEF NextStep
  <2>4. pc'[r] = "done" => Len(routed[r]) = Len(UserMessages(post[r]))
    <3>1. Len(todo[r]) = 0 /\ (ready[r] = <<>> => Len(ready[r]) = 0)
      BY <2>1
    <3> QED
      BY <1>a, <1>b, <2>2, <2>3, <3>1, Zenon
  <2> QED
    BY <1>6, <2>2, <2>3, <2>4
<1>7. ASSUME NEW r \in Reqs, DropWebchatCard(r)
      PROVE  C(r)'
  BY <1>6, <1>7 DEF DropWebchatCard
<1>8. ASSUME NEW r \in Reqs, Send(r)
      PROVE  C(r)'
  <2>1. CASE \E ok \in BOOLEAN :
               Goto(r, AfterSend(r, ok)) /\ replies' = [replies EXCEPT ![r] = Tail(@)]
    BY <1>6, <1>8, <2>1 DEF Send, AfterSend
  <2>2. CASE failed' = [failed EXCEPT ![r] = TRUE] /\ Goto(r, "done")
    <3>1. failed'[r] = TRUE /\ pc'[r] = "done"
      BY <1>0, <2>2 DEF TypeInv, Goto
    <3> QED
      BY <3>1
  <2> QED
    BY <1>8, <2>1, <2>2 DEF Send
<1>9. CASE UNCHANGED vars
  BY <1>9 DEF vars, CountInv
<1>10. ASSUME NEW r \in Reqs, Receive(r) \/ Work(r), cast' = cast
       PROVE  \A q \in Reqs : C(q)'
  <2>1. C(r)'
    BY <1>2, <1>3, <1>4, <1>5, <1>7, <1>8, <1>10 DEF Work
  <2> HIDE DEF C
  <2> QED
    BY <1>1, <1>10, <2>1
<1> QED
  BY <1>9, <1>10 DEF Next, CountInv

(***************************************************************************)
(* A thread that ends without an Err has routed every message that is not   *)
(* the bot's own and tried every reply: a refused reply costs nothing else. *)
(***************************************************************************)
THEOREM FailureCostsNothingElse == Spec => []EverythingTried
<1>1. Init => CountInv
  BY DEF Init, CountInv
<1>2. ASSUME Base, CountInv
      PROVE  EverythingTried
  <2> SUFFICES ASSUME NEW r \in Reqs, pc[r] = "done" /\ routed[r] # <<>> /\ ~failed[r]
               PROVE  /\ Len(routed[r]) = Cardinality({k \in DOMAIN post[r].envelopes : post[r].envelopes[k].from # "bot"})
                      /\ replies[r] = <<>>
    BY DEF EverythingTried
  <2>1. post[r] \in Post /\ Len(routed[r]) = Len(UserMessages(post[r])) /\ replies[r] = <<>>
    BY <1>2 DEF CountInv, Base, WhereInv
  <2> QED
    BY <2>1, UserMessagesType
<1> QED
  BY BaseInit, BaseStep, CountStep, <1>1, <1>2, PTL DEF Spec

=============================================================================
