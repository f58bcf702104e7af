----------------------------- MODULE Onboarding -----------------------------
(***************************************************************************)
(* The onboarding API of the operator, src/onboard/, and what it stores     *)
(* through src/qa_persist.rs, src/provider_config_envelope.rs, src/gmap/    *)
(* and src/project/.  Each request runs on a thread of its own, and a       *)
(* `demo allow` or `demo forbid` in a process of its own; nothing locks the *)
(* files.  A write may fail, a process may die at any step, and the         *)
(* provider's web API may fail or its answer be lost.                       *)
(***************************************************************************)
EXTENDS BundleFiles

CONSTANTS Procs,      \* the requests and commands
          Paths,      \* the paths they and the files name
          MaxFaults,  \* how many calls may fail
          MaxDeaths   \* how often a process may die

NoNode == 0
Nodes == 1..Cardinality(Procs) + 1  \* as many as the processes can make, and one from before

Empty == "empty"
Torn == "torn"

ASSUME OnboardAssumption ==
    /\ IsFiniteSet(Procs) /\ Procs \intersect {None, Old, Empty, Torn} = {}
    /\ MaxFaults \in Nat /\ MaxDeaths \in Nat
    /\ IsFiniteSet(Providers) /\ Paths \subseteq Seq(Nat)
    /\ \A s \in Scopes : s \in Seq(STRING)

(* A submission, a policy command, or the creation of a tenant or team; `after` are the
   requests that have ended before it is sent. *)
Request ==
    [op : {"submit"}, after : SUBSET Procs, provider : Providers, scope : Scopes, mode : {"setup", "upgrade", "remove"},
     fit : {"fit", "bad", "unknown", "refused"}, object : BOOLEAN, visible : BOOLEAN,
     service : {None, "webex", "slack", "telegram"}, url : STRING, urls : Seq(STRING)]
    \union [op : {"policy"}, after : SUBSET Procs, scope : Scopes, path : [names : Paths, plain : BOOLEAN],
            policy : {Public, Forbidden}]
    \union [op : {"scope"}, after : SUBSET Procs, scope : Scopes, fit : {"fit", "bad"}]

WebhookRec ==
    [account : Providers, name : [scope : Seq(STRING), kind : {"messages", "cards", "only"}], url : STRING,
     n : Procs \union {Old}]

VARIABLES ask,      \* ask[p]: the request
          pc,       \* pc[p]: the step it is at
          at,       \* at[p]: the scope whose access map it edits
          buf,      \* buf[p]: what it has read there
          policy,   \* policy[p]: what it is about to write there
          fd,       \* fd[p]: the temporary file it has open
          node,     \* node[i]: what is in file i: nothing, one process's bytes, or a mixture
          tmp, env, \* the files the names config.envelope.tmp and .cbor of a provider stand for
          bak,      \* bak[provider]: what .cbor.bak holds
          input,    \* input[provider]: who wrote state/pack-configs/<provider>.json
          hooks,    \* the webhooks the providers' services know
          listed,   \* listed[p]: the webhooks that p was told of
          answer,   \* answer[p]: the status of the response, or the exit code
          did,      \* history: did[p], what p has done
          faults, deaths,
          asked,    \* history: asked[s][path], the policy last written for it
          spoiled,  \* history: files with an edit that overlapped another, was cut short,
                    \*   or named a path in another spelling
          clash     \* history: providers for which two processes did the same at the same time

envelopeVars == <<fd, node, tmp, env, bak>>
rulesVars == <<at, buf, policy, dirs, files, gmap, asked, spoiled>>
hookVars == <<hooks, listed>>
otherVars == <<ask, staged, resolved>>
onboardVars == <<ask, pc, at, buf, policy, fd, node, tmp, env, bak, input, hooks, listed, answer,
                 did, faults, deaths, asked, spoiled, clash>>

Running(p) == pc[p] \notin {"idle", "done", "dead"}

(* A request may be sent when others have ended. *)
Arrives(p) == pc[p] = "idle" /\ \A q \in ask[p].after : pc[q] \in {"done", "dead"}

Go(p, step) == pc' = [pc EXCEPT ![p] = step]

Answer(p, status) == Go(p, "done") /\ answer' = [answer EXCEPT ![p] = status]

GoOn(p, step) == Go(p, step) /\ UNCHANGED answer

Did(p, what) == did' = [did EXCEPT ![p] = @ \union {what}]

Fault == faults < MaxFaults /\ faults' = faults + 1

NoFault == UNCHANGED faults

-----------------------------------------------------------------------------
(* submit_answers: the request, secrets, envelope and config input *)

(* Mutant: the rule is written before anything is stored. *)
Bug_AfterReceive == "read"

AfterReceive == "secrets"

(* An unknown domain or no provider is answered with 400, a pack that is not
   there with 404, and answers the component refuses with 500. *)
parse_request(p) == ask[p].fit # "bad"
find_provider_pack(p) == ask[p].fit # "unknown"
ComponentAccepts(p) == ask[p].fit # "refused"

Receive(p) ==
    /\ Arrives(p) /\ ask[p].op = "submit"
    /\ at' = [at EXCEPT ![p] = ask[p].scope]
    /\ policy' = [policy EXCEPT ![p] = Public]
    /\ CASE ~parse_request(p)      -> Answer(p, 400)
         [] ~find_provider_pack(p) -> Answer(p, 404)
         [] ~ComponentAccepts(p)   -> Answer(p, 500)
         [] OTHER                  -> GoOn(p, AfterReceive)
    /\ UNCHANGED <<otherVars, envelopeVars, hookVars, buf, dirs, files, gmap, asked, spoiled,
                   secrets, input, did, faults, deaths, clash>>

(* Values that are shown and not empty go to the store, all in one batch: some of
   them may have been stored when one fails. *)
HasValues(p) == ask[p].object /\ ask[p].visible

StoreSecrets(p) ==
    LET key == <<canonical_team(ask[p].scope), ask[p].provider>>
    IN /\ pc[p] = "secrets"
       /\ \/ /\ secrets' = (IF HasValues(p) THEN [secrets EXCEPT ![key] = p] ELSE secrets)
             /\ GoOn(p, IF ask[p].object THEN "backup" ELSE "input")
             /\ Did(p, "secrets") /\ NoFault
          \/ /\ Fault /\ HasValues(p)
             /\ \E v \in {secrets[key], Torn} : secrets' = [secrets EXCEPT ![key] = v]
             /\ Answer(p, 500) /\ UNCHANGED did
       /\ UNCHANGED <<otherVars, rulesVars, envelopeVars, hookVars, input, deaths, clash>>

Failed(p) == Fault /\ Answer(p, 500) /\ UNCHANGED did

(* What is there is copied first. *)
BackupEnvelope(p) ==
    LET pr == ask[p].provider
    IN /\ pc[p] = "backup"
       /\ \/ /\ bak' = (IF env[pr] = NoNode THEN bak ELSE [bak EXCEPT ![pr] = node[env[pr]]])
             /\ GoOn(p, "create") /\ NoFault /\ UNCHANGED did
          \/ /\ \E b \in {bak[pr], Torn} : bak' = [bak EXCEPT ![pr] = b]
             /\ env[pr] = NoNode => bak' = bak
             /\ Failed(p)
       /\ UNCHANGED <<otherVars, rulesVars, fd, node, tmp, env, hookVars, secrets, input, deaths, clash>>

Free == CHOOSE n \in Nodes : n \notin Range(tmp) \union Range(env) \union Range(fd)

Writing(q, provider) == ask[q].op = "submit" /\ ask[q].provider = provider /\ pc[q] \in {"write", "rename"}

(* Mutant: the file itself is opened. *)
Bug_TmpNode(provider) == IF env[provider] # NoNode THEN env[provider] ELSE Free

(* File::create: a file that has the name of the temporary one is taken over. *)
TmpNode(provider) == IF tmp[provider] # NoNode THEN tmp[provider] ELSE Free

CreateTmp(p) ==
    LET pr == ask[p].provider
    IN /\ pc[p] = "create"
       /\ \/ /\ fd' = [fd EXCEPT ![p] = TmpNode(pr)]
             /\ tmp' = [tmp EXCEPT ![pr] = TmpNode(pr)]
             /\ node' = [node EXCEPT ![TmpNode(pr)] = Empty]
             /\ clash' = (IF \E q \in Procs : Writing(q, pr) THEN clash \union {pr} ELSE clash)
             /\ GoOn(p, "write") /\ NoFault /\ UNCHANGED did
          \/ Failed(p) /\ UNCHANGED <<fd, tmp, node, clash>>
       /\ UNCHANGED <<otherVars, rulesVars, env, bak, hookVars, secrets, input, deaths>>

WriteTmp(p) ==
    /\ pc[p] = "write"
    /\ \/ /\ \E c \in (IF node[fd[p]] = Empty THEN {p} ELSE {p, Torn}) : node' = [node EXCEPT ![fd[p]] = c]
          /\ GoOn(p, "rename") /\ NoFault /\ UNCHANGED did
       \/ node' = [node EXCEPT ![fd[p]] = Torn] /\ Failed(p)
    /\ UNCHANGED <<otherVars, rulesVars, fd, tmp, env, bak, hookVars, secrets, input, deaths, clash>>

(* The name may be gone: another process has renamed the file, or removed the directory. *)
RenameTmp(p) ==
    LET pr == ask[p].provider
    IN /\ pc[p] = "rename"
       /\ fd' = [fd EXCEPT ![p] = NoNode]
       /\ \/ /\ tmp[pr] # NoNode
             /\ env' = [env EXCEPT ![pr] = tmp[pr]]
             /\ tmp' = [tmp EXCEPT ![pr] = NoNode]
             /\ GoOn(p, "input") /\ Did(p, "envelope") /\ NoFault
          \/ tmp[pr] = NoNode /\ Answer(p, 500) /\ NoFault /\ UNCHANGED <<env, tmp, did>>
          \/ Failed(p) /\ UNCHANGED <<env, tmp>>
       /\ UNCHANGED <<otherVars, rulesVars, node, bak, hookVars, secrets, input, deaths, clash>>

(* An earlier file is removed when there is nothing to say. *)
remove_stale_pack_config_input(provider) == [input EXCEPT ![provider] = None]

emit_pack_config_input(p, provider) ==
    IF HasValues(p) THEN [input EXCEPT ![provider] = p] ELSE remove_stale_pack_config_input(provider)

(* A failure is only logged. *)
try_emit_pack_config_input(p) ==
    LET pr == ask[p].provider
    IN /\ pc[p] = "input"
       /\ \/ input' = emit_pack_config_input(p, pr) /\ NoFault
          \/ Fault /\ \E i \in {input[pr], Torn} : input' = [input EXCEPT ![pr] = i]
       /\ GoOn(p, "read")
       /\ UNCHANGED <<otherVars, rulesVars, envelopeVars, hookVars, secrets, did, deaths, clash>>

-----------------------------------------------------------------------------
(* upsert_policy: the file is read, truncated and written. *)

NameOf(provider) == CHOOSE n \in 1..Cardinality(Providers) : provider = SetToSeq(Providers)[n]

PathOf(p) == IF ask[p].op = "submit" THEN Given(<<NameOf(ask[p].provider)>>) ELSE ask[p].path

Editing(q, s) == at[q] = s /\ pc[q] \in {"truncate", "fill", "make"}

Overlapped(p) == \E q \in Procs \ {p} : Editing(q, at[p])

Spoil(p) == spoiled' = spoiled \union {at[p]}

(* The second edit of a removal may fail, and the request is answered with 200. *)
RulesFailed(p) == Answer(p, IF policy[p] = Forbidden /\ ask[p].op = "submit" THEN 200 ELSE 500)

ReadRules(p) ==
    LET file == gmap[at[p]]
    IN /\ pc[p] = "read"
       /\ \/ /\ UpsertOk(file, PathOf(p))
             /\ buf' = [buf EXCEPT ![p] = file]
             /\ GoOn(p, "truncate") /\ NoFault
          \/ ~UpsertOk(file, PathOf(p)) /\ RulesFailed(p) /\ NoFault /\ UNCHANGED buf
          \/ Fault /\ RulesFailed(p) /\ UNCHANGED buf
       /\ IF Overlapped(p) \/ ~PathOf(p).plain THEN Spoil(p) ELSE UNCHANGED spoiled
       /\ UNCHANGED <<otherVars, at, policy, dirs, files, gmap, asked, envelopeVars, hookVars, secrets, input,
                      did, deaths, clash>>

(* The directories on the way are made, and the file opened. *)
TruncateRules(p) ==
    /\ pc[p] = "truncate"
    /\ dirs' = WithDir(dirs, at[p])
    /\ \/ /\ files' = files \union {at[p]}
          /\ gmap' = [gmap EXCEPT ![at[p]] = EmptyFile]
          /\ GoOn(p, "fill") /\ NoFault
       \/ Fault /\ RulesFailed(p) /\ UNCHANGED <<files, gmap>>
    /\ UNCHANGED <<otherVars, at, buf, policy, asked, spoiled, envelopeVars, hookVars, secrets, input,
                   did, deaths, clash>>

AfterRules(p) ==
    CASE ask[p].op = "policy"                              -> "sync"
      [] ask[p].op = "submit" /\ ask[p].mode # "remove"     -> "flows"
      [] OTHER                                             -> "rmdir"

WriteRules(p) ==
    /\ pc[p] = "fill"
    /\ \/ /\ gmap' = [gmap EXCEPT ![at[p]] = upsert_policy(buf[p], PathOf(p), policy[p])]
          /\ asked' = [asked EXCEPT ![at[p]][PathOf(p).names] = policy[p]]
          /\ IF ask[p].op = "submit" /\ policy[p] = Forbidden THEN Answer(p, 200) ELSE GoOn(p, AfterRules(p))
          /\ Did(p, policy[p]) /\ NoFault /\ UNCHANGED spoiled
       \/ Fault /\ RulesFailed(p) /\ Spoil(p) /\ UNCHANGED <<gmap, asked, did>>
    /\ UNCHANGED <<otherVars, at, buf, policy, dirs, files, envelopeVars, hookVars, secrets, input, deaths, clash>>

(* remove: what is stored for the provider goes, for every tenant; an error is ignored. *)
RemoveProviderDir(p) ==
    LET pr == ask[p].provider
    IN /\ pc[p] = "rmdir"
       /\ \/ /\ tmp' = [tmp EXCEPT ![pr] = NoNode] /\ env' = [env EXCEPT ![pr] = NoNode]
             /\ bak' = [bak EXCEPT ![pr] = None] /\ NoFault
          \/ Fault /\ UNCHANGED <<tmp, env, bak>>
       /\ policy' = [policy EXCEPT ![p] = Forbidden]
       /\ Did(p, "rmdir")
       /\ GoOn(p, "read")
       /\ UNCHANGED <<otherVars, at, buf, dirs, files, gmap, asked, spoiled, fd, node, hookVars, secrets, input,
                      deaths, clash>>

-----------------------------------------------------------------------------
(* try_provider_setup_webhook *)

Https(url) == url \notin {None, "http"}

(* The newest URL that an operator of any tenant has written, of those that can be read. *)
read_runtime_public_url(urls) ==
    LET readable == SelectSeq(urls, Https) IN IF readable = <<>> THEN None ELSE Last(readable)

PublicUrl(p) == IF ask[p].url # None THEN ask[p].url ELSE read_runtime_public_url(ask[p].urls)

(* The flows of the pack are run, which is OpPipeline's business. *)
RunFlows(p) ==
    /\ pc[p] = "flows"
    /\ \/ Https(PublicUrl(p)) /\ ask[p].service = "webex" /\ GoOn(p, "list")
       \/ Https(PublicUrl(p)) /\ ask[p].service \in {"telegram", "slack"} /\ GoOn(p, "set")
       \/ ~(Https(PublicUrl(p)) /\ ask[p].service # None) /\ Answer(p, 200)
    /\ UNCHANGED <<otherVars, rulesVars, envelopeVars, hookVars, secrets, input, did, faults, deaths, clash>>

(* A team that is not named is `default` in URL and name; the provider is not in the name. *)
HookName(p, kind) ==
    [scope |-> IF Len(ask[p].scope) = 1 THEN Append(ask[p].scope, DefaultTeam) ELSE ask[p].scope, kind |-> kind]

(* A provider has a bot or app of its own, the account its webhooks belong to. *)
Hook(p, kind) == [account |-> ask[p].provider, name |-> HookName(p, kind), url |-> PublicUrl(p), n |-> p]

HooksOf(account) == {h \in hooks : h.account = account}

(* Telegram has one webhook and Slack one manifest, which is replaced: the answer
   may be lost.  It is reported either way. *)
Replaced(p) == (hooks \ HooksOf(ask[p].provider)) \union {Hook(p, "only")}

setup_telegram_webhook(p) ==
    /\ pc[p] = "set" /\ ask[p].service = "telegram"
    /\ \/ hooks' = Replaced(p) /\ NoFault
       \/ hooks' \in {hooks, Replaced(p)} /\ Fault
    /\ Answer(p, 200)
    /\ UNCHANGED <<otherVars, rulesVars, envelopeVars, listed, secrets, input, did, deaths, clash>>

(* The manifest is exported, given the URL and pushed back. *)
setup_slack_manifest(p) ==
    /\ pc[p] = "set" /\ ask[p].service = "slack"
    /\ \/ listed' = [listed EXCEPT ![p] = HooksOf(ask[p].provider)] /\ GoOn(p, "push") /\ NoFault
       \/ Fault /\ Answer(p, 200) /\ UNCHANGED listed
    /\ UNCHANGED <<otherVars, rulesVars, envelopeVars, hooks, secrets, input, did, deaths, clash>>

slack_push_manifest(p) ==
    /\ pc[p] = "push"
    /\ \/ hooks' = Replaced(p) /\ NoFault
       \/ hooks' \in {hooks, Replaced(p)} /\ Fault
    /\ Answer(p, 200)
    /\ UNCHANGED <<otherVars, rulesVars, envelopeVars, listed, secrets, input, did, deaths, clash>>

(* Two set-ups of one account overlap if one lists the webhooks while another works
   from the list it has. *)
Reconciling(q, account) == pc[q] \in {"messages", "cards"} /\ ask[q].provider = account

(* A list that cannot be read counts as empty; if the call fails that is reported. *)
webex_list_webhooks(p) ==
    LET pr == ask[p].provider
    IN /\ pc[p] = "list"
       /\ \/ /\ listed' = [listed EXCEPT ![p] = HooksOf(pr)] /\ GoOn(p, "messages") /\ NoFault
             /\ clash' = (IF \E q \in Procs : Reconciling(q, pr) THEN clash \union {pr} ELSE clash)
          \/ /\ Fault /\ listed' = [listed EXCEPT ![p] = {}] /\ GoOn(p, "messages")
             /\ clash' = clash \union {pr}
          \/ Fault /\ Answer(p, 200) /\ UNCHANGED <<listed, clash>>
       /\ UNCHANGED <<otherVars, rulesVars, envelopeVars, hooks, secrets, input, did, deaths>>

(* Mutant: a webhook is known by its URL. *)
Bug_Known(p, kind) == {h \in listed[p] : h.url = PublicUrl(p) /\ h.name = HookName(p, kind)}

Known(p, kind) == {h \in listed[p] : h.name = HookName(p, kind)}

webex_create_webhook_with_resource(p, kind) == hooks \union {Hook(p, kind)}

webex_update_webhook(p, h) ==
    {IF <<x.account, x.name, x.n>> = <<h.account, h.name, h.n>> THEN [x EXCEPT !.url = PublicUrl(p)] ELSE x : x \in hooks}

(* Found by name it is left as it is or gets the URL, else it is created. *)
webex_reconcile_one(p, kind) ==
    LET done == IF Known(p, kind) = {} THEN webex_create_webhook_with_resource(p, kind)
                ELSE webex_update_webhook(p, CHOOSE x \in Known(p, kind) : TRUE)
    IN \/ hooks' = done /\ NoFault
       \/ hooks' \in {hooks, done} /\ Fault

(* The messages, then the cards, whatever became of the first. *)
ReconcileMessages(p) ==
    /\ pc[p] = "messages"
    /\ webex_reconcile_one(p, "messages")
    /\ GoOn(p, "cards")
    /\ UNCHANGED <<otherVars, rulesVars, envelopeVars, listed, secrets, input, did, deaths, clash>>

ReconcileCards(p) ==
    /\ pc[p] = "cards"
    /\ webex_reconcile_one(p, "cards")
    /\ Answer(p, 200)
    /\ UNCHANGED <<otherVars, rulesVars, envelopeVars, listed, secrets, input, did, deaths, clash>>

-----------------------------------------------------------------------------
(* demo allow and demo forbid *)

(* Without --team the rule is the default team's, if it has a directory. *)
EffectiveScope(s) == IF Len(s) = 1 /\ Append(s, DefaultTeam) \in dirs THEN Append(s, DefaultTeam) ELSE s

PolicyCommand(p) ==
    /\ Arrives(p) /\ ask[p].op = "policy"
    /\ at' = [at EXCEPT ![p] = EffectiveScope(ask[p].scope)]
    /\ policy' = [policy EXCEPT ![p] = ask[p].policy]
    /\ GoOn(p, "read")
    /\ UNCHANGED <<otherVars, buf, dirs, files, gmap, asked, spoiled, envelopeVars, hookVars, secrets, input,
                   did, faults, deaths, clash>>

SyncProject(p) ==
    /\ pc[p] = "sync"
    /\ \/ staged' = sync_project(staged, dirs) /\ GoOn(p, "copy") /\ NoFault
       \/ Fault /\ staged' \in {staged, sync_project(staged, dirs)} /\ Answer(p, 500)
    /\ UNCHANGED <<ask, resolved, rulesVars, envelopeVars, hookVars, secrets, input, did, deaths, clash>>

(* A tenant with teams has no manifest of its own: that is an error. *)
copy_resolved_manifest(p) ==
    /\ pc[p] = "copy"
    /\ \/ at[p] \in staged /\ resolved' = resolved \union {at[p]} /\ Answer(p, 200) /\ NoFault
       \/ at[p] \notin staged /\ UNCHANGED resolved /\ Answer(p, 500) /\ NoFault
       \/ Fault /\ UNCHANGED resolved /\ Answer(p, 500)
    /\ UNCHANGED <<ask, staged, rulesVars, envelopeVars, hookVars, secrets, input, did, deaths, clash>>

-----------------------------------------------------------------------------
(* create_tenant and create_team *)

CreateScope(p) ==
    /\ Arrives(p) /\ ask[p].op = "scope"
    /\ at' = [at EXCEPT ![p] = ask[p].scope]
    /\ \/ ask[p].fit = "bad" /\ Answer(p, 400) /\ NoFault /\ UNCHANGED dirs
       \/ ask[p].fit # "bad" /\ dirs' = WithDir(dirs, ask[p].scope) /\ GoOn(p, "check") /\ NoFault
       \/ ask[p].fit # "bad" /\ Fault /\ Answer(p, 500) /\ UNCHANGED dirs
    /\ UNCHANGED <<otherVars, buf, policy, files, gmap, asked, spoiled, envelopeVars, hookVars, secrets, input,
                   did, deaths, clash>>

(* Mutant: a file that is there is written anew. *)
Bug_NeedsFile(s) == TRUE

NeedsFile(s) == s \notin files

CheckFile(p) ==
    /\ pc[p] = "check"
    /\ IF NeedsFile(at[p]) THEN GoOn(p, "make") ELSE Answer(p, 200)
    /\ IF Overlapped(p) THEN Spoil(p) ELSE UNCHANGED spoiled
    /\ UNCHANGED <<otherVars, at, buf, policy, dirs, files, gmap, asked, envelopeVars, hookVars, secrets, input,
                   did, faults, deaths, clash>>

(* If it cannot be written the file may be there, with nothing in it. *)
MakeFile(p) ==
    /\ pc[p] = "make"
    /\ \/ /\ files' = files \union {at[p]} /\ gmap' = [gmap EXCEPT ![at[p]] = ClosedFile]
          /\ asked' = [asked EXCEPT ![at[p]][<<>>] = Forbidden]
          /\ Answer(p, 200) /\ NoFault /\ UNCHANGED spoiled
       \/ /\ Fault /\ files' \in {files, files \union {at[p]}}
          /\ Spoil(p) /\ Answer(p, 500) /\ UNCHANGED <<gmap, asked>>
    /\ UNCHANGED <<otherVars, at, buf, policy, dirs, envelopeVars, hookVars, secrets, input, did, deaths, clash>>

-----------------------------------------------------------------------------
(* The requests run in the operator and die with it; a command dies alone. *)
Die(dying) ==
    /\ deaths < MaxDeaths /\ deaths' = deaths + 1
    /\ \E p \in dying : Running(p)
    /\ pc' = [p \in Procs |-> IF p \in dying /\ Running(p) THEN "dead" ELSE pc[p]]
    /\ fd' = [p \in Procs |-> IF p \in dying THEN NoNode ELSE fd[p]]
    /\ files' \in {files, files \union {at[p] : p \in {q \in dying : pc[q] = "make"}}}
    /\ spoiled' = spoiled \union {at[p] : p \in {q \in dying : pc[q] \in {"fill", "make"}}}
    /\ UNCHANGED <<otherVars, at, buf, policy, dirs, gmap, asked, node, tmp, env, bak, hookVars, secrets, input,
                   answer, did, faults, clash>>

Requests == {p \in Procs : ask[p].op # "policy"}

Step(p) ==
    \/ Receive(p) \/ StoreSecrets(p) \/ BackupEnvelope(p) \/ CreateTmp(p) \/ WriteTmp(p) \/ RenameTmp(p)
    \/ try_emit_pack_config_input(p) \/ ReadRules(p) \/ TruncateRules(p) \/ WriteRules(p) \/ RemoveProviderDir(p)
    \/ RunFlows(p) \/ setup_telegram_webhook(p) \/ setup_slack_manifest(p) \/ slack_push_manifest(p)
    \/ webex_list_webhooks(p) \/ ReconcileMessages(p) \/ ReconcileCards(p)
    \/ PolicyCommand(p) \/ SyncProject(p) \/ copy_resolved_manifest(p)
    \/ CreateScope(p) \/ CheckFile(p) \/ MakeFile(p)

Onboard ==
    \/ \E p \in Procs : Step(p)
    \/ Die(Requests)
    \/ \E p \in Procs \ Requests : Die({p})

OnboardInit(requests, there, rules, hooked, stored) ==
    /\ ask = requests
    /\ pc = [p \in Procs |-> "idle"] /\ answer = [p \in Procs |-> 0] /\ did = [p \in Procs |-> {}]
    /\ at = [p \in Procs |-> ask[p].scope]
    /\ buf = [p \in Procs |-> EmptyFile] /\ policy = [p \in Procs |-> Public]
    /\ fd = [p \in Procs |-> NoNode] /\ node = [n \in Nodes |-> IF n = 1 THEN Old ELSE Empty]
    /\ tmp = [r \in Providers |-> NoNode] /\ bak = [r \in Providers |-> None]
    /\ env = [r \in Providers |-> IF r = stored THEN 1 ELSE NoNode]
    /\ input = [r \in Providers |-> None]
    /\ hooks = hooked /\ listed = [p \in Procs |-> {}]
    /\ faults = 0 /\ deaths = 0 /\ spoiled = {} /\ clash = {}
    /\ dirs = there /\ files = DOMAIN rules
    /\ gmap = [s \in Scopes |-> IF s \in files THEN rules[s] ELSE EmptyFile]
    /\ asked = [s \in Scopes |-> [x \in Paths |-> LastPolicy(gmap[s].rules, x)]]
    /\ staged = {} /\ resolved = {}
    /\ secrets = [k \in SecretKeys |-> None]

(* Any requests, on any files in which a path has one rule at most, with any webhooks
   of which an account has one of a name at most. *)
OnboardStarts ==
    \E requests \in [Procs -> Request], there \in SUBSET Scopes, known \in SUBSET Scopes,
       hooked \in SUBSET WebhookRec, stored \in Providers \union {None} :
      /\ \A g, h \in hooked : g.account = h.account /\ g.name = h.name => g = h
      /\ \E rules \in [known -> AccessFile] : OnboardInit(requests, there, rules, hooked, stored)

onboarding == <<fileVars, onboardVars>>

OnboardSpec == OnboardStarts /\ [][Onboard]_onboarding

-----------------------------------------------------------------------------
(***************************************************************************)
(* An edit that returned stands, and is all that changed: unless edits of a *)
(* file overlapped or one was cut short, the file says of every path what   *)
(* was last asked for it, through whichever request, command or creation of *)
(* the scope, in files with and without comments.                           *)
(***************************************************************************)
RulesStand ==
    \A s \in Scopes \ spoiled : (\A q \in Procs : ~(at[q] = s /\ pc[q] = "fill")) =>
        \A x \in Paths : LastPolicy(gmap[s].rules, x) = asked[s][x]

(***************************************************************************)
(* However the rules came to be in their order, the decision for a target   *)
(* is that of the last of the most specific rules that match it.            *)
(***************************************************************************)
MostSpecificDecides ==
    \A s \in Scopes : \A t \in Paths :
        LET rules == gmap[s].rules
            hits  == {i \in DOMAIN rules : matches_target(rules[i].path, t)}
            best  == {i \in hits : \A j \in hits : specificity_rank(rules[j].path) <= specificity_rank(rules[i].path)}
        IN eval_policy(rules, t) = IF hits = {} THEN NoDecision ELSE rules[CHOOSE i \in best : \A j \in best : j <= i].policy

(***************************************************************************)
(* A config envelope is never empty or half written, whatever write failed  *)
(* and wherever the operator died, unless two requests wrote it at the same *)
(* time.                                                                    *)
(***************************************************************************)
EnvelopeWhole == \A r \in Providers \ clash : env[r] # NoNode => node[env[r]] \notin {Empty, Torn}

(***************************************************************************)
(* A provider is opened to a scope, and its config handed to the deployer,  *)
(* only by a request that has stored all of its secrets and its envelope.   *)
(***************************************************************************)
OpenedAfterStored ==
    \A p \in Procs : ask[p].op = "submit" /\ (Public \in did[p] \/ input[ask[p].provider] = p) =>
        "secrets" \in did[p] /\ (ask[p].object => "envelope" \in did[p])

(***************************************************************************)
(* Webex keeps one webhook of a name however often a set-up is repeated,    *)
(* answers are lost or a set-up dies half way, unless two ran at once or    *)
(* the list could not be read.                                              *)
(***************************************************************************)
OneHookPerName ==
    \A account \in Providers \ clash : \A g, h \in HooksOf(account) : g.name = h.name => g = h
=============================================================================
