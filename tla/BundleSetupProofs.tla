------------------------- MODULE BundleSetupProofs -------------------------
(***************************************************************************)
(* Proofs about setting up the providers of a bundle and its access maps,   *)
(* for any number of requests, commands, tenants and providers, and any     *)
(* number of faults and deaths.                                             *)
(***************************************************************************)
EXTENDS Onboarding, ProviderSetup, SequenceLemmas

-----------------------------------------------------------------------------
(* Where a request is. *)

SubmitSteps == {"secrets", "backup", "create", "write", "rename", "input", "flows", "rmdir", "list", "set", "push",
                "messages", "cards"}
RuleSteps == {"read", "truncate", "fill"}
OtherSteps == {"idle", "done", "dead", "check", "make", "sync", "copy"}
OnboardSteps == SubmitSteps \union RuleSteps \union OtherSteps
Deeds == {"secrets", "envelope", "rmdir", Public, Forbidden}

(* The variables that say where the requests are have their types, and only  *)
(* a submission stores, opens a provider or sets webhooks up.                *)
PlaceInv ==
    /\ ask \in [Procs -> Request] /\ pc \in [Procs -> OnboardSteps]
    /\ policy \in [Procs -> {Public, Forbidden}] /\ did \in [Procs -> SUBSET Deeds]
    /\ input \in [Providers -> Procs \union {None, Torn}]
    /\ \A p \in Procs :
         /\ pc[p] \in SubmitSteps => ask[p].op = "submit"
         /\ pc[p] \in RuleSteps => ask[p].op \in {"submit", "policy"}
         /\ pc[p] \in {"check", "make"} => ask[p].op = "scope"

(* The fields of a request. *)
LEMMA RequestFields ==
    ASSUME NEW r \in Request
    PROVE  /\ r.op \in {"submit", "policy", "scope"}
           /\ r.op = "submit" => r.provider \in Providers /\ r.object \in BOOLEAN
           /\ r.op = "policy" => r.policy \in {Public, Forbidden}
<1>1. CASE r.op = "submit"
  BY <1>1 DEF Request
<1>2. CASE r.op = "policy"
  BY <1>2 DEF Request
<1>3. CASE r.op = "scope"
  BY <1>3
<1> QED
  BY <1>1, <1>2, <1>3 DEF Request

(* What a step of one process does to where it is. *)
LEMMA PlaceStep ==
    ASSUME PlaceInv, NEW p \in Procs, Step(p)
    PROVE  PlaceInv'
<1>0. ask[p] \in Request
  BY DEF PlaceInv
<1>f. /\ ask[p].op \in {"submit", "policy", "scope"}
      /\ ask[p].op = "submit" => ask[p].provider \in Providers
      /\ ask[p].op = "policy" => ask[p].policy \in {Public, Forbidden}
  BY <1>0, RequestFields
<1> USE DEF Answer, GoOn, Go, Did, Failed, otherVars, rulesVars, OnboardSteps, SubmitSteps, RuleSteps, OtherSteps
<1>1. CASE Receive(p)
  BY <1>1, <1>f DEF Receive, PlaceInv, AfterReceive, Public
<1>2. CASE StoreSecrets(p)
  BY <1>2 DEF StoreSecrets, PlaceInv, Deeds
<1>3. CASE BackupEnvelope(p)
  BY <1>3 DEF BackupEnvelope, PlaceInv
<1>4. CASE CreateTmp(p)
  BY <1>4 DEF CreateTmp, PlaceInv
<1>5. CASE WriteTmp(p)
  BY <1>5 DEF WriteTmp, PlaceInv
<1>6. CASE RenameTmp(p)
  BY <1>6 DEF RenameTmp, PlaceInv, Deeds
<1>7. CASE try_emit_pack_config_input(p)
  BY <1>7, <1>f DEF try_emit_pack_config_input, PlaceInv, emit_pack_config_input, remove_stale_pack_config_input
<1>8. CASE ReadRules(p)
  BY <1>8 DEF ReadRules, RulesFailed, PlaceInv
<1>9. CASE TruncateRules(p)
  BY <1>9 DEF TruncateRules, RulesFailed, PlaceInv
<1>10. CASE WriteRules(p)
  BY <1>10 DEF WriteRules, RulesFailed, AfterRules, PlaceInv, Deeds
<1>11. CASE RemoveProviderDir(p)
  BY <1>11 DEF RemoveProviderDir, PlaceInv, Deeds
<1>12. CASE RunFlows(p)
  BY <1>12 DEF RunFlows, PlaceInv
<1>13. CASE setup_telegram_webhook(p)
  BY <1>13 DEF setup_telegram_webhook, PlaceInv
<1>14. CASE setup_slack_manifest(p)
  BY <1>14 DEF setup_slack_manifest, PlaceInv
<1>15. CASE slack_push_manifest(p)
  BY <1>15 DEF slack_push_manifest, PlaceInv
<1>16. CASE webex_list_webhooks(p)
  BY <1>16 DEF webex_list_webhooks, PlaceInv
<1>17. CASE ReconcileMessages(p)
  BY <1>17 DEF ReconcileMessages, PlaceInv
<1>18. CASE ReconcileCards(p)
  BY <1>18 DEF ReconcileCards, PlaceInv
<1>19. CASE PolicyCommand(p)
  BY <1>19, <1>f DEF PolicyCommand, PlaceInv
<1>20. CASE SyncProject(p)
  BY <1>20 DEF SyncProject, PlaceInv
<1>21. CASE copy_resolved_manifest(p)
  BY <1>21 DEF copy_resolved_manifest, PlaceInv
<1>22. CASE CreateScope(p)
  BY <1>22 DEF CreateScope, PlaceInv
<1>23. CASE CheckFile(p)
  BY <1>23 DEF CheckFile, PlaceInv
<1>24. CASE MakeFile(p)
  BY <1>24 DEF MakeFile, PlaceInv
<1> QED
  BY <1>1, <1>2, <1>3, <1>4, <1>5, <1>6, <1>7, <1>8, <1>9, <1>10, <1>11, <1>12, <1>13, <1>14, <1>15, <1>16,
     <1>17, <1>18, <1>19, <1>20, <1>21, <1>22, <1>23, <1>24 DEF Step

(* Only processes that run die, and nothing of what is stored changes. *)
LEMMA DieFacts ==
    ASSUME PlaceInv, NEW dying \in SUBSET Procs, Die(dying)
    PROVE  /\ ask' = ask /\ policy' = policy /\ did' = did /\ input' = input /\ hooks' = hooks /\ listed' = listed
           /\ node' = node /\ tmp' = tmp /\ env' = env /\ clash' = clash
           /\ pc' \in [Procs -> OnboardSteps] /\ fd' = [p \in Procs |-> IF p \in dying THEN NoNode ELSE fd[p]]
           /\ \A p \in Procs : pc'[p] = pc[p] \/ pc'[p] = "dead"
BY DEF Die, otherVars, hookVars, PlaceInv, OnboardSteps, OtherSteps

(* A step is one of a process, the death of some, or none. *)
LEMMA OnboardStep ==
    ASSUME [Onboard]_onboarding
    PROVE  \/ \E p \in Procs : Step(p)
           \/ \E dying \in SUBSET Procs : Die(dying)
           \/ UNCHANGED onboarding
BY DEF Onboard, Requests

LEMMA PlaceKept ==
    ASSUME PlaceInv, [Onboard]_onboarding
    PROVE  PlaceInv'
<1>1. ASSUME NEW dying \in SUBSET Procs, Die(dying) PROVE PlaceInv'
  BY <1>1, DieFacts DEF PlaceInv, SubmitSteps, RuleSteps
<1>2. CASE UNCHANGED onboarding
  BY <1>2 DEF onboarding, onboardVars, PlaceInv
<1> QED
  BY <1>1, <1>2, OnboardStep, PlaceStep

-----------------------------------------------------------------------------
(* What is stored before a provider is opened. *)

(* A submission has stored its secrets and, if its answers have any, its config. *)
Stored(p) == "secrets" \in did[p] /\ (ask[p].object => "envelope" \in did[p])

(***************************************************************************)
(* The order of submit_answers: an envelope is only written after the       *)
(* secrets, the input for the deployer and the rule only after both; and    *)
(* what says that a request got that far stays.                             *)
(***************************************************************************)
StoredInv ==
    \A p \in Procs : ask[p].op = "submit" =>
      /\ pc[p] \in {"backup", "create", "write", "rename"} => "secrets" \in did[p]
      /\ pc[p] \in {"input", "rmdir"} \union RuleSteps \/ Public \in did[p] => Stored(p)
      /\ \A r \in Providers : input[r] = p => Stored(p)

LEMMA StoredStep ==
    ASSUME PlaceInv, StoredInv, NEW p \in Procs, Step(p)
    PROVE  StoredInv'
<1>f. /\ ask[p].op \in {"submit", "policy", "scope"}
      /\ ask[p].op = "submit" => ask[p].provider \in Providers /\ ask[p].object \in BOOLEAN
  BY RequestFields DEF PlaceInv
<1>n. Procs \intersect {None, Torn} = {}
  BY OnboardAssumption
<1> USE DEF Answer, GoOn, Go, Did, Failed, otherVars, rulesVars, RuleSteps, Stored, Public
<1>1. CASE Receive(p)
  BY <1>1 DEF Receive, PlaceInv, AfterReceive, StoredInv
<1>2. CASE StoreSecrets(p)
  BY <1>2 DEF StoreSecrets, PlaceInv, StoredInv
<1>3. CASE BackupEnvelope(p)
  BY <1>3 DEF BackupEnvelope, PlaceInv, StoredInv
<1>4. CASE CreateTmp(p)
  BY <1>4 DEF CreateTmp, PlaceInv, StoredInv
<1>5. CASE WriteTmp(p)
  BY <1>5 DEF WriteTmp, PlaceInv, StoredInv
<1>6. CASE RenameTmp(p)
  BY <1>6 DEF RenameTmp, PlaceInv, StoredInv
<1>7. CASE try_emit_pack_config_input(p)
  BY <1>7, <1>f, <1>n DEF try_emit_pack_config_input, PlaceInv, StoredInv, emit_pack_config_input, remove_stale_pack_config_input
<1>8. CASE ReadRules(p)
  BY <1>8 DEF ReadRules, RulesFailed, PlaceInv, StoredInv
<1>9. CASE TruncateRules(p)
  BY <1>9 DEF TruncateRules, RulesFailed, PlaceInv, StoredInv
<1>10. CASE WriteRules(p)
  BY <1>10 DEF WriteRules, RulesFailed, AfterRules, PlaceInv, StoredInv, Forbidden
<1>11. CASE RemoveProviderDir(p)
  BY <1>11 DEF RemoveProviderDir, PlaceInv, StoredInv
<1>12. CASE RunFlows(p)
  BY <1>12 DEF RunFlows, PlaceInv, StoredInv
<1>13. CASE setup_telegram_webhook(p)
  BY <1>13 DEF setup_telegram_webhook, PlaceInv, StoredInv
<1>14. CASE setup_slack_manifest(p)
  BY <1>14 DEF setup_slack_manifest, PlaceInv, StoredInv
<1>15. CASE slack_push_manifest(p)
  BY <1>15 DEF slack_push_manifest, PlaceInv, StoredInv
<1>16. CASE webex_list_webhooks(p)
  BY <1>16 DEF webex_list_webhooks, PlaceInv, StoredInv
<1>17. CASE ReconcileMessages(p)
  BY <1>17 DEF ReconcileMessages, PlaceInv, StoredInv
<1>18. CASE ReconcileCards(p)
  BY <1>18 DEF ReconcileCards, PlaceInv, StoredInv
<1>19. CASE PolicyCommand(p)
  BY <1>19 DEF PolicyCommand, PlaceInv, StoredInv
<1>20. CASE SyncProject(p)
  BY <1>20 DEF SyncProject, PlaceInv, StoredInv
<1>21. CASE copy_resolved_manifest(p)
  BY <1>21 DEF copy_resolved_manifest, PlaceInv, StoredInv
<1>22. CASE CreateScope(p)
  BY <1>22 DEF CreateScope, PlaceInv, StoredInv
<1>23. CASE CheckFile(p)
  BY <1>23 DEF CheckFile, PlaceInv, StoredInv
<1>24. CASE MakeFile(p)
  BY <1>24 DEF MakeFile, PlaceInv, StoredInv
<1> QED
  BY <1>1, <1>2, <1>3, <1>4, <1>5, <1>6, <1>7, <1>8, <1>9, <1>10, <1>11, <1>12, <1>13, <1>14, <1>15, <1>16,
     <1>17, <1>18, <1>19, <1>20, <1>21, <1>22, <1>23, <1>24 DEF Step

LEMMA StoredKept ==
    ASSUME PlaceInv, StoredInv, [Onboard]_onboarding
    PROVE  StoredInv'
<1>1. ASSUME NEW dying \in SUBSET Procs, Die(dying) PROVE StoredInv'
  BY <1>1, DieFacts DEF StoredInv, Stored, RuleSteps
<1>2. CASE UNCHANGED onboarding
  BY <1>2 DEF onboarding, onboardVars, StoredInv, Stored
<1> QED
  BY <1>1, <1>2, OnboardStep, StoredStep

(* At the start nothing has been done. *)
LEMMA PlaceStart ==
    ASSUME OnboardStarts
    PROVE  PlaceInv /\ StoredInv
<1>1. PICK requests, there, rules, hooked, stored :
         requests \in [Procs -> Request] /\ OnboardInit(requests, there, rules, hooked, stored)
  BY DEF OnboardStarts
<1>2. Procs \intersect {None} = {}
  BY OnboardAssumption
<1>3. PlaceInv
  BY <1>1 DEF OnboardInit, PlaceInv, OnboardSteps, SubmitSteps, RuleSteps, OtherSteps, Public
<1> QED
  BY <1>1, <1>2, <1>3 DEF OnboardInit, StoredInv, RuleSteps

(***************************************************************************)
(* A provider is opened to a scope, and its config handed to the deployer,  *)
(* only by a request that has stored its secrets and its envelope           *)
(* (submit_answers and persist_qa_results), whatever fails or dies.         *)
(***************************************************************************)
THEOREM StoredFirst == OnboardSpec => []OpenedAfterStored
<1>1. ASSUME PlaceInv, StoredInv PROVE OpenedAfterStored
  <2> SUFFICES ASSUME NEW p \in Procs, ask[p].op = "submit", Public \in did[p] \/ input[ask[p].provider] = p
               PROVE  Stored(p)
    BY DEF OpenedAfterStored, Stored
  <2>1. ask[p].provider \in Providers
    BY <1>1, RequestFields DEF PlaceInv
  <2> QED
    BY <1>1, <2>1 DEF StoredInv
<1> QED
  BY <1>1, PlaceStart, PlaceKept, StoredKept, PTL DEF OnboardSpec

-----------------------------------------------------------------------------
(* Webhooks. *)

IsHook(h) == h = [account |-> h.account, name |-> h.name, url |-> h.url, n |-> h.n]

(* The kinds of webhooks that a set-up has still to reconcile. *)
Due(p) == IF pc[p] = "messages" THEN {"messages", "cards"} ELSE {"cards"}

(* A webhook that has to be known is in the list. *)
ListGood(p) ==
    pc[p] \in {"messages", "cards"} /\ ask[p].provider \notin clash =>
      \A kind \in Due(p) : \A h \in hooks :
        h.account = ask[p].provider /\ h.name = HookName(p, kind) => Known(p, kind) # {}

(***************************************************************************)
(* Unless two set-ups of an account overlapped or a list was lost, one at   *)
(* most works from a list, and the list has what it still has to look for.  *)
(***************************************************************************)
HookInv ==
    /\ DOMAIN listed = Procs /\ \A h \in hooks : IsHook(h)
    /\ OneHookPerName
    /\ \A account \in Providers \ clash : \A p, q \in Procs :
         Reconciling(p, account) /\ Reconciling(q, account) => p = q
    /\ \A p \in Procs : ListGood(p)

(* Steps that neither list nor set webhooks. *)
LEMMA HookKept ==
    ASSUME PlaceInv, HookInv, hooks' = hooks, listed' = listed, ask' = ask, clash \subseteq clash',
           \A q \in Procs : pc'[q] = pc[q] \/ pc'[q] \notin {"messages", "cards"}
    PROVE  HookInv'
<1>1. OneHookPerName'
  BY DEF HookInv, OneHookPerName, HooksOf
<1>2. \A q \in Procs : \A account : Reconciling(q, account)' => Reconciling(q, account) /\ pc'[q] = pc[q]
  BY DEF Reconciling
<1>3. \A q \in Procs : \A kind : Known(q, kind)' = Known(q, kind) /\ HookName(q, kind)' = HookName(q, kind)
  BY DEF Known, HookName
<1>4. ASSUME NEW q \in Procs PROVE ListGood(q)'
  <2>1. ListGood(q)
    BY DEF HookInv
  <2>2. pc'[q] \in {"messages", "cards"} => pc'[q] = pc[q]
    OBVIOUS
  <2> QED
    BY <1>3, <2>1, <2>2 DEF ListGood, Due
<1> QED
  BY <1>1, <1>2, <1>4 DEF HookInv, IsHook

(* Names of different kinds differ. *)
LEMMA KindsDiffer == \A p, q, j, k : HookName(p, j) = HookName(q, k) => j = k
BY DEF HookName

(* All webhooks of an account are replaced by one. *)
LEMMA ReplacedHooks ==
    ASSUME PlaceInv, HookInv, NEW p \in Procs, ask' = ask, listed' = listed, clash' = clash,
           hooks' = Replaced(p), pc' = [pc EXCEPT ![p] = "done"]
    PROVE  HookInv'
<1> DEFINE a == ask[p].provider
           g == Hook(p, "only")
<1>1. g.account = a /\ g.name = HookName(p, "only") /\ IsHook(g)
  BY DEF Hook, IsHook
<1>2. \A h \in hooks' : h = g \/ (h \in hooks /\ h.account # a)
  BY DEF Replaced, HooksOf
<1> HIDE DEF g
<1>3. OneHookPerName'
  BY <1>1, <1>2 DEF HookInv, OneHookPerName, HooksOf
<1>4. \A q \in Procs : pc'[q] \in {"messages", "cards"} => pc'[q] = pc[q]
  BY DEF PlaceInv
<1>5. \A q \in Procs : \A kind : Known(q, kind)' = Known(q, kind) /\ HookName(q, kind)' = HookName(q, kind)
  BY DEF Known, HookName
<1>6. ASSUME NEW q \in Procs PROVE ListGood(q)'
  <2> SUFFICES ASSUME pc'[q] \in {"messages", "cards"}, ask[q].provider \notin clash,
                      NEW kind \in Due(q)', NEW h \in hooks',
                      h.account = ask[q].provider, h.name = HookName(q, kind)
               PROVE  Known(q, kind) # {}
    BY <1>5 DEF ListGood
  <2>1. pc'[q] = pc[q] /\ kind \in Due(q) /\ kind # "only"
    BY <1>4 DEF Due
  <2>2. h # g
    BY <1>1, <2>1, KindsDiffer
  <2> QED
    BY <1>2, <2>1, <2>2 DEF HookInv, ListGood
<1>7. \A q \in Procs : \A account : Reconciling(q, account)' => Reconciling(q, account)
  BY <1>4 DEF Reconciling
<1> QED
  BY <1>1, <1>2, <1>3, <1>6, <1>7 DEF HookInv

(* A webhook that is not known is created, one that is known gets the URL. *)
LEMMA ReconciledHooks ==
    ASSUME PlaceInv, HookInv, NEW p \in Procs, ask' = ask, listed' = listed, clash' = clash,
           NEW kind \in {"messages", "cards"}, pc[p] = kind, NEW next \in {"cards", "done"}, next = "cards" <=> kind = "messages",
           pc' = [pc EXCEPT ![p] = next], webex_reconcile_one(p, kind)
    PROVE  HookInv'
<1> DEFINE a == ask[p].provider
           g == Hook(p, kind)
<1>1. g.account = a /\ g.name = HookName(p, kind) /\ IsHook(g)
  BY DEF Hook, IsHook
<1> HIDE DEF g
<1>2. pc'[p] = next /\ \A q \in Procs : q # p => pc'[q] = pc[q]
  BY DEF PlaceInv
<1>3. \A q \in Procs : pc'[q] \in {"messages", "cards"} => pc[q] \in {"messages", "cards"} /\ Due(q)' \subseteq Due(q)
  BY <1>2 DEF Due
<1>4. \A q \in Procs : \A k : Known(q, k)' = Known(q, k) /\ HookName(q, k)' = HookName(q, k)
  BY DEF Known, HookName
<1>5. \A q \in Procs : \A account : Reconciling(q, account)' => Reconciling(q, account)
  BY <1>3 DEF Reconciling
<1>6. a \in Providers
  BY RequestFields DEF PlaceInv, SubmitSteps
<1>7. CASE hooks' = hooks
  <2>1. OneHookPerName'
    BY <1>7 DEF HookInv, OneHookPerName, HooksOf
  <2>2. \A q \in Procs : ListGood(q)'
    BY <1>3, <1>4, <1>7 DEF HookInv, ListGood
  <2> QED
    BY <1>5, <1>7, <2>1, <2>2 DEF HookInv
<1>8. CASE Known(p, kind) = {} /\ hooks' = hooks \union {g}
  <2>1. a \notin clash => \A h \in hooks : h.account = a => h.name # g.name
    <3>1. kind \in Due(p) /\ ListGood(p)
      BY DEF Due, HookInv
    <3> QED
      BY <1>1, <1>8, <3>1 DEF ListGood
  <2>2. OneHookPerName'
    BY <1>1, <1>8, <2>1 DEF HookInv, OneHookPerName, HooksOf
  <2>3. ASSUME NEW q \in Procs PROVE ListGood(q)'
    <3> SUFFICES ASSUME pc'[q] \in {"messages", "cards"}, ask[q].provider \notin clash,
                        NEW k \in Due(q)', NEW h \in hooks',
                        h.account = ask[q].provider, h.name = HookName(q, k)
                 PROVE  Known(q, k) # {}
      BY <1>4 DEF ListGood
    <3>1. CASE h \in hooks
      BY <1>3, <3>1 DEF HookInv, ListGood
    <3>2. CASE h = g
      <4>1. k = kind
        BY <1>1, <3>2, KindsDiffer
      <4>2. q # p
        BY <1>2, <4>1 DEF Due
      <4>3. Reconciling(p, a) /\ Reconciling(q, a) /\ a \in Providers \ clash
        BY <1>1, <1>3, <1>6, <3>2 DEF Reconciling
      <4> QED
        BY <4>2, <4>3 DEF HookInv
    <3> QED
      BY <1>8, <3>1, <3>2
  <2> QED
    BY <1>1, <1>5, <1>8, <2>2, <2>3 DEF HookInv
<1>9. ASSUME NEW x, hooks' = webex_update_webhook(p, x)
      PROVE  HookInv'
  <2> DEFINE U(h) == IF <<h.account, h.name, h.n>> = <<x.account, x.name, x.n>> THEN [h EXCEPT !.url = PublicUrl(p)] ELSE h
  <2>1. hooks' = {U(h) : h \in hooks}
    BY <1>9 DEF webex_update_webhook
  <2>2. ASSUME NEW h \in hooks PROVE IsHook(U(h)) /\ U(h).account = h.account /\ U(h).name = h.name
    <3>1. h = [account |-> h.account, name |-> h.name, url |-> h.url, n |-> h.n]
      BY DEF HookInv, IsHook
    <3>2. [h EXCEPT !.url = PublicUrl(p)] = [account |-> h.account, name |-> h.name, url |-> PublicUrl(p), n |-> h.n]
      BY <3>1
    <3> QED
      BY <3>1, <3>2 DEF IsHook
  <2> HIDE DEF U
  <2>3. OneHookPerName'
    <3> SUFFICES ASSUME NEW b \in Providers \ clash, NEW h1 \in hooks', NEW h2 \in hooks',
                        h1.account = b, h2.account = b, h1.name = h2.name
                 PROVE  h1 = h2
      BY DEF OneHookPerName, HooksOf
    <3>1. PICK g1 \in hooks : h1 = U(g1)
      BY <2>1
    <3>2. PICK g2 \in hooks : h2 = U(g2)
      BY <2>1
    <3>3. g1.account = b /\ g2.account = b /\ g1.name = g2.name
      BY <2>2, <3>1, <3>2
    <3>4. g1 = g2
      BY <3>3 DEF HookInv, OneHookPerName, HooksOf
    <3> QED
      BY <3>1, <3>2, <3>4
  <2>4. ASSUME NEW q \in Procs PROVE ListGood(q)'
    <3> SUFFICES ASSUME pc'[q] \in {"messages", "cards"}, ask[q].provider \notin clash,
                        NEW k \in Due(q)', NEW h \in hooks',
                        h.account = ask[q].provider, h.name = HookName(q, k)
                 PROVE  Known(q, k) # {}
      BY <1>4 DEF ListGood
    <3>1. PICK h0 \in hooks : h = U(h0)
      BY <2>1
    <3>2. h0.account = ask[q].provider /\ h0.name = HookName(q, k)
      BY <2>2, <3>1
    <3> QED
      BY <1>3, <3>2 DEF HookInv, ListGood
  <2>5. \A h \in hooks' : IsHook(h)
    BY <2>1, <2>2
  <2> QED
    BY <1>5, <2>3, <2>4, <2>5 DEF HookInv
<1> QED
  BY <1>7, <1>8, <1>9 DEF webex_reconcile_one, webex_create_webhook_with_resource, g

(* Listing: what is there is in the list; a set-up that overlaps another is a clash. *)
LEMMA ListedHooks ==
    ASSUME PlaceInv, HookInv, NEW p \in Procs, webex_list_webhooks(p)
    PROVE  HookInv'
<1> DEFINE a == ask[p].provider
<1>0. a \in Providers /\ pc[p] = "list"
  BY RequestFields DEF PlaceInv, SubmitSteps, webex_list_webhooks
<1>1. ask' = ask /\ hooks' = hooks
  BY DEF webex_list_webhooks, otherVars
<1>2. CASE pc'[p] = "done"
  <2>1. listed' = listed /\ clash' = clash /\ \A q \in Procs : q # p => pc'[q] = pc[q]
    BY <1>2 DEF webex_list_webhooks, GoOn, Answer, Go, PlaceInv
  <2> QED
    BY <1>1, <1>2, <2>1, HookKept
<1>3. CASE pc'[p] # "done"
  <2>1. /\ pc' = [pc EXCEPT ![p] = "messages"] /\ clash \subseteq clash'
        /\ \A q \in Procs : q # p => listed'[q] = listed[q]
        /\ a \notin clash' => listed'[p] = HooksOf(a) /\ \A q \in Procs : ~Reconciling(q, a)
        /\ DOMAIN listed' = Procs
    BY <1>3 DEF webex_list_webhooks, GoOn, Answer, Go, PlaceInv, HookInv
  <2>2. pc'[p] = "messages" /\ \A q \in Procs : q # p => pc'[q] = pc[q]
    BY <2>1 DEF PlaceInv
  <2>3. OneHookPerName'
    BY <1>1, <2>1 DEF HookInv, OneHookPerName, HooksOf
  <2>4. \A q \in Procs : \A k : HookName(q, k)' = HookName(q, k) /\ (q # p => Known(q, k)' = Known(q, k))
    BY <1>1, <2>1 DEF HookName, Known
  <2>5. ASSUME NEW q \in Procs, q # p PROVE ListGood(q)'
    BY <1>1, <2>1, <2>2, <2>4, <2>5 DEF HookInv, ListGood, Due
  <2>6. ListGood(p)'
    <3> SUFFICES ASSUME a \notin clash', NEW k, NEW h \in hooks, h.account = a, h.name = HookName(p, k)
                 PROVE  Known(p, k)' # {}
      BY <1>1, <2>4 DEF ListGood
    <3>1. h \in listed'[p]
      BY <2>1 DEF HooksOf
    <3> QED
      BY <2>4, <3>1 DEF Known
  <2>7. ASSUME NEW b \in Providers \ clash', NEW q1 \in Procs, NEW q2 \in Procs,
               Reconciling(q1, b)', Reconciling(q2, b)'
        PROVE  q1 = q2
    <3>1. \A q \in Procs : q # p /\ Reconciling(q, b)' => Reconciling(q, b)
      BY <1>1, <2>2 DEF Reconciling
    <3>2. CASE q1 # p /\ q2 # p
      BY <2>1, <2>7, <3>1, <3>2 DEF HookInv
    <3>3. CASE q1 = p \/ q2 = p
      <4>1. b = a
        BY <1>1, <2>7, <3>3 DEF Reconciling
      <4> QED
        BY <2>1, <2>7, <3>1, <4>1
    <3> QED
      BY <3>2, <3>3
  <2> QED
    BY <1>1, <2>1, <2>3, <2>5, <2>6, <2>7 DEF HookInv, IsHook
<1> QED
  BY <1>2, <1>3

LEMMA HookStep ==
    ASSUME PlaceInv, HookInv, NEW p \in Procs, Step(p)
    PROVE  HookInv'
<1>1. ASSUME ask' = ask, hooks' = hooks, listed' = listed, clash \subseteq clash',
             \E x \in OnboardSteps \ {"messages", "cards"} : pc' = [pc EXCEPT ![p] = x]
      PROVE  HookInv'
  <2>1. \A q \in Procs : pc'[q] = pc[q] \/ pc'[q] \notin {"messages", "cards"}
    BY <1>1 DEF PlaceInv
  <2> QED
    BY <1>1, <2>1, HookKept
<1> USE DEF otherVars, rulesVars, hookVars, OnboardSteps, SubmitSteps, RuleSteps, OtherSteps, Answer, GoOn, Go, Failed,
            RulesFailed
<1>2. CASE Receive(p) \/ StoreSecrets(p) \/ BackupEnvelope(p) \/ CreateTmp(p) \/ WriteTmp(p) \/ RenameTmp(p)
  BY <1>1, <1>2 DEF Receive, AfterReceive, StoreSecrets, BackupEnvelope, CreateTmp, WriteTmp, RenameTmp
<1>3. CASE try_emit_pack_config_input(p) \/ ReadRules(p) \/ TruncateRules(p) \/ WriteRules(p) \/ RemoveProviderDir(p)
  BY <1>1, <1>3 DEF try_emit_pack_config_input, ReadRules, TruncateRules, WriteRules, AfterRules, RemoveProviderDir
<1>4. CASE RunFlows(p) \/ PolicyCommand(p) \/ SyncProject(p) \/ copy_resolved_manifest(p)
  BY <1>1, <1>4 DEF RunFlows, PolicyCommand, SyncProject, copy_resolved_manifest
<1>5. CASE CreateScope(p) \/ CheckFile(p) \/ MakeFile(p)
  BY <1>1, <1>5, ZenonT(60) DEF CreateScope, CheckFile, MakeFile
<1>6. CASE setup_telegram_webhook(p) \/ slack_push_manifest(p)
  <2>1. ask' = ask /\ listed' = listed /\ clash' = clash /\ pc' = [pc EXCEPT ![p] = "done"]
    BY <1>6 DEF setup_telegram_webhook, slack_push_manifest
  <2>2. hooks' = hooks \/ hooks' = Replaced(p)
    BY <1>6 DEF setup_telegram_webhook, slack_push_manifest
  <2>3. CASE hooks' = hooks
    BY <1>1, <2>1, <2>3
  <2>4. CASE hooks' = Replaced(p)
    BY <2>1, <2>4, ReplacedHooks
  <2> QED
    BY <2>2, <2>3, <2>4
<1>7. CASE setup_slack_manifest(p)
  <2>1. /\ ask' = ask /\ hooks' = hooks /\ clash' = clash /\ pc[p] = "set"
        /\ pc'[p] \in {"push", "done"} /\ DOMAIN listed' = Procs
        /\ \A q \in Procs : q # p => pc'[q] = pc[q] /\ listed'[q] = listed[q]
    BY <1>7 DEF setup_slack_manifest, PlaceInv, HookInv
  <2>2. OneHookPerName'
    BY <2>1 DEF HookInv, OneHookPerName, HooksOf
  <2>3. \A q \in Procs : \A k : HookName(q, k)' = HookName(q, k) /\ (q # p => Known(q, k)' = Known(q, k))
    BY <2>1 DEF HookName, Known
  <2>4. ASSUME NEW q \in Procs PROVE ListGood(q)'
    BY <2>1, <2>3 DEF HookInv, ListGood, Due
  <2>5. \A q \in Procs : \A account : Reconciling(q, account)' => Reconciling(q, account)
    BY <2>1 DEF Reconciling
  <2> QED
    BY <2>1, <2>2, <2>4, <2>5 DEF HookInv, IsHook
<1>8. CASE webex_list_webhooks(p)
  BY <1>8, ListedHooks
<1>9. CASE ReconcileMessages(p)
  <2>1. /\ ask' = ask /\ listed' = listed /\ clash' = clash /\ pc[p] = "messages" /\ pc' = [pc EXCEPT ![p] = "cards"]
        /\ webex_reconcile_one(p, "messages")
    BY <1>9 DEF ReconcileMessages
  <2> QED
    BY <2>1, ReconciledHooks
<1>10. CASE ReconcileCards(p)
  <2>1. /\ ask' = ask /\ listed' = listed /\ clash' = clash /\ pc[p] = "cards" /\ pc' = [pc EXCEPT ![p] = "done"]
        /\ webex_reconcile_one(p, "cards")
    BY <1>10 DEF ReconcileCards
  <2> QED
    BY <2>1, ReconciledHooks
<1> QED
  BY <1>2, <1>3, <1>4, <1>5, <1>6, <1>7, <1>8, <1>9, <1>10 DEF Step

(***************************************************************************)
(* An account has one webhook of a name however often a set-up is repeated, *)
(* fails or dies (webex_reconcile_one), unless two set-ups of the account   *)
(* overlapped or a list could not be read.                                  *)
(***************************************************************************)
THEOREM WebhooksNotDoubled == OnboardSpec => []OneHookPerName
<1>1. ASSUME OnboardStarts PROVE HookInv
  <2>1. PICK requests, there, rules, hooked, stored :
          /\ hooked \in SUBSET WebhookRec /\ OnboardInit(requests, there, rules, hooked, stored)
          /\ \A g, h \in hooked : g.account = h.account /\ g.name = h.name => g = h
    BY <1>1 DEF OnboardStarts
  <2>2. \A h \in hooks : IsHook(h)
    BY <2>1 DEF OnboardInit, WebhookRec, IsHook
  <2>3. OneHookPerName
    BY <2>1 DEF OnboardInit, OneHookPerName, HooksOf
  <2>4. \A p \in Procs : pc[p] = "idle" /\ DOMAIN listed = Procs
    BY <2>1 DEF OnboardInit
  <2> QED
    BY <2>1, <2>2, <2>3, <2>4 DEF HookInv, OnboardInit, ListGood, Reconciling
<1>2. ASSUME PlaceInv, HookInv, [Onboard]_onboarding PROVE HookInv'
  <2>1. ASSUME NEW dying \in SUBSET Procs, Die(dying) PROVE HookInv'
    <3>1. \A q \in Procs : pc'[q] = pc[q] \/ pc'[q] \notin {"messages", "cards"}
      BY <1>2, <2>1, DieFacts
    <3> QED
      BY <1>2, <2>1, <3>1, DieFacts, HookKept
  <2>2. CASE UNCHANGED onboarding
    BY <1>2, <2>2, HookKept DEF onboarding, onboardVars
  <2> QED
    BY <1>2, <2>1, <2>2, OnboardStep, HookStep
<1>3. HookInv => OneHookPerName
  BY DEF HookInv
<1> QED
  BY <1>1, <1>2, <1>3, PlaceStart, PlaceKept, PTL DEF OnboardSpec

-----------------------------------------------------------------------------
(* Config envelopes. *)

InUse == (Range(tmp) \union Range(env) \union Range(fd)) \ {NoNode}

(* The processes that will not make a file any more. *)
Past == {p \in Procs : pc[p] \notin {"idle", "secrets", "backup", "create"}}

IsWriting(p) == pc[p] \in {"write", "rename"}

NodeTypes ==
    /\ fd \in [Procs -> Nodes \union {NoNode}] /\ node \in [Nodes -> Procs \union {Old, Empty, Torn}]
    /\ tmp \in [Providers -> Nodes \union {NoNode}] /\ env \in [Providers -> Nodes \union {NoNode}]

(* No file has two names. *)
NamesApart ==
    \A r, s \in Providers :
      /\ tmp[r] # NoNode => tmp[r] # env[s] /\ (tmp[r] = tmp[s] => r = s)
      /\ env[r] # NoNode => (env[r] = env[s] => r = s)

(* What a process writes to is its provider's alone and, unless two wrote it at   *)
(* the same time, its own: the temporary file or one whose name is gone.          *)
WriterApart(p) ==
    IsWriting(p) =>
      LET r == ask[p].provider
      IN /\ fd[p] \in Nodes /\ \A s \in Providers : s # r => fd[p] # tmp[s] /\ fd[p] # env[s]
         /\ r \notin clash => /\ fd[p] # env[r] /\ tmp[r] \in {NoNode, fd[p]}
                              /\ node[fd[p]] = IF pc[p] = "write" THEN Empty ELSE p

WritersApart(p, q) ==
    IsWriting(p) /\ IsWriting(q) =>
      /\ ask[p].provider # ask[q].provider => fd[p] # fd[q]
      /\ ask[p].provider = ask[q].provider /\ ask[p].provider \notin clash => p = q

EnvelopeInv ==
    /\ NodeTypes /\ NamesApart /\ EnvelopeWhole
    /\ Cardinality(InUse) <= 1 + Cardinality(Past)
    /\ \A p \in Procs : WriterApart(p)
    /\ \A p, q \in Procs : WritersApart(p, q)

(* There is always a free file for a process that makes one. *)
LEMMA FreeNode ==
    ASSUME NodeTypes, Cardinality(InUse) <= 1 + Cardinality(Past), NEW p \in Procs, p \notin Past
    PROVE  /\ Free \in Nodes /\ \A r \in Providers : Free # tmp[r] /\ Free # env[r]
           /\ \A q \in Procs : Free # fd[q]
<1> DEFINE Named == Range(tmp) \union Range(env) \union Range(fd)
           k == Cardinality(Procs)
<1>1. IsFiniteSet(Procs) /\ k \in Nat
  BY OnboardAssumption, FS_CardinalityType
<1>2. Cardinality(Procs \ {p}) = k - 1 /\ IsFiniteSet(Procs \ {p})
  BY <1>1, FS_RemoveElement
<1>3. Cardinality(Past) <= k - 1 /\ Cardinality(Past) \in Nat
  <2>1. Past \subseteq Procs \ {p}
    BY DEF Past
  <2> QED
    BY <1>2, <2>1, FS_Subset, FS_CardinalityType
<1>4. IsFiniteSet(Nodes) /\ Cardinality(Nodes) = k + 1
  <2>1. IsFiniteSet(1..(k + 1)) /\ Cardinality(1..(k + 1)) = k + 1
    BY <1>1, FS_Interval
  <2> QED
    BY <2>1 DEF Nodes
<1>5. InUse \subseteq Nodes /\ IsFiniteSet(InUse) /\ Cardinality(InUse) \in Nat
  <2>1. InUse \subseteq Nodes
    BY DEF InUse, Range, NodeTypes
  <2> QED
    BY <1>4, <2>1, FS_Subset, FS_CardinalityType
<1>6. \E n \in Nodes : n \notin Named
  <2> SUFFICES ASSUME \A n \in Nodes : n \in Named PROVE FALSE
    OBVIOUS
  <2>1. NoNode \notin Nodes
    BY <1>1 DEF NoNode, Nodes
  <2>2. Nodes \subseteq InUse
    BY <2>1 DEF InUse
  <2>3. Cardinality(Nodes) <= Cardinality(InUse)
    BY <1>5, <2>2, FS_Subset
  <2> QED
    BY <1>1, <1>3, <1>4, <1>5, <2>3
<1>7. Free \in Nodes /\ Free \notin Named
  BY <1>6 DEF Free
<1> QED
  BY <1>7 DEF Range, NodeTypes

(* More are past it and no more files are in use. *)
LEMMA RoomKept ==
    ASSUME NodeTypes, Cardinality(InUse) <= 1 + Cardinality(Past), InUse' \subseteq InUse, Past \subseteq Past'
    PROVE  Cardinality(InUse') <= 1 + Cardinality(Past')
<1>1. IsFiniteSet(Past') /\ IsFiniteSet(InUse) /\ Cardinality(Past) \in Nat /\ Cardinality(Past') \in Nat
  <2>1. IsFiniteSet(Procs) /\ Past' \subseteq Procs /\ Past \subseteq Procs
    BY OnboardAssumption DEF Past
  <2>2. IsFiniteSet(Nodes)
    <3>1. Cardinality(Procs) \in Nat
      BY <2>1, FS_CardinalityType
    <3>2. IsFiniteSet(1..(Cardinality(Procs) + 1))
      BY <3>1, FS_Interval
    <3> QED
      BY <3>2 DEF Nodes
  <2>3. InUse \subseteq Nodes
    BY DEF InUse, Range, NodeTypes
  <2>4. IsFiniteSet(Past') /\ IsFiniteSet(Past) /\ IsFiniteSet(InUse)
    BY <2>1, <2>2, <2>3, FS_Subset
  <2> QED
    BY <2>4, FS_CardinalityType
<1>2. Cardinality(Past) <= Cardinality(Past') /\ Cardinality(InUse') <= Cardinality(InUse)
  BY <1>1, FS_Subset
<1>3. Cardinality(InUse') \in Nat /\ Cardinality(InUse) \in Nat
  BY <1>1, FS_Subset, FS_CardinalityType
<1> QED
  BY <1>1, <1>2, <1>3

(* A step that writes no file, and at most takes names away or closes files. *)
LEMMA EnvelopeKept ==
    ASSUME PlaceInv, EnvelopeInv, ask' = ask, node' = node, clash \subseteq clash', Past \subseteq Past',
           fd' \in [Procs -> Nodes \union {NoNode}],
           tmp' \in [Providers -> Nodes \union {NoNode}], env' \in [Providers -> Nodes \union {NoNode}],
           \A q \in Procs : fd'[q] \in {fd[q], NoNode},
           \A r \in Providers : tmp'[r] \in {tmp[r], NoNode} /\ env'[r] \in {env[r], NoNode},
           \A q \in Procs : IsWriting(q)' => pc'[q] = pc[q] /\ fd'[q] = fd[q]
    PROVE  EnvelopeInv'
<1>0. NoNode \notin Nodes
  <2>1. Cardinality(Procs) \in Nat
    BY OnboardAssumption, FS_CardinalityType
  <2> QED
    BY <2>1 DEF NoNode, Nodes
<1>1. NodeTypes'
  BY DEF EnvelopeInv, NodeTypes
<1>2. NamesApart'
  BY DEF EnvelopeInv, NamesApart
<1>3. EnvelopeWhole'
  BY DEF EnvelopeInv, EnvelopeWhole
<1>4. InUse' \subseteq InUse
  BY <1>1 DEF InUse, Range, NodeTypes, EnvelopeInv
<1>5. Cardinality(InUse') <= 1 + Cardinality(Past')
  BY <1>4, RoomKept DEF EnvelopeInv
<1>6. \A q \in Procs : IsWriting(q)' => IsWriting(q)
  BY DEF IsWriting
<1>7. ASSUME NEW q \in Procs PROVE WriterApart(q)'
  <2> SUFFICES ASSUME IsWriting(q)' PROVE WriterApart(q)'
    BY DEF WriterApart
  <2>1. IsWriting(q) /\ pc'[q] = pc[q] /\ fd'[q] = fd[q] /\ WriterApart(q)
    BY <1>6 DEF EnvelopeInv
  <2>2. ask[q].provider \in Providers
    BY <2>1, RequestFields DEF PlaceInv, SubmitSteps, IsWriting
  <2> QED
    BY <1>0, <2>1, <2>2 DEF WriterApart
<1>8. ASSUME NEW p \in Procs, NEW q \in Procs PROVE WritersApart(p, q)'
  BY <1>6 DEF EnvelopeInv, WritersApart
<1> QED
  BY <1>1, <1>2, <1>3, <1>5, <1>7, <1>8 DEF EnvelopeInv

(* A function keeps its type when one of its values changes. *)
LEMMA PutTyped ==
    \A A, B : \A f \in [A -> B] : \A a : \A b \in B : [f EXCEPT ![a] = b] \in [A -> B]
OBVIOUS

(* Making the temporary file. *)
LEMMA CreateApart ==
    ASSUME PlaceInv, EnvelopeInv, NEW p \in Procs, pc[p] = "create", ask' = ask, env' = env,
           LET r == ask[p].provider IN
             /\ fd' = [fd EXCEPT ![p] = TmpNode(r)] /\ tmp' = [tmp EXCEPT ![r] = TmpNode(r)]
             /\ node' = [node EXCEPT ![TmpNode(r)] = Empty]
             /\ clash' = (IF \E q \in Procs : Writing(q, r) THEN clash \union {r} ELSE clash),
           pc' = [pc EXCEPT ![p] = "write"]
    PROVE  EnvelopeInv'
<1>1. PICK r \in Providers : r = ask[p].provider
  BY RequestFields DEF PlaceInv, SubmitSteps
<1>t. NodeTypes /\ NamesApart /\ EnvelopeWhole /\ Cardinality(InUse) <= 1 + Cardinality(Past)
  BY DEF EnvelopeInv
<1>2. p \notin Past
  BY DEF Past
<1>0. NoNode \notin Nodes
  <2>1. Cardinality(Procs) \in Nat
    BY OnboardAssumption, FS_CardinalityType
  <2> QED
    BY <2>1 DEF NoNode, Nodes
<1>3. PICK n \in Nodes :
         /\ n = TmpNode(r) /\ \A s \in Providers : n # env[s] /\ (s # r => n # tmp[s])
         /\ \A q \in Procs : IsWriting(q) /\ ask[q].provider # r => n # fd[q]
  <2>1. CASE tmp[r] # NoNode
    <3>1. \A q \in Procs : IsWriting(q) /\ ask[q].provider # r => tmp[r] # fd[q]
      BY DEF EnvelopeInv, WriterApart
    <3> QED
      BY <1>t, <2>1, <3>1 DEF TmpNode, NamesApart, NodeTypes
  <2>2. CASE tmp[r] = NoNode
    BY <1>t, <1>2, <2>2, FreeNode DEF TmpNode
  <2> QED
    BY <2>1, <2>2
<1>4. /\ fd' = [fd EXCEPT ![p] = n] /\ tmp' = [tmp EXCEPT ![r] = n] /\ node' = [node EXCEPT ![n] = Empty]
      /\ clash' = (IF \E q \in Procs : Writing(q, r) THEN clash \union {r} ELSE clash)
  BY <1>1, <1>3
<1>5. /\ fd'[p] = n /\ \A q \in Procs : q # p => fd'[q] = fd[q] /\ pc'[q] = pc[q]
      /\ tmp'[r] = n /\ \A s \in Providers : s # r => tmp'[s] = tmp[s]
      /\ node'[n] = Empty /\ \A m \in Nodes : m # n => node'[m] = node[m]
      /\ pc'[p] = "write" /\ clash \subseteq clash'
  BY <1>t, <1>4 DEF NodeTypes, PlaceInv
<1>6. NodeTypes'
  <2>1. n \in Nodes \union {NoNode} /\ Empty \in Procs \union {Old, Empty, Torn}
    OBVIOUS
  <2>2. fd' \in [Procs -> Nodes \union {NoNode}]
    BY <1>t, <1>4, <2>1, PutTyped DEF NodeTypes
  <2>3. tmp' \in [Providers -> Nodes \union {NoNode}]
    <3>1. tmp \in [Providers -> Nodes \union {NoNode}] /\ tmp' = [tmp EXCEPT ![r] = n]
      BY <1>t, <1>4 DEF NodeTypes
    <3>2. [tmp EXCEPT ![r] = n] \in [Providers -> Nodes \union {NoNode}]
      BY <2>1, <3>1, PutTyped
    <3> QED
      BY ONLY <3>1, <3>2
  <2>4. node' \in [Nodes -> Procs \union {Old, Empty, Torn}]
    BY <1>t, <1>4, <2>1, PutTyped DEF NodeTypes
  <2>5. env' \in [Providers -> Nodes \union {NoNode}]
    BY <1>t DEF NodeTypes
  <2> QED
    BY <2>2, <2>3, <2>4, <2>5 DEF NodeTypes
<1>7. NamesApart'
  BY <1>0, <1>3, <1>5, <1>t DEF NamesApart
<1>8. EnvelopeWhole'
  BY <1>3, <1>5, <1>t DEF EnvelopeWhole, NodeTypes
<1>9. Cardinality(InUse') <= 1 + Cardinality(Past')
  <2>1. InUse' \subseteq InUse \union {n}
    <3> SUFFICES ASSUME NEW x \in InUse' PROVE x \in InUse \union {n}
      OBVIOUS
    <3>1. x # NoNode /\ (x \in Range(tmp)' \/ x \in Range(env)' \/ x \in Range(fd)')
      BY DEF InUse
    <3>2. x \in Range(tmp)' => x = n \/ x \in Range(tmp)
      BY <1>5, <1>6, <1>t DEF Range, NodeTypes
    <3>3. x \in Range(fd)' => x = n \/ x \in Range(fd)
      BY <1>5, <1>6, <1>t DEF Range, NodeTypes
    <3>4. x \in Range(env)' => x \in Range(env)
      BY DEF Range
    <3> QED
      BY <3>1, <3>2, <3>3, <3>4 DEF InUse
  <2>2. Past' = Past \union {p}
    BY <1>5 DEF Past
  <2>3. IsFiniteSet(Procs) /\ Past \subseteq Procs
    BY OnboardAssumption DEF Past
  <2>4. IsFiniteSet(Nodes)
    <3>1. Cardinality(Procs) \in Nat
      BY <2>3, FS_CardinalityType
    <3>2. IsFiniteSet(1..(Cardinality(Procs) + 1))
      BY <3>1, FS_Interval
    <3> QED
      BY <3>2 DEF Nodes
  <2>5. InUse \subseteq Nodes
    BY <1>t DEF InUse, Range, NodeTypes
  <2>6. IsFiniteSet(InUse) /\ IsFiniteSet(Past) /\ IsFiniteSet(InUse \union {n})
    BY <2>3, <2>4, <2>5, FS_Subset, FS_AddElement
  <2>7. Cardinality(Past') = Cardinality(Past) + 1
    BY <1>2, <2>2, <2>6, FS_AddElement
  <2>8. Cardinality(InUse \union {n}) <= Cardinality(InUse) + 1
    BY <2>6, FS_AddElement, FS_CardinalityType
  <2>9. Cardinality(InUse') <= Cardinality(InUse \union {n}) /\ IsFiniteSet(InUse')
    BY <2>1, <2>6, FS_Subset
  <2>10. /\ Cardinality(InUse') \in Nat /\ Cardinality(InUse) \in Nat /\ Cardinality(InUse \union {n}) \in Nat
         /\ Cardinality(Past) \in Nat
    BY <2>6, <2>9, FS_CardinalityType
  <2> QED
    BY <1>t, <2>7, <2>8, <2>9, <2>10
<1>10. \A q \in Procs : q # p => (IsWriting(q)' <=> IsWriting(q))
  BY <1>5 DEF IsWriting
<1>11. ASSUME NEW q \in Procs, q # p, IsWriting(q), ask[q].provider = r PROVE r \in clash'
  <2>1. Writing(q, r)
    BY <1>11 DEF Writing, IsWriting, PlaceInv, SubmitSteps
  <2> QED
    BY <1>4, <2>1
<1>12. ASSUME NEW q \in Procs PROVE WriterApart(q)'
  <2>1. CASE q = p
    BY <1>1, <1>3, <1>5, <2>1 DEF WriterApart
  <2>2. CASE q # p /\ IsWriting(q)
    <3>1. WriterApart(q) /\ ask[q].provider \in Providers
      BY <2>2, RequestFields DEF EnvelopeInv, PlaceInv, SubmitSteps, IsWriting
    <3>2. CASE ask[q].provider = r
      <4>1. r \in clash'
        BY <1>11, <2>2, <3>2
      <4> QED
        BY <1>5, <2>2, <3>1, <3>2, <4>1 DEF WriterApart
    <3>3. CASE ask[q].provider # r
      <4>1. fd[q] # n
        BY <1>3, <2>2, <3>3
      <4> QED
        BY <1>5, <2>2, <3>1, <3>3, <4>1 DEF WriterApart
    <3> QED
      BY <3>2, <3>3
  <2> QED
    BY <1>10, <2>1, <2>2 DEF WriterApart
<1>13. ASSUME NEW q1 \in Procs, NEW q2 \in Procs PROVE WritersApart(q1, q2)'
  <2>1. CASE q1 # p /\ q2 # p
    BY <1>5, <1>10, <2>1 DEF EnvelopeInv, WritersApart
  <2>2. ASSUME NEW q \in Procs, q # p PROVE WritersApart(p, q)' /\ WritersApart(q, p)'
    BY <1>1, <1>3, <1>5, <1>10, <1>11, <2>2 DEF WritersApart
  <2>3. CASE q1 = p /\ q2 = p
    BY <2>3 DEF WritersApart
  <2> QED
    BY <2>1, <2>2, <2>3
<1> QED
  BY <1>6, <1>7, <1>8, <1>9, <1>12, <1>13 DEF EnvelopeInv

(* Writing it. *)
LEMMA WriteApart ==
    ASSUME PlaceInv, EnvelopeInv, NEW p \in Procs, WriteTmp(p)
    PROVE  EnvelopeInv'
<1>1. PICK r \in Providers : r = ask[p].provider
  BY RequestFields DEF PlaceInv, SubmitSteps, WriteTmp
<1>t. NodeTypes /\ NamesApart /\ EnvelopeWhole /\ Cardinality(InUse) <= 1 + Cardinality(Past) /\ WriterApart(p)
  BY DEF EnvelopeInv
<1>2. /\ ask' = ask /\ fd' = fd /\ tmp' = tmp /\ env' = env /\ clash' = clash /\ pc[p] = "write"
      /\ pc'[p] \in {"rename", "done"} /\ \A q \in Procs : q # p => pc'[q] = pc[q]
  BY DEF WriteTmp, otherVars, GoOn, Failed, Answer, Go, PlaceInv
<1>3. PICK n \in Nodes : n = fd[p]
  BY <1>t, <1>2 DEF WriterApart, IsWriting
<1>4. PICK c \in Procs \union {Torn} :
         node' = [node EXCEPT ![n] = c] /\ (node[n] = Empty /\ pc'[p] = "rename" => c = p)
  BY <1>2, <1>3 DEF WriteTmp, GoOn, Failed, Answer, Go, PlaceInv
<1>5. node'[n] = c /\ \A m \in Nodes : m # n => node'[m] = node[m]
  BY <1>4, <1>t DEF NodeTypes
<1>6. NodeTypes' /\ NamesApart'
  BY <1>2, <1>4, <1>t DEF NodeTypes, NamesApart
<1>7. /\ \A s \in Providers : s # r => n # env[s] /\ n # tmp[s]
      /\ r \notin clash => n # env[r] /\ node[n] = Empty
  BY <1>1, <1>2, <1>3, <1>t DEF WriterApart, IsWriting
<1>8. EnvelopeWhole'
  BY <1>2, <1>5, <1>7, <1>t DEF EnvelopeWhole, NodeTypes
<1>9. Cardinality(InUse') <= 1 + Cardinality(Past')
  <2>1. InUse' = InUse
    BY <1>2 DEF InUse, Range
  <2>2. Past \subseteq Past'
    BY <1>2 DEF Past
  <2> QED
    BY <1>t, <2>1, <2>2, RoomKept
<1>10. ASSUME NEW q \in Procs PROVE WriterApart(q)'
  <2>1. CASE q = p
    BY <1>1, <1>2, <1>3, <1>4, <1>5, <1>7, <1>t, <2>1 DEF WriterApart, IsWriting
  <2>2. CASE q # p /\ IsWriting(q)
    <3>1. WriterApart(q) /\ WritersApart(p, q) /\ IsWriting(p)
      BY <1>2 DEF EnvelopeInv, IsWriting
    <3>2. ask[q].provider \notin clash => fd[q] # n
      BY <1>3, <2>2, <3>1 DEF WritersApart
    <3> QED
      BY <1>2, <1>5, <2>2, <3>1, <3>2 DEF WriterApart
  <2> QED
    BY <1>2, <2>1, <2>2 DEF WriterApart, IsWriting
<1>11. \A q \in Procs : IsWriting(q)' => IsWriting(q)
  BY <1>2 DEF IsWriting
<1>12. \A q1, q2 \in Procs : WritersApart(q1, q2)'
  BY <1>2, <1>11 DEF EnvelopeInv, WritersApart
<1> QED
  BY <1>6, <1>8, <1>9, <1>10, <1>12 DEF EnvelopeInv

(* Renaming it. *)
LEMMA RenameApart ==
    ASSUME PlaceInv, EnvelopeInv, NEW p \in Procs, RenameTmp(p)
    PROVE  EnvelopeInv'
<1>1. PICK r \in Providers : r = ask[p].provider
  BY RequestFields DEF PlaceInv, SubmitSteps, RenameTmp
<1>t. NodeTypes /\ NamesApart /\ EnvelopeWhole /\ Cardinality(InUse) <= 1 + Cardinality(Past) /\ WriterApart(p)
  BY DEF EnvelopeInv
<1>2. /\ ask' = ask /\ node' = node /\ clash' = clash /\ pc[p] = "rename" /\ fd' = [fd EXCEPT ![p] = NoNode]
      /\ pc'[p] \in {"input", "done"} /\ \A q \in Procs : q # p => pc'[q] = pc[q]
  BY DEF RenameTmp, otherVars, GoOn, Failed, Answer, Go, PlaceInv
<1>0. NoNode \notin Nodes
  <2>1. Cardinality(Procs) \in Nat
    BY OnboardAssumption, FS_CardinalityType
  <2> QED
    BY <2>1 DEF NoNode, Nodes
<1>3. fd' \in [Procs -> Nodes \union {NoNode}] /\ fd'[p] = NoNode /\ \A q \in Procs : q # p => fd'[q] = fd[q]
  BY <1>2, <1>t DEF NodeTypes
<1>4. \A q \in Procs : IsWriting(q)' => q # p /\ pc'[q] = pc[q] /\ fd'[q] = fd[q]
  BY <1>2, <1>3 DEF IsWriting
<1>5. Past \subseteq Past'
  BY <1>2 DEF Past
<1>6. CASE tmp' = tmp /\ env' = env
  BY <1>2, <1>3, <1>4, <1>5, <1>6, <1>t, EnvelopeKept DEF NodeTypes
<1>7. CASE tmp[r] # NoNode /\ env' = [env EXCEPT ![r] = tmp[r]] /\ tmp' = [tmp EXCEPT ![r] = NoNode]
  <2>1. /\ env'[r] = tmp[r] /\ tmp'[r] = NoNode /\ \A s \in Providers : s # r => env'[s] = env[s] /\ tmp'[s] = tmp[s]
        /\ NodeTypes'
    BY <1>2, <1>3, <1>7, <1>t DEF NodeTypes
  <2>2. NamesApart'
    BY <1>7, <1>t, <2>1 DEF NamesApart
  <2>3. r \notin clash => tmp[r] = fd[p] /\ node[fd[p]] = p
    BY <1>1, <1>2, <1>7, <1>t DEF WriterApart, IsWriting
  <2>4. EnvelopeWhole'
    <3>1. p \notin {Empty, Torn}
      BY OnboardAssumption
    <3> QED
      BY <1>2, <1>t, <2>1, <2>3, <3>1 DEF EnvelopeWhole
  <2>5. InUse' \subseteq InUse
    <3> SUFFICES ASSUME NEW x \in InUse' PROVE x \in InUse
      OBVIOUS
    <3>1. x # NoNode /\ (x \in Range(tmp)' \/ x \in Range(env)' \/ x \in Range(fd)')
      BY DEF InUse
    <3>2. x \in Range(tmp)' => x \in Range(tmp)
      BY <2>1, <3>1, <1>t DEF Range, NodeTypes
    <3>3. x \in Range(env)' => x \in Range(tmp) \/ x \in Range(env)
      BY <2>1, <1>t DEF Range, NodeTypes
    <3>4. x \in Range(fd)' => x \in Range(fd)
      BY <1>3, <3>1, <1>t DEF Range, NodeTypes
    <3> QED
      BY <3>1, <3>2, <3>3, <3>4 DEF InUse
  <2>6. Cardinality(InUse') <= 1 + Cardinality(Past')
    BY <1>5, <1>t, <2>5, RoomKept
  <2>7. ASSUME NEW q \in Procs, IsWriting(q)' PROVE WriterApart(q)'
    <3>1. q # p /\ IsWriting(q) /\ WriterApart(q) /\ pc'[q] = pc[q] /\ fd'[q] = fd[q] /\ IsWriting(p)
      BY <1>2, <1>4, <2>7 DEF EnvelopeInv, IsWriting
    <3>2. ask[q].provider = r => r \in clash
      BY <1>1, <3>1 DEF EnvelopeInv, WritersApart
    <3>3. ask[q].provider # r => fd[q] # tmp[r]
      BY <3>1 DEF WriterApart
    <3>4. ask[q].provider \in Providers
      BY <3>1, RequestFields DEF PlaceInv, SubmitSteps, IsWriting
    <3>5. CASE ask[q].provider = r
      <4>1. fd[q] \in Nodes /\ \A s \in Providers : s # r => fd[q] # tmp[s] /\ fd[q] # env[s]
        BY <3>1, <3>5 DEF WriterApart
      <4> QED
        BY <1>2, <2>1, <3>1, <3>2, <3>5, <4>1 DEF WriterApart
    <3>6. CASE ask[q].provider # r
      <4>1. PICK s \in Providers : s = ask[q].provider
        BY <3>4
      <4>2. fd[q] \in Nodes /\ fd[q] # NoNode
        BY <1>0, <3>1 DEF WriterApart
      <4>3. \A u \in Providers : u # s => fd[q] # tmp'[u] /\ fd[q] # env'[u]
        BY <2>1, <3>1, <3>3, <3>6, <4>1, <4>2 DEF WriterApart
      <4>4. tmp'[s] = tmp[s] /\ env'[s] = env[s]
        BY <2>1, <3>6, <4>1
      <4> QED
        BY <1>2, <3>1, <4>1, <4>2, <4>3, <4>4 DEF WriterApart
    <3> QED
      BY <3>5, <3>6
  <2>8. \A q1, q2 \in Procs : WritersApart(q1, q2)'
    BY <1>2, <1>4 DEF EnvelopeInv, WritersApart, IsWriting
  <2>9. \A q \in Procs : WriterApart(q)'
    BY <2>7 DEF WriterApart
  <2> QED
    BY <2>1, <2>2, <2>4, <2>6, <2>8, <2>9 DEF EnvelopeInv
<1> QED
  BY <1>1, <1>6, <1>7 DEF RenameTmp, Failed

(* A step that has nothing to do with the envelopes' files. *)
Aside ==
    /\ ask' = ask /\ fd' = fd /\ node' = node /\ tmp' = tmp /\ env' = env /\ clash \subseteq clash'
    /\ \A q \in Procs : q \in Past => pc'[q] \notin {"idle", "secrets", "backup", "create"}
    /\ \A q \in Procs : pc'[q] \in {"write", "rename"} => pc'[q] = pc[q]

LEMMA AsideKept ==
    ASSUME PlaceInv, EnvelopeInv, Aside
    PROVE  EnvelopeInv'
<1>1. Past \subseteq Past' /\ \A q \in Procs : IsWriting(q)' => pc'[q] = pc[q] /\ fd'[q] = fd[q]
  BY DEF Past, Aside, IsWriting
<1>2. NodeTypes
  BY DEF EnvelopeInv
<1>3. /\ fd' \in [Procs -> Nodes \union {NoNode}]
      /\ tmp' \in [Providers -> Nodes \union {NoNode}] /\ env' \in [Providers -> Nodes \union {NoNode}]
  BY <1>2 DEF Aside, NodeTypes
<1> QED
  BY <1>1, <1>3, EnvelopeKept DEF Aside

LEMMA EnvelopeStep ==
    ASSUME PlaceInv, EnvelopeInv, NEW p \in Procs, Step(p)
    PROVE  EnvelopeInv'
<1>1. CASE CreateTmp(p)
  <2>1. CASE UNCHANGED <<fd, tmp, node, clash>> /\ Failed(p)
    <3>1. Aside
      BY <1>1, <2>1 DEF CreateTmp, Failed, Answer, Go, otherVars, PlaceInv, Past, Aside
    <3> QED
      BY <3>1, AsideKept
  <2>2. CASE ~(UNCHANGED <<fd, tmp, node, clash>> /\ Failed(p))
    <3>1. /\ pc[p] = "create" /\ ask' = ask /\ env' = env /\ pc' = [pc EXCEPT ![p] = "write"]
          /\ LET r == ask[p].provider IN
               /\ fd' = [fd EXCEPT ![p] = TmpNode(r)] /\ tmp' = [tmp EXCEPT ![r] = TmpNode(r)]
               /\ node' = [node EXCEPT ![TmpNode(r)] = Empty]
               /\ clash' = (IF \E q \in Procs : Writing(q, r) THEN clash \union {r} ELSE clash)
      BY <1>1, <2>2 DEF CreateTmp, GoOn, Go, otherVars
    <3> QED
      BY <3>1, CreateApart
  <2> QED
    BY <2>1, <2>2
<1>2. CASE WriteTmp(p)
  BY <1>2, WriteApart
<1>3. CASE RenameTmp(p)
  BY <1>3, RenameApart
<1>4. CASE RemoveProviderDir(p)
  <2>1. PICK r \in Providers : r = ask[p].provider
    BY <1>4, RequestFields DEF PlaceInv, SubmitSteps, RemoveProviderDir
  <2>2. NodeTypes
    BY DEF EnvelopeInv
  <2>3. /\ ask' = ask /\ fd' = fd /\ node' = node /\ clash' = clash /\ pc[p] = "rmdir" /\ pc' = [pc EXCEPT ![p] = "read"]
        /\ \/ tmp' = [tmp EXCEPT ![r] = NoNode] /\ env' = [env EXCEPT ![r] = NoNode]
           \/ tmp' = tmp /\ env' = env
    BY <1>4, <2>1 DEF RemoveProviderDir, GoOn, Go, otherVars
  <2>4. tmp' \in [Providers -> Nodes \union {NoNode}] /\ env' \in [Providers -> Nodes \union {NoNode}]
    BY <2>2, <2>3 DEF NodeTypes
  <2>5. \A s \in Providers : tmp'[s] \in {tmp[s], NoNode} /\ env'[s] \in {env[s], NoNode}
    BY <2>2, <2>3 DEF NodeTypes
  <2>6. Past \subseteq Past' /\ \A q \in Procs : IsWriting(q)' => pc'[q] = pc[q] /\ fd'[q] = fd[q]
    BY <2>3 DEF PlaceInv, Past, IsWriting
  <2>7. fd' \in [Procs -> Nodes \union {NoNode}]
    BY <2>2, <2>3 DEF NodeTypes
  <2> QED
    BY <2>3, <2>4, <2>5, <2>6, <2>7, EnvelopeKept
<1>5. ASSUME ~CreateTmp(p), ~WriteTmp(p), ~RenameTmp(p), ~RemoveProviderDir(p) PROVE Aside
  <2> USE DEF Answer, GoOn, Go, Failed, otherVars, envelopeVars, PlaceInv, Past, Aside, Arrives
  <2>1. CASE Receive(p)
    BY <2>1 DEF Receive, AfterReceive
  <2>2. CASE StoreSecrets(p)
    BY <2>2 DEF StoreSecrets
  <2>3. CASE BackupEnvelope(p)
    BY <2>3 DEF BackupEnvelope
  <2>4. CASE try_emit_pack_config_input(p)
    BY <2>4 DEF try_emit_pack_config_input
  <2>5. CASE ReadRules(p)
    BY <2>5 DEF ReadRules, RulesFailed
  <2>6. CASE TruncateRules(p)
    BY <2>6 DEF TruncateRules, RulesFailed
  <2>7. CASE WriteRules(p)
    BY <2>7 DEF WriteRules, RulesFailed, AfterRules
  <2>8. CASE RunFlows(p)
    BY <2>8 DEF RunFlows
  <2>9. CASE setup_telegram_webhook(p)
    BY <2>9 DEF setup_telegram_webhook
  <2>10. CASE setup_slack_manifest(p)
    BY <2>10 DEF setup_slack_manifest
  <2>11. CASE slack_push_manifest(p)
    BY <2>11 DEF slack_push_manifest
  <2>12. CASE webex_list_webhooks(p)
    BY <2>12 DEF webex_list_webhooks
  <2>13. CASE ReconcileMessages(p)
    BY <2>13 DEF ReconcileMessages
  <2>14. CASE ReconcileCards(p)
    BY <2>14 DEF ReconcileCards
  <2>15. CASE PolicyCommand(p)
    BY <2>15 DEF PolicyCommand
  <2>16. CASE SyncProject(p)
    BY <2>16 DEF SyncProject
  <2>17. CASE copy_resolved_manifest(p)
    BY <2>17 DEF copy_resolved_manifest
  <2>18. CASE CreateScope(p)
    BY <2>18 DEF CreateScope
  <2>19. CASE CheckFile(p)
    BY <2>19 DEF CheckFile
  <2>20. CASE MakeFile(p)
    BY <2>20 DEF MakeFile
  <2> QED
    BY <1>5, <2>1, <2>2, <2>3, <2>4, <2>5, <2>6, <2>7, <2>8, <2>9, <2>10,
       <2>11, <2>12, <2>13, <2>14, <2>15, <2>16, <2>17, <2>18, <2>19, <2>20 DEF Step
<1> QED
  BY <1>1, <1>2, <1>3, <1>4, <1>5, AsideKept

LEMMA EnvelopeStart ==
    ASSUME OnboardStarts
    PROVE  EnvelopeInv
<1>1. PICK requests, there, rules, hooked, stored : OnboardInit(requests, there, rules, hooked, stored)
  BY DEF OnboardStarts
<1>2. Cardinality(Procs) \in Nat
  BY OnboardAssumption, FS_CardinalityType
<1>3. 1 \in Nodes /\ NoNode \notin Nodes
  BY <1>2 DEF Nodes, NoNode
<1>4. NodeTypes
  BY <1>1, <1>3 DEF OnboardInit, NodeTypes
<1>5. \A r \in Providers : tmp[r] = NoNode /\ env[r] = IF r = stored THEN 1 ELSE NoNode
  BY <1>1 DEF OnboardInit
<1>6. NamesApart
  BY <1>5 DEF NamesApart, NoNode
<1>7. EnvelopeWhole
  <2>1. node[1] = Old
    BY <1>1, <1>3 DEF OnboardInit
  <2> QED
    BY <1>5, <2>1 DEF EnvelopeWhole, Old, Empty, Torn, NoNode
<1>8. Cardinality(InUse) <= 1 + Cardinality(Past)
  <2>1. \A p \in Procs : fd[p] = NoNode
    BY <1>1 DEF OnboardInit
  <2>2. InUse \subseteq {1}
    BY <1>4, <1>5, <2>1 DEF InUse, Range, NodeTypes
  <2>3. IsFiniteSet({1}) /\ Cardinality({1}) = 1
    BY FS_Singleton
  <2>4. Cardinality(InUse) <= 1 /\ IsFiniteSet(InUse)
    BY <2>2, <2>3, FS_Subset
  <2>5. IsFiniteSet(Past)
    BY OnboardAssumption, FS_Subset DEF Past
  <2>6. Cardinality(InUse) \in Nat /\ Cardinality(Past) \in Nat
    BY <2>4, <2>5, FS_CardinalityType
  <2> QED
    BY <2>4, <2>6
<1>9. \A p \in Procs : ~IsWriting(p)
  BY <1>1 DEF OnboardInit, IsWriting
<1> QED
  BY <1>4, <1>6, <1>7, <1>8, <1>9 DEF EnvelopeInv, WriterApart, WritersApart

(***************************************************************************)
(* A config envelope is whole whatever write failed and whoever died,       *)
(* unless two requests wrote it at the same time: it is written beside its  *)
(* name and renamed (write_provider_config_envelope).                       *)
(***************************************************************************)
THEOREM EnvelopesWhole == OnboardSpec => []EnvelopeWhole
<1>1. ASSUME PlaceInv, EnvelopeInv, [Onboard]_onboarding PROVE EnvelopeInv'
  <2>1. ASSUME NEW dying \in SUBSET Procs, Die(dying) PROVE EnvelopeInv'
    <3>1. NodeTypes
      BY <1>1 DEF EnvelopeInv
    <3>2. /\ ask' = ask /\ node' = node /\ tmp' = tmp /\ env' = env /\ clash' = clash
          /\ fd' = [p \in Procs |-> IF p \in dying THEN NoNode ELSE fd[p]]
          /\ \A p \in Procs : pc'[p] = pc[p] \/ pc'[p] = "dead"
          /\ \A p \in Procs : p \in dying /\ Running(p) => pc'[p] = "dead"
      BY <1>1, <2>1, DieFacts DEF Die, PlaceInv
    <3>3. fd' \in [Procs -> Nodes \union {NoNode}] /\ \A q \in Procs : fd'[q] \in {fd[q], NoNode}
      BY <3>1, <3>2 DEF NodeTypes
    <3>4. /\ tmp' \in [Providers -> Nodes \union {NoNode}] /\ env' \in [Providers -> Nodes \union {NoNode}]
          /\ \A r \in Providers : tmp'[r] \in {tmp[r], NoNode} /\ env'[r] \in {env[r], NoNode}
      BY <3>1, <3>2 DEF NodeTypes
    <3>5. Past \subseteq Past'
      BY <3>2 DEF Past
    <3>6. ASSUME NEW q \in Procs, IsWriting(q)' PROVE pc'[q] = pc[q] /\ fd'[q] = fd[q]
      BY <3>2, <3>6 DEF IsWriting, Running
    <3> QED
      BY <1>1, <3>2, <3>3, <3>4, <3>5, <3>6, EnvelopeKept
  <2>2. CASE UNCHANGED onboarding
    <3>1. Aside
      BY <2>2 DEF onboarding, onboardVars, Aside, Past
    <3> QED
      BY <1>1, <3>1, AsideKept
  <2> QED
    BY <1>1, <2>1, <2>2, OnboardStep, EnvelopeStep
<1>2. EnvelopeInv => EnvelopeWhole
  BY DEF EnvelopeInv
<1> QED
  BY <1>1, <1>2, PlaceStart, PlaceKept, EnvelopeStart, PTL DEF OnboardSpec

-----------------------------------------------------------------------------
(* The secrets that set-up commands write *)

(* A secret that was given is in the store unless a write raced with it. *)
GivenInv ==
    /\ DOMAIN given = DOMAIN vault
    /\ \A k \in DOMAIN given : given[k] \in Jobs \union {NoJob}
    /\ \A k \in DOMAIN given \ raced : given[k] # NoJob => vault[k] = given[k]

(* Seeding overwrites only what is missing, or is known to have raced. *)
LEMMA SeedKeepsGiven ==
    ASSUME GivenInv, NEW w \in Threads, SeedSecret(w)
    PROVE  GivenInv'
<1>1. given' = given
  BY DEF SeedSecret
<1>2. CASE UNCHANGED <<vault, raced>>
  BY <1>1, <1>2 DEF GivenInv
<1>3. CASE /\ vault' = [vault EXCEPT ![Secret(w)] = SeedFor(JobOf(w), item[w].provider)]
           /\ raced' = (IF ~SecretMissing(Secret(w)) THEN raced \union {Secret(w)} ELSE raced)
  <2> DEFINE s == Secret(w)
             v == SeedFor(JobOf(w), item[w].provider)
  <2>1. vault' = [vault EXCEPT ![s] = v] /\ DOMAIN vault' = DOMAIN vault /\ \A k \in DOMAIN vault : k # s => vault'[k] = vault[k]
    BY <1>3
  <2>2. raced \subseteq raced' /\ (vault[s] # None => s \in raced')
    BY <1>3 DEF SecretMissing
  <2> HIDE DEF s, v
  <2>3. ASSUME NEW k \in DOMAIN given \ raced', given[k] # NoJob PROVE vault'[k] = given[k]
    <3>1. vault[k] = given[k] /\ given[k] \in Jobs
      BY <2>2, <2>3 DEF GivenInv
    <3>2. k # s
      BY <2>2, <2>3, <3>1, SetUpAssumption
    <3> QED
      BY <2>1, <2>3, <3>1, <3>2 DEF GivenInv
  <2> QED
    BY <1>1, <2>1, <2>3 DEF GivenInv
<1> QED
  BY <1>2, <1>3 DEF SeedSecret

(* What is stored whole is the last that was given; what is not has raced. *)
LEMMA PersistKeepsGiven ==
    ASSUME GivenInv, NEW w \in Threads, PersistSecrets(w)
    PROVE  GivenInv'
<1> DEFINE s == Secret(w)
           j == w[1]
<1>0. j \in Jobs
  BY DEF Threads
<1>1. CASE UNCHANGED secretVars
  BY <1>1 DEF secretVars, GivenInv
<1>2. CASE vault' = [vault EXCEPT ![s] = j] /\ given' = [given EXCEPT ![s] = j] /\ raced' = raced \ {s}
  <2> HIDE DEF s, j
  <2> QED
    BY <1>0, <1>2 DEF GivenInv
<1>3. CASE vault' \in {vault, [vault EXCEPT ![s] = Broken]} /\ raced' = raced \union {s} /\ UNCHANGED given
  <2> HIDE DEF s, j
  <2> QED
    BY <1>3 DEF GivenInv
<1> QED
  BY <1>1, <1>2, <1>3 DEF PersistSecrets

(***************************************************************************)
(* Whatever commands seed placeholders before, after or meanwhile, a secret *)
(* that was given for a scope is what a component of that scope reads,      *)
(* unless it was given between another command's look at the store and its  *)
(* write, or was stored in part (ensure_pack_secrets,                       *)
(* persist_all_config_as_secrets).                                          *)
(***************************************************************************)
THEOREM GivenSecretsStay == SetUpSpec => []GivenSecretsRead
<1>1. ASSUME SetUpInit(job) PROVE GivenInv
  BY <1>1 DEF SetUpInit, GivenInv
<1>2. ASSUME GivenInv, [SetUp]_setupVars PROVE GivenInv'
  <2> USE DEF secretVars
  <2>1. CASE UNCHANGED secretVars
    BY <1>2, <2>1 DEF GivenInv
  <2>2. ASSUME NEW j \in Jobs, StartJob(j) \/ PlanDomain(j) \/ EndJob(j) \/ Join(j) PROVE UNCHANGED secretVars
    BY <2>2 DEF StartJob, PlanDomain, EndJob, Join
  <2>3. ASSUME NEW w \in Threads, TakeItem(w) PROVE UNCHANGED secretVars
    BY <2>3 DEF TakeItem
  <2>4. ASSUME NEW w \in Threads, ItemStep(w) PROVE GivenInv'
    <3>1. CASE LookForSecret(w) \/ SkipKnown(w) \/ AnswerItem(w) \/ PersistQaConfig(w) \/ RunFlow(w)
      BY <2>1, <3>1 DEF LookForSecret, SkipKnown, AnswerItem, PersistQaConfig, RunFlow
    <3>2. CASE WriteRecord(w) \/ WriteEnvelope(w) \/ VerifyWebhooks(w) \/ WriteStatus(w) \/ Upgrade(w) \/ Panic(w)
      BY <2>1, <3>2 DEF WriteRecord, WriteEnvelope, VerifyWebhooks, WriteStatus, Upgrade, Panic
    <3> QED
      BY <1>2, <2>4, <3>1, <3>2, SeedKeepsGiven, PersistKeepsGiven DEF ItemStep
  <2>5. CASE UNCHANGED setupVars
    BY <2>1, <2>5 DEF setupVars
  <2> QED
    BY <1>2, <2>1, <2>2, <2>3, <2>4, <2>5 DEF SetUp
<1>3. GivenInv => GivenSecretsRead
  BY SetUpAssumption DEF GivenInv, GivenSecretsRead, SecretRead
<1> QED
  BY <1>1, <1>2, <1>3, PTL DEF SetUpSpec

-----------------------------------------------------------------------------
(* The items of a plan *)

JobTypes ==
    /\ DOMAIN phase = Jobs /\ DOMAIN queue = Jobs /\ DOMAIN failed = Jobs /\ DOMAIN done = Jobs /\ DOMAIN planned = Jobs
    /\ DOMAIN thread = Threads /\ DOMAIN item = Threads
    /\ \A j \in Jobs : IsSeq(queue[j]) /\ IsSeq(planned[j]) /\ job[j].threads \in 1..MaxThreads
    /\ \A w \in Threads : thread[w] # "free" => w[2] <= job[w[1]].threads

Calm(j) == \A w \in Threads : w[1] = j => thread[w] # "panicked"

InHands(j, x) == \E w \in Threads : w[1] = j /\ thread[w] # "free" /\ x = item[w]
Accounted(j, x) == x \in done[j] \/ x \in failed[j] \/ Holds(queue[j], x) \/ InHands(j, x)

Resting(j) == phase[j] \in {"idle", "plan", "ok"}

(* Unless a thread panicked, an item has ended, is in the queue or in the    *)
(* hands of a thread, and between two plans there are neither.               *)
JobInv(j) ==
    /\ ~job[j].dry /\ Calm(j) =>
         /\ \A i \in DOMAIN planned[j] : Accounted(j, planned[j][i])
         /\ Resting(j) => queue[j] = <<>> /\ \A w \in Threads : w[1] = j => thread[w] = "free"
    /\ Resting(j) /\ ~job[j].best => failed[j] = {}

ItemsInv == JobTypes /\ \A j \in Jobs : JobInv(j)

(* A plan is a sequence. *)
LEMMA PlansAreSeqs ==
    ASSUME NEW b, NEW d
    PROVE  IsSeq(plan_runs(b, d)) /\ IsSeq(resolve_providers(b))
<1>1. ASSUME NEW packs \in SUBSET Copies PROVE IsSeq(InOrder(packs))
  <2>1. Cardinality(packs) \in Nat
    BY SetUpAssumption, FS_Subset, FS_CardinalityType
  <2> DEFINE n == Cardinality(packs)
             E(i) == CHOOSE c \in packs : Cardinality({x \in packs : x.order < c.order}) = i - 1
             S == {E(i) : i \in 1..n}
  <2>2. InOrder(packs) = [i \in 1..n |-> E(i)]
    BY Zenon DEF InOrder
  <2> HIDE DEF n, E
  <2>3. [i \in 1..n |-> E(i)] \in Seq(S)
    BY <2>1 DEF n
  <2> QED
    BY <2>2, <2>3 DEF IsSeq
<1> DEFINE p == {c \in filter_packs_by_allowed(b, Selected(b, d)) : c.flow}
           q == {c \in Copies : c.dir = "packs" /\ c.provider \in b.allowed}
<1>2. p \in SUBSET Copies
  BY DEF filter_packs_by_allowed, Selected, discover_provider_packs
<1>3. q \in SUBSET Copies
  OBVIOUS
<1>4. plan_runs(b, d) = InOrder(p) /\ resolve_providers(b) = InOrder(q)
  BY Zenon DEF plan_runs, resolve_providers
<1> QED
  BY <1>1, <1>2, <1>3, <1>4

(* What a thread with an item does: it goes on, or ends, well or not. *)
ThreadMoves(w) ==
    /\ phase[w[1]] = "run" /\ thread[w] \notin {"free", "panicked"}
    /\ UNCHANGED <<job, queue, planned, item>>
    /\ phase' \in {phase, [phase EXCEPT ![w[1]] = "error"], [phase EXCEPT ![w[1]] = "died"]}
    /\ \/ (\E s : s # "free" /\ thread' = [thread EXCEPT ![w] = s]) /\ UNCHANGED <<done, failed>>
       \/ thread' = [thread EXCEPT ![w] = "free"] /\ done' = [done EXCEPT ![w[1]] = @ \union {item[w]}] /\ UNCHANGED failed
       \/ thread' = [thread EXCEPT ![w] = "free"] /\ failed' = [failed EXCEPT ![w[1]] = @ \union {item[w]}] /\ UNCHANGED done

LEMMA ItemStepMoves ==
    ASSUME NEW w \in Threads, phase[w[1]] = "run", ItemStep(w)
    PROVE  ThreadMoves(w)
<1> DEFINE Same == UNCHANGED <<job, queue, planned, item>>
           Stays == phase' \in {phase, [phase EXCEPT ![w[1]] = "error"], [phase EXCEPT ![w[1]] = "died"]}
           On == (\E s : s # "free" /\ thread' = [thread EXCEPT ![w] = s]) /\ UNCHANGED <<done, failed>>
           Well == thread' = [thread EXCEPT ![w] = "free"] /\ done' = [done EXCEPT ![w[1]] = @ \union {item[w]}] /\ UNCHANGED failed
           Ill == thread' = [thread EXCEPT ![w] = "free"] /\ failed' = [failed EXCEPT ![w[1]] = @ \union {item[w]}] /\ UNCHANGED done
           At(s) == thread[w] = s /\ s \notin {"free", "panicked"}
<1>1. ASSUME NEW s, s # "free", GoesOn(w, s), item' = item PROVE Same /\ Stays /\ On
  BY <1>1 DEF GoesOn, Goto, planVars
<1>2. ASSUME ItemEnds(w), item' = item PROVE Same /\ Stays /\ Well
  BY <1>2 DEF ItemEnds, Goto
<1>3. ASSUME ItemFails(w), item' = item PROVE Same /\ Stays /\ Ill
  BY <1>3 DEF ItemFails, Goto
<1>4. ASSUME Same, Stays, On \/ Well \/ Ill, thread[w] \notin {"free", "panicked"} PROVE ThreadMoves(w)
  BY <1>4 DEF ThreadMoves
<1> HIDE DEF Same, Stays, On, Well, Ill
<1>5. CASE LookForSecret(w)
  BY <1>1, <1>3, <1>4, <1>5 DEF LookForSecret, SeedFails
<1>6. CASE SeedSecret(w)
  BY <1>1, <1>3, <1>4, <1>6 DEF SeedSecret, SeedFails, AfterSeed
<1>7. CASE SkipKnown(w)
  BY <1>1, <1>2, <1>4, <1>7 DEF SkipKnown
<1>8. CASE AnswerItem(w)
  BY <1>1, <1>3, <1>4, <1>8 DEF AnswerItem, AfterAnswers
<1>9. CASE PersistQaConfig(w)
  BY <1>1, <1>4, <1>9 DEF PersistQaConfig
<1>10. CASE PersistSecrets(w)
  <2>1. AfterPersist(w) # "free"
    BY DEF AfterPersist
  <2> QED
    BY <1>1, <1>4, <1>10, <2>1 DEF PersistSecrets
<1>11. CASE RunFlow(w)
  BY <1>1, <1>3, <1>4, <1>11 DEF RunFlow
<1>12. CASE WriteRecord(w)
  BY <1>1, <1>3, <1>4, <1>12 DEF WriteRecord
<1>13. CASE WriteEnvelope(w)
  BY <1>1, <1>2, <1>4, <1>13 DEF WriteEnvelope
<1>14. CASE VerifyWebhooks(w)
  BY <1>1, <1>3, <1>4, <1>14 DEF VerifyWebhooks
<1>15. CASE WriteStatus(w)
  BY <1>2, <1>3, <1>4, <1>15 DEF WriteStatus
<1>16. CASE Upgrade(w)
  <2>1. Same /\ Stays /\ Well
    BY <1>16 DEF Upgrade, Goto, Same, Stays, Well
  <2> QED
    BY <1>4, <1>16, <2>1 DEF Upgrade
<1>17. CASE Panic(w)
  <2>1. Same /\ Stays /\ On
    BY <1>17 DEF Panic, Goto, Same, Stays, On
  <2> QED
    BY <1>4, <1>17, <2>1 DEF Panic
<1> QED
  BY <1>5, <1>6, <1>7, <1>8, <1>9, <1>10, <1>11, <1>12, <1>13, <1>14, <1>15, <1>16, <1>17 DEF ItemStep

(* A step of one command leaves the items of the others alone. *)
LEMMA OthersKept ==
    ASSUME NEW j \in Jobs, JobInv(j), job' = job, DOMAIN thread = Threads,
           phase'[j] = phase[j], queue'[j] = queue[j], failed'[j] = failed[j], done'[j] = done[j], planned'[j] = planned[j],
           \A w \in Threads : w[1] = j => thread'[w] = thread[w] /\ item'[w] = item[w]
    PROVE  JobInv(j)'
<1>1. Calm(j)' <=> Calm(j)
  BY DEF Calm
<1>2. Resting(j)' <=> Resting(j)
  BY DEF Resting
<1>3. \A x : Accounted(j, x)' <=> Accounted(j, x)
  <2>1. \A x : Holds(queue[j], x)' <=> Holds(queue[j], x)
    BY DEF Holds
  <2>2. \A x : InHands(j, x)' <=> InHands(j, x)
    BY DEF InHands
  <2> QED
    BY <2>1, <2>2 DEF Accounted
<1> QED
  BY <1>1, <1>2, <1>3 DEF JobInv

LEMMA ThreadKeepsItems ==
    ASSUME ItemsInv, NEW w \in Threads, ThreadMoves(w)
    PROVE  ItemsInv'
<1> DEFINE j == w[1]
<1>0. j \in Jobs /\ JobTypes /\ JobInv(j)
  BY DEF Threads, ItemsInv
<1>1. /\ job' = job /\ queue' = queue /\ planned' = planned /\ item' = item
      /\ phase'[j] \in {"run", "error", "died"} /\ DOMAIN phase' = Jobs /\ \A i \in Jobs : i # j => phase'[i] = phase[i]
      /\ DOMAIN thread' = Threads /\ \A v \in Threads : v # w => thread'[v] = thread[v]
      /\ DOMAIN done' = Jobs /\ done[j] \subseteq done'[j] /\ \A i \in Jobs : i # j => done'[i] = done[i]
      /\ DOMAIN failed' = Jobs /\ failed[j] \subseteq failed'[j] /\ \A i \in Jobs : i # j => failed'[i] = failed[i]
  BY <1>0 DEF ThreadMoves, JobTypes
<1>2. thread'[w] # "free" \/ item[w] \in done'[j] \/ item[w] \in failed'[j]
  BY <1>0 DEF ThreadMoves, JobTypes
<1>a. thread[w] # "free" /\ thread[w] # "panicked"
  BY DEF ThreadMoves
<1> HIDE DEF j
<1>3. JobTypes'
  BY <1>0, <1>1, <1>a DEF JobTypes, IsSeq
<1>4. JobInv(j)'
  <2>1. ~Resting(j)'
    BY <1>1 DEF Resting
  <2>2. Calm(j)' => Calm(j)
    BY <1>1, <1>a DEF Calm
  <2>3. phase[j] = "run"
    BY DEF ThreadMoves, j
  <2>4. ASSUME NEW x, Accounted(j, x) PROVE Accounted(j, x)'
    <3>1. CASE x \in done[j] \/ x \in failed[j]
      BY <1>1, <3>1 DEF Accounted
    <3>2. CASE Holds(queue[j], x)
      BY <1>1, <3>2 DEF Accounted, Holds
    <3>3. CASE InHands(j, x)
      BY <1>1, <1>2, <3>3 DEF Accounted, InHands
    <3> QED
      BY <2>4, <3>1, <3>2, <3>3 DEF Accounted
  <2> QED
    BY <1>0, <1>1, <2>1, <2>2, <2>4 DEF JobInv
<1>5. ASSUME NEW i \in Jobs, i # j PROVE JobInv(i)'
  <2>1. \A v \in Threads : v[1] = i => v # w
    BY <1>5 DEF j
  <2> QED
    BY <1>0, <1>1, <1>5, <2>1, OthersKept DEF ItemsInv, JobTypes
<1> QED
  BY <1>3, <1>4, <1>5 DEF ItemsInv

LEMMA TakeKeepsItems ==
    ASSUME ItemsInv, NEW w \in Threads, TakeItem(w)
    PROVE  ItemsInv'
<1> DEFINE j == w[1]
<1>0. j \in Jobs /\ JobTypes /\ JobInv(j)
  BY DEF Threads, ItemsInv
<1>1. /\ job' = job /\ phase' = phase /\ failed' = failed /\ done' = done /\ planned' = planned
      /\ phase[j] = "run" /\ thread[w] = "free" /\ w[2] <= job[j].threads /\ queue[j] # <<>>
  BY DEF TakeItem
<1>2. /\ DOMAIN queue' = Jobs /\ queue'[j] = Rest(j) /\ \A i \in Jobs : i # j => queue'[i] = queue[i]
      /\ DOMAIN item' = Threads /\ item'[w] = NextItem(j) /\ \A v \in Threads : v # w => item'[v] = item[v]
      /\ DOMAIN thread' = Threads /\ thread'[w] = FirstStep(j) /\ \A v \in Threads : v # w => thread'[v] = thread[v]
  BY <1>0 DEF TakeItem, JobTypes
<1>3. FirstStep(j) \in {"answers", "look", "known"}
  BY DEF FirstStep
<1>4. /\ IsSeq(Rest(j))
      /\ \A x : Holds(queue[j], x) => x = NextItem(j) \/ Holds(Rest(j), x)
  <2>1. IsSeq(queue[j]) /\ queue[j] # <<>>
    BY <1>0, <1>1 DEF JobTypes
  <2>2. /\ IsSeq(Tail(queue[j])) /\ \A x : Holds(queue[j], x) => x = Head(queue[j]) \/ Holds(Tail(queue[j]), x)
        /\ IsSeq(Front(queue[j])) /\ \A x : Holds(queue[j], x) => x = Last(queue[j]) \/ Holds(Front(queue[j]), x)
    BY <2>1, SeqTaken, Zenon
  <2> QED
    BY <2>2, Zenon DEF Rest, NextItem
<1> HIDE DEF j
<1>5. JobTypes'
  <2>1. \A i \in Jobs : IsSeq(queue'[i])
    BY <1>0, <1>2, <1>4 DEF JobTypes
  <2>2. \A v \in Threads : thread'[v] # "free" => v[2] <= job[v[1]].threads
    BY <1>0, <1>1, <1>2 DEF JobTypes, j
  <2> QED
    BY <1>0, <1>1, <1>2, <2>1, <2>2 DEF JobTypes, IsSeq
<1>6. JobInv(j)'
  <2>1. ~Resting(j)'
    BY <1>1 DEF Resting
  <2>2. Calm(j)' => Calm(j)
    BY <1>1, <1>2 DEF Calm
  <2>3. ASSUME NEW x, Accounted(j, x) PROVE Accounted(j, x)'
    <3>1. CASE x \in done[j] \/ x \in failed[j]
      BY <1>1, <3>1 DEF Accounted
    <3>2. CASE Holds(queue[j], x)
      <4>1. x = NextItem(j) \/ Holds(Rest(j), x)
        BY <1>4, <3>2
      <4>2. CASE x = NextItem(j)
        <5>1. w[1] = j /\ thread'[w] # "free" /\ x = item'[w]
          BY <1>2, <1>3, <4>2 DEF j
        <5> QED
          BY <5>1 DEF Accounted, InHands
      <4>3. CASE Holds(Rest(j), x)
        BY <1>2, <4>3 DEF Accounted, Holds
      <4> QED
        BY <4>1, <4>2, <4>3
    <3>3. CASE InHands(j, x)
      BY <1>1, <1>2, <3>3 DEF Accounted, InHands
    <3> QED
      BY <2>3, <3>1, <3>2, <3>3 DEF Accounted
  <2> QED
    BY <1>0, <1>1, <2>1, <2>2, <2>3 DEF JobInv
<1>7. ASSUME NEW i \in Jobs, i # j PROVE JobInv(i)'
  <2>1. \A v \in Threads : v[1] = i => v # w
    BY <1>7 DEF j
  <2> QED
    BY <1>0, <1>1, <1>2, <1>7, <2>1, OthersKept DEF ItemsInv, JobTypes
<1> QED
  BY <1>5, <1>6, <1>7 DEF ItemsInv

LEMMA CommandKeepsItems ==
    ASSUME ItemsInv, NEW j \in Jobs, StartJob(j) \/ PlanDomain(j) \/ EndJob(j) \/ Join(j)
    PROVE  ItemsInv'
<1>0. JobTypes /\ JobInv(j)
  BY DEF ItemsInv
<1>1. /\ UNCHANGED <<job, failed, done, thread, item>>
      /\ DOMAIN phase' = Jobs /\ \A i \in Jobs : i # j => phase'[i] = phase[i]
  BY <1>0 DEF StartJob, PlanDomain, EndJob, Join, JobTypes
<1>2. /\ DOMAIN queue' = Jobs /\ DOMAIN planned' = Jobs
      /\ \A i \in Jobs : i # j => queue'[i] = queue[i] /\ planned'[i] = planned[i]
  BY <1>0 DEF StartJob, PlanDomain, EndJob, Join, JobTypes
<1>3. ASSUME NEW i \in Jobs, i # j PROVE JobInv(i)'
  BY <1>0, <1>1, <1>2, <1>3, OthersKept DEF ItemsInv, JobTypes
<1>4. (Calm(j)' <=> Calm(j)) /\ \A x : InHands(j, x)' <=> InHands(j, x)
  BY <1>1 DEF Calm, InHands
<1>5. ASSUME IsSeq(queue'[j]), IsSeq(planned'[j]) PROVE JobTypes'
  BY <1>0, <1>1, <1>2, <1>5 DEF JobTypes, IsSeq
<1>6. ASSUME queue'[j] = queue[j], planned'[j] = planned[j],
             Resting(j)' => /\ ~job[j].best => failed[j] = {}
                            /\ ~job[j].dry /\ Calm(j) => queue[j] = <<>> /\ \A w \in Threads : w[1] = j => thread[w] = "free"
      PROVE  JobTypes' /\ JobInv(j)'
  <2>1. JobTypes'
    BY <1>0, <1>5, <1>6 DEF JobTypes
  <2>2. \A x : Accounted(j, x) => Accounted(j, x)'
    BY <1>1, <1>4, <1>6 DEF Accounted, Holds
  <2> QED
    BY <1>0, <1>1, <1>4, <1>6, <2>1, <2>2 DEF JobInv
<1>7. CASE StartJob(j) \/ EndJob(j)
  <2>1. queue'[j] = queue[j] /\ planned'[j] = planned[j] /\ Resting(j)
    BY <1>7 DEF StartJob, EndJob, Resting
  <2> QED
    BY <1>0, <1>3, <1>6, <2>1 DEF JobInv, ItemsInv
<1>8. CASE Join(j)
  <2>1. queue'[j] = queue[j] /\ planned'[j] = planned[j] /\ Joined(j)
    BY <1>8 DEF Join
  <2>2. Resting(j)' => (~job[j].best => failed[j] = {})
    BY <1>0, <1>8 DEF Join, Resting, JobTypes
  <2>3. ASSUME Calm(j) PROVE queue[j] = <<>> /\ \A w \in Threads : w[1] = j => thread[w] = "free"
    <3>1. \A w \in Threads : w[1] = j /\ w[2] <= job[j].threads => thread[w] = "free" /\ queue[j] = <<>>
      BY <2>1, <2>3 DEF Joined, Calm
    <3>2. <<j, 1>> \in Threads /\ 1 <= job[j].threads
      BY <1>0, SetUpAssumption DEF Threads, JobTypes
    <3>3. queue[j] = <<>>
      BY <3>1, <3>2
    <3> QED
      BY <1>0, <3>1, <3>3 DEF JobTypes
  <2> QED
    BY <1>3, <1>6, <2>1, <2>2, <2>3 DEF ItemsInv
<1>9. CASE PlanDomain(j)
  <2> DEFINE made == IF Plans(j) THEN plan_runs(job[j], Head(ahead[j])) ELSE resolve_providers(job[j])
  <2>1. CASE queue' = queue /\ planned' = planned /\ phase' = [phase EXCEPT ![j] = "error"]
    <3>1. ~Resting(j)'
      BY <1>0, <2>1 DEF Resting, JobTypes
    <3> QED
      BY <1>3, <1>6, <2>1, <3>1 DEF ItemsInv
  <2>2. CASE /\ queue' = [queue EXCEPT ![j] = made] /\ planned' = [planned EXCEPT ![j] = @ \o made]
             /\ phase' = [phase EXCEPT ![j] = IF job[j].dry THEN "plan" ELSE "run"]
    <3>1. IsSeq(made)
      BY PlansAreSeqs
    <3> HIDE DEF made
    <3>2. queue'[j] = made /\ planned'[j] = planned[j] \o made /\ phase'[j] = IF job[j].dry THEN "plan" ELSE "run"
      BY <1>0, <2>2 DEF JobTypes
    <3>3. IsSeq(planned[j])
      BY <1>0 DEF JobTypes
    <3>4. IsSeq(planned'[j]) /\ \A i \in DOMAIN planned'[j] : Holds(planned[j], planned'[j][i]) \/ Holds(made, planned'[j][i])
      BY <3>1, <3>2, <3>3, SeqsJoined, Zenon
    <3>5. JobTypes'
      BY <1>5, <3>1, <3>2, <3>4
    <3>6. Resting(j)
      BY <1>9 DEF PlanDomain, Resting
    <3>7. ASSUME ~job[j].dry, Calm(j), NEW x, Holds(planned[j], x) \/ Holds(made, x) PROVE Accounted(j, x)'
      <4>1. CASE Holds(planned[j], x)
        <5>1. queue[j] = <<>> /\ Accounted(j, x)
          BY <1>0, <3>6, <3>7, <4>1 DEF JobInv, Holds
        <5>2. ~Holds(queue[j], x)
          <6>1. DOMAIN <<>> = {}
            OBVIOUS
          <6> QED
            BY <5>1, <6>1, Zenon DEF Holds
        <5> QED
          BY <1>1, <1>4, <5>1, <5>2 DEF Accounted
      <4>2. CASE Holds(made, x)
        BY <3>2, <4>2 DEF Accounted
      <4> QED
        BY <3>7, <4>1, <4>2
    <3>8. JobInv(j)'
      <4>1. ~job[j].dry => ~Resting(j)'
        BY <3>2 DEF Resting
      <4>2. ~job[j].dry /\ Calm(j) => \A i \in DOMAIN planned'[j] : Accounted(j, planned[j][i])'
        BY <3>4, <3>7
      <4>3. ~job[j].best => failed'[j] = {}
        BY <1>0, <1>1, <3>6 DEF JobInv
      <4> QED
        BY <1>1, <1>4, <4>1, <4>2, <4>3 DEF JobInv
    <3> QED
      BY <1>3, <3>5, <3>8 DEF ItemsInv
  <2> QED
    BY <1>9, <2>1, <2>2 DEF PlanDomain
<1> QED
  BY <1>7, <1>8, <1>9

(***************************************************************************)
(* No item of a plan is forgotten, with one thread or several: when a       *)
(* command is over each item was set up or failed, and then it does not say *)
(* that all is well unless it was to do what it can (run_domain_command,    *)
(* run_plan, run_provider_setup); a thread that panicked is the exception.  *)
(***************************************************************************)
THEOREM NoItemForgotten == SetUpSpec => []ItemsAccounted
<1>1. ASSUME SetUpInit(job), \A j \in Jobs : job[j].threads \in 1..MaxThreads PROVE ItemsInv
  <2>1. <<>> \in Seq({}) /\ DOMAIN <<>> = {}
    OBVIOUS
  <2>2. JobTypes
    BY <1>1, <2>1 DEF SetUpInit, JobTypes, IsSeq
  <2>3. \A j \in Jobs : planned[j] = <<>> /\ queue[j] = <<>> /\ failed[j] = {} /\ \A w \in Threads : thread[w] = "free"
    BY <1>1 DEF SetUpInit
  <2> QED
    BY <2>1, <2>2, <2>3, Zenon DEF JobInv, ItemsInv
<1>2. ASSUME ItemsInv, [SetUp]_setupVars PROVE ItemsInv'
  <2>1. CASE UNCHANGED setupVars
    <3>1. UNCHANGED <<job, phase, queue, failed, done, planned, thread, item>>
      BY <2>1 DEF setupVars
    <3>2. JobTypes'
      BY <1>2, <3>1 DEF ItemsInv, JobTypes, IsSeq
    <3>3. ASSUME NEW j \in Jobs PROVE JobInv(j)'
      BY <1>2, <3>1, OthersKept DEF ItemsInv, JobTypes
    <3> QED
      BY <3>2, <3>3 DEF ItemsInv
  <2>2. ASSUME NEW w \in Threads, phase[w[1]] = "run", ItemStep(w) PROVE ItemsInv'
    BY <1>2, <2>2, ItemStepMoves, ThreadKeepsItems
  <2> QED
    BY <1>2, <2>1, <2>2, CommandKeepsItems, TakeKeepsItems DEF SetUp
<1>3. ItemsInv => ItemsAccounted
  <2> SUFFICES ASSUME ItemsInv, NEW j \in Jobs, Calm(j), ~job[j].dry, phase[j] \in {"plan", "ok"}
               PROVE  /\ \A i \in DOMAIN planned[j] : planned[j][i] \in done[j] \union failed[j]
                      /\ ~job[j].best => failed[j] = {}
    BY DEF ItemsAccounted, Calm
  <2>1. JobInv(j) /\ Resting(j)
    BY DEF ItemsInv, Resting
  <2>2. /\ \A i \in DOMAIN planned[j] : Accounted(j, planned[j][i])
        /\ queue[j] = <<>> /\ \A w \in Threads : w[1] = j => thread[w] = "free"
        /\ ~job[j].best => failed[j] = {}
    BY <2>1 DEF JobInv
  <2>3. DOMAIN <<>> = {}
    OBVIOUS
  <2>4. \A x : ~Holds(queue[j], x) /\ ~InHands(j, x)
    BY <2>2, <2>3, Zenon DEF Holds, InHands
  <2> QED
    BY <2>2, <2>4 DEF Accounted
<1> QED
  BY <1>1, <1>2, <1>3, PTL DEF SetUpSpec

(* The paths of the requests are paths. *)
LEMMA PathTyped ==
    ASSUME NEW p \in Procs, ask[p] \in Request, ask[p].op \in {"submit", "policy"}
    PROVE  PathOf(p).names \in Seq(Nat)
<1>1. CASE ask[p].op = "policy"
  <2>1. ask[p].path.names \in Paths
    BY <1>1 DEF Request
  <2>2. PathOf(p) = ask[p].path
    BY <1>1 DEF PathOf
  <2> QED
    BY <2>1, <2>2, OnboardAssumption
<1>2. CASE ask[p].op = "submit"
  <2> DEFINE n == Cardinality(Providers)
             s == SetToSeq(Providers)
             pr == ask[p].provider
  <2>1. n \in Nat /\ ExistsBijection(1..n, Providers)
    BY OnboardAssumption, FS_CardinalityType
  <2>2. \E f \in [1..n -> Providers] : IsInjective(f)
    BY <2>1 DEF ExistsBijection, Bijection, Injection
  <2>3. s \in [1..n -> Providers] /\ IsInjective(s)
    BY <2>2, Zenon DEF SetToSeq
  <2> HIDE DEF s
  <2>4. s \in Injection(1..n, Providers)
    BY <2>3 DEF Injection
  <2>5. IsFiniteSet(1..n) /\ Cardinality(1..n) = n
    BY <2>1, FS_Interval
  <2>6. s \in Surjection(1..n, Providers)
    BY <2>4, <2>5, FS_Injection, OnboardAssumption
  <2>7. pr \in Providers
    BY <1>2, RequestFields
  <2>8. \E i \in 1..n : pr = s[i]
    BY <2>6, <2>7 DEF Surjection
  <2>9. NameOf(pr) \in 1..n
    BY <2>8 DEF NameOf, s
  <2>10. NameOf(pr) \in Nat
    BY <2>1, <2>9
  <2>11. PathOf(p).names = <<NameOf(pr)>>
    BY <1>2 DEF PathOf, Given
  <2> QED
    BY <2>10, <2>11
<1> QED
  BY <1>1, <1>2

-----------------------------------------------------------------------------
(* The files of rules. *)

(* What scopes are named by. *)
ScopeNames == Seq(STRING \union {DefaultTeam})

(* The file of rules says of every path what was asked for it. *)
SaysAsked(rules, s) == \A x \in Paths : LastPolicy(rules, x) = asked[s][x]

RulesTypes ==
    /\ at \in [Procs -> ScopeNames] /\ gmap \in [Scopes -> FileRec]
    /\ asked \in [Scopes -> [Paths -> {Public, Forbidden, NoDecision}]]
    /\ buf = [p \in Procs |-> buf[p]]
    /\ \A p \in Procs : at[p] \in Scopes /\ pc[p] \in {"truncate", "fill"} => buf[p] \in FileRec
    /\ \A p \in Procs : pc[p] = "fill" => at[p] \in files
    /\ \A s \in Scopes : s \notin files => gmap[s] = EmptyFile

(***************************************************************************)
(* A file that no edit has spoiled has one editor at most, which knows what *)
(* the file said before it was truncated; a file that is to be made is not   *)
(* there.                                                                   *)
(***************************************************************************)
EditorGood(s, p) ==
    /\ at[p] = s /\ pc[p] = "truncate" => PathOf(p).plain /\ buf[p] = gmap[s]
    /\ at[p] = s /\ pc[p] = "fill" => PathOf(p).plain /\ Unique(buf[p].rules) /\ SaysAsked(buf[p].rules, s)
    /\ at[p] = s /\ pc[p] = "make" => s \notin files

FileGood(s) ==
    /\ \A p, q \in Procs : Editing(p, s) /\ Editing(q, s) => p = q
    /\ \A p \in Procs : EditorGood(s, p)
    /\ Unique(gmap[s].rules)
    /\ (\A q \in Procs : ~(at[q] = s /\ pc[q] = "fill")) => SaysAsked(gmap[s].rules, s)

RulesInv == RulesTypes /\ \A s \in Scopes \ spoiled : FileGood(s)

EditSteps == {"truncate", "fill", "make"}

(* A step by which no process comes to edit a file, or ends its writing. *)
LEMMA AsideRules ==
    ASSUME RulesInv, NEW p \in Procs, at' \in [Procs -> ScopeNames],
           \A q \in Procs : q # p => at'[q] = at[q] /\ pc'[q] = pc[q],
           pc[p] # "fill", pc'[p] \notin EditSteps,
           ask' = ask, buf' = buf, files' = files, gmap' = gmap, asked' = asked, spoiled \subseteq spoiled'
    PROVE  RulesInv'
<1>1. RulesTypes'
  BY DEF RulesInv, RulesTypes, EditSteps
<1>2. ASSUME NEW s \in Scopes \ spoiled' PROVE FileGood(s)'
  <2>1. FileGood(s)
    BY <1>2 DEF RulesInv
  <2>2. \A q \in Procs : Editing(q, s)' => Editing(q, s) /\ q # p
    BY DEF Editing, EditSteps
  <2>3. ASSUME NEW q \in Procs PROVE EditorGood(s, q)'
    BY <2>1 DEF FileGood, EditorGood, SaysAsked, PathOf, EditSteps
  <2>4. (\A q \in Procs : ~(at[q] = s /\ pc[q] = "fill"))' => \A q \in Procs : ~(at[q] = s /\ pc[q] = "fill")
    OBVIOUS
  <2> QED
    BY <2>1, <2>2, <2>3, <2>4 DEF FileGood, SaysAsked
<1> QED
  BY <1>1, <1>2 DEF RulesInv

(* ReadRules and CheckFile: what is overlapped counts as spoiled. *)
LEMMA BeginEdit ==
    ASSUME PlaceInv, RulesInv, NEW p \in Procs, pc[p] \notin EditSteps, at' = at, pc' = [pc EXCEPT ![p] = pc'[p]],
           ask' = ask, files' = files, gmap' = gmap, asked' = asked,
           spoiled \subseteq spoiled', Overlapped(p) => at[p] \in spoiled',
           \/ pc'[p] = "make" /\ at[p] \notin files /\ buf' = buf
           \/ pc'[p] = "truncate" /\ buf' = [buf EXCEPT ![p] = gmap[at[p]]] /\ (~PathOf(p).plain => at[p] \in spoiled')
    PROVE  RulesInv'
<1>0. pc' \in [Procs -> {pc'[p]} \union OnboardSteps] /\ \A q \in Procs : q # p => pc'[q] = pc[q]
  BY DEF PlaceInv
<1>1. RulesTypes'
  <2>1. ASSUME NEW q \in Procs, at[q] \in Scopes, pc'[q] \in {"truncate", "fill"} PROVE buf'[q] \in FileRec
    BY <1>0, <2>1 DEF RulesInv, RulesTypes
  <2>2. buf' = [q \in Procs |-> buf'[q]]
    BY DEF RulesInv, RulesTypes
  <2>3. \A q \in Procs : pc'[q] = "fill" => at[q] \in files
    BY <1>0 DEF RulesInv, RulesTypes
  <2> QED
    BY <2>1, <2>2, <2>3 DEF RulesInv, RulesTypes
<1>2. ASSUME NEW s \in Scopes \ spoiled' PROVE FileGood(s)'
  <2>1. FileGood(s)
    BY <1>2 DEF RulesInv
  <2>2. at[p] = s => \A q \in Procs : q # p => ~Editing(q, s)
    BY <1>2 DEF Overlapped
  <2>3. \A q \in Procs : q # p => (Editing(q, s)' <=> Editing(q, s))
    BY <1>0 DEF Editing
  <2>4. ASSUME NEW q \in Procs, NEW r \in Procs, Editing(q, s)', Editing(r, s)' PROVE q = r
    <3>1. CASE at[p] = s
      BY <2>2, <2>3, <2>4, <3>1
    <3>2. CASE at[p] # s
      <4>1. q # p /\ r # p
        BY <2>4, <3>2 DEF Editing
      <4> QED
        BY <2>1, <2>3, <2>4, <4>1 DEF FileGood
    <3> QED
      BY <3>1, <3>2
  <2>5. ASSUME NEW q \in Procs PROVE EditorGood(s, q)'
    <3>1. CASE q # p
      <4>1. buf'[q] = buf[q] /\ pc'[q] = pc[q]
        BY <1>0, <3>1 DEF RulesInv, RulesTypes
      <4> QED
        BY <2>1, <4>1 DEF FileGood, EditorGood, SaysAsked, PathOf
    <3>2. CASE q = p
      <4>1. pc'[p] = "truncate" => buf'[p] = gmap[at[p]]
        BY DEF RulesInv, RulesTypes
      <4> QED
        BY <1>2, <3>2, <4>1 DEF EditorGood, PathOf
    <3> QED
      BY <3>1, <3>2
  <2>6. (\A q \in Procs : ~(at[q] = s /\ pc[q] = "fill"))' => \A q \in Procs : ~(at[q] = s /\ pc[q] = "fill")
    BY <1>0 DEF EditSteps
  <2> QED
    BY <2>1, <2>4, <2>5, <2>6 DEF FileGood, SaysAsked
<1> QED
  BY <1>1, <1>2 DEF RulesInv

(* An edit that is cut short, by a fault or a death: its file counts as spoiled. *)
LEMMA EditCutShort ==
    ASSUME RulesInv, at' = at, ask' = ask, buf' = buf, gmap' = gmap, asked' = asked,
           files \subseteq files', files' \ files \subseteq spoiled', spoiled \subseteq spoiled',
           \A q \in Procs : pc'[q] = pc[q] \/ (pc'[q] \notin EditSteps /\ (pc[q] = "fill" => at[q] \in spoiled'))
    PROVE  RulesInv'
<1>1. RulesTypes'
  BY DEF RulesInv, RulesTypes, EditSteps
<1>2. ASSUME NEW s \in Scopes \ spoiled' PROVE FileGood(s)'
  <2>1. FileGood(s)
    BY <1>2 DEF RulesInv
  <2>2. \A q \in Procs : Editing(q, s)' => Editing(q, s)
    BY DEF Editing, EditSteps
  <2>3. ASSUME NEW q \in Procs PROVE EditorGood(s, q)'
    <3>1. pc'[q] = pc[q] \/ pc'[q] \notin {"truncate", "fill", "make"}
      BY DEF EditSteps
    <3>2. s \in files' => s \in files
      BY <1>2
    <3> QED
      BY <2>1, <3>1, <3>2 DEF FileGood, EditorGood, SaysAsked, PathOf
  <2>4. (\A q \in Procs : ~(at[q] = s /\ pc[q] = "fill"))' => \A q \in Procs : ~(at[q] = s /\ pc[q] = "fill")
    BY <1>2
  <2> QED
    BY <2>1, <2>2, <2>3, <2>4 DEF FileGood, SaysAsked
<1> QED
  BY <1>1, <1>2 DEF RulesInv

(* The file is emptied; who did that knows what it said. *)
LEMMA TruncateKeeps ==
    ASSUME PlaceInv, RulesInv, NEW p \in Procs, pc[p] = "truncate", pc' = [pc EXCEPT ![p] = "fill"],
           at' = at, ask' = ask, buf' = buf, asked' = asked, spoiled' = spoiled,
           files' = files \union {at[p]}, gmap' = [gmap EXCEPT ![at[p]] = EmptyFile]
    PROVE  RulesInv'
<1>0. pc'[p] = "fill" /\ \A q \in Procs : q # p => pc'[q] = pc[q]
  BY DEF PlaceInv
<1>1. RulesTypes'
  <2>1. gmap' \in [Scopes -> FileRec]
    BY EmptyFileGood DEF RulesInv, RulesTypes
  <2>2. ASSUME NEW s \in Scopes, s \notin files' PROVE gmap'[s] = EmptyFile
    BY <2>2 DEF RulesInv, RulesTypes
  <2>3. ASSUME NEW q \in Procs, at[q] \in Scopes, pc'[q] \in {"truncate", "fill"} PROVE buf[q] \in FileRec
    BY <1>0, <2>3 DEF RulesInv, RulesTypes
  <2>4. \A q \in Procs : pc'[q] = "fill" => at[q] \in files'
    BY <1>0 DEF RulesInv, RulesTypes
  <2> QED
    BY <2>1, <2>2, <2>3, <2>4 DEF RulesInv, RulesTypes
<1>2. ASSUME NEW s \in Scopes \ spoiled PROVE FileGood(s)'
  <2>1. FileGood(s)
    BY <1>2 DEF RulesInv
  <2>2. \A q \in Procs : Editing(q, s)' <=> Editing(q, s)
    BY <1>0 DEF Editing
  <2>3. CASE at[p] = s
    <3>1. \A q \in Procs : q # p => ~Editing(q, s)
      BY <2>1, <2>3 DEF FileGood, Editing
    <3>2. gmap'[s] = EmptyFile
      BY <2>3 DEF RulesInv, RulesTypes
    <3>3. PathOf(p).plain /\ buf[p] = gmap[s]
      BY <2>1, <2>3 DEF FileGood, EditorGood
    <3>4. Unique(buf[p].rules) /\ SaysAsked(gmap[s].rules, s)
      <4>1. \A q \in Procs : ~(at[q] = s /\ pc[q] = "fill")
        BY <3>1 DEF Editing
      <4> QED
        BY <2>1, <3>3, <4>1 DEF FileGood
    <3>5. EditorGood(s, p)'
      BY <1>0, <3>3, <3>4 DEF EditorGood, PathOf, SaysAsked
    <3>6. ASSUME NEW q \in Procs, q # p PROVE EditorGood(s, q)'
      BY <1>0, <3>1, <3>6 DEF EditorGood, Editing
    <3>7. Unique(gmap[s].rules)'
      BY <3>2, EmptyFileGood DEF Unique
    <3> QED
      BY <1>0, <2>1, <2>2, <2>3, <3>5, <3>6, <3>7 DEF FileGood
  <2>4. CASE at[p] # s
    <3>1. gmap'[s] = gmap[s] /\ (s \in files' => s \in files)
      BY <2>4 DEF RulesInv, RulesTypes
    <3>2. ASSUME NEW q \in Procs PROVE EditorGood(s, q)'
      <4>1. CASE q = p
        BY <2>4, <4>1 DEF EditorGood
      <4>2. CASE q # p
        BY <1>0, <2>1, <3>1, <4>2 DEF FileGood, EditorGood, SaysAsked, PathOf
      <4> QED
        BY <4>1, <4>2
    <3>3. (\A q \in Procs : ~(at[q] = s /\ pc[q] = "fill"))' => \A q \in Procs : ~(at[q] = s /\ pc[q] = "fill")
      BY <1>0, <2>4
    <3> QED
      BY <2>1, <2>2, <3>1, <3>2, <3>3 DEF FileGood, SaysAsked
  <2> QED
    BY <2>3, <2>4
<1> QED
  BY <1>1, <1>2 DEF RulesInv

(* The file is written, with what it said before and what is asked now. *)
LEMMA FillKeeps ==
    ASSUME PlaceInv, RulesInv, NEW p \in Procs, pc[p] \in {"fill", "make"}, pc' = [pc EXCEPT ![p] = pc'[p]],
           pc'[p] \notin EditSteps, at' = at, ask' = ask, buf' = buf, spoiled' = spoiled,
           NEW new, NEW path, NEW pol \in {Public, Forbidden},
           at[p] \in Scopes => new \in FileRec,
           at[p] \in Scopes \ spoiled =>
             Unique(new.rules) /\ \A x \in Paths : LastPolicy(new.rules, x) = IF x = path THEN pol ELSE asked[at[p]][x],
           gmap' = [gmap EXCEPT ![at[p]] = new], asked' = [asked EXCEPT ![at[p]][path] = pol],
           files' \in {files, files \union {at[p]}}, at[p] \in files'
    PROVE  RulesInv'
<1>0. \A q \in Procs : q # p => pc'[q] = pc[q]
  BY DEF PlaceInv
<1>1. RulesTypes'
  <2>1. gmap' \in [Scopes -> FileRec]
    BY DEF RulesInv, RulesTypes
  <2>2. ASSUME NEW s \in Scopes, s \notin files' PROVE gmap'[s] = EmptyFile
    BY <2>2 DEF RulesInv, RulesTypes
  <2>3. ASSUME NEW q \in Procs, at[q] \in Scopes, pc'[q] \in {"truncate", "fill"} PROVE buf[q] \in FileRec
    BY <1>0, <2>3 DEF RulesInv, RulesTypes, EditSteps
  <2>4. asked' \in [Scopes -> [Paths -> {Public, Forbidden, NoDecision}]]
    BY DEF RulesInv, RulesTypes
  <2>5. \A q \in Procs : pc'[q] = "fill" => at[q] \in files'
    BY <1>0 DEF RulesInv, RulesTypes, EditSteps
  <2> QED
    BY <2>1, <2>2, <2>3, <2>4, <2>5 DEF RulesInv, RulesTypes
<1>2. ASSUME NEW s \in Scopes \ spoiled PROVE FileGood(s)'
  <2>1. FileGood(s)
    BY <1>2 DEF RulesInv
  <2>2. \A q \in Procs : Editing(q, s)' => Editing(q, s) /\ q # p
    BY <1>0 DEF Editing, EditSteps
  <2>3. CASE at[p] = s
    <3>1. \A q \in Procs : q # p => ~Editing(q, s)
      BY <2>1, <2>3 DEF FileGood, Editing
    <3>2. gmap'[s] = new
      BY <2>3 DEF RulesInv, RulesTypes
    <3>3. \A x \in Paths : asked'[s][x] = IF x = path THEN pol ELSE asked[s][x]
      BY <2>3 DEF RulesInv, RulesTypes
    <3>4. SaysAsked(gmap[s].rules, s)'
      BY <1>2, <2>3, <3>2, <3>3 DEF SaysAsked
    <3>5. ASSUME NEW q \in Procs PROVE EditorGood(s, q)'
      <4>1. ~Editing(q, s)'
        BY <2>2, <3>1
      <4> QED
        BY <4>1 DEF EditorGood, Editing
    <3>6. Unique(gmap[s].rules)'
      BY <1>2, <2>3, <3>2 DEF Unique
    <3> QED
      BY <2>2, <3>1, <3>4, <3>5, <3>6 DEF FileGood
  <2>4. CASE at[p] # s
    <3>1. gmap'[s] = gmap[s] /\ asked'[s] = asked[s] /\ (s \in files' => s \in files)
      BY <2>4 DEF RulesInv, RulesTypes
    <3>2. ASSUME NEW q \in Procs PROVE EditorGood(s, q)'
      <4>1. CASE q = p
        BY <2>4, <4>1 DEF EditorGood
      <4>2. CASE q # p
        BY <1>0, <2>1, <3>1, <4>2 DEF FileGood, EditorGood, SaysAsked, PathOf
      <4> QED
        BY <4>1, <4>2
    <3>3. (\A q \in Procs : ~(at[q] = s /\ pc[q] = "fill"))' => \A q \in Procs : ~(at[q] = s /\ pc[q] = "fill")
      BY <1>0, <2>4
    <3> QED
      BY <2>1, <2>2, <3>1, <3>2, <3>3 DEF FileGood, SaysAsked
  <2> QED
    BY <2>3, <2>4
<1> QED
  BY <1>1, <1>2 DEF RulesInv

(* What a step of one process does to the files of rules. *)
LEMMA RulesStep ==
    ASSUME PlaceInv, RulesInv, NEW p \in Procs, Step(p)
    PROVE  RulesInv'
<1>0. /\ pc \in [Procs -> OnboardSteps] /\ ask[p] \in Request /\ policy[p] \in {Public, Forbidden}
      /\ at \in [Procs -> ScopeNames]
      /\ pc[p] \in RuleSteps => ask[p].op \in {"submit", "policy"}
  BY DEF PlaceInv, RulesInv, RulesTypes
<1>r. pc[p] \in RuleSteps => PathOf(p).names \in Seq(Nat)
  BY <1>0, PathTyped
<1>s. ask[p].scope \in ScopeNames
  <2>1. ask[p].scope \in Scopes
    <3>1. CASE ask[p].op = "submit"
      BY <1>0, <3>1 DEF Request
    <3>2. CASE ask[p].op = "policy"
      BY <1>0, <3>2 DEF Request
    <3>3. CASE ask[p].op = "scope"
      BY <1>0, <3>3 DEF Request
    <3> QED
      BY <1>0, <3>1, <3>2, <3>3, RequestFields
  <2>2. ask[p].scope \in Seq(STRING)
    BY <2>1, OnboardAssumption
  <2> QED
    BY <2>2 DEF ScopeNames
<1>a. ASSUME at' = at, pc[p] # "fill", NEW step, step \notin EditSteps, pc' = [pc EXCEPT ![p] = step],
             ask' = ask, buf' = buf, files' = files, gmap' = gmap, asked' = asked, spoiled \subseteq spoiled'
      PROVE  RulesInv'
  BY <1>0, <1>a, AsideRules
<1>b. ASSUME NEW scope \in ScopeNames, at' = [at EXCEPT ![p] = scope], pc[p] # "fill",
             NEW step, step \notin EditSteps, pc' = [pc EXCEPT ![p] = step],
             ask' = ask, buf' = buf, files' = files, gmap' = gmap, asked' = asked, spoiled' = spoiled
      PROVE  RulesInv'
  <2>1. at' \in [Procs -> ScopeNames]
    BY <1>0, <1>b
  <2> QED
    BY <1>0, <1>b, <2>1, AsideRules
<1>1. CASE Receive(p)
  BY <1>1, <1>b, <1>s, ZenonT(60) DEF Receive, Arrives, Answer, GoOn, Go, AfterReceive, otherVars, EditSteps
<1>2. CASE StoreSecrets(p)
  BY <1>2, <1>a DEF StoreSecrets, Answer, GoOn, Go, Failed, otherVars, rulesVars, EditSteps
<1>3. CASE BackupEnvelope(p)
  BY <1>3, <1>a DEF BackupEnvelope, Answer, GoOn, Go, Failed, otherVars, rulesVars, EditSteps
<1>4. CASE CreateTmp(p)
  BY <1>4, <1>a DEF CreateTmp, Answer, GoOn, Go, Failed, otherVars, rulesVars, EditSteps
<1>5. CASE WriteTmp(p)
  BY <1>5, <1>a DEF WriteTmp, Answer, GoOn, Go, Failed, otherVars, rulesVars, EditSteps
<1>6. CASE RenameTmp(p)
  BY <1>6, <1>a DEF RenameTmp, Answer, GoOn, Go, Failed, otherVars, rulesVars, EditSteps
<1>7. CASE try_emit_pack_config_input(p)
  BY <1>7, <1>a DEF try_emit_pack_config_input, GoOn, Go, otherVars, rulesVars, EditSteps
<1>8. CASE ReadRules(p)
  <2>1. /\ pc[p] = "read" /\ at' = at /\ ask' = ask /\ files' = files /\ gmap' = gmap /\ asked' = asked
        /\ spoiled \subseteq spoiled' /\ (Overlapped(p) \/ ~PathOf(p).plain => at[p] \in spoiled')
    BY <1>8 DEF ReadRules, otherVars, Spoil
  <2>2. CASE pc' = [pc EXCEPT ![p] = "truncate"] /\ buf' = [buf EXCEPT ![p] = gmap[at[p]]]
    <3>1. pc'[p] = "truncate"
      BY <1>0, <2>2
    <3> QED
      BY <2>1, <2>2, <3>1, BeginEdit DEF EditSteps
  <2>3. CASE pc' = [pc EXCEPT ![p] = "done"] /\ buf' = buf
    BY <1>a, <2>1, <2>3 DEF EditSteps
  <2> QED
    BY <1>8, <2>2, <2>3 DEF ReadRules, RulesFailed, Answer, GoOn, Go
<1>9. CASE TruncateRules(p)
  <2>1. /\ pc[p] = "truncate" /\ at' = at /\ ask' = ask /\ buf' = buf /\ asked' = asked /\ spoiled' = spoiled
    BY <1>9 DEF TruncateRules, otherVars
  <2>2. CASE /\ pc' = [pc EXCEPT ![p] = "fill"] /\ files' = files \union {at[p]}
             /\ gmap' = [gmap EXCEPT ![at[p]] = EmptyFile]
    BY <2>1, <2>2, TruncateKeeps
  <2>3. CASE pc' = [pc EXCEPT ![p] = "done"] /\ files' = files /\ gmap' = gmap
    BY <1>a, <2>1, <2>3 DEF EditSteps
  <2> QED
    BY <1>9, <2>2, <2>3 DEF TruncateRules, RulesFailed, Answer, GoOn, Go
<1>10. CASE WriteRules(p)
  <2>1. pc[p] = "fill" /\ at' = at /\ ask' = ask /\ buf' = buf /\ files' = files
    BY <1>10 DEF WriteRules, otherVars
  <2> DEFINE new == upsert_policy(buf[p], PathOf(p), policy[p])
             path == PathOf(p).names
  <2>2. CASE /\ pc' = [pc EXCEPT ![p] = pc'[p]] /\ pc'[p] \notin EditSteps /\ spoiled' = spoiled
             /\ gmap' = [gmap EXCEPT ![at[p]] = new] /\ asked' = [asked EXCEPT ![at[p]][path] = policy[p]]
    <3>1. path \in Seq(Nat)
      BY <1>r, <2>1 DEF RuleSteps
    <3>2. at[p] \in Scopes => buf[p] \in FileRec /\ at[p] \in files
      BY <2>1 DEF RulesInv, RulesTypes
    <3>3. at[p] \in files
      BY <2>1 DEF RulesInv, RulesTypes
    <3>4. at[p] \in Scopes => new \in FileRec
      BY <1>0, <3>1, <3>2, UpsertKeeps
    <3>5. ASSUME at[p] \in Scopes \ spoiled
          PROVE  /\ Unique(new.rules)
                 /\ \A x \in Paths : LastPolicy(new.rules, x) = IF x = path THEN policy[p] ELSE asked[at[p]][x]
      <4>1. EditorGood(at[p], p)
        BY <3>5 DEF RulesInv, FileGood
      <4>2. PathOf(p).plain /\ Unique(buf[p].rules) /\ SaysAsked(buf[p].rules, at[p])
        BY <2>1, <4>1 DEF EditorGood
      <4>3. /\ Unique(new.rules)
            /\ \A x : LastPolicy(new.rules, x) = IF x = path THEN policy[p] ELSE LastPolicy(buf[p].rules, x)
        <5>1. buf[p] \in FileRec /\ policy[p] \in {Public, Forbidden} /\ PathOf(p).names \in Seq(Nat)
          BY <1>0, <3>1, <3>2, <3>5
        <5> DEFINE file == buf[p]
                   meant == PathOf(p)
                   pol == policy[p]
        <5>2. file \in FileRec /\ pol \in {Public, Forbidden} /\ meant.names \in Seq(Nat)
          BY <5>1
        <5>3. Unique(file.rules) /\ meant.plain
          BY <4>2
        <5> HIDE DEF file, meant, pol
        <5>4. /\ Unique(upsert_policy(file, meant, pol).rules)
              /\ \A x : LastPolicy(upsert_policy(file, meant, pol).rules, x) =
                          IF x = meant.names THEN pol ELSE LastPolicy(file.rules, x)
          BY <5>2, <5>3, UpsertKeeps
        <5> QED
          BY <5>4, Zenon DEF file, meant, pol
      <4> HIDE DEF new, path
      <4> QED
        BY <4>2, <4>3 DEF SaysAsked
    <3> HIDE DEF new, path
    <3> QED
      BY <1>0, <2>1, <2>2, <3>3, <3>4, <3>5, FillKeeps
  <2>3. CASE pc' = [pc EXCEPT ![p] = "done"] /\ spoiled' = spoiled \union {at[p]} /\ gmap' = gmap /\ asked' = asked
    BY <1>0, <2>1, <2>3, EditCutShort DEF EditSteps
  <2>4. ASSUME NEW step \in {"done", "sync", "flows", "rmdir"}, pc' = [pc EXCEPT ![p] = step]
        PROVE  pc' = [pc EXCEPT ![p] = pc'[p]] /\ pc'[p] \notin EditSteps
    BY <1>0, <2>4 DEF EditSteps
  <2>5. AfterRules(p) \in {"sync", "flows", "rmdir"}
    BY DEF AfterRules
  <2> HIDE DEF new, path
  <2>6. \/ /\ \E step \in {"done", "sync", "flows", "rmdir"} : pc' = [pc EXCEPT ![p] = step]
           /\ spoiled' = spoiled
           /\ gmap' = [gmap EXCEPT ![at[p]] = new] /\ asked' = [asked EXCEPT ![at[p]][path] = policy[p]]
        \/ pc' = [pc EXCEPT ![p] = "done"] /\ spoiled' = spoiled \union {at[p]} /\ gmap' = gmap /\ asked' = asked
    BY <1>10, <2>5 DEF WriteRules, RulesFailed, Answer, GoOn, Go, Spoil, new, path
  <2> QED
    BY <2>2, <2>3, <2>4, <2>6
<1>11. CASE RemoveProviderDir(p)
  BY <1>11, <1>a DEF RemoveProviderDir, GoOn, Go, otherVars, EditSteps
<1>12. CASE RunFlows(p)
  BY <1>12, <1>a DEF RunFlows, Answer, GoOn, Go, otherVars, rulesVars, EditSteps
<1>13. CASE setup_telegram_webhook(p)
  BY <1>13, <1>a DEF setup_telegram_webhook, Answer, GoOn, Go, otherVars, rulesVars, EditSteps
<1>14. CASE setup_slack_manifest(p)
  BY <1>14, <1>a DEF setup_slack_manifest, Answer, GoOn, Go, otherVars, rulesVars, EditSteps
<1>15. CASE slack_push_manifest(p)
  BY <1>15, <1>a DEF slack_push_manifest, Answer, GoOn, Go, otherVars, rulesVars, EditSteps
<1>16. CASE webex_list_webhooks(p)
  BY <1>16, <1>a DEF webex_list_webhooks, Answer, GoOn, Go, otherVars, rulesVars, EditSteps
<1>17. CASE ReconcileMessages(p)
  BY <1>17, <1>a DEF ReconcileMessages, Answer, GoOn, Go, otherVars, rulesVars, EditSteps
<1>18. CASE ReconcileCards(p)
  BY <1>18, <1>a DEF ReconcileCards, Answer, GoOn, Go, otherVars, rulesVars, EditSteps
<1>19. CASE PolicyCommand(p)
  <2>1. EffectiveScope(ask[p].scope) \in ScopeNames
    <3>1. Append(ask[p].scope, DefaultTeam) \in ScopeNames
      BY <1>s DEF ScopeNames
    <3> QED
      BY <1>s, <3>1 DEF EffectiveScope
  <2> QED
    BY <1>19, <1>b, <2>1 DEF PolicyCommand, Arrives, GoOn, Go, otherVars, EditSteps
<1>20. CASE SyncProject(p)
  BY <1>20, <1>a DEF SyncProject, Answer, GoOn, Go, rulesVars, EditSteps
<1>21. CASE copy_resolved_manifest(p)
  BY <1>21, <1>a DEF copy_resolved_manifest, Answer, Go, rulesVars, EditSteps
<1>22. CASE CreateScope(p)
  BY <1>22, <1>b, <1>s, ZenonT(60) DEF CreateScope, Arrives, Answer, GoOn, Go, otherVars, EditSteps
<1>23. CASE CheckFile(p)
  <2>1. /\ pc[p] = "check" /\ at' = at /\ ask' = ask /\ buf' = buf /\ files' = files /\ gmap' = gmap /\ asked' = asked
        /\ spoiled \subseteq spoiled' /\ (Overlapped(p) => at[p] \in spoiled')
    BY <1>23 DEF CheckFile, otherVars, Spoil
  <2>2. CASE at[p] \notin files /\ pc' = [pc EXCEPT ![p] = "make"]
    <3>1. pc'[p] = "make"
      BY <1>0, <2>2
    <3> QED
      BY <2>1, <2>2, <3>1, BeginEdit DEF EditSteps
  <2>3. CASE pc' = [pc EXCEPT ![p] = "done"]
    BY <1>a, <2>1, <2>3 DEF EditSteps
  <2> QED
    BY <1>23, <2>2, <2>3 DEF CheckFile, NeedsFile, Answer, GoOn, Go
<1>24. CASE MakeFile(p)
  <2>1. pc[p] = "make" /\ at' = at /\ ask' = ask /\ buf' = buf /\ pc' = [pc EXCEPT ![p] = "done"]
    BY <1>24 DEF MakeFile, Answer, Go, otherVars
  <2>2. CASE /\ files' = files \union {at[p]} /\ gmap' = [gmap EXCEPT ![at[p]] = ClosedFile]
             /\ asked' = [asked EXCEPT ![at[p]][<<>>] = Forbidden] /\ spoiled' = spoiled
    <3>1. ClosedFile \in FileRec /\ ClosedFile.rules = <<Rule(<<>>, Forbidden)>>
      <4>1. Rule(<<>>, Forbidden) \in RuleRec
        BY DEF Rule, RuleRec
      <4>2. <<Rule(<<>>, Forbidden)>> \in Seq(RuleRec)
        BY <4>1
      <4> QED
        BY <4>2 DEF ClosedFile, FileRec
    <3>2. ClosedFile.rules \in Seq(RuleRec) /\ DOMAIN ClosedFile.rules = {1} /\ ClosedFile.rules[1] = Rule(<<>>, Forbidden)
      <4>1. ClosedFile.rules \in Seq(RuleRec)
        BY <3>1 DEF FileRec
      <4>2. ASSUME NEW r PROVE DOMAIN <<r>> = {1} /\ <<r>>[1] = r
        OBVIOUS
      <4> QED
        BY <3>1, <4>1, <4>2, Zenon
    <3>3. Rule(<<>>, Forbidden).path = <<>> /\ Rule(<<>>, Forbidden).policy = Forbidden
      BY DEF Rule
    <3>4. Unique(ClosedFile.rules)
      BY <3>2 DEF Unique
    <3>5. ASSUME NEW x PROVE LastPolicy(ClosedFile.rules, x) = IF x = <<>> THEN Forbidden ELSE NoDecision
      BY <3>2, <3>3, <3>4, LastOfUnique
    <3>6. ASSUME at[p] \in Scopes \ spoiled, NEW x \in Paths PROVE asked[at[p]][x] = NoDecision
      <4>1. FileGood(at[p])
        BY <3>6 DEF RulesInv
      <4>2. at[p] \notin files
        BY <2>1, <4>1 DEF FileGood, EditorGood
      <4>3. gmap[at[p]] = EmptyFile
        BY <3>6, <4>2 DEF RulesInv, RulesTypes
      <4>4. \A q \in Procs : ~(at[q] = at[p] /\ pc[q] = "fill")
        BY <2>1, <4>1 DEF FileGood, Editing
      <4>5. SaysAsked(gmap[at[p]].rules, at[p])
        BY <4>1, <4>4 DEF FileGood
      <4> QED
        BY <3>6, <4>3, <4>5, EmptyFileGood DEF SaysAsked, EmptySays
    <3>7. pc'[p] = "done"
      BY <1>0, <2>1
    <3>8. /\ Unique(ClosedFile.rules)
          /\ at[p] \in Scopes \ spoiled =>
               \A x \in Paths : LastPolicy(ClosedFile.rules, x) = IF x = <<>> THEN Forbidden ELSE asked[at[p]][x]
      BY <3>4, <3>5, <3>6
    <3> QED
      BY <2>1, <2>2, <3>1, <3>7, <3>8, FillKeeps DEF EditSteps
  <2>3. CASE /\ files' \in {files, files \union {at[p]}} /\ spoiled' = spoiled \union {at[p]}
             /\ gmap' = gmap /\ asked' = asked
    BY <1>0, <2>1, <2>3, EditCutShort DEF EditSteps
  <2> QED
    BY <1>24, <2>2, <2>3 DEF MakeFile, Spoil
<1> QED
  BY <1>1, <1>2, <1>3, <1>4, <1>5, <1>6, <1>7, <1>8, <1>9, <1>10, <1>11, <1>12, <1>13, <1>14, <1>15, <1>16,
     <1>17, <1>18, <1>19, <1>20, <1>21, <1>22, <1>23, <1>24 DEF Step

LEMMA RulesKept ==
    ASSUME PlaceInv, RulesInv, [Onboard]_onboarding
    PROVE  RulesInv'
<1>1. ASSUME NEW dying \in SUBSET Procs, Die(dying) PROVE RulesInv'
  <2>1. /\ at' = at /\ ask' = ask /\ buf' = buf /\ gmap' = gmap /\ asked' = asked
        /\ pc' = [p \in Procs |-> IF p \in dying /\ Running(p) THEN "dead" ELSE pc[p]]
        /\ files' \in {files, files \union {at[p] : p \in {q \in dying : pc[q] = "make"}}}
        /\ spoiled' = spoiled \union {at[p] : p \in {q \in dying : pc[q] \in {"fill", "make"}}}
    BY <1>1 DEF Die, otherVars
  <2>2. files \subseteq files' /\ files' \ files \subseteq spoiled' /\ spoiled \subseteq spoiled'
    BY <2>1
  <2>3. ASSUME NEW q \in Procs
        PROVE  pc'[q] = pc[q] \/ (pc'[q] \notin EditSteps /\ (pc[q] = "fill" => at[q] \in spoiled'))
    <3>1. CASE q \in dying
      BY <2>1, <3>1 DEF EditSteps
    <3>2. CASE q \notin dying
      BY <2>1, <3>2
    <3> QED
      BY <3>1, <3>2
  <2> QED
    BY <2>1, <2>2, <2>3, EditCutShort
<1>2. CASE UNCHANGED onboarding
  <2>1. /\ at' = at /\ ask' = ask /\ buf' = buf /\ gmap' = gmap /\ asked' = asked /\ pc' = pc
        /\ files' = files /\ spoiled' = spoiled
    BY <1>2 DEF onboarding, onboardVars, fileVars
  <2> QED
    BY <2>1, EditCutShort
<1> QED
  BY <1>1, <1>2, OnboardStep, RulesStep

LEMMA RulesStart ==
    ASSUME OnboardStarts
    PROVE  RulesInv
<1>1. PICK requests, there, known, rules, hooked, stored :
        /\ requests \in [Procs -> Request] /\ known \in SUBSET Scopes /\ rules \in [known -> AccessFile]
        /\ OnboardInit(requests, there, rules, hooked, stored)
  BY DEF OnboardStarts
<1>2. /\ ask = requests /\ pc = [p \in Procs |-> "idle"] /\ at = [p \in Procs |-> ask[p].scope]
      /\ buf = [p \in Procs |-> EmptyFile] /\ spoiled = {} /\ files = known
      /\ gmap = [s \in Scopes |-> IF s \in files THEN rules[s] ELSE EmptyFile]
      /\ asked = [s \in Scopes |-> [x \in Paths |-> LastPolicy(gmap[s].rules, x)]]
  BY <1>1 DEF OnboardInit
<1>3. \A f \in AccessFile : f \in FileRec /\ Unique(f.rules)
  BY DEF AccessFile, FileRec, RuleRec, Unique
<1>4. ASSUME NEW s \in Scopes PROVE gmap[s] \in FileRec /\ Unique(gmap[s].rules)
  <2>1. CASE s \in known
    <3>1. gmap[s] = rules[s] /\ rules[s] \in AccessFile
      BY <1>1, <1>2, <2>1
    <3> QED
      BY <1>3, <3>1
  <2>2. CASE s \notin known
    <3>1. gmap[s] = EmptyFile
      BY <1>2, <2>2
    <3> QED
      BY <3>1, EmptyFileGood
  <2> QED
    BY <2>1, <2>2
<1>5. ASSUME NEW s \in Scopes, NEW x \in Paths
      PROVE  LastPolicy(gmap[s].rules, x) \in {Public, Forbidden, NoDecision}
  <2> DEFINE rs == gmap[s].rules
  <2>1. rs \in Seq(RuleRec) /\ Unique(rs)
    BY <1>4 DEF FileRec
  <2> HIDE DEF rs
  <2>2. CASE \E i \in DOMAIN rs : rs[i].path = x
    <3>1. PICK i \in DOMAIN rs : rs[i].path = x
      BY <2>2
    <3>2. rs[i].policy \in {Public, Forbidden}
      <4>1. rs[i] \in RuleRec
        BY <2>1
      <4> QED
        BY <4>1 DEF RuleRec
    <3>3. LastPolicy(rs, rs[i].path) = rs[i].policy
      BY <2>1, LastOfUnique
    <3> QED
      BY <3>1, <3>2, <3>3 DEF rs
  <2>3. CASE \A i \in DOMAIN rs : rs[i].path # x
    BY <2>1, <2>3, LastOfUnique DEF rs
  <2> QED
    BY <2>2, <2>3
<1>6. \A p \in Procs : ask[p].scope \in ScopeNames
  <2> SUFFICES ASSUME NEW p \in Procs PROVE ask[p].scope \in ScopeNames
    OBVIOUS
  <2>0. ask[p] \in Request /\ ask[p].op \in {"submit", "policy", "scope"}
    BY <1>1, <1>2, RequestFields
  <2>1. ask[p].scope \in Scopes
    <3>1. CASE ask[p].op = "submit"
      BY <2>0, <3>1 DEF Request
    <3>2. CASE ask[p].op = "policy"
      BY <2>0, <3>2 DEF Request
    <3>3. CASE ask[p].op = "scope"
      BY <2>0, <3>3 DEF Request
    <3> QED
      BY <2>0, <3>1, <3>2, <3>3
  <2>2. ask[p].scope \in Seq(STRING)
    BY <2>1, OnboardAssumption
  <2> QED
    BY <2>2 DEF ScopeNames
<1>7. RulesTypes
  <2>1. asked \in [Scopes -> [Paths -> {Public, Forbidden, NoDecision}]]
    BY <1>2, <1>5
  <2>2. gmap \in [Scopes -> FileRec] /\ \A s \in Scopes : s \notin files => gmap[s] = EmptyFile
    BY <1>2, <1>4
  <2>3. at \in [Procs -> ScopeNames] /\ \A p \in Procs : pc[p] \notin {"truncate", "fill"}
    BY <1>2, <1>6
  <2> QED
    BY <1>2, <2>1, <2>2, <2>3 DEF RulesTypes
<1>8. ASSUME NEW s \in Scopes PROVE FileGood(s)
  <2>1. \A p \in Procs : pc[p] = "idle"
    BY <1>2
  <2>2. SaysAsked(gmap[s].rules, s)
    BY <1>2 DEF SaysAsked
  <2> QED
    BY <1>4, <2>1, <2>2 DEF FileGood, EditorGood, Editing
<1> QED
  BY <1>7, <1>8 DEF RulesInv

(***************************************************************************)
(* An edit of a scope's rules that returned stands, and is all that         *)
(* changed: upsert_policy, create_tenant and create_team, for any number    *)
(* of requests and commands, in files with and without comments.            *)
(***************************************************************************)
THEOREM EditsStand == OnboardSpec => []RulesStand
<1>1. RulesInv => RulesStand
  BY DEF RulesInv, FileGood, SaysAsked, RulesStand
<1> QED
  BY <1>1, PlaceStart, PlaceKept, RulesStart, RulesKept, PTL DEF OnboardSpec

-----------------------------------------------------------------------------
(* What the rules decide. *)

(* The loop of eval_policy ends with the last of the most specific rules that match. *)
LEMMA LoopDecides ==
    ASSUME NEW rules \in Seq(RuleRec), NEW target
    PROVE  LET hits == {i \in DOMAIN rules : matches_target(rules[i].path, target)}
           IN /\ hits = {} => eval_policy(rules, target) = NoDecision
              /\ hits # {} => \E i \in hits :
                   /\ eval_policy(rules, target) = rules[i].policy
                   /\ \A j \in hits : /\ specificity_rank(rules[j].path) <= specificity_rank(rules[i].path)
                                      /\ specificity_rank(rules[j].path) = specificity_rank(rules[i].path) => j <= i
                   /\ specificity_rank(rules[i].path) \in Nat
<1> DEFINE n  == Len(rules)
           H  == {i \in DOMAIN rules : matches_target(rules[i].path, target)}
           rk == [i \in 1..n |-> specificity_rank(rules[i].path)]
<1>1. n \in Nat /\ DOMAIN rules = 1..n /\ H \subseteq 1..n
  OBVIOUS
<1>2. rk \in [1..n -> Nat] /\ \A i \in 1..n : rk[i] = specificity_rank(rules[i].path)
  <2>1. \A i \in 1..n : rules[i].path \in Seq(Nat)
    <3>1. \A i \in 1..n : rules[i] \in RuleRec
      OBVIOUS
    <3>2. \A r \in RuleRec : r.path \in Seq(Nat)
      BY DEF RuleRec
    <3> QED
      BY <3>1, <3>2
  <2>2. \A i \in 1..n : specificity_rank(rules[i].path) \in Nat
    BY <2>1, RankType
  <2> QED
    BY <2>2
<1>3. PICK f : Evaluates(f, rules, target, n) /\ eval_policy(rules, target) = f[n].policy
  BY EvalIsLoop
<1>4. f[0].policy = NoDecision /\ f[0].rank = -1
  <2>1. f[0] = Undecided
    BY <1>1, <1>3 DEF Evaluates
  <2> QED
    BY <2>1 DEF Undecided
<1>5. ASSUME NEW k \in 1..n
      PROVE  /\ k \in H /\ rk[k] >= f[k - 1].rank => f[k].policy = rules[k].policy /\ f[k].rank = rk[k]
             /\ ~(k \in H /\ rk[k] >= f[k - 1].rank) => f[k] = f[k - 1]
  <2>1. f[k] = Decide(f[k - 1], rules[k], target)
    BY <1>1, <1>3 DEF Evaluates
  <2>2. matches_target(rules[k].path, target) <=> k \in H
    BY <1>1
  <2>3. rk[k] = specificity_rank(rules[k].path)
    BY <1>2
  <2> HIDE DEF H, rk
  <2> QED
    BY <2>1, <2>2, <2>3 DEF Decide, Better
<1> HIDE DEF n, H, rk
<1> DEFINE Leads(i, k) == /\ i <= k /\ f[k].policy = rules[i].policy /\ f[k].rank = rk[i]
                          /\ \A j \in H : j <= k => rk[j] <= rk[i] /\ (rk[j] = rk[i] => j <= i)
           Good(k) == \/ (\A j \in H : k < j) /\ f[k].policy = NoDecision /\ f[k].rank = -1
                      \/ \E i \in H : Leads(i, k)
           G == {k \in 0..n : Good(k)}
<1>6. 0 \in G
  <2>1. \A j \in H : 0 < j
    BY <1>1
  <2> QED
    BY <1>1, <1>4, <2>1
<1>7. ASSUME NEW k \in 1..n, k - 1 \in G PROVE k \in G
  <2>0. k \in Nat /\ \A j \in H : j \in Nat /\ rk[j] \in Nat /\ (j <= k <=> j <= k - 1 \/ j = k)
    BY <1>1, <1>2
  <2>1. CASE k \in H /\ rk[k] >= f[k - 1].rank
    <3>1. f[k].policy = rules[k].policy /\ f[k].rank = rk[k]
      BY <1>5, <2>1
    <3>2. ASSUME NEW j \in H, j <= k PROVE rk[j] <= rk[k] /\ (rk[j] = rk[k] => j <= k)
      <4>1. CASE j = k
        BY <2>0, <4>1
      <4>2. CASE j <= k - 1
        <5>1. ~(k - 1 < j)
          BY <2>0, <4>2
        <5>2. PICK i \in H : Leads(i, k - 1)
          BY <1>7, <5>1
        <5>3. f[k - 1].rank = rk[i] /\ rk[j] <= rk[i]
          BY <4>2, <5>2
        <5>4. rk[i] <= rk[k] /\ rk[i] \in Nat /\ rk[j] \in Nat /\ rk[k] \in Nat
          BY <2>0, <2>1, <5>3
        <5>5. rk[j] <= rk[k]
          BY <5>3, <5>4
        <5> QED
          BY <4>2, <5>5, <2>0
      <4> QED
        BY <2>0, <3>2, <4>1, <4>2
    <3>3. Leads(k, k)
      BY <2>0, <3>1, <3>2
    <3> QED
      BY <2>1, <3>3
  <2>2. CASE ~(k \in H /\ rk[k] >= f[k - 1].rank)
    <3>1. f[k] = f[k - 1]
      BY <1>5, <2>2
    <3>2. CASE (\A j \in H : k - 1 < j) /\ f[k - 1].policy = NoDecision /\ f[k - 1].rank = -1
      <4>1. k \notin H
        BY <2>0, <2>2, <3>2
      <4>2. \A j \in H : k < j
        BY <2>0, <3>2, <4>1
      <4> QED
        BY <3>1, <3>2, <4>2
    <3>3. CASE \E i \in H : Leads(i, k - 1)
      <4>1. PICK i \in H : Leads(i, k - 1)
        BY <3>3
      <4>2. ASSUME NEW j \in H, j <= k PROVE rk[j] <= rk[i] /\ (rk[j] = rk[i] => j <= i)
        <5>1. CASE j = k
          BY <2>0, <2>2, <4>1, <5>1
        <5>2. CASE j <= k - 1
          BY <4>1, <5>2
        <5> QED
          BY <2>0, <4>2, <5>1, <5>2
      <4>3. Leads(i, k)
        BY <2>0, <3>1, <4>1, <4>2
      <4> QED
        BY <4>3
    <3> QED
      BY <1>7, <3>2, <3>3
  <2> QED
    BY <2>1, <2>2
<1>8. Good(n)
  <2>1. G \in SUBSET Nat
    OBVIOUS
  <2> HIDE DEF G
  <2>2. \A m \in 0..n : m \in G
    BY <1>1, <1>6, <1>7, <2>1, InductionUpTo
  <2>3. n \in G
    BY <1>1, <2>2
  <2> HIDE DEF Good
  <2> QED
    BY <2>3 DEF G
<1>9. ASSUME H = {} PROVE f[n].policy = NoDecision
  BY <1>8, <1>9
<1>10. ASSUME H # {} PROVE \E i \in H : Leads(i, n)
  <2>1. \A j \in H : ~(n < j)
    BY <1>1
  <2> QED
    BY <1>8, <1>10, <2>1
<1>11. ASSUME H # {}
       PROVE  \E i \in H : /\ f[n].policy = rules[i].policy
                           /\ \A j \in H : rk[j] <= rk[i] /\ (rk[j] = rk[i] => j <= i)
                           /\ rk[i] \in Nat
  <2>1. PICK i \in H : Leads(i, n)
    BY <1>10, <1>11
  <2>2. \A j \in H : j <= n
    BY <1>1
  <2>3. rk[i] \in Nat
    BY <1>1, <1>2
  <2> QED
    BY <2>1, <2>2, <2>3
<1>12. \A i \in H : rk[i] = specificity_rank(rules[i].path)
  BY <1>1, <1>2
<1> HIDE DEF Leads, Good, G
<1> QED
  BY <1>3, <1>9, <1>11, <1>12 DEF H

(***************************************************************************)
(* However many requests and commands have edited and sorted the rules,     *)
(* what eval_policy decides for a target is the policy of the last of the   *)
(* most specific rules that match it.                                       *)
(***************************************************************************)
THEOREM SpecificRulesDecide == OnboardSpec => []MostSpecificDecides
<1>1. ASSUME RulesInv PROVE MostSpecificDecides
  <2> SUFFICES ASSUME NEW s \in Scopes, NEW t \in Paths
               PROVE  LET rules == gmap[s].rules
                          hits  == {i \in DOMAIN rules : matches_target(rules[i].path, t)}
                          best  == {i \in hits : \A j \in hits :
                                      specificity_rank(rules[j].path) <= specificity_rank(rules[i].path)}
                      IN eval_policy(rules, t) =
                           IF hits = {} THEN NoDecision ELSE rules[CHOOSE i \in best : \A j \in best : j <= i].policy
    BY DEF MostSpecificDecides
  <2> DEFINE rules == gmap[s].rules
             hits  == {i \in DOMAIN rules : matches_target(rules[i].path, t)}
             rank(i) == specificity_rank(rules[i].path)
             best  == {i \in hits : \A j \in hits : rank(j) <= rank(i)}
  <2>1. rules \in Seq(RuleRec)
    <3>1. gmap[s] \in FileRec
      BY <1>1 DEF RulesInv, RulesTypes
    <3> QED
      BY <3>1 DEF FileRec
  <2>2. hits = {} => eval_policy(rules, t) = NoDecision
    BY <2>1, LoopDecides
  <2>3. ASSUME hits # {} PROVE eval_policy(rules, t) = rules[CHOOSE i \in best : \A j \in best : j <= i].policy
    <3>1. PICK i \in hits : /\ eval_policy(rules, t) = rules[i].policy
                            /\ \A j \in hits : rank(j) <= rank(i) /\ (rank(j) = rank(i) => j <= i)
                            /\ rank(i) \in Nat
      BY <2>1, <2>3, LoopDecides
    <3>2. \A j \in hits : j \in Nat /\ rank(j) \in Nat
      <4>1. \A j \in DOMAIN rules : j \in Nat /\ rules[j] \in RuleRec
        BY <2>1
      <4>2. \A r \in RuleRec : r.path \in Seq(Nat)
        BY DEF RuleRec
      <4> QED
        BY <4>1, <4>2, RankType
    <3> HIDE DEF rules, hits, rank
    <3>3. i \in best
      BY <3>1
    <3>4. \A j \in best : j <= i
      BY <3>1, <3>2
    <3>5. ASSUME NEW k \in best, \A j \in best : j <= k PROVE k = i
      <4>1. k <= i /\ i <= k /\ k \in Nat /\ i \in Nat
        BY <3>2, <3>3, <3>4, <3>5
      <4> QED
        BY <4>1
    <3>6. (CHOOSE k \in best : \A j \in best : j <= k) = i
      BY <3>3, <3>4, <3>5
    <3> QED
      BY <3>1, <3>6
  <2> QED
    BY <2>2, <2>3
<1> QED
  BY <1>1, PlaceStart, PlaceKept, RulesStart, RulesKept, PTL DEF OnboardSpec

===========================================================================
