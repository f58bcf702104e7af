----------------------------- MODULE OpPipeline -----------------------------
(***************************************************************************)
(* The operator pipeline of src/demo/runner_host.rs.  Threads of the HTTP   *)
(* ingress, the timer scheduler and the CLI share one DemoRunnerHost and    *)
(* call invoke_provider_op or invoke_capability; each call goes through     *)
(* admission, token validation, the pre-hook chain, the target component    *)
(* and the post-hook chain.  A provider flow whose payload carries an OAuth *)
(* card makes a nested capability call while the card is rendered.          *)
(*                                                                          *)
(* Every call into a WASM component (validator, hook, target) is one step,  *)
(* so that other invocations and the CLI commands that write install        *)
(* records interleave between them; what the component answers is a         *)
(* nondeterministic choice.                                                 *)
(***************************************************************************)
EXTENDS Capabilities, Sequences

CONSTANTS Inv,        \* concurrent invocations of the host
          TokenCap, CardCap, BrokerCap, PreCap, PostCap,  \* well-known capability ids
          BrokerOps,  \* the OAuth broker operations that are accepted
          CardOp,     \* "oauth.card.resolve"
          CapOpName,  \* CapOpName[cap] is the op name "cap.invoke:<cap>"
          TokenOps,   \* the op names that start with "cap.invoke:<TokenCap>"
          Rewrites,   \* envelopes a hook may put in place of the one it was given
          Requests,   \* calls the host may receive
          MarkCommands \* <<tenant, cap, status>> of the mark commands that are run

Status == {"pending", "denied", "ok", "err"}

(* What hooks and subscribers see of an OperationEnvelope. *)
Envelope == [op_name : OpNames, status : Status, tenant : Tenants]

WithStatus(e, s) == [op_name |-> e.op_name, status |-> s, tenant |-> e.tenant]

(***************************************************************************)
(* A frame is one activation of the pipeline: the call itself, or the       *)
(* nested call that resolves an OAuth card for it.                          *)
(***************************************************************************)
Frames == Inv \X {"root", "card"}
Root(i) == <<i, "root">>
Card(i) == <<i, "card">>

(***************************************************************************)
(* A request.  bearer: the payload holds a bearer token, so that a token    *)
(* validation request can be extracted from it.  route is how the catalog   *)
(* serves a provider op: an entry flow, a flow whose payload carries an     *)
(* OAuth card, a component op, or no such provider.                         *)
(***************************************************************************)
Request == [kind : {"provider", "capability"}, cap : Caps, op : OpNames \cup {NoOp},
            tenant : Tenants, bearer : BOOLEAN,
            route : {"flow", "card_flow", "component", "absent"}]

ASSUME PipelineAssumption ==
    /\ {TokenCap, CardCap, BrokerCap, PreCap, PostCap} \subseteq Caps
    /\ CapOpName \in [Caps -> OpNames]
    /\ TokenOps \subseteq OpNames
    /\ CapOpName[TokenCap] \in TokenOps
    /\ BrokerOps \subseteq OpNames
    /\ CardOp \in OpNames
    /\ Rewrites \subseteq Envelope
    /\ Requests \subseteq Request
    /\ MarkCommands \subseteq Tenants \X Caps \X {"ready", "failed"}
    /\ Tenants # {}

(* What the caller gets: ok and fail are FlowOutcomes of the target, denied *)
(* and refused failed FlowOutcomes without one, err is an Err.              *)
Results == {"none", "ok", "fail", "denied", "refused", "err"}

VARIABLES pc,         \* where each frame is
          req,        \* the request it serves
          env,        \* its OperationEnvelope
          todo,       \* hooks of the current chain still to be evaluated
          result,     \* what it returned
          install,    \* install record files, per tenant and stable id
          marking,    \* install records being written, with the status to come
          subs,       \* history: sub.pre / sub.post emissions of each frame
          runs,       \* history: tenants the target component ran for, in order
          denySeen,   \* history: a validator or pre-hook denied the frame
          validated,  \* history: the validator accepted the frame's token
          everReady   \* history: <<tenant, stable id>> that were ever marked ready

vars == <<pc, req, env, todo, result, install, marking,
          subs, runs, denySeen, validated, everReady>>

Places == Tenants \X StableIds
PCs == {"idle", "token", "validate", "pre", "target", "post", "done"}
Subs == {"sub.pre", "sub.post"} \X Status

(* Every variable has its type: frames are where the code can be, logs hold *)
(* emissions, files are absent, torn or complete.                           *)
TypeOK ==
    /\ pc \in [Frames -> PCs]
    /\ req \in [Frames -> Request]
    /\ env \in [Frames -> Envelope]
    /\ todo \in [Frames -> SUBSET Offers]
    /\ result \in [Frames -> Results]
    /\ install \in [Places -> {"absent", "torn", "ready", "failed"}]
    /\ marking \in SUBSET (Places \X {"ready", "failed"})
    /\ subs \in [Frames -> Seq(Subs)]
    /\ runs \in [Frames -> Seq(Tenants)]
    /\ denySeen \in [Frames -> BOOLEAN]
    /\ validated \in [Frames -> BOOLEAN]
    /\ everReady \in SUBSET Places

AnyRequest == CHOOSE r \in Request : TRUE
AnyEnvelope == CHOOSE e \in Envelope : TRUE

Init ==
    /\ pc = [f \in Frames |-> "idle"]
    /\ req = [f \in Frames |-> AnyRequest]
    /\ env = [f \in Frames |-> AnyEnvelope]
    /\ todo = [f \in Frames |-> {}]
    /\ result = [f \in Frames |-> "none"]
    /\ install = [p \in Places |-> "absent"]
    /\ marking = {}
    /\ subs = [f \in Frames |-> <<>>]
    /\ runs = [f \in Frames |-> <<>>]
    /\ denySeen = [f \in Frames |-> FALSE]
    /\ validated = [f \in Frames |-> FALSE]
    /\ everReady = {}

files == <<install, marking, everReady>>

-----------------------------------------------------------------------------
(* Steps shared by the two entry points. *)

Place(o, t) == <<t, Offer[o].stable_id>>

(* Mutant: any complete install record counts as ready. *)
Bug_Readiness(o, t) ==
    IF Offer[o].requires_setup /\ install[Place(o, t)] = "absent" THEN "not_ready" ELSE "ready"

(***************************************************************************)
(* is_binding_ready: an offer that requires setup needs a ready install     *)
(* record; a torn record is a JSON error that reaches the caller as Err.    *)
(***************************************************************************)
Readiness(o, t) ==
    IF ~Offer[o].requires_setup THEN "ready"
    ELSE CASE install[Place(o, t)] = "ready" -> "ready"
           [] install[Place(o, t)] = "torn" -> "err"
           [] OTHER -> "not_ready"

(* The frame returns r; the new emissions are appended to its log. *)
Return(f, r, emitted) ==
    /\ pc' = [pc EXCEPT ![f] = "done"]
    /\ result' = [result EXCEPT ![f] = r]
    /\ subs' = [subs EXCEPT ![f] = @ \o emitted]
    /\ todo' = [todo EXCEPT ![f] = {}]

(***************************************************************************)
(* A denial returns at once.  A denying pre-hook comes after emit_pre_sub   *)
(* is due, a denying validator before it: invoke_provider_op then emits     *)
(* both, invoke_capability the post-sub only.                               *)
(***************************************************************************)
DeniedPost == <<"sub.post", "denied">>

(* Mutant: the envelope is named after the requested op. *)
Bug_OpName(r) == r.op

OpName(r) == IF r.kind = "provider" THEN r.op ELSE CapOpName[r.cap]

(* OperationEnvelope::new and the jump into token validation. *)
EnterPipeline(f, r) ==
    /\ pc' = [pc EXCEPT ![f] = "token"]
    /\ req' = [req EXCEPT ![f] = r]
    /\ env' = [env EXCEPT ![f] = [op_name |-> OpName(r), status |-> "pending",
                                  tenant |-> r.tenant]]
    /\ UNCHANGED <<todo, result, subs>>

-----------------------------------------------------------------------------
(* Entry. *)

(***************************************************************************)
(* invoke_capability up to the pipeline: the OAuth broker's op list, the    *)
(* resolution of the offer, its install record.                             *)
(***************************************************************************)
BrokerRefuses(r) == r.cap = BrokerCap /\ r.op \notin BrokerOps

AdmitCapability(f, r) ==
    LET cands == Candidates(r.cap, r.tenant, r.op)
        Refuse(res) == Return(f, res, <<>>) /\ req' = [req EXCEPT ![f] = r] /\ UNCHANGED env
    IN  \/ (BrokerRefuses(r) \/ cands = {}) /\ Refuse("refused")
        \/ /\ ~BrokerRefuses(r)
           /\ \E o \in cands :
                /\ IsFirst(o, cands)
                /\ \/ Readiness(o, r.tenant) = "ready" /\ EnterPipeline(f, r)
                   \/ Readiness(o, r.tenant) = "not_ready" /\ Refuse("refused")
                   \/ Readiness(o, r.tenant) = "err" /\ Refuse("err")

InvokeCapability(i, r) ==
    /\ pc[Root(i)] = "idle"
    /\ r.kind = "capability" /\ r.route = "component"
    /\ AdmitCapability(Root(i), r)
    /\ UNCHANGED <<runs, denySeen, validated, files>>

InvokeProviderOp(i, r) ==
    /\ pc[Root(i)] = "idle"
    /\ r.kind = "provider" /\ r.op # NoOp
    /\ EnterPipeline(Root(i), r)
    /\ UNCHANGED <<runs, denySeen, validated, files>>

-----------------------------------------------------------------------------
(* Token validation. *)

StartPreHooks(f) ==
    /\ pc' = [pc EXCEPT ![f] = "pre"]
    /\ todo' = [todo EXCEPT ![f] = resolve_hook_chain(PreCap, OpName(req[f]))]
    /\ UNCHANGED <<result, subs>>

TokenDenialSubs(f) ==
    IF req[f].kind = "provider" THEN << <<"sub.pre", "denied">>, DeniedPost >>
    ELSE << DeniedPost >>

DenyToken(f) ==
    /\ Return(f, "denied", TokenDenialSubs(f))
    /\ env' = [env EXCEPT ![f] = WithStatus(@, "denied")]
    /\ denySeen' = [denySeen EXCEPT ![f] = TRUE]

TokenCands(f) == Candidates(TokenCap, req[f].tenant, NoOp)

(***************************************************************************)
(* The prefix that is to spare the validator its own validation: a longer   *)
(* capability id matches it too, and so does a provider's operation that    *)
(* has such a name.                                                         *)
(***************************************************************************)
NamedLikeValidator(r) == OpName(r) \in TokenOps

(* Mutant: a validator that is not installed is treated like none offered. *)
Bug_SkipsValidation(f) ==
    \/ NamedLikeValidator(req[f])
    \/ ~req[f].bearer
    \/ \A o \in TokenCands(f) : Readiness(o, req[f].tenant) = "not_ready"

(* No validation for a call named like the validator's, without a token, or *)
(* when no validator is offered to the tenant.                              *)
SkipsValidation(f) ==
    \/ NamedLikeValidator(req[f])
    \/ ~req[f].bearer
    \/ TokenCands(f) = {}

TokenSkip(f) ==
    /\ pc[f] = "token" /\ SkipsValidation(f)
    /\ StartPreHooks(f)
    /\ UNCHANGED <<req, env, runs, denySeen, validated, files>>

TokenReadiness(f) ==
    /\ pc[f] = "token" /\ ~SkipsValidation(f)
    /\ \E o \in TokenCands(f) :
         /\ IsFirst(o, TokenCands(f))
         /\ \/ /\ Readiness(o, req[f].tenant) = "ready"
               /\ pc' = [pc EXCEPT ![f] = "validate"]
               /\ UNCHANGED <<result, subs, todo, env, denySeen>>
            \/ Readiness(o, req[f].tenant) = "not_ready" /\ DenyToken(f)
            \/ /\ Readiness(o, req[f].tenant) = "err"
               /\ Return(f, "err", <<>>) /\ UNCHANGED <<env, denySeen>>
    /\ UNCHANGED <<req, runs, validated, files>>

(* The validator accepts; a failure, no output or an invalid token deny.    *)
TokenValidate(f) ==
    /\ pc[f] = "validate"
    /\ \/ /\ StartPreHooks(f)
          /\ validated' = [validated EXCEPT ![f] = TRUE]
          /\ UNCHANGED <<env, denySeen>>
       \/ DenyToken(f) /\ UNCHANGED validated
       \/ Return(f, "err", <<>>) /\ UNCHANGED <<env, denySeen, validated>>
    /\ UNCHANGED <<req, runs, files>>

-----------------------------------------------------------------------------
(* The hook chains.  A hook that fails, answers nothing or answers something *)
(* that cannot be decoded is skipped; one that cannot be called is an Err.   *)

HookSkipped(f, o) == todo' = [todo EXCEPT ![f] = @ \ {o}]

(* The hook may put another envelope in place of the current one. *)
HookEnvelope(f) == {env[f]} \cup Rewrites

(* Mutant: the denial is noted in the envelope and the chain goes on. *)
Bug_PreHookDenies(f, o, e) ==
    /\ env' = [env EXCEPT ![f] = WithStatus(e, "denied")]
    /\ denySeen' = [denySeen EXCEPT ![f] = TRUE]
    /\ HookSkipped(f, o)
    /\ UNCHANGED <<pc, result, subs>>

PreHookDenies(f, o, e) ==
    /\ env' = [env EXCEPT ![f] = WithStatus(e, "denied")]
    /\ denySeen' = [denySeen EXCEPT ![f] = TRUE]
    /\ Return(f, "denied", << <<"sub.pre", e.status>>, DeniedPost >>)

PreHook(f) ==
    /\ pc[f] = "pre"
    /\ \E o \in todo[f] :
         /\ IsFirst(o, todo[f])
         /\ \/ /\ HookSkipped(f, o)
               /\ UNCHANGED <<pc, env, result, subs, denySeen>>
            \/ /\ \E e \in HookEnvelope(f) : env' = [env EXCEPT ![f] = e]
               /\ HookSkipped(f, o)
               /\ UNCHANGED <<pc, result, subs, denySeen>>
            \/ \E e \in HookEnvelope(f) : PreHookDenies(f, o, e)
            \/ Return(f, "err", <<>>) /\ UNCHANGED <<env, denySeen>>
    /\ UNCHANGED <<req, runs, validated, files>>

PreHooksDone(f) ==
    /\ pc[f] = "pre" /\ todo[f] = {}
    /\ subs' = [subs EXCEPT ![f] = Append(@, <<"sub.pre", env[f].status>>)]
    /\ pc' = [pc EXCEPT ![f] = "target"]
    /\ UNCHANGED <<req, env, todo, result, runs, denySeen, validated, files>>

(* Mutant: a denial by a post-hook is obeyed. *)
Bug_PostHook(f) ==
    /\ pc[f] = "post"
    /\ \E o \in todo[f] :
         /\ IsFirst(o, todo[f])
         /\ \/ HookSkipped(f, o) /\ UNCHANGED <<pc, env, result, subs>>
            \/ Return(f, "denied", <<DeniedPost>>) /\ UNCHANGED env
    /\ UNCHANGED <<req, runs, denySeen, validated, files>>

(***************************************************************************)
(* Post-hooks cannot deny, but they can replace the envelope whose status   *)
(* the post-sub reports.  The outcome waits in result.                      *)
(***************************************************************************)
PostHook(f) ==
    /\ pc[f] = "post"
    /\ \E o \in todo[f] :
         /\ IsFirst(o, todo[f])
         /\ \/ /\ HookSkipped(f, o)
               /\ UNCHANGED <<pc, env, result, subs>>
            \/ /\ \E e \in HookEnvelope(f) : env' = [env EXCEPT ![f] = e]
               /\ HookSkipped(f, o)
               /\ UNCHANGED <<pc, result, subs>>
            \/ Return(f, "err", <<>>) /\ UNCHANGED env
    /\ UNCHANGED <<req, runs, denySeen, validated, files>>

PostHooksDone(f) ==
    /\ pc[f] = "post" /\ todo[f] = {}
    /\ Return(f, result[f], << <<"sub.post", env[f].status>> >>)
    /\ UNCHANGED <<req, env, runs, denySeen, validated, files>>

-----------------------------------------------------------------------------
(* The target. *)

(* Mutant: the context of the envelope, as the hooks' calls use. *)
Bug_TargetTenant(f) == env[f].tenant

(* The context the target runs in. *)
TargetTenant(f) == req[f].tenant

(***************************************************************************)
(* The component runs for the caller's context, not for the envelope's.     *)
(* The post chain is resolved by the op of the call for a provider, and by  *)
(* the envelope's op name (which a hook may have replaced) for a capability. *)
(***************************************************************************)
RunComponent(f) ==
    /\ \/ \E outcome \in {"ok", "fail"} :
            /\ runs' = [runs EXCEPT ![f] = Append(@, TargetTenant(f))]
            /\ result' = [result EXCEPT ![f] = outcome]
            /\ env' = [env EXCEPT ![f] = WithStatus(@, IF outcome = "ok" THEN "ok" ELSE "err")]
            /\ pc' = [pc EXCEPT ![f] = "post"]
            /\ todo' = [todo EXCEPT ![f] = resolve_hook_chain(PostCap,
                            IF req[f].kind = "provider" THEN req[f].op ELSE env[f].op_name)]
            /\ UNCHANGED subs
       \/ /\ Return(f, "err", <<>>)
          /\ \/ runs' = [runs EXCEPT ![f] = Append(@, TargetTenant(f))]
             \/ UNCHANGED runs
          /\ UNCHANGED env

TargetAbsent(f) ==
    /\ pc[f] = "target" /\ req[f].route = "absent"
    /\ Return(f, "err", <<>>)
    /\ UNCHANGED <<req, env, runs, denySeen, validated, files>>

TargetRun(f) ==
    /\ pc[f] = "target" /\ req[f].route \in {"flow", "component"}
    /\ RunComponent(f)
    /\ UNCHANGED <<req, denySeen, validated, files>>

(***************************************************************************)
(* render_if_needed finds a card placeholder and calls invoke_capability    *)
(* for the card capability; the nested payload may hold a token of its own. *)
(***************************************************************************)
TargetCard(i) ==
    /\ pc[Root(i)] = "target" /\ req[Root(i)].route = "card_flow"
    /\ pc[Card(i)] = "idle"
    /\ \E b \in BOOLEAN :
         AdmitCapability(Card(i), [kind |-> "capability", cap |-> CardCap, op |-> CardOp,
                                   tenant |-> req[Root(i)].tenant, bearer |-> b,
                                   route |-> "component"])
    /\ UNCHANGED <<runs, denySeen, validated, files>>

(* Mutant: the outcome of the nested call is not looked at. *)
Bug_CardResolved(i) == pc[Card(i)] = "done"

CardResolved(i) == result[Card(i)] = "ok"

(* The card is rewritten and the flow runs, unless the nested call did not  *)
(* succeed or its output lacks a start_url.                                  *)
TargetAfterCard(i) ==
    /\ pc[Root(i)] = "target" /\ req[Root(i)].route = "card_flow"
    /\ pc[Card(i)] = "done"
    /\ \/ CardResolved(i) /\ RunComponent(Root(i))
       \/ Return(Root(i), "err", <<>>) /\ UNCHANGED <<env, runs>>
    /\ UNCHANGED <<req, denySeen, validated, files>>

-----------------------------------------------------------------------------
(***************************************************************************)
(* demo capability mark-ready / mark-failed, a separate CLI process:        *)
(* resolve_capability without an op, then write_install_record, which       *)
(* truncates the file before it writes it.  The process may die in between. *)
(***************************************************************************)
MarkBegin(t, cap, st) ==
    \E o \in Candidates(cap, t, NoOp) :
      /\ IsFirst(o, Candidates(cap, t, NoOp))
      /\ install' = [install EXCEPT ![Place(o, t)] = "torn"]
      /\ marking' = marking \cup {<<Place(o, t), st>>}
      /\ UNCHANGED <<pc, req, env, todo, result, subs, runs, denySeen, validated, everReady>>

(* A write that lands on what an overlapping command has just written may   *)
(* leave a tail of it behind: the mix does not parse.                       *)
MarkEnd(m) ==
    /\ \/ install' = [install EXCEPT ![m[1]] = m[2]]
       \/ install[m[1]] # "torn" /\ install' = [install EXCEPT ![m[1]] = "torn"]
    /\ marking' = marking \ {m}
    /\ everReady' = IF m[2] = "ready" THEN everReady \cup {m[1]} ELSE everReady
    /\ UNCHANGED <<pc, req, env, todo, result, subs, runs, denySeen, validated>>

MarkCrash(m) ==
    /\ marking' = marking \ {m}
    /\ UNCHANGED <<pc, req, env, todo, result, install, subs, runs, denySeen, validated, everReady>>

-----------------------------------------------------------------------------
Invoke(i) == \E r \in Requests : InvokeCapability(i, r) \/ InvokeProviderOp(i, r)

FrameStep(f) ==
    \/ TokenSkip(f) \/ TokenReadiness(f) \/ TokenValidate(f)
    \/ PreHook(f) \/ PreHooksDone(f)
    \/ TargetAbsent(f) \/ TargetRun(f)
    \/ PostHook(f) \/ PostHooksDone(f)

CardStep(i) == TargetCard(i) \/ TargetAfterCard(i)

Mark ==
    \/ \E c \in MarkCommands : MarkBegin(c[1], c[2], c[3])
    \/ \E m \in marking : MarkEnd(m) \/ MarkCrash(m)

Next ==
    \/ \E i \in Inv : Invoke(i) \/ CardStep(i)
    \/ \E f \in Frames : FrameStep(f)
    \/ Mark

Spec == Init /\ [][Next]_vars

-----------------------------------------------------------------------------
(***************************************************************************)
(* Once the validator or any pre-hook has denied a call, its target never   *)
(* runs and the caller gets the denial, whatever the hooks put into the     *)
(* envelope (the early returns of invoke_provider_op and invoke_capability). *)
(***************************************************************************)
DeniedNeverRuns ==
    \A f \in Frames : denySeen[f] => runs[f] = <<>> /\ result[f] = "denied"

(***************************************************************************)
(* Token validation fails closed: the target of a call that carries a       *)
(* bearer token runs only after the tenant's validator accepted the token   *)
(* in this very call, when the tenant has a validator.  Calls whose op name *)
(* starts like the validator's are not validated, whatever they call: the   *)
(* validator itself, but also a capability with a longer id and a provider  *)
(* operation of such a name.                                                *)
(***************************************************************************)
TokenFailClosed ==
    \A f \in Frames :
      /\ runs[f] # <<>> /\ req[f].bearer
      /\ TokenCands(f) # {} /\ ~NamedLikeValidator(req[f])
      => validated[f]

(***************************************************************************)
(* Setup is per tenant: an offer that requires setup is never called, as a  *)
(* target or as the validator, for a tenant for which it was never marked   *)
(* ready, however mark commands, their crashes and calls interleave.        *)
(***************************************************************************)
SetUpBefore(cands, t) ==
    \A o \in cands : IsFirst(o, cands) /\ Offer[o].requires_setup => Place(o, t) \in everReady

NeverReadyNeverRuns ==
    \A f \in Frames :
      /\ runs[f] # <<>> /\ req[f].kind = "capability" =>
           SetUpBefore(Candidates(req[f].cap, req[f].tenant, req[f].op), req[f].tenant)
      /\ validated[f] => SetUpBefore(TokenCands(f), req[f].tenant)

(***************************************************************************)
(* The target runs at most once per call and for the caller's tenant, even  *)
(* when a hook has replaced the envelope by one for another tenant.         *)
(***************************************************************************)
RunsOnceForCaller ==
    \A f \in Frames : runs[f] \in {<<>>, <<req[f].tenant>>}

(***************************************************************************)
(* A flow with an OAuth card runs only after the nested card capability     *)
(* call went through its own pipeline and succeeded for the same tenant.    *)
(***************************************************************************)
CardResolvedFirst ==
    \A i \in Inv :
      runs[Root(i)] # <<>> /\ req[Root(i)].route = "card_flow" =>
        result[Card(i)] = "ok" /\ runs[Card(i)] = <<req[Root(i)].tenant>>

-----------------------------------------------------------------------------
(* The pipeline as a GuardedCall. *)

Phase(f) ==
    CASE pc[f] = "target" -> "cleared"
      [] pc[f] = "post" -> "executed"
      [] pc[f] = "done" -> "returned"
      [] OTHER -> "asking"

Answer(f) == IF pc[f] = "done" THEN result[f] ELSE "none"

Guarded == INSTANCE GuardedCall WITH Calls <- Frames,
                                     phase <- [f \in Frames |-> Phase(f)],
                                     answer <- [f \in Frames |-> Answer(f)]

(***************************************************************************)
(* invoke_provider_op and invoke_capability keep the promise of             *)
(* GuardedCall: guards first, the target at most once, no denial after it.  *)
(***************************************************************************)
ImplementsGuardedCall == Guarded!Spec
=============================================================================
