-------------------------- MODULE OpPipelineProofs --------------------------
(***************************************************************************)
(* Proofs about the operator pipeline, for every registry, set of requests  *)
(* and number of concurrent invocations.                                    *)
(***************************************************************************)
EXTENDS OpPipeline, TLAPS

(***************************************************************************)
(* There is something for the unused frames of the initial state to hold.   *)
(***************************************************************************)
LEMMA Inhabited == AnyRequest \in Request /\ AnyEnvelope \in Envelope
<1>1. PICK t \in Tenants : TRUE
  BY PipelineAssumption
<1>2. [kind |-> "provider", cap |-> TokenCap, op |-> NoOp, tenant |-> t,
       bearer |-> FALSE, route |-> "absent"] \in Request
  BY <1>1, PipelineAssumption DEF Request
<1>3. [op_name |-> CardOp, status |-> "ok", tenant |-> t] \in Envelope
  BY <1>1, PipelineAssumption DEF Envelope, Status
<1> QED
  BY <1>2, <1>3 DEF AnyRequest, AnyEnvelope

(***************************************************************************)
(* The op name of an accepted request is one hooks can be registered for.   *)
(***************************************************************************)
LEMMA OpNameType ==
    ASSUME NEW r \in Request, r.kind = "provider" => r.op # NoOp
    PROVE  OpName(r) \in OpNames
BY PipelineAssumption DEF OpName, Request

(* A change of status keeps an envelope an envelope. *)
LEMMA WithStatusType ==
    ASSUME NEW e \in Envelope, NEW s \in Status
    PROVE  WithStatus(e, s) \in Envelope
BY DEF WithStatus, Envelope

(* Frames and install record places are what the actions say they are. *)
LEMMA Shapes ==
    /\ \A i \in Inv : Root(i) \in Frames /\ Card(i) \in Frames /\ Root(i) # Card(i)
    /\ \A i, j \in Inv : Root(i) # Card(j)
    /\ \A o \in Offers, t \in Tenants : Place(o, t) \in Places
BY RegistryAssumption DEF Frames, Root, Card, Place, Places, OfferRecord

(* Returning from the pipeline keeps the variables it writes in their types. *)
LEMMA ReturnType ==
    ASSUME TypeOK, NEW f \in Frames, NEW r \in Results, NEW s \in Seq(Subs), Return(f, r, s)
    PROVE  /\ pc' \in [Frames -> PCs]
           /\ result' \in [Frames -> Results]
           /\ subs' \in [Frames -> Seq(Subs)]
           /\ todo' \in [Frames -> SUBSET Offers]
<1>1. subs[f] \o s \in Seq(Subs)
  BY DEF TypeOK
<1> QED
  BY <1>1 DEF TypeOK, Return, PCs, Results

(* Entering it does, too. *)
LEMMA EnterType ==
    ASSUME TypeOK, NEW f \in Frames, NEW r \in Request, r.kind = "provider" => r.op # NoOp,
           EnterPipeline(f, r)
    PROVE  /\ pc' \in [Frames -> PCs]
           /\ req' \in [Frames -> Request]
           /\ env' \in [Frames -> Envelope]
           /\ UNCHANGED <<todo, result, subs>>
<1>1. [op_name |-> OpName(r), status |-> "pending", tenant |-> r.tenant] \in Envelope
  BY OpNameType DEF Envelope, Status, Request
<1> QED
  BY <1>1 DEF TypeOK, EnterPipeline, PCs

(* The two ways a capability call can be admitted or turned away. *)
LEMMA AdmitType ==
    ASSUME TypeOK, NEW f \in Frames, NEW r \in Request, r.kind = "capability",
           AdmitCapability(f, r)
    PROVE  /\ pc' \in [Frames -> PCs]
           /\ req' \in [Frames -> Request]
           /\ env' \in [Frames -> Envelope]
           /\ todo' \in [Frames -> SUBSET Offers]
           /\ result' \in [Frames -> Results]
           /\ subs' \in [Frames -> Seq(Subs)]
<1>1. CASE EnterPipeline(f, r)
  BY <1>1, EnterType DEF TypeOK
<1> DEFINE Typed == /\ pc' \in [Frames -> PCs]
                    /\ req' \in [Frames -> Request]
                    /\ env' \in [Frames -> Envelope]
                    /\ todo' \in [Frames -> SUBSET Offers]
                    /\ result' \in [Frames -> Results]
                    /\ subs' \in [Frames -> Seq(Subs)]
<1>2. ASSUME NEW x \in {"refused", "err"},
             Return(f, x, <<>>), req' = [req EXCEPT ![f] = r], UNCHANGED env
      PROVE  Typed
  <2>1. x \in Results /\ <<>> \in Seq(Subs)
    BY DEF Results
  <2> QED
    BY <1>2, <2>1, ReturnType DEF TypeOK
<1> QED
  BY <1>1, <1>2 DEF AdmitCapability

(***************************************************************************)
(* Every step of the pipeline and of the mark commands keeps TypeOK.        *)
(***************************************************************************)
LEMMA TypeStep == TypeOK /\ [Next]_vars => TypeOK'
<1> SUFFICES ASSUME TypeOK, [Next]_vars PROVE TypeOK'
  OBVIOUS
<1>1. ASSUME NEW i \in Inv, NEW r \in Requests, InvokeCapability(i, r) PROVE TypeOK'
  <2>1. r \in Request /\ Root(i) \in Frames
    BY Shapes, PipelineAssumption
  <2> QED
    BY <1>1, <2>1, AdmitType DEF InvokeCapability, TypeOK, files
<1>2. ASSUME NEW i \in Inv, NEW r \in Requests, InvokeProviderOp(i, r) PROVE TypeOK'
  <2>1. r \in Request /\ Root(i) \in Frames
    BY Shapes, PipelineAssumption
  <2> QED
    BY <1>2, <2>1, EnterType DEF InvokeProviderOp, TypeOK, files
<1>3. ASSUME NEW i \in Inv, TargetCard(i) PROVE TypeOK'
  <2>1. Root(i) \in Frames /\ Card(i) \in Frames
    BY Shapes
  <2>2. PICK b \in BOOLEAN :
          AdmitCapability(Card(i), [kind |-> "capability", cap |-> CardCap, op |-> CardOp,
                                    tenant |-> req[Root(i)].tenant, bearer |-> b,
                                    route |-> "component"])
    BY <1>3 DEF TargetCard
  <2>3. [kind |-> "capability", cap |-> CardCap, op |-> CardOp, tenant |-> req[Root(i)].tenant,
         bearer |-> b, route |-> "component"] \in Request
    BY <2>1, PipelineAssumption DEF TypeOK, Request
  <2> QED
    BY <1>3, <2>1, <2>2, <2>3, AdmitType DEF TargetCard, TypeOK, files
<1>4. ASSUME NEW f \in Frames, StartPreHooks(f)
      PROVE  /\ pc' \in [Frames -> PCs]
             /\ todo' \in [Frames -> SUBSET Offers]
             /\ UNCHANGED <<result, subs>>
  BY <1>4 DEF StartPreHooks, TypeOK, PCs, resolve_hook_chain
<1>5. ASSUME NEW f \in Frames, NEW r \in {"err", "denied"}, Return(f, r, <<>>)
      PROVE  /\ pc' \in [Frames -> PCs]
             /\ result' \in [Frames -> Results]
             /\ subs' \in [Frames -> Seq(Subs)]
             /\ todo' \in [Frames -> SUBSET Offers]
  <2>1. r \in Results /\ <<>> \in Seq(Subs)
    BY DEF Results
  <2> QED
    BY <1>5, <2>1, ReturnType
<1>6. ASSUME NEW f \in Frames, DenyToken(f)
      PROVE  /\ pc' \in [Frames -> PCs]
             /\ result' \in [Frames -> Results]
             /\ subs' \in [Frames -> Seq(Subs)]
             /\ todo' \in [Frames -> SUBSET Offers]
             /\ env' \in [Frames -> Envelope]
             /\ denySeen' \in [Frames -> BOOLEAN]
  <2>1. TokenDenialSubs(f) \in Seq(Subs) /\ "denied" \in Results
    <3>1. << <<"sub.pre", "denied">>, DeniedPost >> \in Seq(Subs) /\ << DeniedPost >> \in Seq(Subs)
      BY DEF DeniedPost, Subs, Status
    <3> QED
      BY <3>1 DEF TokenDenialSubs, Results
  <2> QED
    BY <1>6, <2>1, ReturnType, WithStatusType DEF DenyToken, TypeOK, Status
<1>7. ASSUME NEW f \in Frames, TokenSkip(f) PROVE TypeOK'
  BY <1>4, <1>7 DEF TokenSkip, TypeOK, files
<1>8. ASSUME NEW f \in Frames, TokenReadiness(f) PROVE TypeOK'
  <2>1. CASE pc' = [pc EXCEPT ![f] = "validate"] /\ UNCHANGED <<result, subs, todo, env, denySeen>>
    BY <1>8, <2>1 DEF TokenReadiness, TypeOK, files, PCs
  <2>2. CASE DenyToken(f)
    BY <1>6, <1>8, <2>2 DEF TokenReadiness, TypeOK, files
  <2>3. CASE Return(f, "err", <<>>) /\ UNCHANGED <<env, denySeen>>
    BY <1>5, <1>8, <2>3 DEF TokenReadiness, TypeOK, files
  <2> QED
    BY <1>8, <2>1, <2>2, <2>3 DEF TokenReadiness
<1>9. ASSUME NEW f \in Frames, TokenValidate(f) PROVE TypeOK'
  <2>1. CASE StartPreHooks(f) /\ validated' = [validated EXCEPT ![f] = TRUE]
             /\ UNCHANGED <<env, denySeen>>
    BY <1>4, <1>9, <2>1 DEF TokenValidate, TypeOK, files
  <2>2. CASE DenyToken(f) /\ UNCHANGED validated
    BY <1>6, <1>9, <2>2 DEF TokenValidate, TypeOK, files
  <2>3. CASE Return(f, "err", <<>>) /\ UNCHANGED <<env, denySeen, validated>>
    BY <1>5, <1>9, <2>3 DEF TokenValidate, TypeOK, files
  <2> QED
    BY <1>9, <2>1, <2>2, <2>3 DEF TokenValidate
<1>10. ASSUME NEW f \in Frames, PreHook(f) PROVE TypeOK'
  <2> USE <1>10 DEF PreHook, TypeOK, files
  <2>1. PICK o \in todo[f] :
           \/ HookSkipped(f, o) /\ UNCHANGED <<pc, env, result, subs, denySeen>>
           \/ /\ \E e \in HookEnvelope(f) : env' = [env EXCEPT ![f] = e]
              /\ HookSkipped(f, o)
              /\ UNCHANGED <<pc, result, subs, denySeen>>
           \/ \E e \in HookEnvelope(f) : PreHookDenies(f, o, e)
           \/ Return(f, "err", <<>>) /\ UNCHANGED <<env, denySeen>>
    OBVIOUS
  <2>2. HookEnvelope(f) \subseteq Envelope
    BY PipelineAssumption DEF HookEnvelope
  <2>3. CASE HookSkipped(f, o) /\ UNCHANGED <<pc, env, result, subs, denySeen>>
    BY <2>3 DEF HookSkipped
  <2>4. CASE /\ \E e \in HookEnvelope(f) : env' = [env EXCEPT ![f] = e]
             /\ HookSkipped(f, o)
             /\ UNCHANGED <<pc, result, subs, denySeen>>
    BY <2>2, <2>4 DEF HookSkipped
  <2>5. CASE \E e \in HookEnvelope(f) : PreHookDenies(f, o, e)
    <3>1. PICK e \in Envelope : PreHookDenies(f, o, e)
      BY <2>2, <2>5
    <3>2. << <<"sub.pre", e.status>>, DeniedPost >> \in Seq(Subs) /\ "denied" \in Results
      BY DEF DeniedPost, Subs, Status, Results, Envelope
    <3>3. WithStatus(e, "denied") \in Envelope
      BY WithStatusType DEF Status
    <3> QED
      BY <3>1, <3>2, <3>3, ReturnType DEF PreHookDenies
  <2>6. CASE Return(f, "err", <<>>) /\ UNCHANGED <<env, denySeen>>
    BY <1>5, <2>6
  <2> QED
    BY <2>1, <2>3, <2>4, <2>5, <2>6
<1>11. ASSUME NEW f \in Frames, PreHooksDone(f) PROVE TypeOK'
  <2>1. Append(subs[f], <<"sub.pre", env[f].status>>) \in Seq(Subs)
    BY DEF TypeOK, Subs, Envelope, Status
  <2> QED
    BY <1>11, <2>1 DEF PreHooksDone, TypeOK, files, PCs
<1>12. ASSUME NEW f \in Frames, RunComponent(f)
       PROVE  /\ pc' \in [Frames -> PCs]
              /\ result' \in [Frames -> Results]
              /\ subs' \in [Frames -> Seq(Subs)]
              /\ todo' \in [Frames -> SUBSET Offers]
              /\ env' \in [Frames -> Envelope]
              /\ runs' \in [Frames -> Seq(Tenants)]
  <2>1. Append(runs[f], TargetTenant(f)) \in Seq(Tenants)
    BY DEF TypeOK, TargetTenant, Request
  <2>2. CASE Return(f, "err", <<>>) /\ UNCHANGED env
    BY <1>5, <1>12, <2>1, <2>2 DEF RunComponent, TypeOK
  <2>3. CASE ~(Return(f, "err", <<>>) /\ UNCHANGED env)
    <3>1. WithStatus(env[f], "ok") \in Envelope /\ WithStatus(env[f], "err") \in Envelope
      BY WithStatusType DEF TypeOK, Status
    <3>a. \A cap, op : resolve_hook_chain(cap, op) \in SUBSET Offers
      BY DEF resolve_hook_chain
    <3> DEFINE chain == resolve_hook_chain(PostCap, IF req[f].kind = "provider" THEN req[f].op ELSE env[f].op_name)
    <3>b. chain \in SUBSET Offers
      BY <3>a
    <3>2. PICK outcome \in {"ok", "fail"} :
             /\ runs' = [runs EXCEPT ![f] = Append(@, TargetTenant(f))]
             /\ result' = [result EXCEPT ![f] = outcome]
             /\ env' = [env EXCEPT ![f] = WithStatus(@, IF outcome = "ok" THEN "ok" ELSE "err")]
             /\ pc' = [pc EXCEPT ![f] = "post"]
             /\ todo' = [todo EXCEPT ![f] = chain]
             /\ UNCHANGED subs
      BY <1>12, <2>3, Zenon DEF RunComponent
    <3> HIDE DEF chain
    <3>3. runs' \in [Frames -> Seq(Tenants)]
      BY <2>1, <3>2 DEF TypeOK
    <3>4. env' \in [Frames -> Envelope]
      BY <3>1, <3>2 DEF TypeOK
    <3>5. result' \in [Frames -> Results] /\ pc' \in [Frames -> PCs]
      BY <3>2 DEF TypeOK, PCs, Results
    <3>6. todo' \in [Frames -> SUBSET Offers] /\ subs' \in [Frames -> Seq(Subs)]
      BY <3>2, <3>b DEF TypeOK
    <3> QED
      BY <3>3, <3>4, <3>5, <3>6
  <2> QED
    BY <2>2, <2>3
<1>13. ASSUME NEW f \in Frames, TargetAbsent(f) \/ TargetRun(f) PROVE TypeOK'
  BY <1>5, <1>12, <1>13 DEF TargetAbsent, TargetRun, TypeOK, files
<1>14. ASSUME NEW i \in Inv, TargetAfterCard(i) PROVE TypeOK'
  BY <1>5, <1>12, <1>14, Shapes DEF TargetAfterCard, TypeOK, files
<1>15. ASSUME NEW f \in Frames, PostHook(f) PROVE TypeOK'
  <2>1. HookEnvelope(f) \subseteq Envelope
    BY PipelineAssumption DEF HookEnvelope, TypeOK
  <2>2. CASE Return(f, "err", <<>>) /\ UNCHANGED env
    BY <1>5, <1>15, <2>2 DEF PostHook, TypeOK, files
  <2>3. CASE ~(Return(f, "err", <<>>) /\ UNCHANGED env)
    BY <1>15, <2>1, <2>3 DEF PostHook, HookSkipped, TypeOK, files
  <2> QED
    BY <2>2, <2>3
<1>16. ASSUME NEW f \in Frames, PostHooksDone(f) PROVE TypeOK'
  <2>1. << <<"sub.post", env[f].status>> >> \in Seq(Subs) /\ result[f] \in Results
    BY DEF TypeOK, Subs, Envelope, Status
  <2> QED
    BY <1>16, <2>1, ReturnType DEF PostHooksDone, TypeOK, files
<1>17. ASSUME Mark PROVE TypeOK'
  <2>1. ASSUME NEW c \in MarkCommands, MarkBegin(c[1], c[2], c[3]) PROVE TypeOK'
    <3>1. c[1] \in Tenants /\ c[3] \in {"ready", "failed"}
      BY PipelineAssumption
    <3>2. PICK o \in Offers :
            /\ install' = [install EXCEPT ![Place(o, c[1])] = "torn"]
            /\ marking' = marking \cup {<<Place(o, c[1]), c[3]>>}
            /\ UNCHANGED <<pc, req, env, todo, result, subs, runs, denySeen, validated, everReady>>
      BY <2>1 DEF MarkBegin, Candidates
    <3>3. Place(o, c[1]) \in Places
      BY <3>1, Shapes
    <3> QED
      BY <3>1, <3>2, <3>3 DEF TypeOK
  <2>2. ASSUME NEW m \in marking, MarkEnd(m) \/ MarkCrash(m) PROVE TypeOK'
    BY <2>2 DEF TypeOK, MarkEnd, MarkCrash
  <2> QED
    BY <1>17, <2>1, <2>2 DEF Mark
<1>18. CASE UNCHANGED vars
  BY <1>18 DEF TypeOK, vars
<1> QED
  BY <1>1, <1>2, <1>3, <1>7, <1>8, <1>9, <1>10, <1>11, <1>13, <1>14, <1>15, <1>16, <1>17, <1>18
     DEF Next, Invoke, CardStep, FrameStep

(***************************************************************************)
(* The variables of the pipeline always have their types.                   *)
(***************************************************************************)
THEOREM TypeCorrect == Spec => []TypeOK
<1>1. Init => TypeOK
  BY Inhabited DEF Init, TypeOK, PCs, Results
<1> QED
  BY <1>1, TypeStep, PTL DEF Spec

-----------------------------------------------------------------------------
(***************************************************************************)
(* The inductive invariant behind the safety properties, one frame at a     *)
(* time: before the target nothing has run and nobody has denied; between   *)
(* target and return it has run once, for the caller; and a frame that is   *)
(* past the validator was either accepted by it or had nothing to show it.  *)
(***************************************************************************)
Fresh(f) == runs[f] = <<>> /\ ~denySeen[f]

FrameInv(f) ==
    /\ pc[f] \in {"idle", "token", "validate", "pre", "target"} => Fresh(f)
    /\ pc[f] = "post" => runs[f] = <<req[f].tenant>> /\ ~denySeen[f] /\ result[f] \in {"ok", "fail"}
    /\ pc[f] = "done" => /\ runs[f] \in {<<>>, <<req[f].tenant>>}
                         /\ denySeen[f] => runs[f] = <<>> /\ result[f] = "denied"
                         /\ result[f] \in {"ok", "fail"} => runs[f] # <<>>
    /\ pc[f] \in {"pre", "target", "post"} \/ runs[f] # <<>> => validated[f] \/ SkipsValidation(f)

CoreInv == \A f \in Frames : FrameInv(f)

(***************************************************************************)
(* A step that leaves a frame's variables alone keeps its invariant.        *)
(***************************************************************************)
LEMMA FrameKept ==
    ASSUME NEW f \in Frames, FrameInv(f), pc'[f] = pc[f], runs'[f] = runs[f], req'[f] = req[f],
           denySeen'[f] = denySeen[f], result'[f] = result[f], validated'[f] = validated[f]
    PROVE  FrameInv(f)'
BY DEF FrameInv, Fresh, SkipsValidation, NamedLikeValidator, OpName, TokenCands

(***************************************************************************)
(* A step of frame f touches no other frame: enough to show f's invariant.  *)
(***************************************************************************)
Only(f) ==
    \A g \in Frames \ {f} :
      /\ pc'[g] = pc[g] /\ runs'[g] = runs[g] /\ req'[g] = req[g] /\ denySeen'[g] = denySeen[g]
      /\ result'[g] = result[g] /\ validated'[g] = validated[g]

LEMMA OneFrame ==
    ASSUME CoreInv, NEW f \in Frames, Only(f), FrameInv(f)'
    PROVE  CoreInv'
<1> SUFFICES ASSUME NEW g \in Frames, g # f PROVE FrameInv(g)'
  BY DEF CoreInv
<1> QED
  BY FrameKept DEF Only, CoreInv

(* A frame whose target has not run returns without an outcome of it. *)
LEMMA FrameRefused ==
    ASSUME NEW f \in Frames, TypeOK, Fresh(f), NEW r \in {"denied", "refused", "err"}, NEW s,
           Return(f, r, s), UNCHANGED runs, r = "denied" \/ UNCHANGED denySeen
    PROVE  FrameInv(f)'
BY DEF FrameInv, Fresh, Return, TypeOK

(* Admission of a capability call, as the root or as a card frame. *)
LEMMA AdmitCore ==
    ASSUME TypeOK, CoreInv, NEW f \in Frames, NEW r, pc[f] = "idle", AdmitCapability(f, r),
           UNCHANGED <<runs, denySeen, validated>>
    PROVE  Only(f) /\ FrameInv(f)'
<1>1. Fresh(f)
  BY DEF CoreInv, FrameInv
<1>2. CASE EnterPipeline(f, r)
  BY <1>1, <1>2 DEF EnterPipeline, Only, FrameInv, Fresh, TypeOK
<1> DEFINE Turned(x) == Return(f, x, <<>>) /\ req' = [req EXCEPT ![f] = r]
<1>3. ASSUME NEW x \in {"refused", "err"}, Turned(x)
      PROVE  Only(f) /\ FrameInv(f)'
  <2>1. FrameInv(f)'
    BY <1>1, <1>3, FrameRefused
  <2>2. Only(f)
    BY <1>3 DEF Only, Return, TypeOK
  <2> QED
    BY <2>1, <2>2
<1>4. EnterPipeline(f, r) \/ Turned("refused") \/ Turned("err")
  BY DEF AdmitCapability
<1> QED
  BY <1>2, <1>3, <1>4

(* Running the target, from a frame that all guards have let through. *)
LEMMA RunCore ==
    ASSUME TypeOK, CoreInv, NEW f \in Frames, pc[f] = "target", RunComponent(f),
           UNCHANGED <<req, denySeen, validated>>
    PROVE  Only(f) /\ FrameInv(f)'
<1>1. Fresh(f) /\ (validated[f] \/ SkipsValidation(f))
  BY DEF CoreInv, FrameInv
<1>2. SkipsValidation(f) => SkipsValidation(f)'
  BY DEF SkipsValidation, NamedLikeValidator, OpName, TokenCands
<1>3. Append(runs[f], TargetTenant(f)) = <<req[f].tenant>>
  BY <1>1 DEF Fresh, TargetTenant
<1>4. CASE Return(f, "err", <<>>)
  BY <1>1, <1>2, <1>3, <1>4 DEF RunComponent, Return, Only, FrameInv, Fresh, TypeOK
<1>5. CASE ~Return(f, "err", <<>>)
  BY <1>1, <1>2, <1>3, <1>5 DEF RunComponent, Only, FrameInv, Fresh, TypeOK
<1> QED
  BY <1>4, <1>5

(***************************************************************************)
(* Every step keeps the inductive invariant.                                *)
(***************************************************************************)
LEMMA CoreStep == TypeOK /\ CoreInv /\ [Next]_vars => CoreInv'
<1> SUFFICES ASSUME TypeOK, CoreInv, [Next]_vars PROVE CoreInv'
  OBVIOUS
<1> USE DEF files
<1>1. ASSUME NEW i \in Inv, NEW r \in Requests, InvokeCapability(i, r) PROVE CoreInv'
  BY <1>1, Shapes, AdmitCore, OneFrame DEF InvokeCapability
<1>2. ASSUME NEW i \in Inv, NEW r \in Requests, InvokeProviderOp(i, r) PROVE CoreInv'
  <2>1. Only(Root(i)) /\ FrameInv(Root(i))'
    BY <1>2, Shapes DEF InvokeProviderOp, EnterPipeline, Only, FrameInv, Fresh, TypeOK, CoreInv
  <2> QED
    BY <2>1, Shapes, OneFrame
<1>3. ASSUME NEW i \in Inv, TargetCard(i) PROVE CoreInv'
  BY <1>3, Shapes, AdmitCore, OneFrame DEF TargetCard
<1>4. ASSUME NEW f \in Frames, Fresh(f), NEW r \in {"denied", "err"}, NEW s, Return(f, r, s),
             \A g \in Frames \ {f} : denySeen'[g] = denySeen[g],
             r = "denied" \/ UNCHANGED denySeen, UNCHANGED <<runs, req, validated>>
      PROVE  CoreInv'
  <2>1. FrameInv(f)'
    BY <1>4, FrameRefused
  <2>2. Only(f)
    BY <1>4 DEF Only, Return, TypeOK
  <2> QED
    BY <2>1, <2>2, OneFrame
<1>5. ASSUME NEW f \in Frames, DenyToken(f), Fresh(f), UNCHANGED <<runs, req, validated>> PROVE CoreInv'
  BY <1>4, <1>5 DEF DenyToken, TypeOK
<1>6. ASSUME NEW f \in Frames, TokenSkip(f) PROVE CoreInv'
  <2>1. Only(f) /\ FrameInv(f)'
    BY <1>6 DEF TokenSkip, StartPreHooks, Only, FrameInv, Fresh, TypeOK, CoreInv,
                SkipsValidation, NamedLikeValidator, OpName, TokenCands
  <2> QED
    BY <2>1, OneFrame
<1>7. ASSUME NEW f \in Frames, TokenReadiness(f) PROVE CoreInv'
  <2>1. Fresh(f)
    BY <1>7 DEF TokenReadiness, CoreInv, FrameInv
  <2>2. CASE DenyToken(f)
    BY <1>5, <1>7, <2>1, <2>2 DEF TokenReadiness
  <2>3. CASE Return(f, "err", <<>>) /\ UNCHANGED denySeen
    BY <1>4, <1>7, <2>1, <2>3 DEF TokenReadiness
  <2>4. CASE pc' = [pc EXCEPT ![f] = "validate"] /\ UNCHANGED <<result, denySeen>>
    <3>1. Only(f) /\ FrameInv(f)'
      BY <1>7, <2>1, <2>4 DEF TokenReadiness, Only, FrameInv, Fresh, TypeOK
    <3> QED
      BY <3>1, OneFrame
  <2> QED
    BY <1>7, <2>2, <2>3, <2>4 DEF TokenReadiness
<1>8. ASSUME NEW f \in Frames, TokenValidate(f) PROVE CoreInv'
  <2>1. Fresh(f)
    BY <1>8 DEF TokenValidate, CoreInv, FrameInv
  <2>2. CASE DenyToken(f) /\ UNCHANGED validated
    BY <1>5, <1>8, <2>1, <2>2 DEF TokenValidate
  <2>3. CASE Return(f, "err", <<>>) /\ UNCHANGED <<denySeen, validated>>
    BY <1>4, <1>8, <2>1, <2>3 DEF TokenValidate
  <2>4. CASE StartPreHooks(f) /\ validated' = [validated EXCEPT ![f] = TRUE] /\ UNCHANGED denySeen
    <3>1. Only(f) /\ FrameInv(f)'
      BY <1>8, <2>1, <2>4 DEF TokenValidate, StartPreHooks, Only, FrameInv, Fresh, TypeOK
    <3> QED
      BY <3>1, OneFrame
  <2> QED
    BY <1>8, <2>2, <2>3, <2>4 DEF TokenValidate
<1>9. ASSUME NEW f \in Frames, PreHook(f) PROVE CoreInv'
  <2>1. Fresh(f)
    BY <1>9 DEF PreHook, CoreInv, FrameInv
  <2>2. CASE \E o, e : PreHookDenies(f, o, e)
    BY <1>4, <1>9, <2>1, <2>2 DEF PreHook, PreHookDenies, TypeOK
  <2>3. CASE Return(f, "err", <<>>) /\ UNCHANGED denySeen
    BY <1>4, <1>9, <2>1, <2>3 DEF PreHook
  <2>4. CASE UNCHANGED <<pc, result, denySeen>>
    BY <1>9, <2>4, FrameKept DEF PreHook, CoreInv
  <2> QED
    BY <1>9, <2>2, <2>3, <2>4 DEF PreHook
<1>10. ASSUME NEW f \in Frames, PreHooksDone(f) PROVE CoreInv'
  <2>1. Only(f) /\ FrameInv(f)'
    BY <1>10 DEF PreHooksDone, Only, FrameInv, Fresh, TypeOK, CoreInv, SkipsValidation, NamedLikeValidator, OpName, TokenCands
  <2> QED
    BY <2>1, OneFrame
<1>11. ASSUME NEW f \in Frames, TargetAbsent(f) PROVE CoreInv'
  BY <1>4, <1>11 DEF TargetAbsent, CoreInv, FrameInv
<1>12. ASSUME NEW f \in Frames, TargetRun(f) PROVE CoreInv'
  BY <1>12, RunCore, OneFrame DEF TargetRun
<1>13. ASSUME NEW i \in Inv, TargetAfterCard(i) PROVE CoreInv'
  <2>1. CASE RunComponent(Root(i))
    BY <1>13, <2>1, Shapes, RunCore, OneFrame DEF TargetAfterCard
  <2>2. CASE Return(Root(i), "err", <<>>) /\ UNCHANGED runs
    BY <1>4, <1>13, <2>2, Shapes DEF TargetAfterCard, CoreInv, FrameInv
  <2> QED
    BY <1>13, <2>1, <2>2 DEF TargetAfterCard
<1>14. ASSUME NEW f \in Frames, PostHook(f) PROVE CoreInv'
  <2>1. CASE UNCHANGED <<pc, result>>
    BY <1>14, <2>1, FrameKept DEF PostHook, CoreInv
  <2>2. CASE Return(f, "err", <<>>)
    <3>1. Only(f) /\ FrameInv(f)'
      BY <1>14, <2>2 DEF PostHook, Return, Only, FrameInv, TypeOK, CoreInv, SkipsValidation, NamedLikeValidator, OpName, TokenCands
    <3> QED
      BY <3>1, OneFrame
  <2> QED
    BY <1>14, <2>1, <2>2 DEF PostHook
<1>15. ASSUME NEW f \in Frames, PostHooksDone(f) PROVE CoreInv'
  <2>1. Only(f) /\ pc'[f] = "done" /\ UNCHANGED <<req, runs, denySeen, validated>>
    BY <1>15 DEF PostHooksDone, Return, Only, TypeOK
  <2>2. /\ runs[f] = <<req[f].tenant>> /\ ~denySeen[f]
        /\ validated[f] \/ SkipsValidation(f)
    BY <1>15 DEF PostHooksDone, CoreInv, FrameInv
  <2>3. FrameInv(f)'
    BY <2>1, <2>2 DEF FrameInv, SkipsValidation, NamedLikeValidator, OpName, TokenCands
  <2> QED
    BY <2>1, <2>3, OneFrame
<1>16. CASE Mark
  <2>1. UNCHANGED <<pc, req, result, runs, denySeen, validated>>
    BY <1>16 DEF Mark, MarkBegin, MarkEnd, MarkCrash
  <2> QED
    BY <2>1, FrameKept DEF CoreInv
<1>17. CASE UNCHANGED vars
  BY <1>17, FrameKept DEF CoreInv, vars
<1> QED
  BY <1>1, <1>2, <1>3, <1>6, <1>7, <1>8, <1>9, <1>10, <1>11, <1>12, <1>13, <1>14, <1>15, <1>16, <1>17
     DEF Next, Invoke, CardStep, FrameStep

(* The inductive invariant holds throughout. *)
LEMMA CoreHolds == Spec => [](TypeOK /\ CoreInv)
<1>1. Init => TypeOK /\ CoreInv
  BY Inhabited DEF Init, TypeOK, PCs, Results, CoreInv, FrameInv, Fresh
<1> QED
  BY <1>1, TypeStep, CoreStep, PTL DEF Spec

(***************************************************************************)
(* A call that its validator or a pre-hook denied never reaches its target. *)
(***************************************************************************)
THEOREM DeniedCallsDoNotRun == Spec => []DeniedNeverRuns
<1>1. TypeOK /\ CoreInv => DeniedNeverRuns
  BY DEF TypeOK, PCs, CoreInv, FrameInv, Fresh, DeniedNeverRuns
<1> QED
  BY <1>1, CoreHolds, PTL

(***************************************************************************)
(* The target of a call runs at most once, for the caller's tenant.         *)
(***************************************************************************)
THEOREM OneRunForCaller == Spec => []RunsOnceForCaller
<1>1. TypeOK /\ CoreInv => RunsOnceForCaller
  BY DEF TypeOK, PCs, CoreInv, FrameInv, Fresh, RunsOnceForCaller
<1> QED
  BY <1>1, CoreHolds, PTL

(***************************************************************************)
(* Token validation fails closed: no target runs on an unvalidated token,   *)
(* but for the calls the prefix check of the validator's op name lets past. *)
(***************************************************************************)
THEOREM TokensFailClosed == Spec => []TokenFailClosed
<1>1. TypeOK /\ CoreInv => TokenFailClosed
  BY DEF CoreInv, FrameInv, TokenFailClosed, SkipsValidation
<1> QED
  BY <1>1, CoreHolds, PTL

-----------------------------------------------------------------------------
(***************************************************************************)
(* Setup.  The order of the registry is total on its offers (the pack order *)
(* breaks the last ties), so a resolution has one answer.                   *)
(***************************************************************************)
LEMMA FirstIsUnique ==
    ASSUME NEW S \in SUBSET Offers, NEW o, NEW p, IsFirst(o, S), IsFirst(p, S)
    PROVE  o = p
<1>1. /\ o \in Offers /\ p \in Offers
      /\ Before(o, p) /\ Before(p, o)
  BY DEF IsFirst
<1>2. /\ Offer[o].priority \in Nat /\ Offer[p].priority \in Nat
      /\ Offer[o].stable_id \in Nat /\ Offer[p].stable_id \in Nat
      /\ Offer[o].pos \in Nat /\ Offer[p].pos \in Nat
  BY <1>1, RegistryAssumption DEF OfferRecord
<1>3. Offer[o].pos = Offer[p].pos
  BY <1>1, <1>2 DEF Before
<1> QED
  BY <1>1, <1>3, RegistryAssumption

(* A record file that says ready was written by a mark-ready command. *)
ReadyWasMarked == \A p \in Places : install[p] = "ready" => p \in everReady

(***************************************************************************)
(* An offer that is_binding_ready lets through was set up for the tenant.   *)
(***************************************************************************)
LEMMA ReadyMeansSetUp ==
    ASSUME ReadyWasMarked, NEW S \in SUBSET Offers, NEW t \in Tenants, NEW o \in S,
           IsFirst(o, S), Readiness(o, t) = "ready"
    PROVE  SetUpBefore(S, t)
<1> SUFFICES ASSUME NEW p \in S, IsFirst(p, S), Offer[p].requires_setup
             PROVE  Place(p, t) \in everReady
  BY DEF SetUpBefore
<1>1. p = o
  BY FirstIsUnique
<1>2. install[Place(o, t)] = "ready"
  BY <1>1 DEF Readiness
<1>3. Place(o, t) \in Places
  BY Shapes
<1> QED
  BY <1>1, <1>2, <1>3 DEF ReadyWasMarked

(***************************************************************************)
(* The setup invariant of a frame: from its admission on, the capability it *)
(* calls was set up for the caller's tenant, and so was the validator from  *)
(* the moment it is about to be called.                                     *)
(***************************************************************************)
CapCands(f) == Candidates(req[f].cap, req[f].tenant, req[f].op)

SetUpInv(f) ==
    /\ pc[f] \in {"idle", "token", "validate"} => ~validated[f]
    /\ req[f].kind = "capability"
       /\ (pc[f] \in {"token", "validate", "pre", "target", "post"} \/ runs[f] # <<>>)
         => SetUpBefore(CapCands(f), req[f].tenant)
    /\ pc[f] = "validate" \/ validated[f] => SetUpBefore(TokenCands(f), req[f].tenant)

ReadyInv == ReadyWasMarked /\ \A f \in Frames : SetUpInv(f)

(* What was set up stays so. *)
LEMMA SetUpLasts ==
    ASSUME NEW S, NEW t, SetUpBefore(S, t), everReady \subseteq everReady'
    PROVE  SetUpBefore(S, t)'
BY DEF SetUpBefore

(* A step that leaves a frame's variables alone keeps its setup invariant. *)
LEMMA SetUpKept ==
    ASSUME NEW f \in Frames, SetUpInv(f), everReady \subseteq everReady',
           pc'[f] = pc[f], runs'[f] = runs[f], req'[f] = req[f], validated'[f] = validated[f]
    PROVE  SetUpInv(f)'
BY SetUpLasts DEF SetUpInv, CapCands, TokenCands

(* A step of frame f that writes no file need only be looked at there. *)
LEMMA OneFrameReady ==
    ASSUME ReadyInv, NEW f \in Frames, Only(f), UNCHANGED files, SetUpInv(f)'
    PROVE  ReadyInv'
<1>1. ReadyWasMarked'
  BY DEF ReadyInv, ReadyWasMarked, files
<1>2. ASSUME NEW g \in Frames, g # f PROVE SetUpInv(g)'
  BY <1>2, SetUpKept DEF Only, ReadyInv, files
<1> QED
  BY <1>1, <1>2 DEF ReadyInv

(* A frame that moves on, or returns, without being newly set free. *)
LEMMA FrameMovesOn ==
    ASSUME TypeOK, CoreInv, ReadyInv, NEW f \in Frames, Only(f), UNCHANGED <<req, files>>,
           pc[f] \in {"token", "validate", "pre", "target", "post"},
           pc'[f] \in {"pre", "target", "post", "done"}, validated'[f] = validated[f]
    PROVE  ReadyInv'
<1>1. UNCHANGED everReady /\ req'[f] = req[f]
  BY DEF files
<1>2. /\ req[f].kind = "capability" => SetUpBefore(CapCands(f), req[f].tenant)
      /\ validated[f] => SetUpBefore(TokenCands(f), req[f].tenant)
  BY DEF ReadyInv, SetUpInv
<1>3. SetUpInv(f)'
  BY <1>1, <1>2, SetUpLasts DEF SetUpInv, CapCands, TokenCands
<1> QED
  BY <1>3, OneFrameReady

(* Admission of a capability call checks the install record of its offer. *)
LEMMA AdmitReady ==
    ASSUME TypeOK, CoreInv, ReadyInv, NEW f \in Frames, NEW r \in Request, pc[f] = "idle",
           AdmitCapability(f, r), UNCHANGED <<runs, denySeen, validated, files>>
    PROVE  ReadyInv'
<1>1. Only(f) /\ runs'[f] = <<>> /\ ~validated'[f] /\ UNCHANGED everReady
  BY AdmitCore DEF CoreInv, FrameInv, Fresh, ReadyInv, SetUpInv, files
<1>2. CASE EnterPipeline(f, r)
  <2>1. PICK o \in Candidates(r.cap, r.tenant, r.op) :
          IsFirst(o, Candidates(r.cap, r.tenant, r.op)) /\ Readiness(o, r.tenant) = "ready"
    BY <1>2 DEF AdmitCapability, EnterPipeline, Return, TypeOK
  <2>2. SetUpBefore(Candidates(r.cap, r.tenant, r.op), r.tenant)
    BY <2>1, ReadyMeansSetUp DEF ReadyInv, Candidates, Request
  <2>3. pc'[f] = "token" /\ req'[f] = r
    BY <1>2 DEF EnterPipeline, TypeOK
  <2>4. SetUpInv(f)'
    BY <1>1, <2>2, <2>3, SetUpLasts DEF SetUpInv, CapCands
  <2> QED
    BY <1>1, <2>4, OneFrameReady
<1>3. CASE ~EnterPipeline(f, r)
  <2>1. pc'[f] = "done"
    BY <1>3 DEF AdmitCapability, Return, TypeOK
  <2>2. SetUpInv(f)'
    BY <1>1, <2>1 DEF SetUpInv
  <2> QED
    BY <1>1, <2>2, OneFrameReady
<1> QED
  BY <1>2, <1>3

(***************************************************************************)
(* Every step keeps the setup invariant, whatever mark commands, their      *)
(* crashes and other calls do in between.                                   *)
(***************************************************************************)
LEMMA ReadyStep == TypeOK /\ CoreInv /\ ReadyInv /\ [Next]_vars => ReadyInv'
<1> SUFFICES ASSUME TypeOK, CoreInv, ReadyInv, [Next]_vars PROVE ReadyInv'
  OBVIOUS
<1>1. ASSUME NEW i \in Inv, NEW r \in Requests, InvokeCapability(i, r) PROVE ReadyInv'
  BY <1>1, Shapes, AdmitReady, PipelineAssumption DEF InvokeCapability
<1>2. ASSUME NEW i \in Inv, NEW r \in Requests, InvokeProviderOp(i, r) PROVE ReadyInv'
  <2> DEFINE f == Root(i)
  <2>1. f \in Frames
    BY Shapes
  <2>2. /\ Only(f) /\ UNCHANGED files
        /\ pc'[f] = "token" /\ req'[f] = r /\ runs'[f] = <<>> /\ ~validated'[f]
    BY <1>2, <2>1 DEF InvokeProviderOp, EnterPipeline, Only, TypeOK, CoreInv, FrameInv, Fresh,
                      ReadyInv, SetUpInv
  <2>3. SetUpInv(f)'
    BY <1>2, <2>2 DEF SetUpInv, InvokeProviderOp
  <2> QED
    BY <2>1, <2>2, <2>3, OneFrameReady
<1>3. ASSUME NEW i \in Inv, TargetCard(i) PROVE ReadyInv'
  <2>1. Root(i) \in Frames /\ Card(i) \in Frames
    BY Shapes
  <2>2. PICK b \in BOOLEAN :
          AdmitCapability(Card(i), [kind |-> "capability", cap |-> CardCap, op |-> CardOp,
                                    tenant |-> req[Root(i)].tenant, bearer |-> b,
                                    route |-> "component"])
    BY <1>3 DEF TargetCard
  <2>3. [kind |-> "capability", cap |-> CardCap, op |-> CardOp, tenant |-> req[Root(i)].tenant,
         bearer |-> b, route |-> "component"] \in Request
    BY <2>1, PipelineAssumption DEF TypeOK, Request
  <2> QED
    BY <1>3, <2>1, <2>2, <2>3, AdmitReady DEF TargetCard
<1>4. ASSUME NEW f \in Frames, TokenSkip(f) PROVE ReadyInv'
  BY <1>4, FrameMovesOn DEF TokenSkip, StartPreHooks, Only, TypeOK
<1>5. ASSUME NEW f \in Frames, TokenReadiness(f) PROVE ReadyInv'
  <2>1. CASE pc' = [pc EXCEPT ![f] = "validate"]
    <3>1. PICK o \in TokenCands(f) : IsFirst(o, TokenCands(f)) /\ Readiness(o, req[f].tenant) = "ready"
      BY <1>5, <2>1 DEF TokenReadiness, DenyToken, Return, TypeOK
    <3>2. SetUpBefore(TokenCands(f), req[f].tenant)
      BY <3>1, ReadyMeansSetUp DEF ReadyInv, TokenCands, Candidates, TypeOK, Request
    <3>3. Only(f) /\ UNCHANGED <<req, runs, validated, files, everReady>> /\ pc'[f] = "validate"
      BY <1>5, <2>1 DEF TokenReadiness, DenyToken, Return, Only, TypeOK, files
    <3>4. /\ ~validated[f]
          /\ req[f].kind = "capability" => SetUpBefore(CapCands(f), req[f].tenant)
      BY <1>5 DEF TokenReadiness, ReadyInv, SetUpInv
    <3>5. SetUpInv(f)'
      BY <3>2, <3>3, <3>4, SetUpLasts DEF SetUpInv, CapCands, TokenCands
    <3> QED
      BY <3>3, <3>5, OneFrameReady
  <2>2. CASE pc' # [pc EXCEPT ![f] = "validate"]
    BY <1>5, <2>2, FrameMovesOn DEF TokenReadiness, DenyToken, Return, Only, TypeOK
  <2> QED
    BY <2>1, <2>2
<1>6. ASSUME NEW f \in Frames, TokenValidate(f) PROVE ReadyInv'
  <2>1. Only(f) /\ UNCHANGED <<req, runs, files, everReady>> /\ pc'[f] \in {"pre", "done"}
    BY <1>6 DEF TokenValidate, StartPreHooks, DenyToken, Return, Only, TypeOK, files
  <2>2. /\ SetUpBefore(TokenCands(f), req[f].tenant)
        /\ req[f].kind = "capability" => SetUpBefore(CapCands(f), req[f].tenant)
    BY <1>6 DEF TokenValidate, ReadyInv, SetUpInv
  <2>3. SetUpInv(f)'
    BY <2>1, <2>2, SetUpLasts DEF SetUpInv, CapCands, TokenCands
  <2> QED
    BY <2>1, <2>3, OneFrameReady
<1>7. ASSUME NEW f \in Frames, PreHook(f) PROVE ReadyInv'
  BY <1>7, FrameMovesOn DEF PreHook, PreHookDenies, Return, Only, TypeOK
<1>8. ASSUME NEW f \in Frames, PreHooksDone(f) PROVE ReadyInv'
  BY <1>8, FrameMovesOn DEF PreHooksDone, Only, TypeOK
<1>9. ASSUME NEW f \in Frames, pc[f] = "target", RunComponent(f),
             UNCHANGED <<req, denySeen, validated, files>>
      PROVE  ReadyInv'
  <2>1. pc'[f] \in {"post", "done"}
    BY <1>9 DEF RunComponent, Return, TypeOK
  <2> QED
    BY <1>9, <2>1, RunCore, FrameMovesOn
<1>10. ASSUME NEW f \in Frames, TargetAbsent(f) \/ TargetRun(f) PROVE ReadyInv'
  BY <1>9, <1>10, FrameMovesOn DEF TargetAbsent, TargetRun, Return, Only, TypeOK
<1>11. ASSUME NEW i \in Inv, TargetAfterCard(i) PROVE ReadyInv'
  <2>1. Root(i) \in Frames
    BY Shapes
  <2> QED
    BY <1>9, <1>11, <2>1, FrameMovesOn DEF TargetAfterCard, Return, Only, TypeOK
<1>12. ASSUME NEW f \in Frames, PostHook(f) \/ PostHooksDone(f) PROVE ReadyInv'
  BY <1>12, FrameMovesOn DEF PostHook, PostHooksDone, Return, Only, TypeOK
<1>13. CASE Mark
  <2>1. UNCHANGED <<pc, req, runs, validated>> /\ everReady \subseteq everReady'
    BY <1>13 DEF Mark, MarkBegin, MarkEnd, MarkCrash
  <2>2. ReadyWasMarked'
    <3>1. ASSUME NEW c \in MarkCommands, MarkBegin(c[1], c[2], c[3]) PROVE ReadyWasMarked'
      BY <3>1 DEF MarkBegin, TypeOK, ReadyInv, ReadyWasMarked
    <3>2. ASSUME NEW m \in marking, MarkEnd(m) \/ MarkCrash(m) PROVE ReadyWasMarked'
      BY <3>2 DEF MarkEnd, MarkCrash, TypeOK, ReadyInv, ReadyWasMarked
    <3> QED
      BY <1>13, <3>1, <3>2 DEF Mark
  <2> QED
    BY <2>1, <2>2, SetUpKept DEF ReadyInv
<1>14. CASE UNCHANGED vars
  BY <1>14, SetUpKept DEF ReadyInv, ReadyWasMarked, vars
<1> QED
  BY <1>1, <1>2, <1>3, <1>4, <1>5, <1>6, <1>7, <1>8, <1>10, <1>11, <1>12, <1>13, <1>14
     DEF Next, Invoke, CardStep, FrameStep

(***************************************************************************)
(* No target and no validator that needs setup is ever called for a tenant  *)
(* it was not marked ready for.                                             *)
(***************************************************************************)
THEOREM SetUpComesFirst == Spec => []NeverReadyNeverRuns
<1>1. Init => TypeOK /\ CoreInv /\ ReadyInv
  BY Inhabited DEF Init, TypeOK, PCs, Results, CoreInv, FrameInv, Fresh, ReadyInv, ReadyWasMarked,
                   SetUpInv
<1>2. ReadyInv => NeverReadyNeverRuns
  BY DEF ReadyInv, SetUpInv, CapCands, NeverReadyNeverRuns
<1> QED
  BY <1>1, <1>2, TypeStep, CoreStep, ReadyStep, PTL DEF Spec

-----------------------------------------------------------------------------
(***************************************************************************)
(* How a step of its own moves a frame: through the guards, from the target *)
(* to its post-hooks, and out.  No step of this kind starts a call, or runs *)
(* the target of a flow that has a card to resolve.                         *)
(***************************************************************************)
Moves(f) ==
    \/ /\ pc[f] \in {"token", "validate", "pre"} /\ runs'[f] = runs[f]
       /\ \/ pc'[f] \in {"validate", "pre", "target"}
          \/ pc'[f] = "done" /\ result'[f] \in {"denied", "err"}
    \/ /\ pc[f] = "target" /\ req[f].route # "card_flow"
       /\ \/ pc'[f] = "post"
          \/ pc'[f] = "done" /\ result'[f] = "err"
    \/ /\ pc[f] = "post" /\ runs'[f] = runs[f]
       /\ \/ pc'[f] = "post"
          \/ pc'[f] = "done" /\ result'[f] \in {result[f], "err"}

(* Running the target leads to its post-hooks or out. *)
LEMMA RunMoves ==
    ASSUME TypeOK, NEW f \in Frames, RunComponent(f)
    PROVE  pc'[f] = "post" \/ (pc'[f] = "done" /\ result'[f] = "err")
BY DEF RunComponent, Return, TypeOK

(* Every step of a frame is one of those moves and touches no other frame. *)
LEMMA FrameStepMoves ==
    ASSUME TypeOK, NEW f \in Frames, FrameStep(f)
    PROVE  Only(f) /\ UNCHANGED req /\ Moves(f)
<1> USE DEF Only, Moves, TypeOK
<1>1. CASE TokenSkip(f)
  BY <1>1 DEF TokenSkip, StartPreHooks
<1>2. CASE TokenReadiness(f)
  BY <1>2 DEF TokenReadiness, DenyToken, Return
<1>3. CASE TokenValidate(f)
  BY <1>3 DEF TokenValidate, StartPreHooks, DenyToken, Return
<1>4. CASE PreHook(f)
  BY <1>4 DEF PreHook, PreHookDenies, Return
<1>5. CASE PreHooksDone(f)
  BY <1>5 DEF PreHooksDone
<1>6. CASE TargetAbsent(f)
  BY <1>6 DEF TargetAbsent, Return
<1>7. CASE TargetRun(f)
  <2>1. Only(f)
    BY <1>7 DEF TargetRun, RunComponent, Return
  <2> QED
    BY <1>7, <2>1, RunMoves DEF TargetRun
<1>8. CASE PostHook(f)
  BY <1>8 DEF PostHook, Return
<1>9. CASE PostHooksDone(f)
  BY <1>9 DEF PostHooksDone, Return
<1> QED
  BY <1>1, <1>2, <1>3, <1>4, <1>5, <1>6, <1>7, <1>8, <1>9 DEF FrameStep

(* A call that is started enters the pipeline or is turned away. *)
LEMMA AdmitMoves ==
    ASSUME TypeOK, NEW f \in Frames, NEW r, AdmitCapability(f, r),
           UNCHANGED <<runs, denySeen, validated>>
    PROVE  /\ Only(f) /\ req'[f] = r
           /\ pc'[f] = "token" \/ (pc'[f] = "done" /\ result'[f] \in {"refused", "err"})
BY DEF AdmitCapability, EnterPipeline, Return, Only, TypeOK

-----------------------------------------------------------------------------
(***************************************************************************)
(* OAuth cards.  A nested call exists only while the flow it belongs to is  *)
(* at its target or past it, for the same tenant; a flow that ran left its  *)
(* nested call behind, returned and successful.                             *)
(***************************************************************************)
CardInv(i) ==
    /\ pc[Card(i)] # "idle" =>
         /\ pc[Root(i)] \in {"target", "post", "done"}
         /\ req[Root(i)].route = "card_flow"
         /\ req[Card(i)].tenant = req[Root(i)].tenant
    /\ runs[Root(i)] # <<>> /\ req[Root(i)].route = "card_flow" =>
         pc[Card(i)] = "done" /\ result[Card(i)] = "ok"

CardsInv == \A i \in Inv : CardInv(i)

(* The frames of different invocations are different. *)
LEMMA FramesDiffer ==
    ASSUME NEW i \in Inv, NEW j \in Inv, i # j
    PROVE  Root(i) # Root(j) /\ Card(i) # Card(j)
BY DEF Root, Card

(* A step that leaves both frames of a call alone keeps its card invariant. *)
LEMMA CardKept ==
    ASSUME NEW i \in Inv, CardInv(i),
           \A f \in {Root(i), Card(i)} : /\ pc'[f] = pc[f] /\ req'[f] = req[f]
                                         /\ runs'[f] = runs[f] /\ result'[f] = result[f]
    PROVE  CardInv(i)'
<1>1. UNCHANGED <<Root(i), Card(i)>>
  BY DEF Root, Card
<1> QED
  BY <1>1 DEF CardInv

(* A step of one frame need only be looked at in the call it belongs to. *)
LEMMA OneCard ==
    ASSUME CardsInv, NEW i \in Inv, NEW f \in {Root(i), Card(i)}, Only(f), CardInv(i)'
    PROVE  CardsInv'
<1> SUFFICES ASSUME NEW j \in Inv, j # i PROVE CardInv(j)'
  BY DEF CardsInv
<1>1. Root(j) # f /\ Card(j) # f /\ Root(j) \in Frames /\ Card(j) \in Frames
  BY Shapes, FramesDiffer
<1> QED
  BY <1>1, CardKept DEF Only, CardsInv

(* Every step keeps it. *)
LEMMA CardStepInv == TypeOK /\ CoreInv /\ CardsInv /\ [Next]_vars => CardsInv'
<1> SUFFICES ASSUME TypeOK, CoreInv, CardsInv, [Next]_vars PROVE CardsInv'
  OBVIOUS
<1>0. \A i \in Inv : /\ Root(i) \in Frames /\ Card(i) \in Frames /\ Root(i) # Card(i)
                     /\ CardInv(i) /\ UNCHANGED <<Root(i), Card(i)>>
  BY Shapes DEF CardsInv, Root, Card
<1>1. ASSUME NEW i \in Inv, pc[Root(i)] = "idle", Only(Root(i)), runs'[Root(i)] = runs[Root(i)]
      PROVE  CardsInv'
  <2>1. runs[Root(i)] = <<>> /\ pc[Card(i)] = "idle"
    BY <1>0, <1>1 DEF CardInv, CoreInv, FrameInv, Fresh
  <2>2. pc'[Card(i)] = "idle"
    BY <1>0, <1>1, <2>1 DEF Only
  <2>3. CardInv(i)'
    BY <1>0, <1>1, <2>1, <2>2 DEF CardInv
  <2> QED
    BY <1>1, <2>3, OneCard
<1>2. ASSUME NEW i \in Inv, Invoke(i) PROVE CardsInv'
  <2>1. ASSUME NEW r \in Requests, InvokeCapability(i, r) PROVE CardsInv'
    BY <1>0, <1>1, <2>1, AdmitMoves DEF InvokeCapability
  <2>2. ASSUME NEW r \in Requests, InvokeProviderOp(i, r) PROVE CardsInv'
    <3>1. Only(Root(i))
      BY <1>0, <2>2 DEF InvokeProviderOp, EnterPipeline, Only, TypeOK
    <3> QED
      BY <1>1, <2>2, <3>1 DEF InvokeProviderOp
  <2> QED
    BY <1>2, <2>1, <2>2 DEF Invoke
<1>3. ASSUME NEW i \in Inv, TargetCard(i) PROVE CardsInv'
  <2>1. PICK b \in BOOLEAN :
          AdmitCapability(Card(i), [kind |-> "capability", cap |-> CardCap, op |-> CardOp,
                                    tenant |-> req[Root(i)].tenant, bearer |-> b,
                                    route |-> "component"])
    BY <1>3 DEF TargetCard
  <2>2. Only(Card(i)) /\ req'[Card(i)].tenant = req[Root(i)].tenant
    BY <1>0, <1>3, <2>1, AdmitMoves DEF TargetCard
  <2>3. /\ pc'[Root(i)] = "target" /\ req'[Root(i)] = req[Root(i)] /\ runs'[Root(i)] = <<>>
        /\ req[Root(i)].route = "card_flow"
    BY <1>0, <1>3, <2>2 DEF TargetCard, Only, CoreInv, FrameInv, Fresh
  <2>4. CardInv(i)'
    BY <1>0, <2>2, <2>3 DEF CardInv
  <2> QED
    BY <2>2, <2>4, OneCard
<1>4. ASSUME NEW i \in Inv, TargetAfterCard(i) PROVE CardsInv'
  <2>1. /\ Only(Root(i)) /\ UNCHANGED req /\ pc'[Root(i)] \in {"post", "done"}
        /\ CardResolved(i) \/ runs'[Root(i)] = <<>>
    BY <1>0, <1>4 DEF TargetAfterCard, RunComponent, Return, Only, TypeOK, CoreInv, FrameInv, Fresh
  <2>2. pc'[Card(i)] = "done" /\ result'[Card(i)] = result[Card(i)]
    BY <1>0, <1>4, <2>1 DEF TargetAfterCard, Only
  <2>3. req[Card(i)].tenant = req[Root(i)].tenant /\ req[Root(i)].route = "card_flow"
    BY <1>0, <1>4 DEF TargetAfterCard, CardInv
  <2>4. CardInv(i)'
    BY <1>0, <2>1, <2>2, <2>3 DEF CardInv, CardResolved
  <2> QED
    BY <2>1, <2>4, OneCard
<1>5. ASSUME NEW i \in Inv, NEW f \in {Root(i), Card(i)}, FrameStep(f) PROVE CardsInv'
  <2>1. Only(f) /\ UNCHANGED req /\ Moves(f)
    BY <1>0, <1>5, FrameStepMoves
  <2>2. CASE f = Root(i)
    <3>1. pc'[Card(i)] = pc[Card(i)] /\ result'[Card(i)] = result[Card(i)]
      BY <1>0, <2>1, <2>2 DEF Only
    <3>2. CASE pc[f] \in {"token", "validate", "pre"}
      BY <1>0, <2>1, <2>2, <3>1, <3>2, OneCard DEF Moves, CardInv
    <3>3. CASE pc[f] = "target"
      BY <1>0, <2>1, <2>2, <3>1, <3>3, OneCard DEF Moves, CardInv
    <3>4. CASE pc[f] = "post"
      BY <1>0, <2>1, <2>2, <3>1, <3>4, OneCard DEF Moves, CardInv
    <3> QED
      BY <2>1, <3>2, <3>3, <3>4 DEF Moves
  <2>3. CASE f = Card(i)
    <3>1. /\ pc[Card(i)] \notin {"idle", "done"}
          /\ pc'[Root(i)] = pc[Root(i)] /\ runs'[Root(i)] = runs[Root(i)]
      BY <1>0, <2>1, <2>3 DEF Moves, Only
    <3>2. CardInv(i)'
      BY <1>0, <2>1, <3>1 DEF CardInv
    <3> QED
      BY <2>1, <3>2, OneCard
  <2> QED
    BY <1>5, <2>2, <2>3
<1>6. ASSUME NEW f \in Frames, FrameStep(f) PROVE CardsInv'
  <2>1. PICK i \in Inv : f = Root(i) \/ f = Card(i)
    BY DEF Frames, Root, Card
  <2> QED
    BY <1>5, <1>6, <2>1
<1>7. CASE Mark
  <2>1. UNCHANGED <<pc, req, result, runs>>
    BY <1>7 DEF Mark, MarkBegin, MarkEnd, MarkCrash
  <2> QED
    BY <2>1, CardKept DEF CardsInv
<1>8. CASE UNCHANGED vars
  BY <1>8, CardKept DEF CardsInv, vars
<1> QED
  BY <1>2, <1>3, <1>4, <1>6, <1>7, <1>8 DEF Next, CardStep

(***************************************************************************)
(* A flow with an OAuth card runs only after the nested call for the card   *)
(* ran, for the same tenant, and succeeded.                                 *)
(***************************************************************************)
THEOREM CardsResolvedFirst == Spec => []CardResolvedFirst
<1>1. Init => TypeOK /\ CoreInv /\ CardsInv
  BY Inhabited, Shapes DEF Init, TypeOK, PCs, Results, CoreInv, FrameInv, Fresh, CardsInv, CardInv
<1>2. CoreInv /\ CardsInv => CardResolvedFirst
  <2> SUFFICES ASSUME CoreInv, CardsInv, NEW i \in Inv, runs[Root(i)] # <<>>,
                      req[Root(i)].route = "card_flow"
               PROVE  result[Card(i)] = "ok" /\ runs[Card(i)] = <<req[Root(i)].tenant>>
    BY DEF CardResolvedFirst
  <2>1. FrameInv(Card(i)) /\ CardInv(i)
    BY Shapes DEF CoreInv, CardsInv
  <2> QED
    BY <2>1 DEF FrameInv, CardInv
<1> QED
  BY <1>1, <1>2, TypeStep, CoreStep, CardStepInv, PTL DEF Spec

-----------------------------------------------------------------------------
(***************************************************************************)
(* The refinement of GuardedCall.  PhaseMoves lists the moves of the        *)
(* abstract call; a frame that makes one of them while all others rest is a *)
(* step of GuardedCall.                                                     *)
(***************************************************************************)
PhaseMoves(f) ==
    \/ Phase(f)' = Phase(f) /\ Answer(f)' = Answer(f)
    \/ Phase(f) = "asking" /\ Phase(f)' = "cleared" /\ Answer(f)' = Answer(f)
    \/ Phase(f) = "asking" /\ Phase(f)' = "returned" /\ Answer(f)' \in {"denied", "refused", "err"}
    \/ Phase(f) = "cleared" /\ Phase(f)' = "executed" /\ Answer(f)' = Answer(f)
    \/ Phase(f) = "cleared" /\ Phase(f)' = "returned" /\ Answer(f)' = "err"
    \/ Phase(f) = "executed" /\ Phase(f)' = "returned" /\ Answer(f)' \in {"ok", "fail", "err"}

GuardedVars == <<[f \in Frames |-> Phase(f)], [f \in Frames |-> Answer(f)]>>

LEMMA OneGuardedStep ==
    ASSUME NEW f \in Frames, PhaseMoves(f),
           \A g \in Frames \ {f} : Phase(g)' = Phase(g) /\ Answer(g)' = Answer(g)
    PROVE  Guarded!Next \/ UNCHANGED GuardedVars
<1> DEFINE phase == [g \in Frames |-> Phase(g)]
           answer == [g \in Frames |-> Answer(g)]
<1>1. /\ phase' = [phase EXCEPT ![f] = Phase(f)']
      /\ answer' = [answer EXCEPT ![f] = Answer(f)']
      /\ phase[f] = Phase(f) /\ answer[f] = Answer(f)
  OBVIOUS
<1>2. CASE Phase(f)' = Phase(f) /\ Answer(f)' = Answer(f)
  BY <1>1, <1>2 DEF GuardedVars
<1>3. CASE Phase(f) = "asking" /\ Phase(f)' = "cleared" /\ Answer(f)' = Answer(f)
  <2>1. Guarded!Clear(f)
    BY <1>1, <1>3 DEF Guarded!Clear, Guarded!Move
  <2> QED
    BY <2>1 DEF Guarded!Next
<1>4. CASE Phase(f) = "asking" /\ Phase(f)' = "returned" /\ Answer(f)' \in {"denied", "refused", "err"}
  <2>1. Guarded!Refuse(f)
    BY <1>1, <1>4 DEF Guarded!Refuse, Guarded!Move
  <2> QED
    BY <2>1 DEF Guarded!Next
<1>5. CASE Phase(f) = "cleared" /\ Phase(f)' = "executed" /\ Answer(f)' = Answer(f)
  <2>1. Guarded!Execute(f)
    BY <1>1, <1>5 DEF Guarded!Execute, Guarded!Move
  <2> QED
    BY <2>1 DEF Guarded!Next
<1>6. CASE Phase(f) = "cleared" /\ Phase(f)' = "returned" /\ Answer(f)' = "err"
  <2>1. Guarded!Break(f)
    BY <1>1, <1>6 DEF Guarded!Break, Guarded!Move
  <2> QED
    BY <2>1 DEF Guarded!Next
<1>7. CASE Phase(f) = "executed" /\ Phase(f)' = "returned" /\ Answer(f)' \in {"ok", "fail", "err"}
  <2>1. Guarded!Finish(f)
    BY <1>1, <1>7 DEF Guarded!Finish, Guarded!Move
  <2> QED
    BY <2>1 DEF Guarded!Next
<1> QED
  BY <1>2, <1>3, <1>4, <1>5, <1>6, <1>7 DEF PhaseMoves

(* Every step of the pipeline is a step of GuardedCall or a stutter. *)
LEMMA GuardedStep ==
    TypeOK /\ CoreInv /\ [Next]_vars => Guarded!Next \/ UNCHANGED GuardedVars
<1> SUFFICES ASSUME TypeOK, CoreInv, [Next]_vars PROVE Guarded!Next \/ UNCHANGED GuardedVars
  OBVIOUS
<1>1. ASSUME NEW f \in Frames, Only(f), PhaseMoves(f) PROVE Guarded!Next \/ UNCHANGED GuardedVars
  <2>1. \A g \in Frames \ {f} : Phase(g)' = Phase(g) /\ Answer(g)' = Answer(g)
    BY <1>1 DEF Only, Phase, Answer
  <2> QED
    BY <1>1, <2>1, OneGuardedStep
<1>2. ASSUME NEW f \in Frames, pc[f] = "idle", Only(f),
             pc'[f] = "token" \/ (pc'[f] = "done" /\ result'[f] \in {"refused", "err"})
      PROVE  Guarded!Next \/ UNCHANGED GuardedVars
  BY <1>1, <1>2 DEF PhaseMoves, Phase, Answer
<1>3. ASSUME NEW f \in Frames, pc[f] = "target", Only(f),
             pc'[f] = "post" \/ (pc'[f] = "done" /\ result'[f] = "err")
      PROVE  Guarded!Next \/ UNCHANGED GuardedVars
  BY <1>1, <1>3 DEF PhaseMoves, Phase, Answer
<1>4. ASSUME NEW i \in Inv, Invoke(i) PROVE Guarded!Next \/ UNCHANGED GuardedVars
  <2>1. Root(i) \in Frames
    BY Shapes
  <2>2. ASSUME NEW r \in Requests, InvokeCapability(i, r)
        PROVE  Guarded!Next \/ UNCHANGED GuardedVars
    BY <1>2, <2>1, <2>2, AdmitMoves DEF InvokeCapability
  <2>3. ASSUME NEW r \in Requests, InvokeProviderOp(i, r)
        PROVE  Guarded!Next \/ UNCHANGED GuardedVars
    <3>1. Only(Root(i)) /\ pc'[Root(i)] = "token"
      BY <2>1, <2>3 DEF InvokeProviderOp, EnterPipeline, Only, TypeOK
    <3> QED
      BY <1>2, <2>1, <2>3, <3>1 DEF InvokeProviderOp
  <2> QED
    BY <1>4, <2>2, <2>3 DEF Invoke
<1>5. ASSUME NEW i \in Inv, TargetCard(i) PROVE Guarded!Next \/ UNCHANGED GuardedVars
  BY <1>2, <1>5, Shapes, AdmitMoves DEF TargetCard
<1>6. ASSUME NEW i \in Inv, TargetAfterCard(i) PROVE Guarded!Next \/ UNCHANGED GuardedVars
  <2>1. Root(i) \in Frames
    BY Shapes
  <2>2. Only(Root(i))
    BY <1>6, <2>1 DEF TargetAfterCard, RunComponent, Return, Only, TypeOK
  <2>3. pc'[Root(i)] = "post" \/ (pc'[Root(i)] = "done" /\ result'[Root(i)] = "err")
    BY <1>6, <2>1, RunMoves DEF TargetAfterCard, Return, TypeOK
  <2> QED
    BY <1>3, <1>6, <2>1, <2>2, <2>3 DEF TargetAfterCard
<1>7. ASSUME NEW f \in Frames, FrameStep(f) PROVE Guarded!Next \/ UNCHANGED GuardedVars
  <2>1. Only(f) /\ Moves(f)
    BY <1>7, FrameStepMoves
  <2>2. CASE pc[f] \in {"token", "validate", "pre"}
    BY <1>1, <2>1, <2>2 DEF Moves, PhaseMoves, Phase, Answer
  <2>3. CASE pc[f] = "target"
    BY <1>3, <2>1, <2>3 DEF Moves
  <2>4. CASE pc[f] = "post"
    <3>1. result[f] \in {"ok", "fail"}
      BY <2>4 DEF CoreInv, FrameInv
    <3> QED
      BY <1>1, <2>1, <2>4, <3>1 DEF Moves, PhaseMoves, Phase, Answer
  <2> QED
    BY <2>1, <2>2, <2>3, <2>4 DEF Moves
<1>8. CASE Mark
  <2>1. UNCHANGED <<pc, result>>
    BY <1>8 DEF Mark, MarkBegin, MarkEnd, MarkCrash
  <2> QED
    BY <2>1 DEF GuardedVars, Phase, Answer
<1>9. CASE UNCHANGED vars
  BY <1>9 DEF vars, GuardedVars, Phase, Answer
<1> QED
  BY <1>4, <1>5, <1>6, <1>7, <1>8, <1>9 DEF Next, CardStep

(***************************************************************************)
(* The pipeline implements GuardedCall: for any hooks, tokens, cards and    *)
(* concurrent calls, guards come first and the target runs at most once.    *)
(***************************************************************************)
THEOREM PipelineRefines == Spec => ImplementsGuardedCall
<1>1. Init => Guarded!Init
  BY DEF Init, Guarded!Init, Phase, Answer
<1>2. TypeOK /\ CoreInv /\ [Next]_vars => [Guarded!Next]_GuardedVars
  BY GuardedStep
<1> QED
  BY <1>1, <1>2, CoreHolds, PTL DEF Spec, ImplementsGuardedCall, Guarded!Spec, GuardedVars

=============================================================================
