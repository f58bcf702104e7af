---------------------------- MODULE CommandProofs ----------------------------
(***************************************************************************)
(* Proofs about what commands do: the end-to-end egress, for any number of  *)
(* messages, outputs and retries and integer widths of any size, the start  *)
(* and stop of tunnels and services, for any number of operators, pids and  *)
(* tunnels, and the bundle wizard, for any bundles, answers, packs, scopes  *)
(* and number of runs.                                                      *)
(***************************************************************************)
EXTENDS Egress, Tunnel, Wizard, SequenceLemmas


(* What the saturating operations of u32 and u64 return. *)
LEMMA LesserBounds ==
    ASSUME NEW a \in Int, NEW b \in Int
    PROVE  Lesser(a, b) \in {a, b} /\ Lesser(a, b) <= a /\ Lesser(a, b) <= b
BY DEF Lesser

LEMMA U64MaxType == U64Max \in Nat
BY EgressAssumption, PowersOfTwo DEF U64Max

(***************************************************************************)
(* A delay never leaves u64, however often the base delay is doubled.       *)
(***************************************************************************)
LEMMA DelayType ==
    ASSUME NEW n \in Nat, NEW j \in 0..Jitter
    PROVE  delay_with_jitter(n, j) \in 0..U64Max
<1>1. /\ BaseDelay \in 0..U64Max /\ MaxDelay \in 0..U64Max /\ Jitter \in 0..U64Max /\ U64Max \in Nat
  BY EgressAssumption, U64MaxType
<1> DEFINE shift == Lesser(IF n > 0 THEN n - 1 ELSE 0, W64 - 1)
<1>2. shift \in 0..W64
  BY EgressAssumption DEF Lesser
<1>3. 2^shift \in Nat
  BY <1>2, PowersOfTwo
<1>4. BaseDelay * 2^shift \in Nat
  BY <1>1, <1>3
<1>5. backoff_ms(n) \in 0..U64Max
  BY <1>1, <1>4 DEF backoff_ms, SaturatingMul, Lesser
<1> QED
  BY <1>1, <1>5 DEF delay_with_jitter, SaturatingAdd, Lesser

(* The attempts a job has, at least one and at most a u32. *)
LEMMA MaxAttempts ==
    ASSUME opt \in Options
    PROVE  /\ opt.retries \in 0..U32Max
           /\ max_attempts \in 1..U32Max
           /\ max_attempts <= opt.retries + 1
<1>1. opt.retries \in 0..U32Max /\ U32Max \in Nat \ {0}
  BY EgressAssumption DEF Options
<1> QED
  BY <1>1 DEF max_attempts, SaturatingAdd, Lesser

(* The envelopes that come out of a flow extend the jobs. *)
LEMMA OutputsExtend ==
    ASSUME NEW m \in 1..MaxMessages, NEW n \in Nat, jobs \in Seq(1..MaxMessages)
    PROVE  /\ jobs \o Outputs(m, n) \in Seq(1..MaxMessages)
           /\ Len(jobs \o Outputs(m, n)) >= Len(jobs)
<1>1. Outputs(m, n) \in Seq(1..MaxMessages)
  BY DEF Outputs
<1> QED
  BY <1>1

-----------------------------------------------------------------------------
(***************************************************************************)
(* Every step keeps the variables in their types.                           *)
(***************************************************************************)
LEMMA TypeStep == TypeOK /\ [Next]_vars => TypeOK'
<1> SUFFICES ASSUME TypeOK, [Next]_vars PROVE TypeOK'
  OBVIOUS
<1> USE DEF TypeOK
<1>0. MaxMessages \in Nat /\ U32Max \in Nat \ {0} /\ 0 \in 0..U64Max
  BY EgressAssumption, U64MaxType
<1>1. CASE Start
  BY <1>1 DEF Start, End
<1>2. CASE RunFlow
  <2>1. CASE UNCHANGED <<left, jobs>>
    BY <1>2, <2>1 DEF RunFlow, End
  <2>2. ASSUME NEW n \in 0..MaxOutputs, jobs' = jobs \o Outputs(left, n), left' = left - 1,
               UNCHANGED <<pc, result>>
        PROVE  TypeOK'
    <3>1. left \in 1..MaxMessages /\ n \in Nat
      BY <1>0, <1>2, EgressAssumption DEF RunFlow
    <3>2. jobs' \in Seq(1..MaxMessages) /\ Len(jobs') >= Len(jobs)
      BY <2>2, <3>1, OutputsExtend
    <3> QED
      BY <1>0, <1>2, <2>2, <3>1, <3>2 DEF RunFlow
  <2> QED
    BY <1>2, <2>1, <2>2 DEF RunFlow
<1>3. CASE StartJobs
  BY <1>3 DEF StartJobs, End
<1>4. ASSUME FinishJob
      PROVE  /\ cur' \in 1..(Len(jobs) + 1) /\ attempt' \in 0..U32Max /\ tries' \in Seq(Replies)
             /\ wait'.ms \in 0..U64Max /\ wait'.given \in BOOLEAN
             /\ pc' \in {"start", "flow", "render", "send", "ended"}
             /\ result' \in {"running", "ok", "err"}
  BY <1>0, <1>4 DEF FinishJob, End, NoWait
<1>5. increment_attempt \in 0..U32Max
  BY <1>0 DEF increment_attempt, SaturatingAdd, Lesser
<1>6. CASE Render
  BY <1>4, <1>5, <1>6 DEF Render, End
<1>7. CASE SendCannotRun
  BY <1>7 DEF SendCannotRun, End
<1>8. CASE SendSucceeds
  <2>1. cur \in 1..Len(jobs)
    BY <1>8 DEF SendSucceeds, FinishJob
  <2> QED
    BY <1>4, <1>8, <2>1 DEF SendSucceeds
<1>9. CASE SendFails
  <2> USE DEF SendFails
  <2>1. PICK answer \in {"retryable", "permanent"} :
           \/ FinishJob /\ dead' = dead \cup {cur}
           \/ /\ tries' = Append(tries, answer)
              /\ End("err") /\ UNCHANGED <<cur, attempt, wait, dead>>
           \/ /\ tries' = Append(tries, answer)
              /\ \/ \E ms \in Backoffs : wait' = [ms |-> ms, given |-> TRUE]
                 \/ \E j \in 0..Jitter : wait' = [ms |-> delay_with_jitter(attempt, j), given |-> FALSE]
              /\ pc' = "render" /\ UNCHANGED <<cur, attempt, result, dead>>
    BY <1>9 DEF Logged
  <2>2. Append(tries, answer) \in Seq(Replies)
    BY DEF Replies
  <2>3. CASE FinishJob /\ dead' = dead \cup {cur}
    <3>1. cur \in 1..Len(jobs)
      BY <2>3 DEF FinishJob
    <3> QED
      BY <1>4, <1>9, <2>3, <3>1
  <2>4. CASE /\ tries' = Append(tries, answer)
             /\ End("err") /\ UNCHANGED <<cur, attempt, wait, dead>>
    BY <1>9, <2>2, <2>4 DEF End
  <2>5. CASE /\ tries' = Append(tries, answer)
             /\ \/ \E ms \in Backoffs : wait' = [ms |-> ms, given |-> TRUE]
                \/ \E j \in 0..Jitter : wait' = [ms |-> delay_with_jitter(attempt, j), given |-> FALSE]
             /\ pc' = "render" /\ UNCHANGED <<cur, attempt, result, dead>>
    <3>1. wait'.ms \in 0..U64Max /\ wait'.given \in BOOLEAN
      <4>1. ASSUME NEW ms \in Backoffs, wait' = [ms |-> ms, given |-> TRUE]
            PROVE  wait'.ms \in 0..U64Max /\ wait'.given \in BOOLEAN
        BY <4>1, EgressAssumption
      <4>2. ASSUME NEW j \in 0..Jitter, wait' = [ms |-> delay_with_jitter(attempt, j), given |-> FALSE]
            PROVE  wait'.ms \in 0..U64Max /\ wait'.given \in BOOLEAN
        <5>1. delay_with_jitter(attempt, j) \in 0..U64Max
          <6>1. attempt \in Nat
            BY <1>0
          <6> QED
            BY <6>1, DelayType
        <5> QED
          BY <4>2, <5>1
      <4> QED
        BY <2>5, <4>1, <4>2
    <3> QED
      BY <1>9, <2>2, <2>5, <3>1
  <2> QED
    BY <2>1, <2>3, <2>4, <2>5
<1>10. CASE UNCHANGED vars
  BY <1>10 DEF vars
<1> QED
  BY <1>1, <1>2, <1>3, <1>6, <1>7, <1>8, <1>9, <1>10 DEF Next

(***************************************************************************)
(* Counts and delays of the egress never leave their widths.                *)
(***************************************************************************)
THEOREM TypeCorrect == Spec => []TypeOK
<1>1. Init => TypeOK
  BY EgressAssumption, U64MaxType DEF Init, TypeOK, NoWait
<1> QED
  BY <1>1, TypeStep, PTL DEF Spec

-----------------------------------------------------------------------------
(***************************************************************************)
(* The inductive invariant.  Accounting: the jobs before the current one    *)
(* are settled, none after it is, and only a run that is past its last job  *)
(* says ok.  Counting: attempts and answers agree, so that an attempt is    *)
(* made only while there is one left; the count never saturates, because    *)
(* the last attempt is at most the largest u32.                             *)
(***************************************************************************)
Settled(k) == IF Sending THEN (k \in delivered) # (k \in dead) ELSE k \notin delivered \cup dead

AccountInv ==
    /\ \A k \in 1..(cur - 1) : Settled(k)
    /\ \A k \in delivered \cup dead : k < cur
    /\ pc \in {"start", "flow"} => cur = 1
    /\ pc = "start" => jobs = <<>>
    /\ pc = "send" => Sending /\ cur <= Len(jobs)
    /\ pc # "ended" => result = "running"
    /\ result = "ok" => cur = Len(jobs) + 1

CountInv ==
    /\ pc \in {"start", "flow"} => attempt = 0 /\ tries = <<>>
    /\ pc = "render" => attempt = Len(tries) /\ attempt < max_attempts
    /\ pc = "send" => attempt = Len(tries) + 1 /\ attempt <= max_attempts
    /\ pc \in {"render", "send"} => \A k \in DOMAIN tries : tries[k] = "retryable"

(* A job that is finished is settled, whichever way it went. *)
LEMMA FinishAccounts ==
    ASSUME TypeOK, AccountInv, FinishJob, UNCHANGED <<opt, jobs>>, pc \in {"render", "send"},
           delivered' \subseteq delivered \cup {cur}, delivered \subseteq delivered',
           dead' \subseteq dead \cup {cur}, dead \subseteq dead',
           NEW c, c = cur, Settled(c)'
    PROVE  AccountInv'
<1>1. /\ cur' = cur + 1 /\ cur \in Nat \ {0} /\ cur <= Len(jobs)
      /\ \/ cur < Len(jobs) /\ pc' = "render" /\ result' = "running"
         \/ cur = Len(jobs) /\ pc' = "ended" /\ result' = "ok"
  BY DEF FinishJob, End, AccountInv, TypeOK
<1>2. ASSUME NEW k \in 1..(cur' - 1) PROVE Settled(k)'
  <2>1. CASE k = cur
    BY <2>1
  <2>2. CASE k # cur
    <3>1. k \in 1..(cur - 1)
      BY <1>1, <1>2, <2>2
    <3>2. Settled(k) /\ (k \in delivered' <=> k \in delivered) /\ (k \in dead' <=> k \in dead)
      BY <2>2, <3>1 DEF AccountInv
    <3> QED
      BY <3>2 DEF Settled, Sending
  <2> QED
    BY <2>1, <2>2
<1>3. ASSUME NEW k \in (delivered \cup dead)' PROVE k < cur'
  <2>1. CASE k = cur
    BY <1>1, <2>1
  <2>2. CASE k # cur
    <3>1. k \in delivered \cup dead
      BY <1>3, <2>2
    <3>2. k < cur /\ k \in Int
      BY <3>1 DEF AccountInv, TypeOK
    <3> QED
      BY <1>1, <3>2
  <2> QED
    BY <2>1, <2>2
<1> QED
  BY <1>1, <1>2, <1>3 DEF AccountInv

(* A step that neither moves on nor settles a job keeps the accounting. *)
LEMMA AccountKept ==
    ASSUME AccountInv, UNCHANGED <<opt, cur, delivered, dead>>
    PROVE  (\A k \in 1..(cur - 1) : Settled(k))' /\ (\A k \in delivered \cup dead : k < cur)'
BY DEF AccountInv, Settled, Sending

(* Every step keeps the accounting. *)
LEMMA AccountStep == TypeOK /\ AccountInv /\ [Next]_vars => AccountInv'
<1> SUFFICES ASSUME TypeOK, AccountInv, [Next]_vars PROVE AccountInv'
  OBVIOUS
<1>0. cur \in Nat \ {0} /\ (pc \in {"render", "send"} => result = "running")
  BY DEF TypeOK, AccountInv
<1>1. CASE Start
  BY <1>1, AccountKept DEF Start, End, AccountInv, TypeOK
<1>2. CASE RunFlow
  BY <1>2, AccountKept DEF RunFlow, End, AccountInv
<1>3. CASE StartJobs
  BY <1>3, AccountKept DEF StartJobs, End, AccountInv
<1>4. CASE Render
  <2>1. CASE FinishJob
    <3>1. cur \notin delivered \cup dead /\ (Sending <=> Sending')
      BY <1>0, <1>4 DEF Render, AccountInv, Sending
    <3>2. CASE ~Sending
      <4>1. ASSUME NEW c, c = cur PROVE Settled(c)'
        BY <1>4, <3>1, <3>2, <4>1 DEF Render, Settled
      <4> QED
        BY <1>4, <2>1, <4>1, FinishAccounts DEF Render
    <3>3. CASE Sending
      BY <1>4, <2>1, <3>3, <1>0 DEF Render, FinishJob, End
    <3> QED
      BY <3>2, <3>3
  <2>2. CASE ~FinishJob
    BY <1>0, <1>4, <2>2, AccountKept DEF Render, End, AccountInv, Sending
  <2> QED
    BY <2>1, <2>2
<1>5. CASE SendCannotRun
  BY <1>5, AccountKept DEF SendCannotRun, End, AccountInv
<1>6. CASE SendSucceeds
  <2>1. Sending /\ Sending' /\ cur \notin dead
    BY <1>0, <1>6 DEF SendSucceeds, AccountInv, Sending
  <2>2. ASSUME NEW c, c = cur PROVE Settled(c)'
    BY <1>6, <2>1, <2>2 DEF SendSucceeds, Settled
  <2> QED
    BY <1>6, <2>2, FinishAccounts DEF SendSucceeds
<1>7. CASE SendFails
  <2>1. Sending /\ Sending' /\ cur \notin delivered
    BY <1>0, <1>7 DEF SendFails, AccountInv, Sending
  <2>2. CASE FinishJob /\ dead' = dead \cup {cur}
    <3>1. ASSUME NEW c, c = cur PROVE Settled(c)'
      BY <1>7, <2>1, <2>2, <3>1 DEF SendFails, Settled
    <3> QED
      BY <1>7, <2>2, <3>1, FinishAccounts DEF SendFails
  <2>3. CASE UNCHANGED <<cur, dead>> /\ (End("err") \/ (pc' = "render" /\ UNCHANGED result))
    BY <1>0, <1>7, <2>3, AccountKept DEF SendFails, End, AccountInv
  <2> QED
    BY <1>7, <2>2, <2>3 DEF SendFails, Logged
<1>8. CASE UNCHANGED vars
  BY <1>8, AccountKept DEF vars, AccountInv, Sending
<1> QED
  BY <1>1, <1>2, <1>3, <1>4, <1>5, <1>6, <1>7, <1>8 DEF Next

(***************************************************************************)
(* A run that ends well has delivered or dead-lettered every envelope.      *)
(***************************************************************************)
THEOREM EveryEnvelopeAccounted == Spec => []SentOrDeadLettered
<1>1. Init => TypeOK /\ AccountInv
  BY EgressAssumption, U64MaxType DEF Init, TypeOK, NoWait, AccountInv
<1>2. TypeOK /\ AccountInv => SentOrDeadLettered
  BY DEF TypeOK, AccountInv, SentOrDeadLettered, Settled
<1> QED
  BY <1>1, <1>2, TypeStep, AccountStep, PTL DEF Spec

(***************************************************************************)
(* Every step keeps the counting.                                           *)
(***************************************************************************)
LEMMA CountStep == TypeOK /\ CountInv /\ [Next]_vars => CountInv'
<1> SUFFICES ASSUME TypeOK, CountInv, [Next]_vars PROVE CountInv'
  OBVIOUS
<1>0. /\ opt.retries \in 0..U32Max /\ max_attempts \in 1..U32Max /\ U32Max \in Nat
      /\ tries \in Seq(Replies) /\ Len(tries) \in Nat /\ attempt \in 0..U32Max
  BY MaxAttempts, EgressAssumption DEF TypeOK
<1>1. ASSUME UNCHANGED opt PROVE max_attempts' = max_attempts
  BY <1>1 DEF max_attempts
<1>2. ASSUME FinishJob, UNCHANGED opt PROVE CountInv'
  BY <1>0, <1>1, <1>2 DEF FinishJob, End, CountInv
<1>3. CASE Start \/ RunFlow \/ StartJobs \/ SendCannotRun
  BY <1>0, <1>1, <1>3 DEF Start, RunFlow, StartJobs, SendCannotRun, End, CountInv
<1>4. CASE Render
  <2>1. increment_attempt = attempt + 1
    BY <1>0, <1>4 DEF Render, CountInv, increment_attempt, SaturatingAdd, Lesser
  <2> QED
    BY <1>0, <1>1, <1>2, <1>4, <2>1 DEF Render, End, CountInv
<1>5. CASE SendSucceeds
  BY <1>2, <1>5 DEF SendSucceeds
<1>6. CASE SendFails
  <2>1. CASE FinishJob
    BY <1>2, <1>6, <2>1 DEF SendFails
  <2>2. CASE pc' = "ended"
    BY <2>2 DEF CountInv
  <2>3. CASE ~FinishJob /\ pc' # "ended"
    <3>1. /\ attempt < max_attempts /\ tries' = Append(tries, "retryable")
          /\ pc' = "render" /\ UNCHANGED <<attempt, opt>>
      BY <1>0, <1>6, <2>3 DEF SendFails, IsFinal, End
    <3>2. attempt = Len(tries) + 1 /\ \A k \in DOMAIN tries : tries[k] = "retryable"
      BY <1>6 DEF SendFails, CountInv
    <3>3. \A k \in DOMAIN tries' : tries'[k] = "retryable"
      BY <1>0, <3>1, <3>2 DEF Replies
    <3> QED
      BY <1>0, <1>1, <3>1, <3>2, <3>3 DEF CountInv
  <2> QED
    BY <2>1, <2>2, <2>3
<1>7. CASE UNCHANGED vars
  BY <1>1, <1>7 DEF vars, CountInv
<1> QED
  BY <1>3, <1>4, <1>5, <1>6, <1>7 DEF Next

(***************************************************************************)
(* A job is sent again only after an answer that allows it, and at most     *)
(* --retries times, also when --retries is the largest u32.                 *)
(***************************************************************************)
THEOREM RetriesStayDue == Spec => []RetriesAreDue
<1>1. Init => TypeOK /\ CountInv
  BY EgressAssumption, U64MaxType DEF Init, TypeOK, NoWait, CountInv
<1>2. TypeOK /\ CountInv => RetriesAreDue
  BY MaxAttempts DEF TypeOK, CountInv, RetriesAreDue
<1> QED
  BY <1>1, <1>2, TypeStep, CountStep, PTL DEF Spec

-----------------------------------------------------------------------------
(***************************************************************************)
(* Tunnels and services.                                                    *)
(***************************************************************************)
TunnelTypes ==
    /\ cast \in Casts
    /\ proc \in [Pids -> Process]
    /\ started \in 0..MaxTunnels
    /\ place \in [Operators -> PCs]
    /\ DOMAIN cmd = Operators /\ DOMAIN pid = Operators

LEMMA ProcessType ==
    ASSUME NEW x \in Process
    PROVE  /\ x.kind \in {"free", "foreign", "tunnel", "zombie"}
           /\ x.kind \in {"tunnel", "zombie"} => x.parent \in Operators /\ x.url \in Tunnels
           /\ x.kind \in {"tunnel", "zombie"} =>
                /\ [x EXCEPT !.kind = "zombie"] \in Process
                /\ [x EXCEPT !.kind = "zombie"].kind = "zombie" /\ [x EXCEPT !.kind = "zombie"].parent = x.parent
           /\ Free \in Process /\ Free.kind = "free"
           /\ x.kind = "free" => x = Free
<1>1. CASE x \in [kind : {"free", "foreign"}, url : {0}, parent : {0}]
  BY <1>1 DEF Process, Free
<1>2. CASE x \in [kind : {"tunnel", "zombie"}, url : Tunnels, parent : Operators]
  <2>1. x.kind \in {"tunnel", "zombie"} /\ x.parent \in Operators /\ x.url \in Tunnels
    BY <1>2
  <2>2. /\ [x EXCEPT !.kind = "zombie"] \in [kind : {"tunnel", "zombie"}, url : Tunnels, parent : Operators]
        /\ [x EXCEPT !.kind = "zombie"].kind = "zombie" /\ [x EXCEPT !.kind = "zombie"].parent = x.parent
    BY <1>2
  <2>3. Free \in Process /\ Free.kind = "free"
    BY DEF Process, Free
  <2> QED
    BY <2>1, <2>2, <2>3 DEF Process
<1> QED
  BY <1>1, <1>2 DEF Process

LEMMA TypesStep == TunnelTypes /\ [TunnelNext]_tunnelVars => TunnelTypes'
<1> SUFFICES ASSUME TunnelTypes, [TunnelNext]_tunnelVars PROVE TunnelTypes'
  OBVIOUS
<1> USE DEF Goto, PCs
<1>0. /\ cast \in Casts /\ proc \in [Pids -> Process] /\ started \in 0..MaxTunnels
      /\ place \in [Operators -> PCs] /\ DOMAIN cmd = Operators /\ DOMAIN pid = Operators
  BY DEF TunnelTypes
<1>1. CASE UNCHANGED tunnelVars
  BY <1>1 DEF TunnelTypes, tunnelVars
<1>2. ASSUME NEW o \in Operators, Begin(o), UNCHANGED cast PROVE TunnelTypes'
  BY <1>0, <1>2 DEF TunnelTypes, Begin, ServiceStep, TunnelStep, processes
<1>3. ASSUME NEW o \in Operators, UNCHANGED <<cast, proc, started, cmd>>,
             DOMAIN pid' = Operators, \E l \in PCs : place' = [place EXCEPT ![o] = l]
      PROVE  TunnelTypes'
  BY <1>0, <1>3 DEF TunnelTypes
<1>4. ASSUME NEW o \in Operators, UNCHANGED cast,
             StopRead(o) \/ StopTerm(o) \/ StopGone(o) \/ StopDeadline(o) \/ StopRemove(o)
      PROVE  TunnelTypes'
  <2>1. /\ UNCHANGED <<proc, started, cmd>> /\ DOMAIN pid' = Operators
        /\ \E l \in PCs : place' = [place EXCEPT ![o] = l]
    BY <1>0, <1>4 DEF StopRead, StopTerm, StopGone, StopDeadline, StopRemove, AfterStop, processes
  <2> QED
    BY <1>3, <1>4, <2>1
<1>5. ASSUME NEW o \in Operators, UNCHANGED cast,
             Look(o) \/ Reuse(o) \/ SpawnCheck(o) \/ PidTruncate(o) \/ PidWrite(o)
      PROVE  TunnelTypes'
  <2>1. /\ UNCHANGED <<proc, started, cmd>> /\ DOMAIN pid' = Operators
        /\ \E l \in PCs : place' = [place EXCEPT ![o] = l]
    BY <1>0, <1>5 DEF Look, Reuse, SpawnCheck, PidTruncate, PidWrite, processes
  <2> QED
    BY <1>3, <1>5, <2>1
<1>6. ASSUME NEW o \in Operators, UNCHANGED cast,
             Discover(o) \/ try_ngrok_api(o) \/ UrlWrite(o) \/ RemovePidFile(o)
      PROVE  TunnelTypes'
  <2>1. /\ UNCHANGED <<proc, started, cmd>> /\ DOMAIN pid' = Operators
        /\ \E l \in PCs : place' = [place EXCEPT ![o] = l]
    BY <1>0, <1>6 DEF Discover, try_ngrok_api, UrlWrite, RemovePidFile, processes
  <2> QED
    BY <1>3, <1>6, <2>1
<1>7. ASSUME NEW o \in Operators, UNCHANGED cast, start_process(o) \/ stop_process(o)
      PROVE  TunnelTypes'
  <2>1. /\ UNCHANGED <<proc, started, cmd>> /\ DOMAIN pid' = Operators
        /\ \E l \in PCs : place' = [place EXCEPT ![o] = l]
    BY <1>0, <1>7 DEF start_process, stop_process, NotRunning, CannotGoOn, Signal
  <2> QED
    BY <1>3, <1>7, <2>1
<1>8. ASSUME NEW o \in Operators, UNCHANGED cast, Spawn(o) PROVE TunnelTypes'
  <2>1. CASE Goto(o, "err") /\ UNCHANGED <<proc, pid, started>>
    <3>1. UNCHANGED <<cmd>> /\ DOMAIN pid' = Operators /\ \E l \in PCs : place' = [place EXCEPT ![o] = l]
      BY <1>0, <1>8, <2>1 DEF Spawn
    <3> QED
      BY <1>3, <1>8, <2>1, <3>1
  <2>2. CASE started < MaxTunnels /\ started' = started + 1 /\ Goto(o, "pid_truncate")
             /\ \E p \in Pids :
                  /\ proc' = [proc EXCEPT ![p] = [kind |-> "tunnel", url |-> started + 1, parent |-> o]]
                  /\ pid' = [pid EXCEPT ![o] = p]
    <3>1. MaxTunnels \in Nat
      BY TunnelAssumption
    <3>2. started + 1 \in Tunnels /\ started + 1 \in 0..MaxTunnels
      BY <1>0, <2>2, <3>1 DEF Tunnels
    <3>3. [kind |-> "tunnel", url |-> started + 1, parent |-> o] \in Process
      BY <3>2 DEF Process
    <3>4. proc' \in [Pids -> Process]
      BY <1>0, <2>2, <3>3
    <3> QED
      BY <1>0, <1>8, <2>2, <3>2, <3>4 DEF TunnelTypes, Spawn
  <2> QED
    BY <1>8, <2>1, <2>2 DEF Spawn
<1>9. ASSUME NEW o \in Operators, UNCHANGED cast, Exit(o) \/ Crash(o) PROVE TunnelTypes'
  <2>1. proc' \in [Pids -> Process]
    <3>1. proc' = [p \in Pids |-> IF proc[p].kind = "zombie" /\ proc[p].parent = o THEN Free ELSE proc[p]]
      BY <1>9 DEF Exit, Crash, Leave, Reaped
    <3>2. Free \in Process
      BY DEF Free, Process
    <3> QED
      BY <1>0, <3>1, <3>2
  <2> QED
    BY <1>0, <1>9, <2>1 DEF TunnelTypes, Exit, Crash, Leave
<1>10. ASSUME NEW p \in Pids, UNCHANGED cast, PrintUrl(p) \/ Die(p) \/ TakePid(p) PROVE TunnelTypes'
  <2>1. UNCHANGED <<started, place, cmd, pid>>
    BY <1>10 DEF PrintUrl, Die, TakePid
  <2>2. CASE PrintUrl(p)
    BY <1>0, <1>10, <2>1, <2>2 DEF TunnelTypes, PrintUrl
  <2>3. CASE Die(p)
    <3>1. /\ proc[p].kind \in {"tunnel", "foreign"}
          /\ proc' = [proc EXCEPT ![p] = IF proc[p].kind = "tunnel" /\ place[proc[p].parent] \notin {"exited", "crashed"}
                                         THEN [proc[p] EXCEPT !.kind = "zombie"] ELSE Free]
      BY <2>3 DEF Die
    <3>2. proc[p] \in Process
      BY <1>0
    <3>3. (IF proc[p].kind = "tunnel" /\ place[proc[p].parent] \notin {"exited", "crashed"}
           THEN [proc[p] EXCEPT !.kind = "zombie"] ELSE Free) \in Process
      BY <3>2, ProcessType
    <3>4. proc' \in [Pids -> Process]
      BY <1>0, <3>1, <3>3
    <3> QED
      BY <1>0, <1>10, <2>1, <3>4 DEF TunnelTypes
  <2>4. CASE TakePid(p)
    <3>1. [kind |-> "foreign", url |-> 0, parent |-> 0] \in Process
      BY DEF Process
    <3>2. proc' \in [Pids -> Process]
      BY <1>0, <2>4, <3>1 DEF TakePid
    <3> QED
      BY <1>0, <1>10, <2>1, <3>2 DEF TunnelTypes
  <2> QED
    BY <1>10, <2>2, <2>3, <2>4
<1> QED
  BY <1>1, <1>2, <1>4, <1>5, <1>6, <1>7, <1>8, <1>9, <1>10 DEF TunnelNext, Work

(***************************************************************************)
(* One command at a time.  A tunnel nobody killed is covered: the file      *)
(* names it, its operator is about to write the file, or crashed.  An       *)
(* operator that removes or truncates the file must know that what the file *)
(* names is no such tunnel, or is the one it is writing.                    *)
(***************************************************************************)
LiveTunnel(p) == p \in Pids /\ proc[p].kind = "tunnel" /\ p \notin killed

Covered(p) == pidfile = p \/ Writing(proc[p].parent, p) \/ place[proc[p].parent] = "crashed"

AtFile(o) ==
    /\ place[o] \in {"stop_term", "stop_wait"} => pid[o] = pidfile
    /\ place[o] \in {"stop_remove", "svc_remove", "spawn"} => ~LiveTunnel(pidfile)
    /\ place[o] = "pid_truncate" /\ LiveTunnel(pidfile) => pidfile = pid[o] /\ proc[pidfile].parent = o
    /\ place[o] = "pid_write" => pidfile = Empty

OneAtATime == \A o, q \in Running : o = q

TrackInv ==
    /\ OneAtATime
    /\ \A p \in Pids : LiveTunnel(p) => Covered(p)
    /\ \A o \in Operators : AtFile(o)

(* A step of the one running operator keeps the invariant if it covers the  *)
(* tunnels and knows what it must at the place it goes to.                  *)
LEMMA RunningStep ==
    ASSUME TunnelTypes, TrackInv, NEW o \in Running, NEW l \in PCs,
           place' = [place EXCEPT ![o] = l],
           \A p \in Pids : LiveTunnel(p)' => Covered(p)', AtFile(o)'
    PROVE  TrackInv'
<1>0. place \in [Operators -> PCs] /\ o \in Operators /\ place[o] \notin Idle
  BY DEF TunnelTypes, Running
<1>1. \A q \in Operators : q # o => place'[q] = place[q] /\ place[q] \in Idle
  BY <1>0 DEF TrackInv, OneAtATime, Running
<1>2. OneAtATime'
  BY <1>0, <1>1 DEF OneAtATime, Running
<1>3. \A q \in Operators : AtFile(q)'
  BY <1>0, <1>1 DEF AtFile, Idle
<1> QED
  BY <1>2, <1>3 DEF TrackInv

(* While the file and the processes stay, what was covered is covered. *)
LEMMA StillCovered ==
    ASSUME TunnelTypes, TrackInv, NEW o \in Running, NEW l \in PCs,
           place' = [place EXCEPT ![o] = l], place[o] \notin {"pid_truncate", "pid_write"},
           proc' = proc, killed \subseteq killed', pidfile' = pidfile
    PROVE  \A p \in Pids : LiveTunnel(p)' => Covered(p)'
<1> SUFFICES ASSUME NEW p \in Pids, LiveTunnel(p)' PROVE Covered(p)'
  OBVIOUS
<1>0. place \in [Operators -> PCs] /\ o \in Operators /\ place[o] \notin Idle
  BY DEF TunnelTypes, Running
<1>1. LiveTunnel(p) /\ Covered(p)
  BY DEF LiveTunnel, TrackInv
<1>2. proc[p].parent \in Operators
  BY <1>1, ProcessType DEF LiveTunnel, TunnelTypes
<1>3. Writing(proc[p].parent, p) => proc[p].parent \in Running
  BY <1>2 DEF Writing, Running, Idle
<1>4. ~Writing(proc[p].parent, p)
  BY <1>3 DEF TrackInv, OneAtATime, Writing
<1> QED
  BY <1>0, <1>1, <1>2, <1>4 DEF Covered, Idle

LEMMA StopSteps ==
    ASSUME TunnelTypes, TrackInv, NEW o \in Operators,
           StopRead(o) \/ StopTerm(o) \/ StopGone(o) \/ StopDeadline(o)
    PROVE  TrackInv'
<1> USE DEF Goto
<1>0. place \in [Operators -> PCs] /\ DOMAIN pid = Operators /\ AtFile(o)
  BY DEF TunnelTypes, TrackInv
<1>1. o \in Running /\ place[o] \notin {"pid_truncate", "pid_write"}
  BY DEF StopRead, StopTerm, StopGone, StopDeadline, Running, Idle
<1>2. proc' = proc /\ killed \subseteq killed' /\ pidfile' = pidfile
  BY DEF StopRead, StopTerm, StopGone, StopDeadline, processes
<1>3. \E l \in PCs : place' = [place EXCEPT ![o] = l]
  BY DEF StopRead, StopTerm, StopGone, StopDeadline, AfterStop, PCs
<1>4. AtFile(o)'
  <2>1. CASE StopRead(o)
    BY <1>0, <2>1 DEF StopRead, AtFile, AfterStop, IsRunning, LiveTunnel, processes
  <2>2. CASE StopTerm(o)
    BY <1>0, <2>2 DEF StopTerm, AtFile
  <2>3. CASE StopGone(o)
    BY <1>0, <2>3 DEF StopGone, AtFile, IsRunning, LiveTunnel, processes
  <2>4. CASE StopDeadline(o)
    BY <1>0, <2>4 DEF StopDeadline, AtFile, LiveTunnel
  <2> QED
    BY <2>1, <2>2, <2>3, <2>4
<1> QED
  BY <1>1, <1>2, <1>3, <1>4, StillCovered, RunningStep

LEMMA StartSteps ==
    ASSUME TunnelTypes, TrackInv, NEW o \in Operators,
           \/ Look(o) \/ Reuse(o) \/ SpawnCheck(o) \/ Discover(o) \/ try_ngrok_api(o) \/ UrlWrite(o)
           \/ start_process(o) \/ stop_process(o)
    PROVE  TrackInv'
<1> USE DEF Goto
<1>0. place \in [Operators -> PCs] /\ DOMAIN pid = Operators /\ AtFile(o)
  BY DEF TunnelTypes, TrackInv
<1>1. o \in Running /\ place[o] \notin {"pid_truncate", "pid_write"}
  BY DEF Look, Reuse, SpawnCheck, Discover, try_ngrok_api, UrlWrite, start_process, stop_process, Running, Idle
<1>2. proc' = proc /\ killed \subseteq killed' /\ pidfile' = pidfile
  BY DEF Look, Reuse, SpawnCheck, Discover, try_ngrok_api, UrlWrite, start_process, stop_process, processes,
         NotRunning, CannotGoOn, Signal
<1>3. CASE Look(o) \/ Reuse(o) \/ SpawnCheck(o) \/ Discover(o) \/ try_ngrok_api(o) \/ UrlWrite(o)
  <2>1. \E l \in PCs : place' = [place EXCEPT ![o] = l]
    BY <1>3 DEF Look, Reuse, SpawnCheck, Discover, try_ngrok_api, UrlWrite, PCs
  <2>2. AtFile(o)'
    BY <1>0, <1>3 DEF Look, Reuse, SpawnCheck, Discover, try_ngrok_api, UrlWrite, AtFile, IsRunning, LiveTunnel, processes
  <2> QED
    BY <1>1, <1>2, <2>1, <2>2, StillCovered, RunningStep
<1>4. CASE start_process(o) \/ stop_process(o)
  <2>1. \E l \in {"spawn", "ok", "svc_remove", "err"} :
           /\ place' = [place EXCEPT ![o] = l]
           /\ l \in {"spawn", "svc_remove"} => ~IsRunning(pidfile) \/ pidfile \in killed'
    BY <1>4 DEF start_process, stop_process, NotRunning, CannotGoOn, Signal
  <2>2. AtFile(o)'
    BY <1>0, <1>2, <2>1 DEF AtFile, IsRunning, LiveTunnel
  <2> QED
    BY <1>1, <1>2, <2>1, <2>2, StillCovered, RunningStep DEF PCs
<1> QED
  BY <1>3, <1>4

(* Whoever removes the file knows that it names no live tunnel. *)
LEMMA FileRemoved ==
    ASSUME TunnelTypes, TrackInv, NEW o \in Operators, StopRemove(o) \/ RemovePidFile(o)
    PROVE  TrackInv'
<1> USE DEF Goto
<1>0. place \in [Operators -> PCs] /\ AtFile(o)
  BY DEF TunnelTypes, TrackInv
<1>1. /\ o \in Running /\ place[o] \in {"stop_remove", "svc_remove"}
      /\ proc' = proc /\ killed' = killed /\ pidfile' = Absent
  BY DEF StopRemove, RemovePidFile, Running, Idle, processes
<1>2. PICK l \in {"ok", "look", "spawn"} : place' = [place EXCEPT ![o] = l]
  BY DEF StopRemove, RemovePidFile, AfterStop
<1>3. AtFile(o)'
  BY <1>0, <1>1, <1>2 DEF AtFile, LiveTunnel, Absent, Pids
<1>4. ASSUME NEW p \in Pids, LiveTunnel(p)' PROVE Covered(p)'
  <2>1. LiveTunnel(p) /\ Covered(p) /\ ~LiveTunnel(pidfile)
    BY <1>0, <1>1, <1>4 DEF LiveTunnel, TrackInv, AtFile
  <2>2. proc[p].parent \in Operators
    BY <2>1, ProcessType DEF LiveTunnel, TunnelTypes
  <2>3. ~Writing(proc[p].parent, p)
    <3>1. Writing(proc[p].parent, p) => proc[p].parent \in Running
      BY <2>2 DEF Writing, Running, Idle
    <3> QED
      BY <1>1, <3>1 DEF TrackInv, OneAtATime, Writing
  <2> QED
    BY <1>0, <1>1, <1>2, <2>1, <2>2, <2>3 DEF Covered
<1> QED
  BY <1>1, <1>2, <1>3, <1>4, RunningStep DEF PCs

(* The new tunnel may take the pid a stale file still names. *)
LEMMA SpawnStep ==
    ASSUME TunnelTypes, TrackInv, NEW o \in Operators, Spawn(o)
    PROVE  TrackInv'
<1> USE DEF Goto
<1>0. place \in [Operators -> PCs] /\ AtFile(o) /\ DOMAIN pid = Operators /\ proc \in [Pids -> Process]
  BY DEF TunnelTypes, TrackInv
<1>1. o \in Running /\ place[o] = "spawn" /\ killed' = killed /\ pidfile' = pidfile
  BY DEF Spawn, Running, Idle
<1>2. CASE place' = [place EXCEPT ![o] = "err"] /\ UNCHANGED <<proc, pid>>
  <2>1. AtFile(o)'
    BY <1>0, <1>2 DEF AtFile
  <2> QED
    BY <1>1, <1>2, <2>1, StillCovered, RunningStep DEF PCs
<1>3. CASE /\ place' = [place EXCEPT ![o] = "pid_truncate"]
           /\ \E p \in Pids :
                /\ proc' = [proc EXCEPT ![p] = [kind |-> "tunnel", url |-> started + 1, parent |-> o]]
                /\ pid' = [pid EXCEPT ![o] = p]
  <2>1. PICK n \in Pids :
           /\ proc' = [proc EXCEPT ![n] = [kind |-> "tunnel", url |-> started + 1, parent |-> o]]
           /\ pid' = [pid EXCEPT ![o] = n]
    BY <1>3
  <2>2. \A p \in Pids : p # n => proc'[p] = proc[p]
    BY <1>0, <2>1
  <2>3. proc'[n].parent = o /\ place'[o] = "pid_truncate" /\ pid'[o] = n
    BY <1>0, <1>3, <2>1
  <2>4. AtFile(o)'
    BY <1>0, <1>1, <2>2, <2>3 DEF AtFile, LiveTunnel
  <2>5. ASSUME NEW p \in Pids, LiveTunnel(p)' PROVE Covered(p)'
    <3>1. CASE p = n
      BY <2>3, <3>1 DEF Covered, Writing
    <3>2. CASE p # n
      <4>1. LiveTunnel(p) /\ Covered(p) /\ proc'[p] = proc[p]
        BY <1>1, <2>2, <2>5, <3>2 DEF LiveTunnel, TrackInv
      <4>2. proc[p].parent \in Operators
        BY <1>0, <4>1, ProcessType DEF LiveTunnel
      <4>3. ~Writing(proc[p].parent, p)
        <5>1. Writing(proc[p].parent, p) => proc[p].parent \in Running
          BY <4>2 DEF Writing, Running, Idle
        <5> QED
          BY <1>1, <5>1 DEF TrackInv, OneAtATime, Writing
      <4> QED
        BY <1>0, <1>1, <1>3, <4>1, <4>2, <4>3 DEF Covered
    <3> QED
      BY <3>1, <3>2
  <2> QED
    BY <1>1, <1>3, <2>4, <2>5, RunningStep DEF PCs
<1> QED
  BY <1>2, <1>3 DEF Spawn

(* Writing the file: first nothing is named, then the tunnel just started. *)
LEMMA WriteSteps ==
    ASSUME TunnelTypes, TrackInv, NEW o \in Operators, PidTruncate(o) \/ PidWrite(o)
    PROVE  TrackInv'
<1> USE DEF Goto
<1>0. place \in [Operators -> PCs] /\ AtFile(o)
  BY DEF TunnelTypes, TrackInv
<1>1. /\ o \in Running /\ place[o] \in {"pid_truncate", "pid_write"}
      /\ proc' = proc /\ killed' = killed /\ pid' = pid
  BY DEF PidTruncate, PidWrite, Running, Idle, processes
<1>2. ASSUME NEW p \in Pids, LiveTunnel(p)'
      PROVE  /\ proc[p].parent \in Operators
             /\ (pid[o] = p /\ proc[p].parent = o) \/ pidfile = p \/ place[proc[p].parent] = "crashed"
             /\ LiveTunnel(p)
  <2>1. LiveTunnel(p) /\ Covered(p)
    BY <1>1, <1>2 DEF LiveTunnel, TrackInv
  <2>2. proc[p].parent \in Operators
    BY <2>1, ProcessType DEF LiveTunnel, TunnelTypes
  <2>3. Writing(proc[p].parent, p) => proc[p].parent = o /\ pid[o] = p
    <3>1. Writing(proc[p].parent, p) => proc[p].parent \in Running
      BY <2>2 DEF Writing, Running, Idle
    <3> QED
      BY <1>1, <3>1 DEF TrackInv, OneAtATime, Writing
  <2> QED
    BY <2>1, <2>2, <2>3 DEF Covered
<1>3. CASE PidTruncate(o)
  <2>1. place[o] = "pid_truncate" /\ place' = [place EXCEPT ![o] = "pid_write"] /\ pidfile' = Empty
    BY <1>3 DEF PidTruncate
  <2>2. AtFile(o)'
    BY <1>0, <2>1 DEF AtFile
  <2>3. ASSUME NEW p \in Pids, LiveTunnel(p)' PROVE Covered(p)'
    <3>1. CASE place[proc[p].parent] = "crashed"
      BY <1>0, <1>1, <1>2, <2>1, <2>3, <3>1 DEF Covered
    <3>2. CASE pid[o] = p /\ proc[p].parent = o
      BY <1>0, <1>1, <2>1, <3>2 DEF Covered, Writing
    <3>3. CASE pidfile = p /\ place[proc[p].parent] # "crashed"
      <4>1. pid[o] = p /\ proc[p].parent = o
        BY <1>0, <1>2, <2>1, <2>3, <3>3 DEF AtFile
      <4> QED
        BY <3>2, <4>1
    <3> QED
      BY <1>2, <2>3, <3>1, <3>2, <3>3
  <2> QED
    BY <1>1, <2>1, <2>2, <2>3, RunningStep DEF PCs
<1>4. CASE PidWrite(o)
  <2>1. PICK l \in {"ok", "discover"} : place' = [place EXCEPT ![o] = l]
    BY <1>4 DEF PidWrite
  <2>2. place[o] = "pid_write" /\ pidfile' = pid[o] /\ pidfile = Empty
    BY <1>0, <1>4 DEF PidWrite, AtFile
  <2>3. AtFile(o)'
    BY <1>0, <2>1 DEF AtFile
  <2>4. ASSUME NEW p \in Pids, LiveTunnel(p)' PROVE Covered(p)'
    <3>1. pidfile # p
      BY <2>2 DEF Empty, Pids
    <3> QED
      BY <1>0, <1>1, <1>2, <2>1, <2>2, <2>4, <3>1 DEF Covered
  <2> QED
    BY <1>1, <2>1, <2>3, <2>4, RunningStep DEF PCs
<1> QED
  BY <1>3, <1>4

(* What the processes do by themselves, or by being reaped, makes no tunnel *)
(* live and moves none.                                                     *)
LEMMA NoNewTunnel ==
    ASSUME TunnelTypes, place \in [Operators -> PCs], pidfile' = pidfile, TrackInv,
           \A q \in Operators : place'[q] = place[q] /\ pid'[q] = pid[q],
           \A p \in Pids : LiveTunnel(p)' => LiveTunnel(p) /\ proc'[p] = proc[p]
    PROVE  /\ \A p \in Pids : LiveTunnel(p)' => Covered(p)'
           /\ \A q \in Operators : AtFile(q)'
<1>1. ASSUME NEW p \in Pids, LiveTunnel(p)' PROVE Covered(p)'
  <2>1. LiveTunnel(p) /\ Covered(p) /\ proc'[p] = proc[p]
    BY <1>1 DEF TrackInv
  <2>2. proc[p].parent \in Operators
    BY <2>1, ProcessType DEF LiveTunnel, TunnelTypes
  <2> QED
    BY <2>1, <2>2 DEF Covered, Writing
<1>2. LiveTunnel(pidfile)' => LiveTunnel(pidfile) /\ proc'[pidfile] = proc[pidfile]
  BY DEF LiveTunnel
<1>3. ASSUME NEW q \in Operators PROVE AtFile(q)'
  <2>1. AtFile(q)
    BY DEF TrackInv
  <2>2. place'[q] = place[q] /\ pid'[q] = pid[q]
    OBVIOUS
  <2> QED
    BY <1>2, <2>1, <2>2 DEF AtFile, LiveTunnel
<1> QED
  BY <1>1, <1>3

LEMMA ProcessSteps ==
    ASSUME TunnelTypes, TrackInv, NEW x \in Pids, PrintUrl(x) \/ Die(x) \/ TakePid(x)
    PROVE  TrackInv'
<1>0. proc \in [Pids -> Process] /\ place \in [Operators -> PCs]
  BY DEF TunnelTypes
<1>1. UNCHANGED <<pidfile, place, pid>>
  BY DEF PrintUrl, Die, TakePid
<1>2. ASSUME NEW p \in Pids, LiveTunnel(p)' PROVE LiveTunnel(p) /\ proc'[p] = proc[p]
  <2>1. CASE PrintUrl(x)
    BY <1>2, <2>1 DEF PrintUrl, LiveTunnel
  <2>2. CASE Die(x)
    <3>1. /\ proc[x].kind \in {"tunnel", "foreign"}
          /\ proc' = [proc EXCEPT ![x] = IF proc[x].kind = "tunnel" /\ place[proc[x].parent] \notin {"exited", "crashed"}
                                         THEN [proc[x] EXCEPT !.kind = "zombie"] ELSE Free]
          /\ killed' = killed \ {x}
      BY <2>2 DEF Die
    <3>2. proc'[x].kind # "tunnel"
      BY <1>0, <3>1, ProcessType
    <3> QED
      BY <1>0, <1>2, <3>1, <3>2 DEF LiveTunnel
  <2>3. CASE TakePid(x)
    BY <1>0, <1>2, <2>3 DEF TakePid, LiveTunnel
  <2> QED
    BY <2>1, <2>2, <2>3
<1>3. OneAtATime'
  BY <1>1 DEF TrackInv, OneAtATime, Running
<1> QED
  BY <1>0, <1>1, <1>2, <1>3, NoNewTunnel DEF TrackInv

(* A command begins only when none runs. *)
LEMMA BeginStep ==
    ASSUME TunnelTypes, TrackInv, NEW o \in Operators, Begin(o), cast.limit = 1
    PROVE  TrackInv'
<1>0. place \in [Operators -> PCs]
  BY DEF TunnelTypes
<1>1. UNCHANGED <<proc, killed, pidfile, pid>> /\ place[o] = "idle"
  BY DEF Begin, processes
<1>2. PICK l \in {"svc_stop", "svc_start", "look", "stop_read"} : place' = [place EXCEPT ![o] = l]
  BY DEF Begin, Goto, ServiceStep, TunnelStep
<1>3. Running = {}
  <2> SUFFICES ASSUME NEW q \in Running PROVE FALSE
    OBVIOUS
  <2>1. Running = {q}
    BY DEF TrackInv, OneAtATime
  <2>2. Cardinality({q}) = 1
    BY FS_Singleton
  <2> QED
    BY <2>1, <2>2 DEF Begin
<1>4. \A q \in Operators : q # o => place'[q] = place[q] /\ place[q] \in Idle
  BY <1>0, <1>2, <1>3 DEF Running
<1>5. OneAtATime'
  BY <1>4 DEF OneAtATime, Running
<1>6. ASSUME NEW p \in Pids, LiveTunnel(p)' PROVE Covered(p)'
  <2>1. LiveTunnel(p) /\ Covered(p)
    BY <1>1, <1>6 DEF LiveTunnel, TrackInv
  <2>2. proc[p].parent \in Operators
    BY <2>1, ProcessType DEF LiveTunnel, TunnelTypes
  <2> QED
    BY <1>1, <1>4, <2>1, <2>2 DEF Covered, Writing, Idle
<1>7. \A q \in Operators : AtFile(q)'
  BY <1>0, <1>2, <1>4 DEF AtFile, Idle
<1> QED
  BY <1>5, <1>6, <1>7 DEF TrackInv

(* An operator that leaves while it writes has crashed. *)
LEMMA LeaveStep ==
    ASSUME TunnelTypes, TrackInv, NEW o \in Operators, Exit(o) \/ Crash(o)
    PROVE  TrackInv'
<1>0. place \in [Operators -> PCs] /\ proc \in [Pids -> Process] /\ DOMAIN pid = Operators
  BY DEF TunnelTypes
<1>1. PICK l \in {"exited", "crashed"} :
         /\ place' = [place EXCEPT ![o] = l] /\ pidfile' = pidfile
         /\ pid' = [pid EXCEPT ![o] = 0]
         /\ l = "exited" => place[o] \in {"ok", "err"}
         /\ place[o] # "crashed"
  BY DEF Exit, Crash, Goto, Leave, Running, Idle
<1>2. /\ proc' = [p \in Pids |-> IF proc[p].kind = "zombie" /\ proc[p].parent = o THEN Free ELSE proc[p]]
      /\ killed' = {p \in killed : proc'[p] # Free}
  BY DEF Exit, Crash, Leave, Reaped
<1>3. \A q \in Operators : q # o => place'[q] = place[q] /\ pid'[q] = pid[q]
  BY <1>0, <1>1
<1>4. ASSUME NEW p \in Pids, LiveTunnel(p)' PROVE LiveTunnel(p) /\ proc'[p] = proc[p]
  <2>1. proc'[p].kind = "tunnel"
    BY <1>4 DEF LiveTunnel
  <2>2. proc'[p] = proc[p] /\ proc'[p] # Free
    BY <1>2, <2>1, ProcessType DEF Free
  <2> QED
    BY <1>2, <1>4, <2>2 DEF LiveTunnel
<1>5. OneAtATime'
  BY <1>0, <1>1, <1>3 DEF TrackInv, OneAtATime, Running, Idle
<1>6. ASSUME NEW p \in Pids, LiveTunnel(p)' PROVE Covered(p)'
  <2>1. LiveTunnel(p) /\ Covered(p) /\ proc'[p] = proc[p]
    BY <1>4, <1>6 DEF TrackInv
  <2>2. proc[p].parent \in Operators
    BY <2>1, <1>0, ProcessType DEF LiveTunnel
  <2>3. CASE proc[p].parent # o
    BY <1>1, <1>3, <2>1, <2>2, <2>3 DEF Covered, Writing
  <2>4. CASE proc[p].parent = o
    BY <1>0, <1>1, <2>1, <2>4 DEF Covered, Writing
  <2> QED
    BY <2>3, <2>4
<1>7. ASSUME NEW q \in Operators PROVE AtFile(q)'
  <2>1. CASE q = o
    BY <1>0, <1>1, <2>1 DEF AtFile
  <2>2. CASE q # o
    <3>1. AtFile(q) /\ place'[q] = place[q] /\ pid'[q] = pid[q]
      BY <1>3, <2>2 DEF TrackInv
    <3>2. LiveTunnel(pidfile)' => LiveTunnel(pidfile) /\ proc'[pidfile] = proc[pidfile]
      BY <1>1, <1>4 DEF LiveTunnel
    <3> QED
      BY <1>1, <3>1, <3>2 DEF AtFile, LiveTunnel
  <2> QED
    BY <2>1, <2>2
<1> QED
  BY <1>5, <1>6, <1>7 DEF TrackInv

LEMMA TrackStep ==
    ASSUME TunnelTypes, cast.limit = 1 => TrackInv, [TunnelNext]_tunnelVars
    PROVE  (cast.limit = 1 => TrackInv)'
<1>1. CASE UNCHANGED tunnelVars
  BY <1>1 DEF tunnelVars, TrackInv, OneAtATime, Running, LiveTunnel, Covered, Writing, AtFile
<1>2. CASE TunnelNext
  <2> SUFFICES ASSUME cast.limit = 1 PROVE TrackInv'
    BY <1>2 DEF TunnelNext
  <2> QED
    BY <1>2, StopSteps, StartSteps, FileRemoved, SpawnStep, WriteSteps, ProcessSteps, BeginStep, LeaveStep
    DEF TunnelNext, Work
<1> QED
  BY <1>1, <1>2

LEMMA TunnelStart == TunnelInit => TunnelTypes /\ TrackInv
<1> SUFFICES ASSUME TunnelInit PROVE TunnelTypes /\ TrackInv
  OBVIOUS
<1>1. TunnelTypes
  <2>1. Free \in Process /\ MaxTunnels \in Nat
    BY TunnelAssumption DEF Free, Process
  <2> QED
    BY <2>1 DEF TunnelInit, TunnelTypes, PCs
<1>2. \A p \in Pids : ~LiveTunnel(p)
  BY DEF TunnelInit, LiveTunnel, Free
<1> QED
  BY <1>1, <1>2 DEF TunnelInit, TrackInv, OneAtATime, Running, Idle, AtFile

(***************************************************************************)
(* With one command at a time no tunnel is lost: the pid file names every   *)
(* live tunnel nobody killed, whatever dies, lingers as a zombie or reuses  *)
(* its pid, unless its operator is writing the file or crashed before.      *)
(***************************************************************************)
THEOREM NoTunnelIsLost == TunnelSpec => []TunnelsAreTracked
<1>1. TunnelInit => TunnelTypes /\ (cast.limit = 1 => TrackInv)
  BY TunnelStart
<1>2. (cast.limit = 1 => TrackInv) => TunnelsAreTracked
  BY DEF TunnelsAreTracked, TrackInv, LiveTunnel, Covered
<1>3. TunnelTypes /\ (cast.limit = 1 => TrackInv) /\ [TunnelNext]_tunnelVars =>
        TunnelTypes' /\ (cast.limit = 1 => TrackInv)'
  BY TypesStep, TrackStep
<1> QED
  BY <1>1, <1>2, <1>3, PTL DEF TunnelSpec

(***************************************************************************)
(* A restart never reuses: when it looks, the file it has just cleared      *)
(* still names nothing, and from the spawn on it holds a child of its own,  *)
(* whose pid stays taken while its parent lives.                            *)
(***************************************************************************)
OwnChild(o) == pid[o] \in Pids /\ proc[pid[o]].kind \in {"tunnel", "zombie"} /\ proc[pid[o]].parent = o

Restarting(o) ==
    cmd[o] = "restart" =>
      /\ place[o] \notin {"reuse", "svc_start", "svc_stop", "svc_remove"}
      /\ place[o] \in {"look", "spawn_check", "spawn"} => pidfile \in {Absent, Empty}
      /\ place[o] \in {"pid_truncate", "pid_write", "discover", "url_write", "ok"} => OwnChild(o)

RestartInv == \A o \in Operators : Restarting(o)

LEMMA ChildStays ==
    ASSUME TunnelTypes, NEW o \in Operators, OwnChild(o), place[o] \notin {"exited", "crashed"},
           TunnelNext, pid'[o] = pid[o], ~(Exit(o) \/ Crash(o))
    PROVE  OwnChild(o)'
<1> DEFINE c == pid[o]
<1>0. proc \in [Pids -> Process] /\ c \in Pids /\ proc[c].kind \in {"tunnel", "zombie"} /\ proc[c].parent = o
  BY DEF TunnelTypes, OwnChild
<1> SUFFICES proc'[c].kind \in {"tunnel", "zombie"} /\ proc'[c].parent = o
  BY <1>0 DEF OwnChild
<1> HIDE DEF c
<1>1. CASE proc' = proc
  BY <1>0, <1>1
<1>2. ASSUME NEW q \in Operators, Begin(q) \/ Work(q), proc' # proc
      PROVE  proc'[c].kind \in {"tunnel", "zombie"} /\ proc'[c].parent = o
  <2>1. Spawn(q)
    BY <1>2 DEF Begin, Work, StopRead, StopTerm, StopGone, StopDeadline, StopRemove, Look, Reuse, SpawnCheck,
                PidTruncate, PidWrite, Discover, try_ngrok_api, UrlWrite, start_process, stop_process,
                RemovePidFile, processes
  <2>2. PICK p \in Pids : /\ proc[p].kind = "free"
                          /\ proc' = [proc EXCEPT ![p] = [kind |-> "tunnel", url |-> started + 1, parent |-> q]]
    BY <1>2, <2>1 DEF Spawn
  <2> QED
    BY <1>0, <2>2
<1>3. ASSUME NEW q \in Operators, Exit(q) \/ Crash(q)
      PROVE  proc'[c].kind \in {"tunnel", "zombie"} /\ proc'[c].parent = o
  <2>1. q # o /\ proc' = [p \in Pids |-> IF proc[p].kind = "zombie" /\ proc[p].parent = q THEN Free ELSE proc[p]]
    BY <1>3 DEF Exit, Crash, Leave, Reaped
  <2> QED
    BY <1>0, <2>1
<1>4. ASSUME NEW p \in Pids, PrintUrl(p) \/ Die(p) \/ TakePid(p)
      PROVE  proc'[c].kind \in {"tunnel", "zombie"} /\ proc'[c].parent = o
  <2>1. CASE PrintUrl(p)
    BY <1>0, <2>1 DEF PrintUrl
  <2>2. CASE Die(p)
    <3>1. proc' = [proc EXCEPT ![p] = IF proc[p].kind = "tunnel" /\ place[proc[p].parent] \notin {"exited", "crashed"}
                                      THEN [proc[p] EXCEPT !.kind = "zombie"] ELSE Free]
          /\ proc[p].kind \in {"tunnel", "foreign"}
      BY <2>2 DEF Die
    <3>2. CASE p = c
      BY <1>0, <3>1, <3>2, ProcessType
    <3>3. CASE p # c
      BY <1>0, <3>1, <3>3
    <3> QED
      BY <3>2, <3>3
  <2>3. CASE TakePid(p)
    <3>1. proc[p].kind = "free"
      BY <2>3 DEF TakePid, Free
    <3> QED
      BY <1>0, <2>3, <3>1 DEF TakePid
  <2> QED
    BY <1>4, <2>1, <2>2, <2>3
<1> QED
  BY <1>1, <1>2, <1>3, <1>4 DEF TunnelNext

(* The others' steps: an operator that runs is the only one that runs, and  *)
(* one that does not only has its child to keep.                            *)
LEMMA OthersSteps ==
    ASSUME TunnelTypes, TrackInv, cast.limit = 1, TunnelNext, NEW o \in Operators, Restarting(o),
           place'[o] = place[o], cmd'[o] = cmd[o], pid'[o] = pid[o],
           pidfile' = pidfile \/ \E q \in Running : q # o
    PROVE  Restarting(o)'
<1>1. place'[o] \in {"pid_truncate", "pid_write", "discover", "url_write", "ok"} /\ OwnChild(o) => OwnChild(o)'
  <2>1. ~(place'[o] \in {"exited", "crashed"}) => ~(Exit(o) \/ Crash(o))
    BY DEF Exit, Crash, Goto, TunnelTypes
  <2> QED
    BY <2>1, ChildStays
<1>2. place[o] \in {"look", "spawn_check", "spawn"} => pidfile' = pidfile
  <2> SUFFICES ASSUME place[o] \in {"look", "spawn_check", "spawn"}, NEW q \in Running, q # o PROVE FALSE
    OBVIOUS
  <2> QED
    BY DEF TrackInv, OneAtATime, Running, Idle
<1> QED
  BY <1>1, <1>2 DEF Restarting

LEMMA OwnSteps ==
    ASSUME TunnelTypes, TrackInv, cast.limit = 1, NEW o \in Operators, Restarting(o), UNCHANGED cast, TunnelNext,
           Begin(o) \/ Work(o) \/ Exit(o) \/ Crash(o)
    PROVE  Restarting(o)'
<1> USE DEF Goto
<1>0. /\ place \in [Operators -> PCs] /\ DOMAIN pid = Operators /\ DOMAIN cmd = Operators
      /\ proc \in [Pids -> Process] /\ cast \in Casts
  BY DEF TunnelTypes
<1>1. CASE Begin(o)
  <2>1. PICK c \in cast.commands[o] :
           /\ cmd' = [cmd EXCEPT ![o] = c]
           /\ place' = [place EXCEPT ![o] = IF cast.service = "process" THEN ServiceStep(c) ELSE TunnelStep(c)]
    BY <1>1 DEF Begin
  <2>2. c = "restart" => place'[o] = "stop_read"
    BY <1>0, <2>1, TunnelAssumption DEF TunnelStep
  <2> QED
    BY <1>0, <2>1, <2>2 DEF Restarting
<1>2. CASE Exit(o) \/ Crash(o)
  BY <1>0, <1>2 DEF Exit, Crash, Leave, Restarting
<1>3. ASSUME cmd' = cmd, place'[o] \in {"stop_term", "stop_wait", "stop_remove", "err"}
      PROVE  Restarting(o)'
  BY <1>3 DEF Restarting
<1>4. CASE StopRead(o) \/ StopTerm(o) \/ StopGone(o) \/ StopDeadline(o) \/ StopRemove(o)
  <2>1. cmd' = cmd /\ (cmd[o] = "restart" =>
          \/ place'[o] \in {"stop_term", "stop_wait", "stop_remove"}
          \/ place'[o] = "look" /\ pidfile' \in {Absent, Empty})
    BY <1>0, <1>4 DEF StopRead, StopTerm, StopGone, StopDeadline, StopRemove, AfterStop
  <2> QED
    BY <2>1 DEF Restarting
<1>5. CASE Look(o) \/ Reuse(o) \/ SpawnCheck(o)
  <2>1. Absent \notin Pids /\ Empty \notin Pids
    BY DEF Absent, Empty, Pids
  <2>2. cmd' = cmd /\ pidfile' = pidfile /\ (cmd[o] = "restart" =>
          /\ pidfile \in {Absent, Empty} /\ place'[o] \in {"spawn_check", "spawn"})
    BY <1>0, <1>5, <2>1 DEF Look, Reuse, SpawnCheck, Restarting, IsRunning
  <2> QED
    BY <2>2 DEF Restarting
<1>6. CASE Spawn(o)
  <2>1. CASE place' = [place EXCEPT ![o] = "err"]
    BY <1>0, <1>3, <1>6, <2>1 DEF Spawn
  <2>2. CASE /\ place' = [place EXCEPT ![o] = "pid_truncate"]
             /\ \E p \in Pids :
                  /\ proc' = [proc EXCEPT ![p] = [kind |-> "tunnel", url |-> started + 1, parent |-> o]]
                  /\ pid' = [pid EXCEPT ![o] = p]
    <3>1. PICK p \in Pids : /\ proc' = [proc EXCEPT ![p] = [kind |-> "tunnel", url |-> started + 1, parent |-> o]]
                            /\ pid' = [pid EXCEPT ![o] = p]
      BY <2>2
    <3>2. OwnChild(o)'
      BY <1>0, <3>1 DEF OwnChild
    <3> QED
      BY <1>0, <2>2, <3>2 DEF Restarting
  <2> QED
    BY <1>6, <2>1, <2>2 DEF Spawn
<1>7. CASE PidTruncate(o) \/ PidWrite(o) \/ Discover(o) \/ try_ngrok_api(o) \/ UrlWrite(o)
  <2>1. /\ cmd' = cmd /\ pid' = pid
        /\ place[o] \in {"pid_truncate", "pid_write", "discover", "url_write"}
        /\ place'[o] \in {"pid_write", "discover", "url_write", "ok", "err"}
    BY <1>0, <1>7 DEF PidTruncate, PidWrite, Discover, try_ngrok_api, UrlWrite
  <2>2. ~(Exit(o) \/ Crash(o))
    BY <1>0, <2>1 DEF Exit, Crash
  <2>3. OwnChild(o) => OwnChild(o)'
    BY <2>1, <2>2, ChildStays
  <2> QED
    BY <2>1, <2>3 DEF Restarting
<1>8. CASE start_process(o) \/ stop_process(o) \/ RemovePidFile(o)
  <2>1. cmd' = cmd /\ cmd[o] # "restart"
    BY <1>8 DEF start_process, stop_process, RemovePidFile, Restarting
  <2> QED
    BY <2>1 DEF Restarting
<1> QED
  BY <1>1, <1>2, <1>4, <1>5, <1>6, <1>7, <1>8 DEF Work

LEMMA RestartStep ==
    ASSUME TunnelTypes, cast.limit = 1 => TrackInv /\ RestartInv, [TunnelNext]_tunnelVars
    PROVE  (cast.limit = 1 => RestartInv)'
<1>1. CASE UNCHANGED tunnelVars
  BY <1>1 DEF tunnelVars, RestartInv, Restarting, OwnChild
<1>2. CASE TunnelNext
  <2> SUFFICES ASSUME cast.limit = 1, NEW o \in Operators PROVE Restarting(o)'
    BY <1>2 DEF TunnelNext, RestartInv
  <2>0. /\ TrackInv /\ Restarting(o) /\ UNCHANGED cast
        /\ place \in [Operators -> PCs] /\ DOMAIN pid = Operators /\ DOMAIN cmd = Operators
    BY <1>2 DEF RestartInv, TunnelNext, TunnelTypes
  <2>1. CASE \E p \in Pids : PrintUrl(p) \/ Die(p) \/ TakePid(p)
    <3>1. UNCHANGED <<place, cmd, pid, pidfile>>
      BY <2>1 DEF PrintUrl, Die, TakePid
    <3> QED
      BY <1>2, <2>0, <3>1, OthersSteps
  <2>2. ASSUME NEW q \in Operators, Begin(q) \/ Work(q) \/ Exit(q) \/ Crash(q) PROVE Restarting(o)'
    <3>1. CASE q = o
      BY <1>2, <2>0, <2>2, <3>1, OwnSteps
    <3>2. CASE q # o
      <4>1. place'[o] = place[o] /\ cmd'[o] = cmd[o] /\ pid'[o] = pid[o]
        <5>1. CASE Begin(q) \/ Exit(q) \/ Crash(q)
          BY <2>0, <3>2, <5>1 DEF Begin, Exit, Crash, Leave, Goto
        <5>2. CASE Spawn(q)
          BY <2>0, <3>2, <5>2 DEF Spawn, Goto
        <5>3. CASE StopRead(q) \/ StopTerm(q) \/ StopGone(q) \/ StopDeadline(q) \/ StopRemove(q)
          BY <2>0, <3>2, <5>3 DEF StopRead, StopTerm, StopGone, StopDeadline, StopRemove, Goto
        <5>4. CASE Look(q) \/ Reuse(q) \/ SpawnCheck(q) \/ PidTruncate(q) \/ PidWrite(q)
          BY <2>0, <3>2, <5>4 DEF Look, Reuse, SpawnCheck, PidTruncate, PidWrite, Goto
        <5>5. CASE Discover(q) \/ try_ngrok_api(q) \/ UrlWrite(q) \/ RemovePidFile(q)
          BY <2>0, <3>2, <5>5 DEF Discover, try_ngrok_api, UrlWrite, RemovePidFile, Goto
        <5>6. CASE start_process(q) \/ stop_process(q)
          BY <2>0, <3>2, <5>6 DEF start_process, stop_process, NotRunning, CannotGoOn, Signal, Goto
        <5> QED
          BY <2>2, <5>1, <5>2, <5>3, <5>4, <5>5, <5>6 DEF Work
      <4>2. pidfile' = pidfile \/ q \in Running
        BY <2>2 DEF Begin, Exit, Crash, Leave, Work, StopRead, StopTerm, StopGone, StopDeadline, StopRemove, Look,
                    Reuse, SpawnCheck, Spawn, PidTruncate, PidWrite, Discover, try_ngrok_api, UrlWrite,
                    start_process, stop_process, RemovePidFile, Running, Idle
      <4> QED
        BY <1>2, <2>0, <3>2, <4>1, <4>2, OthersSteps
    <3> QED
      BY <3>1, <3>2
  <2> QED
    BY <1>2, <2>1, <2>2 DEF TunnelNext
<1> QED
  BY <1>1, <1>2

(***************************************************************************)
(* With one command at a time a restart that succeeds hands out a tunnel    *)
(* of its own, also when the old one lingers as a zombie or the pid the     *)
(* stale file named was reused.                                             *)
(***************************************************************************)
THEOREM RestartsReplace == TunnelSpec => []RestartReplaces
<1> DEFINE Inv == TunnelTypes /\ (cast.limit = 1 => TrackInv) /\ (cast.limit = 1 => RestartInv)
<1>1. TunnelInit => Inv
  <2>1. TunnelInit => RestartInv
    BY DEF TunnelInit, RestartInv, Restarting
  <2> QED
    BY <2>1, TunnelStart
<1>2. Inv => RestartReplaces
  BY DEF RestartReplaces, RestartInv, Restarting, OwnChild
<1>3. Inv /\ [TunnelNext]_tunnelVars => Inv'
  BY TypesStep, TrackStep, RestartStep
<1> QED
  BY <1>1, <1>2, <1>3, PTL DEF TunnelSpec

-----------------------------------------------------------------------------
(* Sequences without their repetitions. *)

LEMMA AscendingIs ==
    ASSUME NEW S \in SUBSET Nat, IsFiniteSet(S)
    PROVE  Ascending(S) \in Seq(S) /\ Range(Ascending(S)) = S
<1> DEFINE A == [i \in S |-> {j \in S : j < i}]
           s == Ascending(S)
<1>1. A \in [S -> SUBSET S] /\ \A i \in S : i \notin A[i]
  OBVIOUS
<1>2. \A i, j \in S : i # j => (j \in A[i] /\ A[j] \subseteq A[i]) \/ (i \in A[j] /\ A[i] \subseteq A[j])
  <2>1. ASSUME NEW i \in S, NEW j \in S, i < j PROVE i \in A[j] /\ A[i] \subseteq A[j]
    <3>1. \A k \in S : k < i => k < j
      BY <2>1
    <3> QED
      BY <2>1, <3>1
  <2>2. \A i, j \in S : i # j => i < j \/ j < i
    OBVIOUS
  <2> HIDE DEF A
  <2> QED
    BY <2>1, <2>2
<1>3. s = [n \in 1..Cardinality(S) |-> s[n]]
  <2> DEFINE E(n) == CHOOSE i \in S : Cardinality({j \in S : j < i}) = n - 1
  <2>1. s = [n \in 1..Cardinality(S) |-> E(n)]
    BY Zenon DEF Ascending
  <2> HIDE DEF E, s
  <2> QED
    BY <2>1
<1>4. ASSUME NEW n \in 1..Cardinality(S), \E x \in S : Cardinality(A[x]) = n - 1
      PROVE  s[n] \in S /\ Cardinality(A[s[n]]) = n - 1
  <2>1. s[n] = CHOOSE i \in S : Cardinality({j \in S : j < i}) = n - 1
    BY DEF Ascending
  <2>2. \E i \in S : Cardinality({j \in S : j < i}) = n - 1
    BY <1>4
  <2>3. s[n] \in S /\ Cardinality({j \in S : j < s[n]}) = n - 1
    <3> HIDE DEF s
    <3> QED
      BY <2>1, <2>2
  <2>4. A[s[n]] = {j \in S : j < s[n]}
    <3> HIDE DEF s
    <3> QED
      BY <2>3
  <2> QED
    BY <2>3, <2>4
<1> HIDE DEF s, A
<1>7. \A n \in 1..Cardinality(S) : (\E x \in S : Cardinality(A[x]) = n - 1) => s[n] \in S /\ Cardinality(A[s[n]]) = n - 1
  BY <1>4
<1>8. \A i \in S : i \notin A[i]
  BY <1>1
<1>9. A \in [S -> SUBSET S]
  BY <1>1
<1>10. s \in Seq(S)
  BY <1>2, <1>3, <1>7, <1>8, <1>9, SortedAscends, Zenon
<1>5. Len(s) \in Nat /\ DOMAIN s = 1..Len(s)
  BY <1>10
<1>11. \A x \in S : \E k \in 1..Len(s) : s[k] = x
  BY <1>2, <1>3, <1>7, <1>8, <1>9, SortedAscends, Zenon
<1>12. \A k \in 1..Len(s) : s[k] \in S
  BY <1>10
<1>6. Range(s) = S
  BY <1>5, <1>11, <1>12 DEF Range
<1> QED
  BY <1>6, <1>10 DEF s

LEMMA DistinctIs ==
    ASSUME NEW X, NEW seq \in Seq(X)
    PROVE  Distinct(seq) \in Seq(X) /\ Range(Distinct(seq)) \subseteq Range(seq)
<1> DEFINE S == {i \in DOMAIN seq : \A j \in 1..i-1 : seq[j] # seq[i]}
           firsts == Ascending(S)
<1>1. S \in SUBSET Nat /\ IsFiniteSet(S) /\ DOMAIN seq = 1..Len(seq) /\ S \subseteq DOMAIN seq
  <2>1. Len(seq) \in Nat /\ DOMAIN seq = 1..Len(seq)
    OBVIOUS
  <2>2. IsFiniteSet(1..Len(seq))
    BY <2>1, FS_Interval
  <2> QED
    BY <2>1, <2>2, FS_Subset
<1> HIDE DEF S
<1>2. firsts \in Seq(S)
  BY <1>1, AscendingIs
<1>3. Distinct(seq) = [n \in DOMAIN firsts |-> seq[firsts[n]]]
  BY DEF Distinct, S
<1> HIDE DEF firsts
<1>4. Len(firsts) \in Nat /\ DOMAIN firsts = 1..Len(firsts) /\ \A n \in 1..Len(firsts) : firsts[n] \in DOMAIN seq
  <2>1. Len(firsts) \in Nat /\ DOMAIN firsts = 1..Len(firsts) /\ \A n \in 1..Len(firsts) : firsts[n] \in S
    BY <1>2
  <2> QED
    BY <1>1, <2>1
<1>5. Distinct(seq) \in Seq(X)
  BY <1>3, <1>4
<1>6. Range(Distinct(seq)) \subseteq Range(seq)
  BY <1>3, <1>4 DEF Range
<1> QED
  BY <1>5, <1>6

-----------------------------------------------------------------------------
(* The plan *)

PathRec == [names : Seq(Nat), plain : BOOLEAN]
MetaRec == [id : PackIds, ref : Refs]
TenantRec == [scope : Places, allow : Seq(PathRec)]
ChangeRec == [pack : PackIds, scope : Places, policy : {Public, Forbidden}]
DefaultRec == [pack : PackIds, scope : Where]
RemovalRec == [pack : PackIds, scope : Where \union {BundleScope}]
SeedRec == [id : PackIds, https : BOOLEAN]

LEMMA Numbers ==
    /\ \A r \in Refs : r \in Nat /\ IsRef(r) /\ r \notin PackIds /\ BaseOf[r] \in PackIds
    /\ \A i \in PackIds : i \in Nat /\ ~IsRef(i)
<1>1. ASSUME NEW r \in Refs PROVE BaseOf[r] \in PackIds
  BY WizardAssumption DEF Refs, Range
<1> QED
  BY <1>1, WizardAssumption DEF IsRef

(* What looks like an id is a reference, and taken for an id. *)
LEMMA BareNames == \A x \in DOMAIN BareName : x \in Refs /\ IsRef(x) /\ BareName[x] \in PackIds
<1>1. ASSUME NEW x \in DOMAIN BareName PROVE BareName[x] \in PackIds
  BY WizardAssumption DEF Range
<1> QED
  BY <1>1, Numbers, WizardAssumption

LEMMA IdTyped ==
    ASSUME NEW meta \in SUBSET MetaRec, NEW x \in Refs \union PackIds
    PROVE  canonical_pack_identifier(meta, x) \in PackIds
<1>0. CASE x \in DOMAIN BareName
  <2>1. IsRef(x) /\ BareName[x] \in PackIds
    BY <1>0, BareNames
  <2> QED
    BY <1>0, <2>1 DEF canonical_pack_identifier
<1>1. CASE ~IsRef(x)
  <2>1. x \in PackIds /\ x \notin DOMAIN BareName
    BY <1>1, Numbers, BareNames
  <2> QED
    BY <1>1, <2>1 DEF canonical_pack_identifier
<1>2. CASE IsRef(x) /\ x \notin DOMAIN BareName /\ RefIn(meta, x) # {}
  <2>1. IdOf(meta, x) \in PackIds
    BY <1>2 DEF IdOf, RefIn, MetaRec
  <2> QED
    BY <1>2, <2>1 DEF canonical_pack_identifier
<1>3. CASE IsRef(x) /\ x \notin DOMAIN BareName /\ RefIn(meta, x) = {}
  <2>1. x \in Refs
    BY <1>3, Numbers
  <2> QED
    BY <1>3, <2>1, Numbers DEF canonical_pack_identifier, derive_pack_id_from_reference
<1> QED
  BY <1>0, <1>1, <1>2, <1>3

AnswerSeqs(a) ==
    /\ a.packs \in Seq([ref : Refs, scope : Where, default : BOOLEAN]) /\ a.refs \in Seq(Refs)
    /\ a.providers \in Seq(PackIds) /\ a.catalog \in Seq(PackIds) /\ a.targets \in Seq(Places)
    /\ a.allow \in Seq(PathRec) /\ a.access \in Seq(Access)
    /\ a.packsRemove \in Seq([pack : Refs \union PackIds, scope : Where \union {BundleScope}])
    /\ a.providersRemove \in Seq(PackIds) /\ a.tenantsRemove \in Seq(Places) /\ a.seeds \in Seq(SeedRec)
    /\ a.mode \in {"create", "update", "remove"} /\ a.ops \in SUBSET Ops

LEMMA AnswerTyped == ASSUME NEW a \in WizardAnswer PROVE AnswerSeqs(a)
BY DEF AnswerSeqs, WizardAnswer, SeedRec, PathRec

LEMMA TargetsTyped ==
    ASSUME NEW a, AnswerSeqs(a)
    PROVE  TargetsOf(a) \in Seq(Places) /\ TenantsOf(a) \in Seq(TenantRec)
<1>1. Demo \in Places
  BY WizardAssumption DEF Scaffold, Demo
<1>2. TargetsOf(a) \in Seq(Places)
  <2>1. <<Demo>> \in Seq(Places)
    BY <1>1, OneHeld
  <2> QED
    BY <2>1 DEF TargetsOf, AnswerSeqs
<1> DEFINE q == TargetsOf(a)
<1> HIDE DEF q
<1>3. TenantsOf(a) = [i \in DOMAIN q |-> [scope |-> q[i], allow |-> a.allow]]
  BY DEF TenantsOf, q
<1>4. q \in Seq(Places)
  BY <1>2 DEF q
<1>5. \A i \in DOMAIN q : [scope |-> q[i], allow |-> a.allow] \in TenantRec
  BY <1>4 DEF TenantRec, AnswerSeqs
<1>6. TenantsOf(a) \in Seq(TenantRec)
  BY <1>3, <1>4, <1>5
<1> QED
  BY <1>2, <1>6

LEMMA RefsTyped ==
    ASSUME NEW a, AnswerSeqs(a)
    PROVE  RefsOf(a) \in Seq(Refs)
<1> DEFINE known(id) == IF id \in DOMAIN CatalogRef THEN <<CatalogRef[id]>> ELSE <<>>
           p == a.packs
           q == a.providers \o a.catalog
           ps == [i \in DOMAIN p |-> <<p[i].ref>>]
           qs == [i \in DOMAIN q |-> known(q[i])]
<1>1. p \in Seq([ref : Refs, scope : Where, default : BOOLEAN]) /\ q \in Seq(PackIds)
  BY JoinedSeqs DEF AnswerSeqs
<1>2. RefsOf(a) = FlattenSeq(ps) \o a.refs \o FlattenSeq(qs)
  BY DEF RefsOf, Collect
<1> HIDE DEF p, q
<1>3. Len(p) \in Nat /\ DOMAIN p = 1..Len(p) /\ Len(q) \in Nat /\ DOMAIN q = 1..Len(q)
  BY <1>1
<1>4. ps \in [1..Len(p) -> Seq(Refs)]
  <2>1. ASSUME NEW i \in 1..Len(p) PROVE <<p[i].ref>> \in Seq(Refs)
    <3>1. p[i] \in [ref : Refs, scope : Where, default : BOOLEAN]
      BY <1>1, SeqAt
    <3>2. p[i].ref \in Refs
      BY <3>1
    <3> QED
      BY <3>2, OneHeld
  <2> QED
    BY <1>3, <2>1
<1>5. qs \in [1..Len(q) -> Seq(Refs)]
  <2>1. ASSUME NEW i \in 1..Len(q) PROVE known(q[i]) \in Seq(Refs)
    <3>1. q[i] \in DOMAIN CatalogRef => CatalogRef[q[i]] \in Refs
      BY WizardAssumption DEF Range
    <3> QED
      BY <3>1, OneHeld, NothingHeld
  <2> HIDE DEF known
  <2> QED
    BY <1>3, <2>1
<1> HIDE DEF ps, qs
<1>6. FlattenSeq(ps) \in Seq(Refs) /\ FlattenSeq(qs) \in Seq(Refs) /\ a.refs \in Seq(Refs)
  BY <1>3, <1>4, <1>5, FlattenSeqType DEF AnswerSeqs
<1> QED
  BY <1>2, <1>6

Named(seq, meta) == [i \in DOMAIN seq |-> [seq[i] EXCEPT !.pack = canonical_pack_identifier(meta, @)]]

OpsFor(a, meta) ==
    LET req == normalize_request_for_plan(RequestOf(a), meta)
    IN CASE a.mode = "create" -> a.ops [] a.mode = "update" -> InferredOps(req) [] OTHER -> InferredTargets(req)

PlanFields(p, a, meta) ==
    /\ p = [mode |-> a.mode, refs |-> p.refs, tenants |-> TenantsOf(a), providers |-> a.providers, ops |-> p.ops,
            defaults |-> Named(normalize_default_assignments_from_pack_refs(a), meta), access |-> Named(build_access_changes(a), meta),
            packsRemove |-> Named(a.packsRemove, meta), providersRemove |-> a.providersRemove,
            tenantsRemove |-> a.tenantsRemove, seeds |-> a.seeds]
    /\ p.refs = IF a.mode = "remove" THEN <<>> ELSE SortedRefs(RefsOf(a))
    /\ p.ops = OpsFor(a, meta)

LEMMA PlanIs ==
    ASSUME NEW a, AnswerSeqs(a), NEW meta
    PROVE  PlanFields(build_plan(a, meta), a, meta)
<1> DEFINE req == RequestOf(a)
           norm == normalize_request_for_plan(req, meta)
           p == build_plan(a, meta)
<1>1. req = [mode |-> a.mode, refs |-> RefsOf(a), tenants |-> TenantsOf(a), providers |-> a.providers, ops |-> a.ops,
             defaults |-> normalize_default_assignments_from_pack_refs(a), access |-> build_access_changes(a),
             packsRemove |-> a.packsRemove, providersRemove |-> a.providersRemove, tenantsRemove |-> a.tenantsRemove,
             seeds |-> a.seeds]
  BY DEF RequestOf
<1> HIDE DEF req
<1>2. norm = [req EXCEPT !.defaults = Named(req.defaults, meta), !.packsRemove = Named(req.packsRemove, meta),
                         !.access = Named(req.access, meta)]
  BY Zenon DEF normalize_request_for_plan, Named
<1> DEFINE d == Named(normalize_default_assignments_from_pack_refs(a), meta)
           c == Named(build_access_changes(a), meta)
           r == Named(a.packsRemove, meta)
<1> HIDE DEF norm
<1>3. d = Named(req.defaults, meta) /\ c = Named(req.access, meta) /\ r = Named(req.packsRemove, meta)
  BY <1>1
<1> HIDE DEF d, c, r
<1>4. norm = [mode |-> a.mode, refs |-> RefsOf(a), tenants |-> TenantsOf(a), providers |-> a.providers, ops |-> a.ops,
              defaults |-> d, access |-> c, packsRemove |-> r, providersRemove |-> a.providersRemove,
              tenantsRemove |-> a.tenantsRemove, seeds |-> a.seeds]
  BY <1>1, <1>2, <1>3
<1>5. /\ a.mode = "create" => p = apply_create(norm) /\ OpsFor(a, meta) = a.ops
      /\ a.mode = "update" => p = apply_update(norm) /\ OpsFor(a, meta) = InferredOps(norm)
      /\ a.mode = "remove" => p = apply_remove(norm) /\ OpsFor(a, meta) = InferredTargets(norm)
  BY DEF build_plan, OpsFor, norm, req
<1> HIDE DEF p
<1> DEFINE q(refs, ops) == [mode |-> a.mode, refs |-> refs, tenants |-> TenantsOf(a), providers |-> a.providers, ops |-> ops,
                            defaults |-> d, access |-> c, packsRemove |-> r, providersRemove |-> a.providersRemove,
                            tenantsRemove |-> a.tenantsRemove, seeds |-> a.seeds]
<1>6. \A refs, ops : p = q(refs, ops) /\ refs = (IF a.mode = "remove" THEN <<>> ELSE SortedRefs(RefsOf(a))) /\ ops = OpsFor(a, meta)
                       => PlanFields(p, a, meta)
  BY DEF PlanFields, d, c, r
<1>7. CASE a.mode = "create"
  <2>1. p = q(SortedRefs(RefsOf(a)), a.ops)
    BY <1>4, <1>5, <1>7 DEF apply_create
  <2> HIDE DEF q
  <2> QED
    BY <1>5, <1>6, <1>7, <2>1 DEF p
<1>8. CASE a.mode = "update"
  <2>1. p = q(SortedRefs(RefsOf(a)), InferredOps(norm))
    BY <1>4, <1>5, <1>8 DEF apply_update
  <2> HIDE DEF q
  <2> QED
    BY <1>5, <1>6, <1>8, <2>1 DEF p
<1>9. CASE a.mode = "remove"
  <2>1. p = q(<<>>, InferredTargets(norm))
    BY <1>4, <1>5, <1>9 DEF apply_remove
  <2> HIDE DEF q
  <2> QED
    BY <1>5, <1>6, <1>9, <2>1 DEF p
<1> QED
  BY <1>7, <1>8, <1>9 DEF AnswerSeqs, p

LEMMA NamedIs ==
    ASSUME NEW X, NEW seq \in Seq(X), NEW meta \in SUBSET MetaRec, NEW Y,
           \A x \in X : x.pack \in Refs \union PackIds,
           \A x \in X : \A i \in PackIds : [x EXCEPT !.pack = i] \in Y
    PROVE  Named(seq, meta) \in Seq(Y) /\ DOMAIN Named(seq, meta) = DOMAIN seq
<1>1. Len(seq) \in Nat /\ DOMAIN seq = 1..Len(seq) /\ \A i \in 1..Len(seq) : seq[i] \in X
  BY SeqAt
<1>2. ASSUME NEW i \in 1..Len(seq) PROVE [seq[i] EXCEPT !.pack = canonical_pack_identifier(meta, @)] \in Y
  <2>1. canonical_pack_identifier(meta, seq[i].pack) \in PackIds
    BY <1>1, IdTyped
  <2>2. [seq[i] EXCEPT !.pack = canonical_pack_identifier(meta, seq[i].pack)] \in Y
    BY <1>1, <2>1
  <2> QED
    BY <2>2
<1>3. Named(seq, meta) \in [1..Len(seq) -> Y]
  BY <1>1, <1>2 DEF Named
<1> QED
  BY <1>1, <1>3

PackRec == [ref : Refs, scope : Where, default : BOOLEAN]
WishRec == [pack : Refs \union PackIds, scope : Where]

LEMMA DefaultsTyped ==
    ASSUME NEW a, AnswerSeqs(a)
    PROVE  normalize_default_assignments_from_pack_refs(a) \in Seq(WishRec)
<1> DEFINE p == a.packs
           F(x) == IF x.default THEN <<[pack |-> x.ref, scope |-> x.scope]>> ELSE <<>>
           ps == [i \in DOMAIN p |-> F(p[i])]
<1>1. p \in Seq(PackRec)
  BY DEF AnswerSeqs, PackRec
<1>2. normalize_default_assignments_from_pack_refs(a) = FlattenSeq(ps)
  BY DEF normalize_default_assignments_from_pack_refs, Collect
<1> HIDE DEF p
<1>3. ps \in [1..Len(p) -> Seq(WishRec)]
  <2>1. ASSUME NEW x \in PackRec PROVE F(x) \in Seq(WishRec)
    <3>1. [pack |-> x.ref, scope |-> x.scope] \in WishRec
      BY DEF PackRec, WishRec
    <3> QED
      BY <3>1, OneHeld, NothingHeld
  <2> HIDE DEF F
  <2> QED
    BY <1>1, <2>1, SeqAt
<1> HIDE DEF ps
<1> QED
  BY <1>1, <1>2, <1>3, FlattenSeqType, SeqAt

LEMMA GrantsTyped ==
    ASSUME NEW a, AnswerSeqs(a)
    PROVE  build_access_changes(a) \in Seq(Access)
<1> DEFINE p == a.packs
           q == TargetsOf(a)
           grant(ref, s) == [pack |-> ref, scope |-> s, policy |-> Public]
           F(x) == IF x.scope = <<>> THEN [i \in DOMAIN q |-> grant(x.ref, q[i])] ELSE <<grant(x.ref, x.scope)>>
           ps == [i \in DOMAIN p |-> F(p[i])]
<1>1. p \in Seq(PackRec) /\ q \in Seq(Places)
  BY TargetsTyped DEF AnswerSeqs, PackRec
<1>2. normalize_access_changes_from_pack_refs(a) = Distinct(FlattenSeq(ps))
  BY DEF normalize_access_changes_from_pack_refs, Collect
<1> HIDE DEF p, q
<1>3. ps \in [1..Len(p) -> Seq(Access)]
  <2>1. ASSUME NEW x \in PackRec PROVE F(x) \in Seq(Access)
    <3>1. ASSUME NEW s \in Places PROVE grant(x.ref, s) \in Access
      BY DEF PackRec, Access
    <3>2. x.scope # <<>> => x.scope \in Places
      BY DEF PackRec, Where
    <3> HIDE DEF grant
    <3>3. [i \in DOMAIN q |-> grant(x.ref, q[i])] \in Seq(Access)
      BY <1>1, <3>1, SeqAt
    <3>4. x.scope # <<>> => <<grant(x.ref, x.scope)>> \in Seq(Access)
      BY <3>1, <3>2, OneHeld
    <3> QED
      BY <3>3, <3>4
  <2> HIDE DEF F
  <2> QED
    BY <1>1, <2>1, SeqAt
<1> HIDE DEF ps
<1>4. FlattenSeq(ps) \in Seq(Access)
  BY <1>1, <1>3, FlattenSeqType, SeqAt
<1>5. normalize_access_changes_from_pack_refs(a) \in Seq(Access)
  BY <1>2, <1>4, DistinctIs
<1> QED
  BY <1>5 DEF build_access_changes, AnswerSeqs

PlanTypes(p) ==
    /\ p.mode \in {"create", "update", "remove"} /\ p.refs \in Seq(Refs) /\ p.tenants \in Seq(TenantRec)
    /\ p.providers \in Seq(PackIds) /\ p.ops \in SUBSET Ops /\ p.defaults \in Seq(DefaultRec) /\ p.access \in Seq(ChangeRec)
    /\ p.packsRemove \in Seq(RemovalRec) /\ p.providersRemove \in Seq(PackIds) /\ p.tenantsRemove \in Seq(Places)
    /\ p.seeds \in Seq(SeedRec) /\ "refs" \in DOMAIN p

LEMMA OpsTyped ==
    ASSUME NEW a, AnswerSeqs(a), NEW meta
    PROVE  OpsFor(a, meta) \in SUBSET Ops
<1> DEFINE req == normalize_request_for_plan(RequestOf(a), meta)
<1>1. req.ops = a.ops
  BY DEF normalize_request_for_plan, RequestOf
<1> HIDE DEF req
<1>2. InferredOps(req) \in SUBSET Ops
  BY <1>1 DEF InferredOps, Ops, If, AnswerSeqs
<1>3. InferredTargets(req) \in SUBSET Ops
  BY <1>1 DEF InferredTargets, Ops, If, AnswerSeqs
<1>4. OpsFor(a, meta) = CASE a.mode = "create" -> a.ops [] a.mode = "update" -> InferredOps(req) [] OTHER -> InferredTargets(req)
  BY DEF OpsFor, req
<1> QED
  BY <1>2, <1>3, <1>4 DEF AnswerSeqs

LEMMA PlanTyped ==
    ASSUME NEW a, AnswerSeqs(a), NEW meta \in SUBSET MetaRec
    PROVE  /\ PlanTypes(build_plan(a, meta))
           /\ a.mode # "remove" => Range(build_plan(a, meta).refs) = Range(RefsOf(a))
<1> DEFINE p == build_plan(a, meta)
<1>1. PlanFields(p, a, meta)
  BY PlanIs
<1> HIDE DEF p
<1>2. SortedRefs(RefsOf(a)) \in Seq(Refs) /\ Range(SortedRefs(RefsOf(a))) = Range(RefsOf(a))
  <2>1. Range(RefsOf(a)) \in SUBSET Refs
    BY RefsTyped, SeqAt DEF Range
  <2>2. Range(RefsOf(a)) \in SUBSET Nat /\ IsFiniteSet(Range(RefsOf(a)))
    BY <2>1, Numbers, FS_Subset, WizardAssumption
  <2>3. SortedRefs(RefsOf(a)) \in Seq(Range(RefsOf(a))) /\ Range(SortedRefs(RefsOf(a))) = Range(RefsOf(a))
    BY <2>2, AscendingIs DEF SortedRefs
  <2> QED
    BY <2>1, <2>3
<1>3. Named(normalize_default_assignments_from_pack_refs(a), meta) \in Seq(DefaultRec)
  <2>1. \A x \in WishRec : x.pack \in Refs \union PackIds
    BY DEF WishRec
  <2>2. \A x \in WishRec : \A i \in PackIds : [x EXCEPT !.pack = i] \in DefaultRec
    BY DEF WishRec, DefaultRec
  <2> QED
    BY <2>1, <2>2, DefaultsTyped, NamedIs
<1>4. Named(build_access_changes(a), meta) \in Seq(ChangeRec)
  <2>1. \A x \in Access : x.pack \in Refs \union PackIds
    BY DEF Access
  <2>2. \A x \in Access : \A i \in PackIds : [x EXCEPT !.pack = i] \in ChangeRec
    BY DEF Access, ChangeRec
  <2> QED
    BY <2>1, <2>2, GrantsTyped, NamedIs
<1>5. Named(a.packsRemove, meta) \in Seq(RemovalRec)
  <2> DEFINE R == [pack : Refs \union PackIds, scope : Where \union {BundleScope}]
  <2>1. \A x \in R : x.pack \in Refs \union PackIds
    OBVIOUS
  <2>2. \A x \in R : \A i \in PackIds : [x EXCEPT !.pack = i] \in RemovalRec
    BY DEF RemovalRec
  <2>3. a.packsRemove \in Seq(R)
    BY DEF AnswerSeqs
  <2> HIDE DEF R
  <2> QED
    BY <2>1, <2>2, <2>3, NamedIs
<1>6. p.refs \in Seq(Refs) /\ (a.mode # "remove" => Range(p.refs) = Range(RefsOf(a)))
  BY <1>1, <1>2, NothingHeld DEF PlanFields
<1>7. p.ops \in SUBSET Ops
  BY <1>1, OpsTyped DEF PlanFields
<1>8. /\ p.mode = a.mode /\ p.tenants = TenantsOf(a) /\ p.providers = a.providers
      /\ p.defaults = Named(normalize_default_assignments_from_pack_refs(a), meta)
      /\ p.access = Named(build_access_changes(a), meta) /\ p.packsRemove = Named(a.packsRemove, meta)
      /\ p.providersRemove = a.providersRemove /\ p.tenantsRemove = a.tenantsRemove /\ p.seeds = a.seeds
  BY <1>1 DEF PlanFields
<1>9. "refs" \in DOMAIN p
  BY <1>1 DEF PlanFields
<1>10. PlanTypes(p)
  BY <1>3, <1>4, <1>5, <1>6, <1>7, <1>8, <1>9, TargetsTyped DEF PlanTypes, AnswerSeqs
<1> QED
  BY <1>6, <1>10 DEF p

-----------------------------------------------------------------------------
(* The steps of a plan *)

Kind(op, X) == [op : {op}, x : X]
PlanPath(p) == {q \in PathRec : q.plain \/ \E i \in DOMAIN p.tenants : q \in Range(p.tenants[i].allow)}
RuleChange(p) == [scope : Places, path : PlanPath(p), policy : {Public, Forbidden}]
Plain3 == {"scaffold", "resolve", "sync"}

StepSet(p) ==
    [op : Plain3, x : {None}] \union [op : {"assign", "register"}, x : {p.refs}] \union [op : {"copy", "link"}, x : Range(p.refs)]
      \union Kind("default", DefaultRec) \union Kind("unpack", RemovalRec) \union Kind("enable", {p.providers})
      \union Kind("disable", {p.providersRemove}) \union [op : {"ensure", "drop", "manifest"}, x : Places]
      \union Kind("rule", RuleChange(p)) \union [op : {"seed", "webhook"}, x : PackIds \X Places]

StepOf(p, P) == {st \in StepSet(p) : st.op \in P}

(* The order of the steps, as far as it matters what they find. *)
Precedes(m, n) ==
    \/ m = "assign" /\ n \in {"copy", "link", "register"}
    \/ m = "copy" /\ n \in {"link", "default", "unpack"}
    \/ m = "link" /\ n = "unpack"
    \/ m = "default" /\ n \in {"unpack", "drop"}
    \/ m = "drop" /\ n = "rule"
    \/ m = "register" /\ n \in {"enable", "disable"}
    \/ m = "enable" /\ n = "disable"
    \/ m \in {"scaffold", "default", "ensure", "drop", "rule"} /\ n = "sync"
    \/ m = "sync" /\ n = "manifest"

Ordered(s) == \A i, j \in 1..Len(s) : i < j => ~Precedes(s[j].op, s[i].op)

Piece(s, p, P) == s \in Seq(StepOf(p, P)) /\ Ordered(s)

LEMMA PieceFree ==
    ASSUME NEW p, NEW P, NEW s \in Seq(StepOf(p, P)), \A m, n \in P : ~Precedes(m, n)
    PROVE  Piece(s, p, P)
<1>1. \A i \in 1..Len(s) : s[i].op \in P
  BY SeqAt DEF StepOf
<1> QED
  BY <1>1 DEF Piece, Ordered

LEMMA PiecesJoined ==
    ASSUME NEW p, NEW P, NEW Q, NEW s, NEW t, Piece(s, p, P), Piece(t, p, Q), \A m \in P, n \in Q : ~Precedes(n, m)
    PROVE  Piece(s \o t, p, P \union Q)
<1> DEFINE A == StepOf(p, P \union Q)
           u == s \o t
<1>1. s \in Seq(A) /\ t \in Seq(A)
  <2>1. StepOf(p, P) \subseteq A /\ StepOf(p, Q) \subseteq A
    BY DEF StepOf
  <2>2. \A X, Y : X \subseteq Y => Seq(X) \subseteq Seq(Y)
    OBVIOUS
  <2> HIDE DEF A
  <2> QED
    BY <2>1, <2>2 DEF Piece
<1>2. (\A i \in 1..Len(s) : s[i].op \in P) /\ (\A i \in 1..Len(t) : t[i].op \in Q)
  BY SeqAt DEF Piece, StepOf
<1> HIDE DEF A
<1>3. /\ u \in Seq(A) /\ Len(u) = Len(s) + Len(t) /\ Len(s) \in Nat /\ Len(t) \in Nat
      /\ \A i \in 1..Len(s) : u[i] = s[i]
      /\ \A i \in 1..Len(u) : i > Len(s) => i - Len(s) \in 1..Len(t) /\ u[i] = t[i - Len(s)]
  BY <1>1, JoinedAt
<1> HIDE DEF u
<1>4. ASSUME NEW i \in 1..Len(u), NEW j \in 1..Len(u), i < j PROVE ~Precedes(u[j].op, u[i].op)
  <2>1. CASE j <= Len(s)
    <3>1. i \in 1..Len(s) /\ j \in 1..Len(s)
      BY <1>3, <1>4, <2>1
    <3> QED
      BY <1>3, <1>4, <3>1 DEF Piece, Ordered
  <2>2. CASE i <= Len(s) /\ j > Len(s)
    <3>1. i \in 1..Len(s)
      BY <1>3, <2>2
    <3> QED
      BY <1>2, <1>3, <2>2, <3>1
  <2>3. CASE i > Len(s)
    <3>1. j > Len(s) /\ i - Len(s) < j - Len(s)
      BY <1>3, <1>4, <2>3
    <3> QED
      BY <1>3, <2>3, <3>1 DEF Piece, Ordered
  <2> QED
    BY <1>3, <1>4, <2>1, <2>2, <2>3
<1> QED
  BY <1>3, <1>4 DEF Piece, Ordered, A, u

LEMMA NoPiece == \A p, P : Piece(<<>>, p, P)
<1>1. Len(<<>>) = 0 /\ 1..0 = {}
  OBVIOUS
<1> QED
  BY <1>1, NothingHeld DEF Piece, Ordered

(* A piece that is there on a condition. *)
LEMMA PieceWhen ==
    ASSUME NEW p, NEW P, NEW s, NEW c \in BOOLEAN, c => Piece(s, p, P)
    PROVE  Piece(When(c, s), p, P)
BY NoPiece DEF When

(* One kind of step, for each of some things. *)
LEMMA PieceEach ==
    ASSUME NEW p, NEW op, NEW X, NEW seq \in Seq(X), \A x \in X : Do(op, x) \in StepSet(p), ~Precedes(op, op)
    PROVE  Piece(Each(op, seq), p, {op})
<1>1. Len(seq) \in Nat /\ DOMAIN seq = 1..Len(seq) /\ \A i \in 1..Len(seq) : seq[i] \in X
  BY SeqAt
<1>2. \A x \in X : Do(op, x) \in StepOf(p, {op})
  BY DEF StepOf, Do
<1>3. Each(op, seq) \in [1..Len(seq) -> StepOf(p, {op})]
  BY <1>1, <1>2 DEF Each
<1>4. Each(op, seq) \in Seq(StepOf(p, {op}))
  BY <1>1, <1>3, FunctionSeq
<1> QED
  BY <1>4, PieceFree

LEMMA EachRange == \A op, seq : Range(Each(op, seq)) = {Do(op, x) : x \in Range(seq)}
<1>1. ASSUME NEW op, NEW seq PROVE Range(Each(op, seq)) = {Do(op, x) : x \in Range(seq)}
  <2>1. DOMAIN Each(op, seq) = DOMAIN seq /\ \A i \in DOMAIN seq : Each(op, seq)[i] = Do(op, seq[i])
    BY DEF Each
  <2> QED
    BY <2>1 DEF Range
<1> QED
  BY <1>1

LEMMA StepMade ==
    ASSUME NEW p, PlanTypes(p)
    PROVE  /\ \A op \in Plain3 : Do(op, None) \in StepSet(p)
           /\ \A op \in {"assign", "register"} : Do(op, p.refs) \in StepSet(p)
           /\ \A op \in {"copy", "link"} : \A x \in Range(p.refs) : Do(op, x) \in StepSet(p)
           /\ \A x \in DefaultRec : Do("default", x) \in StepSet(p)
           /\ \A x \in RemovalRec : Do("unpack", x) \in StepSet(p)
           /\ Do("enable", p.providers) \in StepSet(p) /\ Do("disable", p.providersRemove) \in StepSet(p)
           /\ \A op \in {"ensure", "drop", "manifest"} : \A x \in Places : Do(op, x) \in StepSet(p)
           /\ \A x \in RuleChange(p) : Do("rule", x) \in StepSet(p)
           /\ \A op \in {"seed", "webhook"} : \A x \in PackIds \X Places : Do(op, x) \in StepSet(p)
BY DEF StepSet, Do, Kind

LEMMA AddPacksPiece ==
    ASSUME NEW p, PlanTypes(p)
    PROVE  /\ Piece(AddPacks(p), p, {"resolve", "assign", "copy", "link"})
           /\ p.refs # <<>> => /\ Do("assign", p.refs) \in Range(AddPacks(p))
                               /\ \A r \in Range(p.refs) : Do("copy", r) \in Range(AddPacks(p)) /\ Do("link", r) \in Range(AddPacks(p))
<1> DEFINE two == <<Do("resolve", None), Do("assign", p.refs)>>
           copies == Each("copy", p.refs)
           links == Each("link", p.refs)
           R == Range(p.refs)
           X == [op : {"resolve", "assign", "copy", "link"}, x : {None, p.refs} \union R]
<1>1. p.refs \in Seq(R)
  BY RangeSeq DEF PlanTypes
<1>2. \A x \in R : Do("copy", x) \in StepSet(p) /\ Do("link", x) \in StepSet(p)
  BY StepMade
<1>3. Piece(two, p, {"resolve", "assign"})
  <2>1. Do("resolve", None) \in StepOf(p, {"resolve", "assign"}) /\ Do("assign", p.refs) \in StepOf(p, {"resolve", "assign"})
    <3>1. Do("resolve", None) \in StepSet(p) /\ Do("assign", p.refs) \in StepSet(p)
      BY StepMade DEF Plain3
    <3> QED
      BY <3>1 DEF StepOf, Do
  <2>2. two \in Seq(StepOf(p, {"resolve", "assign"}))
    BY <2>1
  <2>3. \A m, n \in {"resolve", "assign"} : ~Precedes(m, n)
    BY DEF Precedes
  <2> HIDE DEF two
  <2> QED
    BY <2>2, <2>3, PieceFree
<1>4. Piece(copies, p, {"copy"}) /\ \A st : st \in Range(copies) <=> \E x \in R : st = Do("copy", x)
  <2>1. ~Precedes("copy", "copy")
    BY DEF Precedes
  <2>2. \A x \in R : Do("copy", x) \in StepSet(p)
    BY <1>2
  <2> HIDE DEF R
  <2>3. Piece(Each("copy", p.refs), p, {"copy"})
    BY <1>1, <2>1, <2>2, PieceEach
  <2>4. \A st : st \in Range(Each("copy", p.refs)) <=> \E x \in Range(p.refs) : st = Do("copy", x)
    BY EachRange
  <2> QED
    BY <2>3, <2>4 DEF R
<1>5. Piece(links, p, {"link"}) /\ \A st : st \in Range(links) <=> \E x \in R : st = Do("link", x)
  <2>1. ~Precedes("link", "link")
    BY DEF Precedes
  <2>2. \A x \in R : Do("link", x) \in StepSet(p)
    BY <1>2
  <2> HIDE DEF R
  <2>3. Piece(Each("link", p.refs), p, {"link"})
    BY <1>1, <2>1, <2>2, PieceEach
  <2>4. \A st : st \in Range(Each("link", p.refs)) <=> \E x \in Range(p.refs) : st = Do("link", x)
    BY EachRange
  <2> QED
    BY <2>3, <2>4 DEF R
<1> DEFINE three == two \o copies
           all == three \o links
<1>6. Range(two) = {Do("resolve", None), Do("assign", p.refs)}
  <2>1. DOMAIN two = {1, 2} /\ two[1] = Do("resolve", None) /\ two[2] = Do("assign", p.refs)
    OBVIOUS
  <2> HIDE DEF two
  <2> QED
    BY <2>1 DEF Range
<1> HIDE DEF two, copies, links, R
<1>7. Piece(three, p, {"resolve", "assign"} \union {"copy"})
  <2>1. \A m \in {"resolve", "assign"}, n \in {"copy"} : ~Precedes(n, m)
    BY DEF Precedes
  <2> QED
    BY <1>3, <1>4, <2>1, PiecesJoined
<1>8. Range(three) = Range(two) \union Range(copies)
  <2>1. two \in Seq(StepSet(p)) /\ copies \in Seq(StepSet(p))
    <3>1. \A P : StepOf(p, P) \subseteq StepSet(p)
      BY DEF StepOf
    <3>2. \A Y, Z : Y \subseteq Z => Seq(Y) \subseteq Seq(Z)
      OBVIOUS
    <3> QED
      BY <1>3, <1>4, <3>1, <3>2 DEF Piece
  <2> QED
    BY <2>1, JoinedSeqs
<1> HIDE DEF three
<1>9. Piece(all, p, ({"resolve", "assign"} \union {"copy"}) \union {"link"})
  <2>1. \A m \in {"resolve", "assign"} \union {"copy"}, n \in {"link"} : ~Precedes(n, m)
    BY DEF Precedes
  <2> QED
    BY <1>5, <1>7, <2>1, PiecesJoined
<1>10. Range(all) = Range(three) \union Range(links)
  <2>1. three \in Seq(StepSet(p)) /\ links \in Seq(StepSet(p))
    <3>1. \A P : StepOf(p, P) \subseteq StepSet(p)
      BY DEF StepOf
    <3>2. \A Y, Z : Y \subseteq Z => Seq(Y) \subseteq Seq(Z)
      OBVIOUS
    <3> QED
      BY <1>5, <1>7, <3>1, <3>2 DEF Piece
  <2> QED
    BY <2>1, JoinedSeqs
<1>11. AddPacks(p) = When(p.refs # <<>>, all)
  BY DEF AddPacks, all, three, two, copies, links
<1>12. ({"resolve", "assign"} \union {"copy"}) \union {"link"} = {"resolve", "assign", "copy", "link"}
  OBVIOUS
<1> HIDE DEF all
<1>13. Piece(AddPacks(p), p, {"resolve", "assign", "copy", "link"})
  <2>1. Piece(all, p, {"resolve", "assign", "copy", "link"})
    BY <1>9, <1>12
  <2>2. AddPacks(p) = all \/ AddPacks(p) = <<>>
    BY <1>11 DEF When
  <2> QED
    BY <2>1, <2>2, NoPiece, Zenon
<1>14. ASSUME p.refs # <<>>
       PROVE /\ Do("assign", p.refs) \in Range(AddPacks(p))
             /\ \A r \in Range(p.refs) : Do("copy", r) \in Range(AddPacks(p)) /\ Do("link", r) \in Range(AddPacks(p))
  <2>1. AddPacks(p) = all
    BY <1>11, <1>14 DEF When
  <2> QED
    BY <1>4, <1>5, <1>6, <1>8, <1>10, <2>1 DEF R
<1> QED
  BY <1>13, <1>14

(* Steps of one kind or two, for each of some things. *)
LEMMA PieceFlat ==
    ASSUME NEW p, NEW P, NEW n \in Nat, NEW ss \in [1..n -> Seq(StepOf(p, P))], \A h, k \in P : ~Precedes(h, k)
    PROVE  Piece(FlattenSeq(ss), p, P)
BY FlattenSeqType, PieceFree

LEMMA ForTenantsPiece ==
    ASSUME NEW p, PlanTypes(p), NEW op \in {"seed", "webhook"}, NEW ids \in Seq(PackIds)
    PROVE  Piece(ForTenants(op, ids, p), p, {op})
<1> DEFINE one(id, t) == <<Do(op, <<id, Tenant(t.scope)>>)>>
           each(id) == [i \in DOMAIN p.tenants |-> one(id, p.tenants[i])]
           ss == [i \in DOMAIN ids |-> FlattenSeq(each(ids[i]))]
<1>1. ForTenants(op, ids, p) = FlattenSeq(ss)
  BY DEF ForTenants, Collect
<1>2. p.tenants \in Seq(TenantRec)
  BY DEF PlanTypes
<1>3. ASSUME NEW id \in PackIds PROVE FlattenSeq(each(id)) \in Seq(StepOf(p, {op}))
  <2>1. ASSUME NEW t \in TenantRec PROVE one(id, t) \in Seq(StepOf(p, {op}))
    <3>1. Tenant(t.scope) \in Places
      BY WizardAssumption DEF TenantRec
    <3>2. Do(op, <<id, Tenant(t.scope)>>) \in StepOf(p, {op})
      BY <3>1, StepMade DEF StepOf, Do
    <3> QED
      BY <3>2, OneHeld
  <2> HIDE DEF one
  <2>2. each(id) \in [1..Len(p.tenants) -> Seq(StepOf(p, {op}))]
    BY <1>2, <2>1, SeqAt
  <2> HIDE DEF each
  <2> QED
    BY <1>2, <2>2, FlattenSeqType, SeqAt
<1> HIDE DEF each
<1>4. ss \in [1..Len(ids) -> Seq(StepOf(p, {op}))]
  BY <1>3, SeqAt
<1>5. \A h, k \in {op} : ~Precedes(h, k)
  BY DEF Precedes
<1>6. Len(ids) \in Nat
  BY SeqAt
<1> HIDE DEF ss
<1>7. Piece(FlattenSeq(ss), p, {op})
  BY <1>4, <1>5, <1>6, PieceFlat
<1> QED
  BY <1>1, <1>7

LEMMA SeedPieces ==
    ASSUME NEW p, PlanTypes(p)
    PROVE  Piece(seed_setup_answers(p), p, {"seed"}) /\ Piece(run_webhook_setup_from_answers(p), p, {"webhook"})
<1> DEFINE q == p.seeds
           all == [i \in DOMAIN q |-> <<q[i].id>>]
           F(x) == IF x.https THEN <<x.id>> ELSE <<>>
           some == [i \in DOMAIN q |-> F(q[i])]
<1>1. q \in Seq(SeedRec)
  BY DEF PlanTypes
<1>2. /\ seed_setup_answers(p) = ForTenants("seed", FlattenSeq(all), p)
      /\ run_webhook_setup_from_answers(p) = ForTenants("webhook", FlattenSeq(some), p)
  BY DEF seed_setup_answers, run_webhook_setup_from_answers, Collect
<1>3. ASSUME NEW x \in SeedRec PROVE <<x.id>> \in Seq(PackIds) /\ F(x) \in Seq(PackIds)
  <2>1. x.id \in PackIds
    BY DEF SeedRec
  <2> QED
    BY <2>1, OneHeld, NothingHeld
<1> HIDE DEF q, F
<1>4. all \in [1..Len(q) -> Seq(PackIds)]
  BY <1>1, <1>3, SeqAt
<1>5. some \in [1..Len(q) -> Seq(PackIds)]
  BY <1>1, <1>3, SeqAt
<1> HIDE DEF all, some
<1>6. FlattenSeq(all) \in Seq(PackIds) /\ FlattenSeq(some) \in Seq(PackIds)
  BY <1>1, <1>4, <1>5, FlattenSeqType, SeqAt
<1> QED
  BY <1>2, <1>6, ForTenantsPiece

ChangeSteps(c) == <<Do("ensure", c.scope), Do("rule", [scope |-> c.scope, path |-> Given(<<c.pack>>), policy |-> c.policy])>>
AllowSteps(t) ==
    <<Do("ensure", t.scope)>> \o [i \in DOMAIN t.allow |-> Do("rule", [scope |-> t.scope, path |-> t.allow[i], policy |-> Public])]
RuleOf(c) == Do("rule", [scope |-> c.scope, path |-> Given(<<c.pack>>), policy |-> c.policy])
Touching == {"ensure", "rule"}

LEMMA GrantParts ==
    ASSUME NEW p, PlanTypes(p)
    PROVE  /\ [i \in DOMAIN p.tenants |-> AllowSteps(p.tenants[i])] \in [1..Len(p.tenants) -> Seq(StepOf(p, Touching))]
           /\ [i \in DOMAIN p.access |-> ChangeSteps(p.access[i])] \in [1..Len(p.access) -> Seq(StepOf(p, Touching))]
           /\ Grants(p) = FlattenSeq([i \in DOMAIN p.tenants |-> AllowSteps(p.tenants[i])])
                            \o FlattenSeq([i \in DOMAIN p.access |-> ChangeSteps(p.access[i])])
<1>1. p.tenants \in Seq(TenantRec) /\ p.access \in Seq(ChangeRec)
  BY DEF PlanTypes
<1>2. ASSUME NEW s \in Places PROVE Do("ensure", s) \in StepOf(p, Touching)
  <2>1. Do("ensure", s) \in StepSet(p)
    BY StepMade
  <2> QED
    BY <2>1 DEF StepOf, Touching, Do
<1>3. ASSUME NEW c \in RuleChange(p) PROVE Do("rule", c) \in StepOf(p, Touching)
  <2>1. Do("rule", c) \in StepSet(p)
    BY StepMade
  <2> QED
    BY <2>1 DEF StepOf, Touching, Do
<1>4. ASSUME NEW i \in 1..Len(p.tenants) PROVE AllowSteps(p.tenants[i]) \in Seq(StepOf(p, Touching))
  <2> DEFINE t == p.tenants[i]
             f == [k \in DOMAIN t.allow |-> Do("rule", [scope |-> t.scope, path |-> t.allow[k], policy |-> Public])]
  <2>1. t \in TenantRec /\ i \in DOMAIN p.tenants
    BY <1>1, SeqAt
  <2>2. t.scope \in Places /\ t.allow \in Seq(PathRec)
    BY <2>1 DEF TenantRec
  <2>3. ASSUME NEW q \in Range(t.allow) PROVE Do("rule", [scope |-> t.scope, path |-> q, policy |-> Public]) \in StepOf(p, Touching)
    <3>1. q \in PathRec
      BY <2>2, RangeSeq
    <3>2. q \in PlanPath(p)
      BY <2>1, <3>1 DEF PlanPath
    <3>3. [scope |-> t.scope, path |-> q, policy |-> Public] \in RuleChange(p)
      BY <2>2, <3>2 DEF RuleChange
    <3> QED
      BY <1>3, <3>3
  <2>4. <<Do("ensure", t.scope)>> \in Seq(StepOf(p, Touching))
    BY <1>2, <2>2, OneHeld
  <2>5. AllowSteps(t) = <<Do("ensure", t.scope)>> \o f
    BY DEF AllowSteps
  <2> HIDE DEF t
  <2>6. f \in [1..Len(t.allow) -> StepOf(p, Touching)]
    <3>1. DOMAIN t.allow = 1..Len(t.allow) /\ \A k \in 1..Len(t.allow) : t.allow[k] \in Range(t.allow)
      BY <2>2, SeqAt DEF Range
    <3> QED
      BY <2>3, <3>1
  <2> HIDE DEF f
  <2>7. f \in Seq(StepOf(p, Touching))
    BY <2>2, <2>6, SeqAt, FunctionSeq
  <2>8. AllowSteps(t) \in Seq(StepOf(p, Touching))
    BY <2>4, <2>5, <2>7, JoinedSeqs
  <2> QED
    BY <2>8 DEF t
<1>5. ASSUME NEW i \in 1..Len(p.access) PROVE ChangeSteps(p.access[i]) \in Seq(StepOf(p, Touching))
  <2> DEFINE c == p.access[i]
  <2>1. c \in ChangeRec
    BY <1>1, SeqAt
  <2>2. c.scope \in Places /\ c.pack \in PackIds /\ c.policy \in {Public, Forbidden}
    BY <2>1 DEF ChangeRec
  <2> HIDE DEF c
  <2>3. Given(<<c.pack>>) \in PlanPath(p)
    <3>1. <<c.pack>> \in Seq(Nat)
      BY <2>2, Numbers, OneHeld
    <3> QED
      BY <3>1 DEF Given, PlanPath, PathRec
  <2>4. [scope |-> c.scope, path |-> Given(<<c.pack>>), policy |-> c.policy] \in RuleChange(p)
    BY <2>2, <2>3 DEF RuleChange
  <2>5. Do("ensure", c.scope) \in StepOf(p, Touching) /\ RuleOf(c) \in StepOf(p, Touching)
    BY <1>2, <1>3, <2>2, <2>4 DEF RuleOf
  <2>6. <<Do("ensure", c.scope), RuleOf(c)>> \in Seq(StepOf(p, Touching))
    BY <2>5
  <2> QED
    BY <2>6 DEF c, ChangeSteps, RuleOf
<1>6. [i \in DOMAIN p.tenants |-> AllowSteps(p.tenants[i])] \in [1..Len(p.tenants) -> Seq(StepOf(p, Touching))]
  BY <1>1, <1>4, SeqAt
<1>7. [i \in DOMAIN p.access |-> ChangeSteps(p.access[i])] \in [1..Len(p.access) -> Seq(StepOf(p, Touching))]
  BY <1>1, <1>5, SeqAt
<1>8. Grants(p) = FlattenSeq([i \in DOMAIN p.tenants |-> AllowSteps(p.tenants[i])])
                    \o FlattenSeq([i \in DOMAIN p.access |-> ChangeSteps(p.access[i])])
  BY DEF Grants, Collect, AllowSteps, ChangeSteps
<1> QED
  BY <1>6, <1>7, <1>8

LEMMA GrantsPiece ==
    ASSUME NEW p, PlanTypes(p)
    PROVE  Piece(Grants(p), p, Touching)
<1> DEFINE ss == [i \in DOMAIN p.tenants |-> AllowSteps(p.tenants[i])]
           tt == [i \in DOMAIN p.access |-> ChangeSteps(p.access[i])]
<1>1. /\ ss \in [1..Len(p.tenants) -> Seq(StepOf(p, Touching))] /\ tt \in [1..Len(p.access) -> Seq(StepOf(p, Touching))]
      /\ Grants(p) = FlattenSeq(ss) \o FlattenSeq(tt)
  BY GrantParts
<1>2. Len(p.tenants) \in Nat /\ Len(p.access) \in Nat
  BY SeqAt DEF PlanTypes
<1> HIDE DEF ss, tt
<1>3. FlattenSeq(ss) \in Seq(StepOf(p, Touching)) /\ FlattenSeq(tt) \in Seq(StepOf(p, Touching))
  BY <1>1, <1>2, FlattenSeqType
<1>4. Grants(p) \in Seq(StepOf(p, Touching))
  BY <1>1, <1>3, JoinedSeqs
<1>5. \A m, n \in Touching : ~Precedes(m, n)
  BY DEF Precedes, Touching
<1> QED
  BY <1>4, <1>5, PieceFree

LEMMA TargetsAre ==
    ASSUME NEW p, PlanTypes(p)
    PROVE  Targets(p) \in Seq(Places)
<1> DEFINE t == p.tenants
           c == p.access
           ss == [i \in DOMAIN t |-> <<t[i].scope>>]
           tt == [i \in DOMAIN c |-> <<c[i].scope>>]
<1>1. t \in Seq(TenantRec) /\ c \in Seq(ChangeRec)
  BY DEF PlanTypes
<1>2. Targets(p) = Distinct(FlattenSeq(ss) \o FlattenSeq(tt))
  BY DEF Targets, Collect
<1> HIDE DEF t, c
<1>3. (\A x \in TenantRec : <<x.scope>> \in Seq(Places)) /\ (\A x \in ChangeRec : <<x.scope>> \in Seq(Places))
  BY OneHeld DEF TenantRec, ChangeRec
<1>4. ss \in [1..Len(t) -> Seq(Places)]
  BY <1>1, <1>3, SeqAt
<1>5. tt \in [1..Len(c) -> Seq(Places)]
  BY <1>1, <1>3, SeqAt
<1> HIDE DEF ss, tt
<1>6. FlattenSeq(ss) \in Seq(Places) /\ FlattenSeq(tt) \in Seq(Places)
  BY <1>1, <1>4, <1>5, FlattenSeqType, SeqAt
<1>7. FlattenSeq(ss) \o FlattenSeq(tt) \in Seq(Places)
  BY <1>6, JoinedSeqs
<1> QED
  BY <1>2, <1>7, DistinctIs

Syncing == {"sync", "manifest"}

LEMMA AccessPiece ==
    ASSUME NEW p, PlanTypes(p)
    PROVE  /\ Piece(apply_access_and_sync(p), p, Touching \union Syncing)
           /\ \E t \in Seq(StepOf(p, Syncing)) : apply_access_and_sync(p) = Grants(p) \o t
<1> DEFINE one == <<Do("sync", None)>>
           each == Each("manifest", Targets(p))
           t == When(Targets(p) # <<>>, one \o each)
<1>1. Piece(one, p, {"sync"})
  <2>1. Do("sync", None) \in StepOf(p, {"sync"})
    <3>1. Do("sync", None) \in StepSet(p)
      BY StepMade DEF Plain3
    <3> QED
      BY <3>1 DEF StepOf, Do
  <2>2. one \in Seq(StepOf(p, {"sync"}))
    BY <2>1, OneHeld
  <2>3. \A m, n \in {"sync"} : ~Precedes(m, n)
    BY DEF Precedes
  <2> HIDE DEF one
  <2> QED
    BY <2>2, <2>3, PieceFree
<1>2. Piece(each, p, {"manifest"})
  <2>1. \A x \in Places : Do("manifest", x) \in StepSet(p)
    BY StepMade
  <2>2. ~Precedes("manifest", "manifest")
    BY DEF Precedes
  <2> QED
    BY <2>1, <2>2, TargetsAre, PieceEach
<1> HIDE DEF one, each
<1>3. Piece(one \o each, p, Syncing)
  <2>1. \A m \in {"sync"}, n \in {"manifest"} : ~Precedes(n, m)
    BY DEF Precedes
  <2>2. Piece(one \o each, p, {"sync"} \union {"manifest"})
    BY <1>1, <1>2, <2>1, PiecesJoined
  <2>3. {"sync"} \union {"manifest"} = Syncing
    BY DEF Syncing
  <2> QED
    BY <2>2, <2>3
<1>4. Piece(t, p, Syncing)
  BY <1>3, PieceWhen
<1>5. apply_access_and_sync(p) = Grants(p) \o t
  BY DEF apply_access_and_sync, one, each
<1> HIDE DEF t
<1>6. \A m \in Touching, n \in Syncing : ~Precedes(n, m)
  BY DEF Precedes, Touching, Syncing
<1>7. Piece(Grants(p) \o t, p, Touching \union Syncing)
  BY <1>4, <1>6, GrantsPiece, PiecesJoined
<1>8. t \in Seq(StepOf(p, Syncing))
  BY <1>4 DEF Piece
<1> QED
  BY <1>5, <1>7, <1>8

LEMMA PieceOne ==
    ASSUME NEW p, NEW op, NEW x, Do(op, x) \in StepSet(p), ~Precedes(op, op)
    PROVE  Piece(<<Do(op, x)>>, p, {op}) /\ Range(<<Do(op, x)>>) = {Do(op, x)}
<1>1. Do(op, x) \in StepOf(p, {op})
  BY DEF StepOf, Do
<1>2. <<Do(op, x)>> \in Seq(StepOf(p, {op}))
  BY <1>1, OneHeld
<1>3. \A m, n \in {op} : ~Precedes(m, n)
  OBVIOUS
<1>4. Piece(<<Do(op, x)>>, p, {op})
  BY <1>2, <1>3, PieceFree
<1> QED
  BY <1>4, OneHeld

LEMMA RangeJoined ==
    ASSUME NEW p, NEW P, NEW Q, NEW s, NEW t, Piece(s, p, P), Piece(t, p, Q)
    PROVE  Range(s \o t) = Range(s) \union Range(t)
<1>1. \A X : StepOf(p, X) \subseteq StepSet(p)
  BY DEF StepOf
<1>2. \A Y, Z : Y \subseteq Z => Seq(Y) \subseteq Seq(Z)
  OBVIOUS
<1>3. s \in Seq(StepSet(p)) /\ t \in Seq(StepSet(p))
  BY <1>1, <1>2 DEF Piece
<1> QED
  BY <1>3, JoinedSeqs

Adding == {"assign", "copy", "link", "register"}

AddsAll(S, p) ==
    /\ p.refs # <<>> /\ Do("assign", p.refs) \in Range(S) /\ Do("register", p.refs) \in Range(S)
    /\ \A r \in Range(p.refs) : Do("copy", r) \in Range(S) /\ Do("link", r) \in Range(S)

AddsNone(S) == \A st \in Range(S) : st.op \notin Adding

(* The steps of a piece have its operations. *)
LEMMA PieceOps ==
    ASSUME NEW p, NEW P, NEW s, Piece(s, p, P)
    PROVE  s \in Seq(StepSet(p)) /\ Ordered(s) /\ \A st \in Range(s) : st.op \in P
<1>1. s \in Seq(StepOf(p, P)) /\ Ordered(s)
  BY DEF Piece
<1>2. StepOf(p, P) \subseteq StepSet(p) /\ \A st \in StepOf(p, P) : st.op \in P
  BY DEF StepOf
<1>3. \A Y, Z : Y \subseteq Z => Seq(Y) \subseteq Seq(Z)
  OBVIOUS
<1> QED
  BY <1>1, <1>2, <1>3, RangeSeq

LEMMA CreateSteps ==
    ASSUME NEW p, PlanTypes(p)
    PROVE  /\ execute_create_plan(p) \in Seq(StepSet(p)) /\ Ordered(execute_create_plan(p))
           /\ \A st \in Range(execute_create_plan(p)) : st.op \notin {"unpack", "drop", "disable"}
           /\ p.refs = <<>> => AddsNone(execute_create_plan(p))
           /\ p.refs # <<>> => AddsAll(execute_create_plan(p), p)
           /\ \E u \in Seq(StepSet(p)) : execute_create_plan(p) = u \o apply_access_and_sync(p)
<1> DEFINE s1 == <<Do("scaffold", None)>>
           s2 == AddPacks(p)
           s3 == Register(p.refs)
           s4 == Each("default", p.defaults)
           s5 == When(p.providers # <<>>, <<Do("enable", p.providers)>>)
           s6 == seed_setup_answers(p)
           s7 == run_webhook_setup_from_answers(p)
           s8 == apply_access_and_sync(p)
           u2 == s1 \o s2
           u3 == u2 \o s3
           u4 == u3 \o s4
           u5 == u4 \o s5
           u6 == u5 \o s6
           u7 == u6 \o s7
           u8 == u7 \o s8
<1>1. Piece(s1, p, {"scaffold"})
  <2>1. Do("scaffold", None) \in StepSet(p)
    BY StepMade DEF Plain3
  <2>2. ~Precedes("scaffold", "scaffold")
    BY DEF Precedes
  <2> QED
    BY <2>1, <2>2, PieceOne
<1>2. Piece(s2, p, {"resolve", "assign", "copy", "link"})
  BY AddPacksPiece
<1>3. Piece(s3, p, {"register"})
  <2>1. Do("register", p.refs) \in StepSet(p)
    BY StepMade
  <2>2. ~Precedes("register", "register")
    BY DEF Precedes
  <2>3. Piece(<<Do("register", p.refs)>>, p, {"register"})
    BY <2>1, <2>2, PieceOne
  <2> QED
    BY <2>3, PieceWhen DEF Register
<1>4. Piece(s4, p, {"default"})
  <2>1. \A x \in DefaultRec : Do("default", x) \in StepSet(p)
    BY StepMade
  <2>2. ~Precedes("default", "default") /\ p.defaults \in Seq(DefaultRec)
    BY DEF Precedes, PlanTypes
  <2>3. Piece(Each("default", p.defaults), p, {"default"})
    BY <2>1, <2>2, PieceEach
  <2> QED
    BY <2>3
<1>5. Piece(s5, p, {"enable"})
  <2>1. Do("enable", p.providers) \in StepSet(p)
    BY StepMade
  <2>2. ~Precedes("enable", "enable")
    BY DEF Precedes
  <2>3. Piece(<<Do("enable", p.providers)>>, p, {"enable"})
    BY <2>1, <2>2, PieceOne
  <2> QED
    BY <2>3, PieceWhen
<1>6. Piece(s6, p, {"seed"})
  BY SeedPieces
<1>7. Piece(s7, p, {"webhook"})
  BY SeedPieces
<1>8. Piece(s8, p, {"ensure", "rule", "sync", "manifest"})
  <2>1. Touching \union Syncing = {"ensure", "rule", "sync", "manifest"}
    BY DEF Touching, Syncing
  <2> QED
    BY <2>1, AccessPiece
<1>9. execute_create_plan(p) = u8
  BY DEF execute_create_plan
<1> HIDE DEF s1, s2, s3, s4, s5, s6, s7, s8
<1>10. Piece(u2, p, {"scaffold", "resolve", "assign", "copy", "link"}) /\ Range(u2) = Range(s1) \union Range(s2)
  <2>1. \A m \in {"scaffold"}, n \in {"resolve", "assign", "copy", "link"} : ~Precedes(n, m)
    BY DEF Precedes
  <2>2. Piece(u2, p, {"scaffold"} \union {"resolve", "assign", "copy", "link"})
    BY <1>1, <1>2, <2>1, PiecesJoined
  <2>3. Range(u2) = Range(s1) \union Range(s2)
    BY <1>1, <1>2, RangeJoined
  <2>4. {"scaffold"} \union {"resolve", "assign", "copy", "link"} = {"scaffold", "resolve", "assign", "copy", "link"}
    OBVIOUS
  <2> QED
    BY <2>2, <2>3, <2>4
<1> HIDE DEF u2
<1>11. Piece(u3, p, {"scaffold", "resolve", "assign", "copy", "link", "register"}) /\ Range(u3) = Range(u2) \union Range(s3)
  <2>1. \A m \in {"scaffold", "resolve", "assign", "copy", "link"}, n \in {"register"} : ~Precedes(n, m)
    BY DEF Precedes
  <2>2. Piece(u3, p, {"scaffold", "resolve", "assign", "copy", "link"} \union {"register"})
    BY <1>10, <1>3, <2>1, PiecesJoined
  <2>3. Range(u3) = Range(u2) \union Range(s3)
    BY <1>10, <1>3, RangeJoined
  <2>4. {"scaffold", "resolve", "assign", "copy", "link"} \union {"register"} = {"scaffold", "resolve", "assign", "copy", "link", "register"}
    OBVIOUS
  <2> QED
    BY <2>2, <2>3, <2>4
<1> HIDE DEF u3
<1>12. Piece(u4, p, {"scaffold", "resolve", "assign", "copy", "link", "register", "default"}) /\ Range(u4) = Range(u3) \union Range(s4)
  <2>1. \A m \in {"scaffold", "resolve", "assign", "copy", "link", "register"}, n \in {"default"} : ~Precedes(n, m)
    BY DEF Precedes
  <2>2. Piece(u4, p, {"scaffold", "resolve", "assign", "copy", "link", "register"} \union {"default"})
    BY <1>11, <1>4, <2>1, PiecesJoined
  <2>3. Range(u4) = Range(u3) \union Range(s4)
    BY <1>11, <1>4, RangeJoined
  <2>4. {"scaffold", "resolve", "assign", "copy", "link", "register"} \union {"default"} = {"scaffold", "resolve", "assign", "copy", "link", "register", "default"}
    OBVIOUS
  <2> QED
    BY <2>2, <2>3, <2>4
<1> HIDE DEF u4
<1>13. Piece(u5, p, {"scaffold", "resolve", "assign", "copy", "link", "register", "default", "enable"}) /\ Range(u5) = Range(u4) \union Range(s5)
  <2>1. \A m \in {"scaffold", "resolve", "assign", "copy", "link", "register", "default"}, n \in {"enable"} : ~Precedes(n, m)
    BY DEF Precedes
  <2>2. Piece(u5, p, {"scaffold", "resolve", "assign", "copy", "link", "register", "default"} \union {"enable"})
    BY <1>12, <1>5, <2>1, PiecesJoined
  <2>3. Range(u5) = Range(u4) \union Range(s5)
    BY <1>12, <1>5, RangeJoined
  <2>4. {"scaffold", "resolve", "assign", "copy", "link", "register", "default"} \union {"enable"} = {"scaffold", "resolve", "assign", "copy", "link", "register", "default", "enable"}
    OBVIOUS
  <2> QED
    BY <2>2, <2>3, <2>4
<1> HIDE DEF u5
<1>14. Piece(u6, p, {"scaffold", "resolve", "assign", "copy", "link", "register", "default", "enable", "seed"}) /\ Range(u6) = Range(u5) \union Range(s6)
  <2>1. \A m \in {"scaffold", "resolve", "assign", "copy", "link", "register", "default", "enable"}, n \in {"seed"} : ~Precedes(n, m)
    BY DEF Precedes
  <2>2. Piece(u6, p, {"scaffold", "resolve", "assign", "copy", "link", "register", "default", "enable"} \union {"seed"})
    BY <1>13, <1>6, <2>1, PiecesJoined
  <2>3. Range(u6) = Range(u5) \union Range(s6)
    BY <1>13, <1>6, RangeJoined
  <2>4. {"scaffold", "resolve", "assign", "copy", "link", "register", "default", "enable"} \union {"seed"} = {"scaffold", "resolve", "assign", "copy", "link", "register", "default", "enable", "seed"}
    OBVIOUS
  <2> QED
    BY <2>2, <2>3, <2>4
<1> HIDE DEF u6
<1>15. Piece(u7, p, {"scaffold", "resolve", "assign", "copy", "link", "register", "default", "enable", "seed", "webhook"}) /\ Range(u7) = Range(u6) \union Range(s7)
  <2>1. \A m \in {"scaffold", "resolve", "assign", "copy", "link", "register", "default", "enable", "seed"}, n \in {"webhook"} : ~Precedes(n, m)
    BY DEF Precedes
  <2>2. Piece(u7, p, {"scaffold", "resolve", "assign", "copy", "link", "register", "default", "enable", "seed"} \union {"webhook"})
    BY <1>14, <1>7, <2>1, PiecesJoined
  <2>3. Range(u7) = Range(u6) \union Range(s7)
    BY <1>14, <1>7, RangeJoined
  <2>4. {"scaffold", "resolve", "assign", "copy", "link", "register", "default", "enable", "seed"} \union {"webhook"} = {"scaffold", "resolve", "assign", "copy", "link", "register", "default", "enable", "seed", "webhook"}
    OBVIOUS
  <2> QED
    BY <2>2, <2>3, <2>4
<1> HIDE DEF u7
<1>16. Piece(u8, p, {"scaffold", "resolve", "assign", "copy", "link", "register", "default", "enable", "seed", "webhook", "ensure", "rule", "sync", "manifest"}) /\ Range(u8) = Range(u7) \union Range(s8)
  <2>1. \A m \in {"scaffold", "resolve", "assign", "copy", "link", "register", "default", "enable", "seed", "webhook"}, n \in {"ensure", "rule", "sync", "manifest"} : ~Precedes(n, m)
    BY DEF Precedes
  <2>2. Piece(u8, p, {"scaffold", "resolve", "assign", "copy", "link", "register", "default", "enable", "seed", "webhook"} \union {"ensure", "rule", "sync", "manifest"})
    BY <1>15, <1>8, <2>1, PiecesJoined
  <2>3. Range(u8) = Range(u7) \union Range(s8)
    BY <1>15, <1>8, RangeJoined
  <2>4. {"scaffold", "resolve", "assign", "copy", "link", "register", "default", "enable", "seed", "webhook"} \union {"ensure", "rule", "sync", "manifest"} = {"scaffold", "resolve", "assign", "copy", "link", "register", "default", "enable", "seed", "webhook", "ensure", "rule", "sync", "manifest"}
    OBVIOUS
  <2> QED
    BY <2>2, <2>3, <2>4
<1> HIDE DEF u8
<1>17. u8 \in Seq(StepSet(p)) /\ Ordered(u8) /\ u7 \in Seq(StepSet(p)) /\ (\A st \in Range(u8) : st.op \notin {"unpack", "drop", "disable"})
  BY <1>15, <1>16, PieceOps
<1>18. ASSUME p.refs = <<>> PROVE AddsNone(u8)
  <2>1. Range(s2) = {} /\ Range(s3) = {}
    BY <1>18, NothingHeld DEF s2, s3, AddPacks, Register, When
  <2>2. \A st \in Range(u8) : st \in Range(s1) \/ st \in Range(s4) \/ st \in Range(s5) \/ st \in Range(s6) \/ st \in Range(s7) \/ st \in Range(s8)
    BY <1>10, <1>11, <1>12, <1>13, <1>14, <1>15, <1>16, <2>1
  <2>3. \A st \in Range(s1) : st.op \notin Adding
    BY <1>1, PieceOps DEF Adding
  <2>4. \A st \in Range(s4) : st.op \notin Adding
    BY <1>4, PieceOps DEF Adding
  <2>5. \A st \in Range(s5) : st.op \notin Adding
    BY <1>5, PieceOps DEF Adding
  <2>6. \A st \in Range(s6) \union Range(s7) : st.op \notin Adding
    BY <1>6, <1>7, PieceOps DEF Adding
  <2>7. \A st \in Range(s8) : st.op \notin Adding
    BY <1>8, PieceOps DEF Adding
  <2> QED
    BY <2>2, <2>3, <2>4, <2>5, <2>6, <2>7 DEF AddsNone
<1>19. ASSUME p.refs # <<>> PROVE AddsAll(u8, p)
  <2>1. Do("register", p.refs) \in Range(s3)
    BY <1>19, OneHeld DEF s3, Register, When
  <2>2. /\ Do("assign", p.refs) \in Range(s2)
        /\ \A r \in Range(p.refs) : Do("copy", r) \in Range(s2) /\ Do("link", r) \in Range(s2)
    BY <1>19, AddPacksPiece DEF s2
  <2>3. Range(s2) \subseteq Range(u8) /\ Range(s3) \subseteq Range(u8)
    BY <1>10, <1>11, <1>12, <1>13, <1>14, <1>15, <1>16
  <2> QED
    BY <1>19, <2>1, <2>2, <2>3 DEF AddsAll
<1>20. u8 = u7 \o apply_access_and_sync(p)
  BY DEF u8, s8
<1> QED
  BY <1>9, <1>17, <1>18, <1>19, <1>20

LEMMA EnsurePiece ==
    ASSUME NEW p, PlanTypes(p)
    PROVE  Piece(FlattenSeq([i \in DOMAIN p.tenants |-> <<Do("ensure", p.tenants[i].scope)>>]), p, {"ensure"})
<1> DEFINE t == p.tenants
           ss == [i \in DOMAIN t |-> <<Do("ensure", t[i].scope)>>]
<1>1. t \in Seq(TenantRec)
  BY DEF PlanTypes
<1> HIDE DEF t
<1>2. ASSUME NEW x \in TenantRec PROVE <<Do("ensure", x.scope)>> \in Seq(StepOf(p, {"ensure"}))
  <2>1. x.scope \in Places
    BY DEF TenantRec
  <2>2. Do("ensure", x.scope) \in StepSet(p)
    BY <2>1, StepMade
  <2>3. Do("ensure", x.scope) \in StepOf(p, {"ensure"})
    BY <2>2 DEF StepOf, Do
  <2> QED
    BY <2>3, OneHeld
<1>3. ss \in [1..Len(t) -> Seq(StepOf(p, {"ensure"}))]
  BY <1>1, <1>2, SeqAt
<1>4. \A m, n \in {"ensure"} : ~Precedes(m, n)
  BY DEF Precedes
<1>5. Len(t) \in Nat
  BY <1>1, SeqAt
<1> HIDE DEF ss
<1>6. Piece(FlattenSeq(ss), p, {"ensure"})
  BY <1>3, <1>4, <1>5, PieceFlat
<1> QED
  BY <1>6 DEF ss, t

(* The packs an update adds. *)
AddedRefs(p) == IF "packs_add" \in p.ops THEN p.refs ELSE <<>>

LEMMA UpdatePacks ==
    ASSUME NEW p, PlanTypes(p)
    PROVE  AddPacks([p EXCEPT !.refs = AddedRefs(p)]) = (IF "packs_add" \in p.ops THEN AddPacks(p) ELSE <<>>)
<1> DEFINE q == [p EXCEPT !.refs = AddedRefs(p)]
<1>1. q.refs = AddedRefs(p)
  BY DEF PlanTypes
<1>2. AddPacks(q) = When(q.refs # <<>>, <<Do("resolve", None), Do("assign", q.refs)>> \o Each("copy", q.refs) \o Each("link", q.refs))
  BY DEF AddPacks
<1> HIDE DEF q
<1>3. CASE "packs_add" \in p.ops
  <2>1. q.refs = p.refs
    BY <1>1, <1>3 DEF AddedRefs
  <2>2. AddPacks(q) = AddPacks(p)
    BY <1>2, <2>1 DEF AddPacks
  <2> QED
    BY <1>3, <2>2 DEF q
<1>4. CASE "packs_add" \notin p.ops
  <2>1. q.refs = <<>>
    BY <1>1, <1>4 DEF AddedRefs
  <2>2. AddPacks(q) = <<>>
    BY <1>2, <2>1 DEF When
  <2> QED
    BY <1>4, <2>2 DEF q
<1> QED
  BY <1>3, <1>4

LEMMA UpdateSteps ==
    ASSUME NEW p, PlanTypes(p)
    PROVE  /\ execute_update_plan(p) \in Seq(StepSet(p)) /\ Ordered(execute_update_plan(p))
           /\ AddedRefs(p) = <<>> => AddsNone(execute_update_plan(p))
           /\ AddedRefs(p) # <<>> => AddsAll(execute_update_plan(p), p)
           /\ "access_change" \in p.ops => \E u \in Seq(StepSet(p)) : execute_update_plan(p) = u \o apply_access_and_sync(p)
           /\ \E u \in Seq(StepSet(p)) : /\ \A j \in 1..Len(u) : u[j].op \notin {"rule", "scaffold"}
                                        /\ execute_update_plan(p) = u \o When("access_change" \in p.ops, apply_access_and_sync(p))
<1> DEFINE s1 == (IF "packs_add" \in p.ops THEN AddPacks(p) ELSE <<>>)
           s2 == Each("default", p.defaults)
           s3 == When("packs_remove" \in p.ops, Each("unpack", p.packsRemove))
           s4 == Register(AddedRefs(p))
           s5 == When("providers_add" \in p.ops /\ p.providers # <<>>, <<Do("enable", p.providers)>>)
           s6 == When("providers_remove" \in p.ops /\ p.providersRemove # <<>>, <<Do("disable", p.providersRemove)>>)
           s7 == When("tenants_add" \in p.ops, Collect(p.tenants, LAMBDA t : <<Do("ensure", t.scope)>>))
           s8 == When("tenants_remove" \in p.ops, Each("drop", p.tenantsRemove))
           s9 == When("access_change" \in p.ops, apply_access_and_sync(p))
           u2 == s1 \o s2
           u3 == u2 \o s3
           u4 == u3 \o s4
           u5 == u4 \o s5
           u6 == u5 \o s6
           u7 == u6 \o s7
           u8 == u7 \o s8
           u9 == u8 \o s9
<1>1. Piece(s1, p, {"resolve", "assign", "copy", "link"})
  BY AddPacksPiece, NoPiece
<1>2. Piece(s2, p, {"default"})
  <2>1. \A x \in DefaultRec : Do("default", x) \in StepSet(p)
    BY StepMade
  <2>2. ~Precedes("default", "default") /\ p.defaults \in Seq(DefaultRec)
    BY DEF Precedes, PlanTypes
  <2>3. Piece(Each("default", p.defaults), p, {"default"})
    BY <2>1, <2>2, PieceEach
  <2> QED
    BY <2>3
<1>3. Piece(s3, p, {"unpack"})
  <2>1. \A x \in RemovalRec : Do("unpack", x) \in StepSet(p)
    BY StepMade
  <2>2. ~Precedes("unpack", "unpack") /\ p.packsRemove \in Seq(RemovalRec)
    BY DEF Precedes, PlanTypes
  <2>3. Piece(Each("unpack", p.packsRemove), p, {"unpack"})
    BY <2>1, <2>2, PieceEach
  <2> QED
    BY <2>3, NoPiece DEF When
<1>4. Piece(s4, p, {"register"})
  <2>1. Do("register", p.refs) \in StepSet(p)
    BY StepMade
  <2>2. ~Precedes("register", "register")
    BY DEF Precedes
  <2>3. Piece(<<Do("register", p.refs)>>, p, {"register"})
    BY <2>1, <2>2, PieceOne
  <2>4. Register(AddedRefs(p)) = <<>> \/ Register(AddedRefs(p)) = <<Do("register", p.refs)>>
    BY DEF Register, When, AddedRefs
  <2> QED
    BY <2>3, <2>4, NoPiece
<1>5. Piece(s5, p, {"enable"})
  <2>1. Do("enable", p.providers) \in StepSet(p)
    BY StepMade
  <2>2. ~Precedes("enable", "enable")
    BY DEF Precedes
  <2>3. Piece(<<Do("enable", p.providers)>>, p, {"enable"})
    BY <2>1, <2>2, PieceOne
  <2> QED
    BY <2>3, NoPiece DEF When
<1>6. Piece(s6, p, {"disable"})
  <2>1. Do("disable", p.providersRemove) \in StepSet(p)
    BY StepMade
  <2>2. ~Precedes("disable", "disable")
    BY DEF Precedes
  <2>3. Piece(<<Do("disable", p.providersRemove)>>, p, {"disable"})
    BY <2>1, <2>2, PieceOne
  <2> QED
    BY <2>3, NoPiece DEF When
<1>7. Piece(s7, p, {"ensure"})
  <2>1. Piece(FlattenSeq([i \in DOMAIN p.tenants |-> <<Do("ensure", p.tenants[i].scope)>>]), p, {"ensure"})
    BY EnsurePiece
  <2>2. Collect(p.tenants, LAMBDA t : <<Do("ensure", t.scope)>>) = FlattenSeq([i \in DOMAIN p.tenants |-> <<Do("ensure", p.tenants[i].scope)>>])
    BY DEF Collect
  <2> QED
    BY <2>1, <2>2, NoPiece DEF When
<1>8. Piece(s8, p, {"drop"})
  <2>1. \A x \in Places : Do("drop", x) \in StepSet(p)
    BY StepMade
  <2>2. ~Precedes("drop", "drop") /\ p.tenantsRemove \in Seq(Places)
    BY DEF Precedes, PlanTypes
  <2>3. Piece(Each("drop", p.tenantsRemove), p, {"drop"})
    BY <2>1, <2>2, PieceEach
  <2> QED
    BY <2>3, NoPiece DEF When
<1>9. Piece(s9, p, {"ensure", "rule", "sync", "manifest"})
  <2>1. Touching \union Syncing = {"ensure", "rule", "sync", "manifest"}
    BY DEF Touching, Syncing
  <2> QED
    BY <2>1, AccessPiece, NoPiece DEF When
<1>10. execute_update_plan(p) = u9
  BY UpdatePacks DEF execute_update_plan, AddedRefs
<1> HIDE DEF s1, s2, s3, s4, s5, s6, s7, s8, s9
<1>11. Piece(u2, p, {"resolve", "assign", "copy", "link", "default"}) /\ Range(u2) = Range(s1) \union Range(s2)
  <2>1. \A m \in {"resolve", "assign", "copy", "link"}, n \in {"default"} : ~Precedes(n, m)
    BY DEF Precedes
  <2>2. Piece(u2, p, {"resolve", "assign", "copy", "link"} \union {"default"})
    BY <1>1, <1>2, <2>1, PiecesJoined
  <2>3. Range(u2) = Range(s1) \union Range(s2)
    BY <1>1, <1>2, RangeJoined
  <2>4. {"resolve", "assign", "copy", "link"} \union {"default"} = {"resolve", "assign", "copy", "link", "default"}
    OBVIOUS
  <2> QED
    BY <2>2, <2>3, <2>4
<1> HIDE DEF u2
<1>12. Piece(u3, p, {"resolve", "assign", "copy", "link", "default", "unpack"}) /\ Range(u3) = Range(u2) \union Range(s3)
  <2>1. \A m \in {"resolve", "assign", "copy", "link", "default"}, n \in {"unpack"} : ~Precedes(n, m)
    BY DEF Precedes
  <2>2. Piece(u3, p, {"resolve", "assign", "copy", "link", "default"} \union {"unpack"})
    BY <1>11, <1>3, <2>1, PiecesJoined
  <2>3. Range(u3) = Range(u2) \union Range(s3)
    BY <1>11, <1>3, RangeJoined
  <2>4. {"resolve", "assign", "copy", "link", "default"} \union {"unpack"} = {"resolve", "assign", "copy", "link", "default", "unpack"}
    OBVIOUS
  <2> QED
    BY <2>2, <2>3, <2>4
<1> HIDE DEF u3
<1>13. Piece(u4, p, {"resolve", "assign", "copy", "link", "default", "unpack", "register"}) /\ Range(u4) = Range(u3) \union Range(s4)
  <2>1. \A m \in {"resolve", "assign", "copy", "link", "default", "unpack"}, n \in {"register"} : ~Precedes(n, m)
    BY DEF Precedes
  <2>2. Piece(u4, p, {"resolve", "assign", "copy", "link", "default", "unpack"} \union {"register"})
    BY <1>12, <1>4, <2>1, PiecesJoined
  <2>3. Range(u4) = Range(u3) \union Range(s4)
    BY <1>12, <1>4, RangeJoined
  <2>4. {"resolve", "assign", "copy", "link", "default", "unpack"} \union {"register"} = {"resolve", "assign", "copy", "link", "default", "unpack", "register"}
    OBVIOUS
  <2> QED
    BY <2>2, <2>3, <2>4
<1> HIDE DEF u4
<1>14. Piece(u5, p, {"resolve", "assign", "copy", "link", "default", "unpack", "register", "enable"}) /\ Range(u5) = Range(u4) \union Range(s5)
  <2>1. \A m \in {"resolve", "assign", "copy", "link", "default", "unpack", "register"}, n \in {"enable"} : ~Precedes(n, m)
    BY DEF Precedes
  <2>2. Piece(u5, p, {"resolve", "assign", "copy", "link", "default", "unpack", "register"} \union {"enable"})
    BY <1>13, <1>5, <2>1, PiecesJoined
  <2>3. Range(u5) = Range(u4) \union Range(s5)
    BY <1>13, <1>5, RangeJoined
  <2>4. {"resolve", "assign", "copy", "link", "default", "unpack", "register"} \union {"enable"} = {"resolve", "assign", "copy", "link", "default", "unpack", "register", "enable"}
    OBVIOUS
  <2> QED
    BY <2>2, <2>3, <2>4
<1> HIDE DEF u5
<1>15. Piece(u6, p, {"resolve", "assign", "copy", "link", "default", "unpack", "register", "enable", "disable"}) /\ Range(u6) = Range(u5) \union Range(s6)
  <2>1. \A m \in {"resolve", "assign", "copy", "link", "default", "unpack", "register", "enable"}, n \in {"disable"} : ~Precedes(n, m)
    BY DEF Precedes
  <2>2. Piece(u6, p, {"resolve", "assign", "copy", "link", "default", "unpack", "register", "enable"} \union {"disable"})
    BY <1>14, <1>6, <2>1, PiecesJoined
  <2>3. Range(u6) = Range(u5) \union Range(s6)
    BY <1>14, <1>6, RangeJoined
  <2>4. {"resolve", "assign", "copy", "link", "default", "unpack", "register", "enable"} \union {"disable"} = {"resolve", "assign", "copy", "link", "default", "unpack", "register", "enable", "disable"}
    OBVIOUS
  <2> QED
    BY <2>2, <2>3, <2>4
<1> HIDE DEF u6
<1>16. Piece(u7, p, {"resolve", "assign", "copy", "link", "default", "unpack", "register", "enable", "disable", "ensure"}) /\ Range(u7) = Range(u6) \union Range(s7)
  <2>1. \A m \in {"resolve", "assign", "copy", "link", "default", "unpack", "register", "enable", "disable"}, n \in {"ensure"} : ~Precedes(n, m)
    BY DEF Precedes
  <2>2. Piece(u7, p, {"resolve", "assign", "copy", "link", "default", "unpack", "register", "enable", "disable"} \union {"ensure"})
    BY <1>15, <1>7, <2>1, PiecesJoined
  <2>3. Range(u7) = Range(u6) \union Range(s7)
    BY <1>15, <1>7, RangeJoined
  <2>4. {"resolve", "assign", "copy", "link", "default", "unpack", "register", "enable", "disable"} \union {"ensure"} = {"resolve", "assign", "copy", "link", "default", "unpack", "register", "enable", "disable", "ensure"}
    OBVIOUS
  <2> QED
    BY <2>2, <2>3, <2>4
<1> HIDE DEF u7
<1>17. Piece(u8, p, {"resolve", "assign", "copy", "link", "default", "unpack", "register", "enable", "disable", "ensure", "drop"}) /\ Range(u8) = Range(u7) \union Range(s8)
  <2>1. \A m \in {"resolve", "assign", "copy", "link", "default", "unpack", "register", "enable", "disable", "ensure"}, n \in {"drop"} : ~Precedes(n, m)
    BY DEF Precedes
  <2>2. Piece(u8, p, {"resolve", "assign", "copy", "link", "default", "unpack", "register", "enable", "disable", "ensure"} \union {"drop"})
    BY <1>16, <1>8, <2>1, PiecesJoined
  <2>3. Range(u8) = Range(u7) \union Range(s8)
    BY <1>16, <1>8, RangeJoined
  <2>4. {"resolve", "assign", "copy", "link", "default", "unpack", "register", "enable", "disable", "ensure"} \union {"drop"} = {"resolve", "assign", "copy", "link", "default", "unpack", "register", "enable", "disable", "ensure", "drop"}
    OBVIOUS
  <2> QED
    BY <2>2, <2>3, <2>4
<1> HIDE DEF u8
<1>18. Piece(u9, p, {"resolve", "assign", "copy", "link", "default", "unpack", "register", "enable", "disable", "ensure", "drop", "rule", "sync", "manifest"}) /\ Range(u9) = Range(u8) \union Range(s9)
  <2>1. \A m \in {"resolve", "assign", "copy", "link", "default", "unpack", "register", "enable", "disable", "ensure", "drop"}, n \in {"ensure", "rule", "sync", "manifest"} : ~Precedes(n, m)
    BY DEF Precedes
  <2>2. Piece(u9, p, {"resolve", "assign", "copy", "link", "default", "unpack", "register", "enable", "disable", "ensure", "drop"} \union {"ensure", "rule", "sync", "manifest"})
    BY <1>17, <1>9, <2>1, PiecesJoined
  <2>3. Range(u9) = Range(u8) \union Range(s9)
    BY <1>17, <1>9, RangeJoined
  <2>4. {"resolve", "assign", "copy", "link", "default", "unpack", "register", "enable", "disable", "ensure", "drop"} \union {"ensure", "rule", "sync", "manifest"} = {"resolve", "assign", "copy", "link", "default", "unpack", "register", "enable", "disable", "ensure", "drop", "rule", "sync", "manifest"}
    OBVIOUS
  <2> QED
    BY <2>2, <2>3, <2>4
<1> HIDE DEF u9
<1>19. u9 \in Seq(StepSet(p)) /\ Ordered(u9) /\ u8 \in Seq(StepSet(p))
  BY <1>17, <1>18, PieceOps
<1>20. ASSUME AddedRefs(p) = <<>> PROVE AddsNone(u9)
  <2>1. Range(s4) = {}
    BY <1>20, NothingHeld DEF s4, Register, When
  <2>2. Range(s1) = {}
    <3>1. s1 = <<>>
      BY <1>20 DEF s1, AddedRefs, AddPacks, When
    <3> QED
      BY <3>1, NothingHeld
  <2>3. \A st : st \in Range(u9) => \/ st \in Range(s2) \/ st \in Range(s3) \/ st \in Range(s5)
                                    \/ st \in Range(s6) \/ st \in Range(s7) \/ st \in Range(s8) \/ st \in Range(s9)
    BY <1>11, <1>12, <1>13, <1>14, <1>15, <1>16, <1>17, <1>18, <2>1, <2>2
  <2>4. \A st \in Range(s2) : st.op \notin Adding
    BY <1>2, PieceOps DEF Adding
  <2>5. \A st \in Range(s3) : st.op \notin Adding
    BY <1>3, PieceOps DEF Adding
  <2>6. \A st \in Range(s5) \union Range(s6) : st.op \notin Adding
    BY <1>5, <1>6, PieceOps DEF Adding
  <2>7. \A st \in Range(s7) \union Range(s8) : st.op \notin Adding
    BY <1>7, <1>8, PieceOps DEF Adding
  <2>8. \A st \in Range(s9) : st.op \notin Adding
    BY <1>9, PieceOps DEF Adding
  <2> QED
    BY <2>3, <2>4, <2>5, <2>6, <2>7, <2>8 DEF AddsNone
<1>21. ASSUME AddedRefs(p) # <<>> PROVE AddsAll(u9, p)
  <2>0. "packs_add" \in p.ops /\ AddedRefs(p) = p.refs /\ p.refs # <<>>
    BY <1>21 DEF AddedRefs
  <2>1. Do("register", p.refs) \in Range(s4)
    BY <2>0, OneHeld DEF s4, Register, When
  <2>2. /\ Do("assign", p.refs) \in Range(s1)
        /\ \A r \in Range(p.refs) : Do("copy", r) \in Range(s1) /\ Do("link", r) \in Range(s1)
    BY <2>0, AddPacksPiece DEF s1
  <2>3. Range(s1) \subseteq Range(u9) /\ Range(s4) \subseteq Range(u9)
    BY <1>11, <1>12, <1>13, <1>14, <1>15, <1>16, <1>17, <1>18
  <2> QED
    BY <2>0, <2>1, <2>2, <2>3 DEF AddsAll
<1>22. "access_change" \in p.ops => u9 = u8 \o apply_access_and_sync(p)
  BY DEF u9, s9, When
<1>23. \A j \in 1..Len(u8) : u8[j].op \notin {"rule", "scaffold"}
  <2>1. \A j \in 1..Len(u8) : u8[j] \in Range(u8)
    BY <1>19, SeqAt DEF Range
  <2> QED
    BY <1>17, <2>1, PieceOps
<1>24. u9 = u8 \o When("access_change" \in p.ops, apply_access_and_sync(p))
  BY DEF u9, s9
<1> QED
  BY <1>10, <1>19, <1>20, <1>21, <1>22, <1>23, <1>24

LEMMA RemoveSteps ==
    ASSUME NEW p, PlanTypes(p)
    PROVE  /\ execute_remove_plan(p) \in Seq(StepSet(p)) /\ Ordered(execute_remove_plan(p))
           /\ AddsNone(execute_remove_plan(p))
           /\ \A st \in Range(execute_remove_plan(p)) : st.op \in {"unpack", "disable", "drop"}
<1> DEFINE s1 == When("packs" \in p.ops, Each("unpack", p.packsRemove))
           s2 == When("providers" \in p.ops /\ p.providersRemove # <<>>, <<Do("disable", p.providersRemove)>>)
           s3 == When("tenants_teams" \in p.ops, Each("drop", p.tenantsRemove))
           u2 == s1 \o s2
           u3 == u2 \o s3
<1>1. Piece(s1, p, {"unpack"})
  <2>1. \A x \in RemovalRec : Do("unpack", x) \in StepSet(p)
    BY StepMade
  <2>2. ~Precedes("unpack", "unpack") /\ p.packsRemove \in Seq(RemovalRec)
    BY DEF Precedes, PlanTypes
  <2>3. Piece(Each("unpack", p.packsRemove), p, {"unpack"})
    BY <2>1, <2>2, PieceEach
  <2> QED
    BY <2>3, NoPiece DEF When
<1>2. Piece(s2, p, {"disable"})
  <2>1. Do("disable", p.providersRemove) \in StepSet(p)
    BY StepMade
  <2>2. ~Precedes("disable", "disable")
    BY DEF Precedes
  <2>3. Piece(<<Do("disable", p.providersRemove)>>, p, {"disable"})
    BY <2>1, <2>2, PieceOne
  <2> QED
    BY <2>3, NoPiece DEF When
<1>3. Piece(s3, p, {"drop"})
  <2>1. \A x \in Places : Do("drop", x) \in StepSet(p)
    BY StepMade
  <2>2. ~Precedes("drop", "drop") /\ p.tenantsRemove \in Seq(Places)
    BY DEF Precedes, PlanTypes
  <2>3. Piece(Each("drop", p.tenantsRemove), p, {"drop"})
    BY <2>1, <2>2, PieceEach
  <2> QED
    BY <2>3, NoPiece DEF When
<1>4. execute_remove_plan(p) = u3
  BY DEF execute_remove_plan
<1> HIDE DEF s1, s2, s3
<1>5. Piece(u2, p, {"unpack", "disable"}) /\ Range(u2) = Range(s1) \union Range(s2)
  <2>1. \A m \in {"unpack"}, n \in {"disable"} : ~Precedes(n, m)
    BY DEF Precedes
  <2>2. Piece(u2, p, {"unpack"} \union {"disable"})
    BY <1>1, <1>2, <2>1, PiecesJoined
  <2>3. Range(u2) = Range(s1) \union Range(s2)
    BY <1>1, <1>2, RangeJoined
  <2>4. {"unpack"} \union {"disable"} = {"unpack", "disable"}
    OBVIOUS
  <2> QED
    BY <2>2, <2>3, <2>4
<1> HIDE DEF u2
<1>6. Piece(u3, p, {"unpack", "disable", "drop"}) /\ Range(u3) = Range(u2) \union Range(s3)
  <2>1. \A m \in {"unpack", "disable"}, n \in {"drop"} : ~Precedes(n, m)
    BY DEF Precedes
  <2>2. Piece(u3, p, {"unpack", "disable"} \union {"drop"})
    BY <1>5, <1>3, <2>1, PiecesJoined
  <2>3. Range(u3) = Range(u2) \union Range(s3)
    BY <1>5, <1>3, RangeJoined
  <2>4. {"unpack", "disable"} \union {"drop"} = {"unpack", "disable", "drop"}
    OBVIOUS
  <2> QED
    BY <2>2, <2>3, <2>4
<1> HIDE DEF u3
<1>7. u3 \in Seq(StepSet(p)) /\ Ordered(u3) /\ \A st \in Range(u3) : st.op \in {"unpack", "disable", "drop"}
  BY <1>6, PieceOps
<1>8. AddsNone(u3)
  BY <1>7 DEF AddsNone, Adding
<1> QED
  BY <1>4, <1>7, <1>8

(* What the plans have in common. *)
PlanShape(S, p) ==
    /\ S \in Seq(StepSet(p)) /\ Ordered(S)
    /\ AddsNone(S) \/ AddsAll(S, p)
    /\ p.mode = "create" => \A st \in Range(S) : st.op \notin {"unpack", "drop", "disable"}
    /\ p.mode = "create" \/ (p.mode = "update" /\ {"packs_add", "access_change"} \subseteq p.ops) =>
         /\ p.refs # <<>> => AddsAll(S, p)
         /\ \E u \in Seq(StepSet(p)) : S = u \o apply_access_and_sync(p)

LEMMA PlanShaped ==
    ASSUME NEW p, PlanTypes(p)
    PROVE  PlanShape(execute_plan(p), p)
<1>1. CASE p.mode = "create"
  <2>1. execute_plan(p) = execute_create_plan(p)
    BY <1>1 DEF execute_plan
  <2> QED
    BY <1>1, <2>1, CreateSteps DEF PlanShape
<1>2. CASE p.mode = "update"
  <2>1. execute_plan(p) = execute_update_plan(p)
    BY <1>2 DEF execute_plan
  <2> QED
    BY <1>2, <2>1, UpdateSteps DEF PlanShape, AddedRefs
<1>3. CASE p.mode = "remove"
  <2>1. execute_plan(p) = execute_remove_plan(p)
    BY <1>3 DEF execute_plan
  <2> QED
    BY <1>3, <2>1, RemoveSteps DEF PlanShape
<1> QED
  BY <1>1, <1>2, <1>3 DEF PlanTypes

-----------------------------------------------------------------------------
(* What a step changes *)

StepOps == {"scaffold", "resolve", "assign", "copy", "link", "register", "default", "unpack", "enable", "disable",
            "ensure", "drop", "rule", "sync", "manifest", "seed", "webhook"}

(* A bundle has the fields of a bundle. *)
IsBundle(b) ==
    b = [there |-> b.there, yaml |-> b.yaml, meta |-> b.meta, packs |-> b.packs, linked |-> b.linked, registry |-> b.registry,
         registryFile |-> b.registryFile, broken |-> b.broken, defaults |-> b.defaults, dirs |-> b.dirs, files |-> b.files,
         gmap |-> b.gmap, staged |-> b.staged, resolved |-> b.resolved, secrets |-> b.secrets, webhooks |-> b.webhooks]

(* Who leaves a field alone. *)
Untouched(b, e, op) ==
    /\ op # "scaffold" => e.there = b.there /\ e.yaml = b.yaml
    /\ op # "assign" => e.meta = b.meta
    /\ op \notin {"copy", "unpack"} => e.packs = b.packs
    /\ op # "link" => e.linked = b.linked
    /\ op \notin {"register", "enable", "disable"} => e.registry = b.registry
    /\ op \notin {"register", "enable"} => e.registryFile = b.registryFile
    /\ e.broken = b.broken
    /\ op \notin {"default", "unpack", "drop"} => e.defaults = b.defaults
    /\ op \notin {"scaffold", "default", "ensure", "drop", "rule"} => e.dirs = b.dirs
    /\ op \notin {"scaffold", "ensure", "drop", "rule"} => e.files = b.files /\ e.gmap = b.gmap
    /\ op # "sync" => e.staged = b.staged
    /\ op # "manifest" => e.resolved = b.resolved

LEMMA EffectIs ==
    ASSUME NEW b, NEW st
    PROVE  /\ st.op = "scaffold" => Effect(b, st) = create_demo_bundle_structure(b)
           /\ st.op = "resolve" => Effect(b, st) = b
           /\ st.op = "assign" => Effect(b, st) = assign_pack_ids_and_persist_metadata(b, st.x)
           /\ st.op = "copy" => Effect(b, st) = copy_pack_into_bundle(b, st.x)
           /\ st.op = "link" => Effect(b, st) = link_packs_to_provider_dirs(b, st.x)
           /\ st.op = "register" => Effect(b, st) = upsert_provider_registry(b, st.x)
           /\ st.op = "default" => Effect(b, st) = apply_default_assignment(b, st.x)
           /\ st.op = "unpack" => Effect(b, st) = apply_pack_remove(b, st.x)
           /\ st.op = "enable" => Effect(b, st) = upsert_provider_ids(b, st.x)
           /\ st.op = "disable" => Effect(b, st) = remove_provider_ids(b, st.x)
           /\ st.op = "ensure" => Effect(b, st) = ensure_tenant_and_team(b, st.x)
           /\ st.op = "drop" => Effect(b, st) = remove_tenant_or_team(b, st.x)
           /\ st.op = "rule" => Effect(b, st) = PutRule(b, st.x)
           /\ st.op = "sync" => Effect(b, st) = [b EXCEPT !.staged = sync_project(@, b.dirs)]
           /\ st.op = "manifest" => Effect(b, st) = copy_resolved_for_target(b, st.x)
           /\ st.op = "seed" => Effect(b, st) = [b EXCEPT !.secrets = @ \union {st.x}]
           /\ st.op = "webhook" => Effect(b, st) = [b EXCEPT !.webhooks = @ \union {st.x}]
BY DEF Effect

LEMMA EffectUntouched ==
    ASSUME NEW b, IsBundle(b), NEW st, st.op \in StepOps
    PROVE  IsBundle(Effect(b, st)) /\ Untouched(b, Effect(b, st), st.op)
<1> DEFINE e == Effect(b, st)
<1>1. CASE st.op = "scaffold"
  <2>1. e = create_demo_bundle_structure(b)
    BY <1>1, EffectIs
  <2> HIDE DEF e
  <2>2. IsBundle(e)
    BY <2>1 DEF IsBundle, create_demo_bundle_structure, WithScopes
  <2>3. Untouched(b, e, "scaffold")
    BY <2>1 DEF IsBundle, Untouched, create_demo_bundle_structure, WithScopes
  <2> QED
    BY <1>1, <2>2, <2>3 DEF e
<1>2. CASE st.op = "resolve"
  <2>1. e = b
    BY <1>2, EffectIs
  <2> HIDE DEF e
  <2>2. IsBundle(e)
    BY <2>1 DEF IsBundle
  <2>3. Untouched(b, e, "resolve")
    BY <2>1 DEF IsBundle, Untouched
  <2> QED
    BY <1>2, <2>2, <2>3 DEF e
<1>3. CASE st.op = "assign"
  <2>1. e = assign_pack_ids_and_persist_metadata(b, st.x)
    BY <1>3, EffectIs
  <2> HIDE DEF e
  <2>2. IsBundle(e)
    BY <2>1 DEF IsBundle, assign_pack_ids_and_persist_metadata
  <2>3. Untouched(b, e, "assign")
    BY <2>1 DEF IsBundle, Untouched, assign_pack_ids_and_persist_metadata
  <2> QED
    BY <1>3, <2>2, <2>3 DEF e
<1>4. CASE st.op = "copy"
  <2>1. e = copy_pack_into_bundle(b, st.x)
    BY <1>4, EffectIs
  <2> HIDE DEF e
  <2>2. IsBundle(e)
    BY <2>1 DEF IsBundle, copy_pack_into_bundle
  <2>3. Untouched(b, e, "copy")
    BY <2>1 DEF IsBundle, Untouched, copy_pack_into_bundle
  <2> QED
    BY <1>4, <2>2, <2>3 DEF e
<1>5. CASE st.op = "link"
  <2>1. e = link_packs_to_provider_dirs(b, st.x)
    BY <1>5, EffectIs
  <2> HIDE DEF e
  <2>2. IsBundle(e)
    BY <2>1 DEF IsBundle, link_packs_to_provider_dirs
  <2>3. Untouched(b, e, "link")
    BY <2>1 DEF IsBundle, Untouched, link_packs_to_provider_dirs
  <2> QED
    BY <1>5, <2>2, <2>3 DEF e
<1>6. CASE st.op = "register"
  <2>1. e = upsert_provider_registry(b, st.x)
    BY <1>6, EffectIs
  <2> HIDE DEF e
  <2>2. IsBundle(e)
    BY <2>1 DEF IsBundle, upsert_provider_registry
  <2>3. Untouched(b, e, "register")
    BY <2>1 DEF IsBundle, Untouched, upsert_provider_registry
  <2> QED
    BY <1>6, <2>2, <2>3 DEF e
<1>7. CASE st.op = "default"
  <2>1. e = apply_default_assignment(b, st.x)
    BY <1>7, EffectIs
  <2> HIDE DEF e
  <2>2. IsBundle(e)
    BY <2>1 DEF IsBundle, apply_default_assignment
  <2>3. Untouched(b, e, "default")
    BY <2>1 DEF IsBundle, Untouched, apply_default_assignment
  <2> QED
    BY <1>7, <2>2, <2>3 DEF e
<1>8. CASE st.op = "unpack"
  <2>1. e = apply_pack_remove(b, st.x)
    BY <1>8, EffectIs
  <2> HIDE DEF e
  <2>2. IsBundle(e)
    BY <2>1 DEF IsBundle, apply_pack_remove
  <2>3. Untouched(b, e, "unpack")
    BY <2>1 DEF IsBundle, Untouched, apply_pack_remove
  <2> QED
    BY <1>8, <2>2, <2>3 DEF e
<1>9. CASE st.op = "enable"
  <2>1. e = upsert_provider_ids(b, st.x)
    BY <1>9, EffectIs
  <2> HIDE DEF e
  <2>2. IsBundle(e)
    BY <2>1 DEF IsBundle, upsert_provider_ids
  <2>3. Untouched(b, e, "enable")
    BY <2>1 DEF IsBundle, Untouched, upsert_provider_ids
  <2> QED
    BY <1>9, <2>2, <2>3 DEF e
<1>10. CASE st.op = "disable"
  <2>1. e = remove_provider_ids(b, st.x)
    BY <1>10, EffectIs
  <2> HIDE DEF e
  <2>2. IsBundle(e)
    BY <2>1 DEF IsBundle, remove_provider_ids
  <2>3. Untouched(b, e, "disable")
    BY <2>1 DEF IsBundle, Untouched, remove_provider_ids
  <2> QED
    BY <1>10, <2>2, <2>3 DEF e
<1>11. CASE st.op = "ensure"
  <2>1. e = ensure_tenant_and_team(b, st.x)
    BY <1>11, EffectIs
  <2> HIDE DEF e
  <2>2. IsBundle(e)
    BY <2>1 DEF IsBundle, ensure_tenant_and_team, WithScopes
  <2>3. Untouched(b, e, "ensure")
    BY <2>1 DEF IsBundle, Untouched, ensure_tenant_and_team, WithScopes
  <2> QED
    BY <1>11, <2>2, <2>3 DEF e
<1>12. CASE st.op = "drop"
  <2>1. e = remove_tenant_or_team(b, st.x)
    BY <1>12, EffectIs
  <2> HIDE DEF e
  <2>2. IsBundle(e)
    BY <2>1 DEF IsBundle, remove_tenant_or_team
  <2>3. Untouched(b, e, "drop")
    BY <2>1 DEF IsBundle, Untouched, remove_tenant_or_team
  <2> QED
    BY <1>12, <2>2, <2>3 DEF e
<1>13. CASE st.op = "rule"
  <2>1. e = PutRule(b, st.x)
    BY <1>13, EffectIs
  <2> HIDE DEF e
  <2>2. IsBundle(e)
    BY <2>1 DEF IsBundle, PutRule
  <2>3. Untouched(b, e, "rule")
    BY <2>1 DEF IsBundle, Untouched, PutRule
  <2> QED
    BY <1>13, <2>2, <2>3 DEF e
<1>14. CASE st.op = "sync"
  <2>1. e = [b EXCEPT !.staged = sync_project(@, b.dirs)]
    BY <1>14, EffectIs
  <2> HIDE DEF e
  <2>2. IsBundle(e)
    BY <2>1 DEF IsBundle
  <2>3. Untouched(b, e, "sync")
    BY <2>1 DEF IsBundle, Untouched
  <2> QED
    BY <1>14, <2>2, <2>3 DEF e
<1>15. CASE st.op = "manifest"
  <2>1. e = copy_resolved_for_target(b, st.x)
    BY <1>15, EffectIs
  <2> HIDE DEF e
  <2>2. IsBundle(e)
    BY <2>1 DEF IsBundle, copy_resolved_for_target
  <2>3. Untouched(b, e, "manifest")
    BY <2>1 DEF IsBundle, Untouched, copy_resolved_for_target
  <2> QED
    BY <1>15, <2>2, <2>3 DEF e
<1>16. CASE st.op = "seed"
  <2>1. e = [b EXCEPT !.secrets = @ \union {st.x}]
    BY <1>16, EffectIs
  <2> HIDE DEF e
  <2>2. IsBundle(e)
    BY <2>1 DEF IsBundle
  <2>3. Untouched(b, e, "seed")
    BY <2>1 DEF IsBundle, Untouched
  <2> QED
    BY <1>16, <2>2, <2>3 DEF e
<1>17. CASE st.op = "webhook"
  <2>1. e = [b EXCEPT !.webhooks = @ \union {st.x}]
    BY <1>17, EffectIs
  <2> HIDE DEF e
  <2>2. IsBundle(e)
    BY <2>1 DEF IsBundle
  <2>3. Untouched(b, e, "webhook")
    BY <2>1 DEF IsBundle, Untouched
  <2> QED
    BY <1>17, <2>2, <2>3 DEF e
<1> QED
  BY <1>1, <1>2, <1>3, <1>4, <1>5, <1>6, <1>7, <1>8, <1>9, <1>10, <1>11, <1>12, <1>13, <1>14, <1>15, <1>16, <1>17 DEF StepOps

-----------------------------------------------------------------------------
(* packs.json *)

RefsIn(meta) == {m.ref : m \in meta}
AddMeta(meta, ref) ==
    LET id == PackIdFor(meta, ref) IN {m \in meta : m.id # id} \union {[id |-> id, ref |-> ref]}

AssignRun(f, meta, refs, n) == f = [i \in 0..n |-> IF i = 0 THEN meta ELSE AddMeta(f[i - 1], refs[i])]

LEMMA AssignRunExists ==
    ASSUME NEW meta, NEW refs, NEW n \in Nat
    PROVE  \E f : AssignRun(f, meta, refs, n)
<1> DEFINE G == {m \in Nat : \E f : AssignRun(f, meta, refs, m)}
<1>1. 0 \in G
  <2> DEFINE g == [i \in 0..0 |-> meta]
  <2>1. g = [i \in 0..0 |-> IF i = 0 THEN meta ELSE AddMeta(g[i - 1], refs[i])]
    OBVIOUS
  <2> HIDE DEF g
  <2>2. AssignRun(g, meta, refs, 0)
    BY <2>1 DEF AssignRun
  <2> QED
    BY <2>2
<1>2. ASSUME NEW m \in 1..n, m - 1 \in G PROVE m \in G
  <2>1. PICK f : AssignRun(f, meta, refs, m - 1)
    BY <1>2
  <2> DEFINE g == [i \in 0..m |-> IF i = 0 THEN meta ELSE AddMeta(f[i - 1], refs[i])]
  <2>2. \A i \in 0..(m - 1) : g[i] = f[i]
    <3>1. \A i \in 0..(m - 1) : f[i] = IF i = 0 THEN meta ELSE AddMeta(f[i - 1], refs[i])
      BY <2>1, Zenon DEF AssignRun
    <3>2. \A i \in 0..(m - 1) : i \in 0..m
      OBVIOUS
    <3> QED
      BY <3>1, <3>2
  <2>3. ASSUME NEW i \in 0..m PROVE g[i] = IF i = 0 THEN meta ELSE AddMeta(g[i - 1], refs[i])
    <3>1. CASE i = 0
      BY <3>1
    <3>2. CASE i # 0
      <4>1. i - 1 \in 0..(m - 1)
        BY <3>2
      <4>2. g[i - 1] = f[i - 1]
        BY <2>2, <4>1
      <4> QED
        BY <3>2, <4>2
    <3> QED
      BY <3>1, <3>2
  <2>4. AssignRun(g, meta, refs, m)
    BY <2>3 DEF AssignRun
  <2> QED
    BY <2>4
<1>3. n \in G
  <2>1. G \in SUBSET Nat
    OBVIOUS
  <2> HIDE DEF G
  <2>2. \A m \in 0..n : m \in G
    BY <1>1, <1>2, <2>1, InductionUpTo
  <2> QED
    BY <2>2
<1> QED
  BY <1>3

LEMMA AssignIsRun ==
    ASSUME NEW b, NEW refs, Len(refs) \in Nat
    PROVE  \E f : AssignRun(f, b.meta, refs, Len(refs)) /\ assign_pack_ids_and_persist_metadata(b, refs) = [b EXCEPT !.meta = f[Len(refs)]]
<1> DEFINE run == CHOOSE f : AssignRun(f, b.meta, refs, Len(refs))
<1>1. AssignRun(run, b.meta, refs, Len(refs))
  BY AssignRunExists, Zenon
<1>2. assign_pack_ids_and_persist_metadata(b, refs) = [b EXCEPT !.meta = run[Len(refs)]]
  BY Zenon DEF assign_pack_ids_and_persist_metadata, AssignRun, AddMeta
<1> HIDE DEF run
<1> QED
  BY <1>1, <1>2

MetaGood(meta) == meta \in SUBSET MetaRec /\ MetaOk(meta)

LEMMA IdOfKnown ==
    ASSUME NEW meta, MetaGood(meta), NEW r, RefIn(meta, r) # {}
    PROVE  [id |-> IdOf(meta, r), ref |-> r] \in meta
<1>1. PICK m \in RefIn(meta, r) : IdOf(meta, r) = m.id
  BY DEF IdOf
<1>2. m \in meta /\ m.ref = r
  BY <1>1 DEF RefIn
<1>3. m = [id |-> m.id, ref |-> m.ref]
  BY <1>2 DEF MetaGood, MetaRec
<1> QED
  BY <1>1, <1>2, <1>3

(* A new id is of the family, and was free. *)
LEMMA AllocateFits ==
    ASSUME NEW meta, MetaGood(meta), NEW r \in Refs, RefIn(meta, r) = {}
    PROVE  LET used == {m.id : m \in meta}
               i == allocate_unique_pack_id(BaseOf[r], used)
           IN  i \in PackIds /\ i \notin used /\ Family(i) = Family(BaseOf[r]) /\ (i # BaseOf[r] => BaseOf[r] \in used)
<1> DEFINE used == {m.id : m \in meta}
           i == allocate_unique_pack_id(BaseOf[r], used)
           base == BaseOf[r]
           Fits(j) == j \notin used /\ \A k \in base..j-1 : k \in used
<1>1. used \in SUBSET PackIds /\ base \in PackIds /\ base \in Nat /\ RefsIn(meta) \in SUBSET Refs /\ r \notin RefsIn(meta)
  BY Numbers DEF MetaGood, MetaRec, RefsIn, RefIn
<1>2. Cardinality(used) < Cardinality(Refs)
  <2> DEFINE f == [q \in RefsIn(meta) |-> IdOf(meta, q)]
  <2>1. f \in Surjection(RefsIn(meta), used)
    <3>1. ASSUME NEW m \in meta PROVE IdOf(meta, m.ref) = m.id
      <4>1. RefIn(meta, m.ref) # {}
        BY DEF RefIn
      <4>2. [id |-> IdOf(meta, m.ref), ref |-> m.ref] \in meta
        BY <4>1, IdOfKnown
      <4> QED
        BY <4>2 DEF MetaGood, MetaOk
    <3>2. \A q \in RefsIn(meta) : f[q] \in used
      BY <3>1 DEF RefsIn
    <3>3. \A j \in used : \E q \in RefsIn(meta) : f[q] = j
      BY <3>1 DEF RefsIn
    <3>4. f \in [RefsIn(meta) -> used]
      BY <3>2
    <3> HIDE DEF f, used
    <3> QED
      BY <3>3, <3>4 DEF Surjection
  <2>2. IsFiniteSet(Refs) /\ IsFiniteSet(RefsIn(meta))
    BY <1>1, WizardAssumption, FS_Subset
  <2>3. Cardinality(used) <= Cardinality(RefsIn(meta))
    <3> HIDE DEF f, used
    <3> QED
      BY <2>1, <2>2, FS_Surjection
  <2>4. IsFiniteSet(used)
    <3> HIDE DEF f, used
    <3> QED
      BY <2>1, <2>2, FS_Surjection
  <2>5. Cardinality(RefsIn(meta)) <= Cardinality(Refs) /\ Cardinality(RefsIn(meta)) # Cardinality(Refs)
    <3>1. RefsIn(meta) # Refs
      BY <1>1
    <3> QED
      BY <1>1, <2>2, <3>1, FS_Subset
  <2>6. Cardinality(used) \in Nat /\ Cardinality(RefsIn(meta)) \in Nat /\ Cardinality(Refs) \in Nat
    BY <2>2, <2>4, FS_CardinalityType
  <2> QED
    BY <2>3, <2>5, <2>6
<1>3. PICK j \in PackIds : Family(j) = Family(base) /\ j >= base /\ Fits(j)
  <2>1. IdsSuffice
    BY WizardAssumption
  <2> HIDE DEF used
  <2> QED
    BY <1>1, <1>2, <2>1 DEF IdsSuffice
<1>4. i \in {k \in PackIds : k >= base} /\ Fits(i)
  <2>1. i = CHOOSE k \in {k \in PackIds : k >= base} : k \notin used /\ \A h \in base..k-1 : h \in used
    BY DEF allocate_unique_pack_id
  <2> HIDE DEF used
  <2> QED
    BY <1>3, <2>1
<1> HIDE DEF i, used
<1>5. i \in Nat /\ j \in Nat
  BY <1>3, <1>4, Numbers
<1>6. i = j
  <2>1. i < j => i \in base..j-1
    BY <1>1, <1>4, <1>5
  <2>2. j < i => j \in base..i-1
    BY <1>1, <1>3, <1>5
  <2> QED
    BY <1>3, <1>4, <1>5, <2>1, <2>2
<1>7. i # base => base \in base..i-1
  BY <1>1, <1>4, <1>5
<1> QED
  BY <1>3, <1>4, <1>6, <1>7 DEF i, used

(* A reference that gets an id. *)
LEMMA AddKeeps ==
    ASSUME NEW meta, MetaGood(meta), NEW r \in Refs
    PROVE  /\ MetaGood(AddMeta(meta, r)) /\ RefsIn(AddMeta(meta, r)) = RefsIn(meta) \union {r}
           /\ meta \subseteq AddMeta(meta, r)
<1> DEFINE id == PackIdFor(meta, r)
           new == [id |-> id, ref |-> r]
           after == AddMeta(meta, r)
<1>1. after = {m \in meta : m.id # id} \union {new}
  BY DEF AddMeta
<1>2. CASE RefIn(meta, r) # {}
  <2>1. new \in meta
    BY <1>2, IdOfKnown DEF PackIdFor
  <2>2. \A m \in meta : m.id = id => m = new
    BY <2>1 DEF MetaGood, MetaOk
  <2> HIDE DEF new, after, id
  <2>3. after = meta
    BY <1>1, <2>1, <2>2
  <2>4. r \in RefsIn(meta)
    BY <2>1 DEF RefsIn, new
  <2>5. RefsIn(meta) = RefsIn(meta) \union {r}
    BY <2>4
  <2> QED
    BY <2>3, <2>5 DEF after
<1>3. CASE RefIn(meta, r) = {}
  <2> DEFINE used == {m.id : m \in meta}
  <2>1. id = allocate_unique_pack_id(BaseOf[r], used)
    BY <1>3 DEF PackIdFor, derive_pack_id_from_reference
  <2>2. id \in PackIds /\ id \notin used /\ Family(id) = Family(BaseOf[r]) /\ (id # BaseOf[r] => BaseOf[r] \in used)
    BY <1>3, <2>1, AllocateFits, Zenon
  <2>3. /\ new.id = id /\ new.ref = r /\ new \in MetaRec /\ new \notin meta
        /\ \A m \in meta : m.id # id /\ m.ref # r
    BY <1>3, <2>2 DEF RefIn, MetaRec
  <2>4. id # BaseOf[r] => \E o \in meta : o # new /\ o.id = BaseOf[r]
    BY <2>2, <2>3
  <2> HIDE DEF new, after, id, used
  <2>5. after = meta \union {new}
    BY <1>1, <2>3
  <2>6. after \in SUBSET MetaRec
    BY <2>3, <2>5 DEF MetaGood
  <2>7. ASSUME NEW m \in after, NEW n \in after, m.id = n.id \/ m.ref = n.ref PROVE m = n
    BY <2>3, <2>5, <2>7 DEF MetaGood, MetaOk
  <2>8. ASSUME NEW m \in after PROVE Family(m.id) = Family(BaseOf[m.ref])
    BY <2>2, <2>3, <2>5 DEF MetaGood, MetaOk
  <2>9. ASSUME NEW m \in after, m.id # BaseOf[m.ref] PROVE \E o \in after : o # m /\ Family(o.id) = Family(m.id)
    <3>1. CASE m = new
      <4>1. PICK o \in meta : o # new /\ o.id = BaseOf[r]
        BY <2>3, <2>4, <2>9, <3>1
      <4> QED
        BY <2>2, <2>3, <2>5, <3>1, <4>1
    <3>2. CASE m \in meta
      <4>1. PICK o \in meta : o # m /\ Family(o.id) = Family(m.id)
        BY <2>9, <3>2 DEF MetaGood, MetaOk
      <4> QED
        BY <2>5, <4>1
    <3> QED
      BY <2>5, <3>1, <3>2
  <2>10. MetaOk(after)
    BY <2>7, <2>8, <2>9 DEF MetaOk
  <2>11. RefsIn(after) = RefsIn(meta) \union {r}
    BY <2>3, <2>5 DEF RefsIn
  <2> QED
    BY <2>5, <2>6, <2>10, <2>11 DEF MetaGood, after
<1> QED
  BY <1>2, <1>3

LEMMA AssignKeeps ==
    ASSUME NEW b, IsBundle(b), MetaGood(b.meta), NEW refs \in Seq(Refs)
    PROVE  LET e == assign_pack_ids_and_persist_metadata(b, refs)
           IN  MetaGood(e.meta) /\ RefsIn(e.meta) = RefsIn(b.meta) \union Range(refs) /\ b.meta \subseteq e.meta
<1> DEFINE n == Len(refs)
           e == assign_pack_ids_and_persist_metadata(b, refs)
<1>1. n \in Nat /\ DOMAIN refs = 1..n /\ \A i \in 1..n : refs[i] \in Refs
  BY SeqAt
<1>2. PICK f : AssignRun(f, b.meta, refs, n) /\ e = [b EXCEPT !.meta = f[n]]
  BY <1>1, AssignIsRun
<1>3. e.meta = f[n]
  BY <1>2 DEF IsBundle
<1> HIDE DEF e, n
<1>4. \A i \in 0..n : f[i] = IF i = 0 THEN b.meta ELSE AddMeta(f[i - 1], refs[i])
  BY <1>2, Zenon DEF AssignRun
<1> DEFINE Good(m) == /\ MetaGood(f[m]) /\ b.meta \subseteq f[m]
                      /\ \A r : r \in RefsIn(f[m]) <=> r \in RefsIn(b.meta) \/ \E i \in 1..m : refs[i] = r
           G == {m \in Nat : Good(m)}
<1>5. 0 \in G
  <2>1. 0 \in 0..n
    BY <1>1
  <2>2. f[0] = b.meta
    BY <1>4, <2>1
  <2>3. 1..0 = {}
    OBVIOUS
  <2> QED
    BY <2>2, <2>3
<1>6. ASSUME NEW m \in 1..n, m - 1 \in G PROVE m \in G
  <2>0. Good(m - 1)
    BY <1>6
  <2>1. m \in 0..n /\ m # 0 /\ m \in Nat
    BY <1>1
  <2>2. f[m] = AddMeta(f[m - 1], refs[m])
    BY <1>4, <2>1
  <2>3. MetaGood(f[m]) /\ RefsIn(f[m]) = RefsIn(f[m - 1]) \union {refs[m]} /\ f[m - 1] \subseteq f[m]
    BY <1>1, <2>0, <2>2, AddKeeps
  <2>4. \A i : i \in 1..m <=> i \in 1..(m - 1) \/ i = m
    BY <1>1
  <2>5. \A r : r \in RefsIn(f[m]) <=> r \in RefsIn(b.meta) \/ \E i \in 1..m : refs[i] = r
    BY <2>0, <2>3, <2>4
  <2>6. Good(m)
    BY <2>0, <2>3, <2>5
  <2> QED
    BY <2>1, <2>6
<1>7. n \in G
  <2>1. G \in SUBSET Nat
    OBVIOUS
  <2> HIDE DEF G
  <2>2. \A m \in 0..n : m \in G
    BY <1>1, <1>5, <1>6, <2>1, InductionUpTo
  <2> QED
    BY <1>1, <2>2
<1>8. Good(n)
  BY <1>7
<1>9. RefsIn(f[n]) = RefsIn(b.meta) \union Range(refs)
  BY <1>1, <1>8 DEF Range
<1> QED
  BY <1>3, <1>8, <1>9 DEF e

(* Among packs of which no two have names that may come to be the same, one that is
   alone has the id that is derived from its reference, and no other has it. *)
Alone(r, M) == r \in M /\ \A q \in M : ~SameName(r, q)

LEMMA AloneHasName ==
    ASSUME NEW meta, MetaGood(meta), NEW M \in SUBSET Refs, RefsIn(meta) \subseteq M, NEW r, Alone(r, M)
    PROVE  /\ RefIn(meta, r) # {} => IdOf(meta, r) = BaseOf[r]
           /\ canonical_pack_identifier(meta, r) = NameOfPack(r)
           /\ \A q \in M : RefIn(meta, q) # {} /\ IdOf(meta, q) = BaseOf[r] => q = r
<1>1. \A m \in meta : m.ref \in M /\ Family(m.id) = Family(BaseOf[m.ref])
  BY DEF RefsIn, MetaGood, MetaOk
<1>2. ASSUME RefIn(meta, r) # {} PROVE IdOf(meta, r) = BaseOf[r]
  <2> DEFINE m == [id |-> IdOf(meta, r), ref |-> r]
  <2>1. m \in meta /\ m.id = IdOf(meta, r) /\ m.ref = r
    BY <1>2, IdOfKnown
  <2> HIDE DEF m
  <2> SUFFICES ASSUME m.id # BaseOf[r] PROVE FALSE
    BY <2>1
  <2>2. PICK o \in meta : o # m /\ Family(o.id) = Family(m.id)
    BY <2>1 DEF MetaGood, MetaOk
  <2>3. o.ref # r
    BY <2>1, <2>2 DEF MetaGood, MetaOk
  <2>4. SameName(r, o.ref)
    BY <1>1, <2>1, <2>2, <2>3 DEF SameName
  <2> QED
    BY <1>1, <2>2, <2>4 DEF Alone
<1>3. canonical_pack_identifier(meta, r) = NameOfPack(r)
  <2>1. r \in Refs /\ IsRef(r)
    BY Numbers DEF Alone
  <2> QED
    BY <1>2, <2>1 DEF canonical_pack_identifier, NameOfPack, derive_pack_id_from_reference
<1>4. ASSUME NEW q \in M, RefIn(meta, q) # {}, IdOf(meta, q) = BaseOf[r], q # r PROVE FALSE
  <2>1. [id |-> IdOf(meta, q), ref |-> q] \in meta
    BY <1>4, IdOfKnown
  <2>2. Family(BaseOf[r]) = Family(BaseOf[q])
    BY <1>1, <1>4, <2>1
  <2>3. SameName(r, q)
    BY <1>4, <2>2 DEF SameName
  <2> QED
    BY <2>3 DEF Alone
<1> QED
  BY <1>2, <1>3, <1>4

-----------------------------------------------------------------------------
(* What a step makes of the fields it changes. *)

Created(b, ss) == [s \in Places |-> IF s \in ss \ b.files THEN ClosedFile ELSE b.gmap[s]]
RefEntries(b, refs) == {[id |-> IdOf(b.meta, r), ref |-> r, enabled |-> TRUE] : r \in Range(refs)}
RefOf(entries, id) ==
    IF {x \in entries : x.id = id} = {} THEN id ELSE (CHOOSE x \in {x \in entries : x.id = id} : TRUE).ref
IdEntries(b, ids) == {[id |-> id, ref |-> RefOf(b.registry, id), enabled |-> TRUE] : id \in Range(ids)}
Disabled(b, ids) == {IF x.id \in Range(ids) THEN [x EXCEPT !.enabled = FALSE] ELSE x : x \in b.registry}
Applies(b, d) == d.scope # BundleScope /\ b.packs[d.pack] # None

MakesPacks(b, e, st) ==
    /\ st.op = "scaffold" => e.there = TRUE /\ e.yaml = TRUE
    /\ st.op = "copy" => e.packs = [b.packs EXCEPT ![IdOf(b.meta, st.x)] = "whole"]
    /\ st.op = "unpack" => e.packs = [b.packs EXCEPT ![st.x.pack] = None]
    /\ st.op = "link" => LET id == IdOf(b.meta, st.x)
                         IN  e.linked = IF id \in Linkable /\ b.linked[id] = None THEN [b.linked EXCEPT ![id] = b.packs[id]] ELSE b.linked
    /\ st.op = "default" => e.defaults = IF Applies(b, st.x) THEN [b.defaults EXCEPT ![st.x.scope] = st.x.pack] ELSE b.defaults
    /\ st.op = "unpack" => e.defaults = IF st.x.scope = BundleScope THEN b.defaults ELSE [b.defaults EXCEPT ![st.x.scope] = NoPack]
    /\ st.op = "drop" => e.defaults = [x \in DOMAIN b.defaults |-> IF x \in Inside(st.x) THEN NoPack ELSE b.defaults[x]]

MakesRegistry(b, e, st) ==
    /\ st.op = "register" => e.registry = PutEntries(b.registry, RefEntries(b, st.x)) /\ e.registryFile = TRUE
    /\ st.op = "enable" => e.registry = PutEntries(b.registry, IdEntries(b, st.x)) /\ e.registryFile = TRUE
    /\ st.op = "disable" => e.registry = IF b.registryFile THEN Disabled(b, st.x) ELSE b.registry

MakesScopes(b, e, st) ==
    /\ st.op = "scaffold" => e.dirs = b.dirs \union Scaffold /\ e.files = b.files \union Scaffold /\ e.gmap = Created(b, Scaffold)
    /\ st.op = "default" => e.dirs = IF Applies(b, st.x) /\ st.x.scope # <<>> THEN WithDir(b.dirs, st.x.scope) ELSE b.dirs
    /\ st.op = "ensure" => /\ e.dirs = b.dirs \union {Tenant(st.x), st.x} /\ e.files = b.files \union {Tenant(st.x), st.x}
                           /\ e.gmap = Created(b, {Tenant(st.x), st.x})
    /\ st.op = "drop" => /\ e.dirs = b.dirs \ Inside(st.x) /\ e.files = b.files \ Inside(st.x)
                         /\ e.gmap = [x \in Places |-> IF x \in Inside(st.x) THEN EmptyFile ELSE b.gmap[x]]
    /\ st.op = "rule" => /\ e.dirs = WithDir(b.dirs, st.x.scope) /\ e.files = b.files \union {st.x.scope}
                         /\ e.gmap = [b.gmap EXCEPT ![st.x.scope] = upsert_policy(b.gmap[st.x.scope], st.x.path, st.x.policy)]
    /\ st.op = "sync" => e.staged = sync_project(b.staged, b.dirs)
    /\ st.op = "manifest" => e.resolved = IF st.x \in b.staged THEN b.resolved \union {st.x} ELSE b.resolved

LEMMA EffectMakes ==
    ASSUME NEW b, IsBundle(b), NEW st
    PROVE  MakesPacks(b, Effect(b, st), st) /\ MakesRegistry(b, Effect(b, st), st) /\ MakesScopes(b, Effect(b, st), st)
<1> DEFINE e == Effect(b, st)
<1>1. ASSUME st.op = "scaffold"
      PROVE  /\ e.there = TRUE /\ e.yaml = TRUE
             /\ e.dirs = b.dirs \union Scaffold /\ e.files = b.files \union Scaffold /\ e.gmap = Created(b, Scaffold)
  <2>1. e = create_demo_bundle_structure(b)
    BY <1>1, EffectIs
  <2> HIDE DEF e
  <2> QED
    BY <2>1 DEF IsBundle, create_demo_bundle_structure, WithScopes, Created
<1>2. ASSUME st.op = "copy" PROVE e.packs = [b.packs EXCEPT ![IdOf(b.meta, st.x)] = "whole"]
  <2>1. e = copy_pack_into_bundle(b, st.x)
    BY <1>2, EffectIs
  <2> HIDE DEF e
  <2> QED
    BY <2>1 DEF IsBundle, copy_pack_into_bundle
<1>3. ASSUME st.op = "unpack"
      PROVE  /\ e.packs = [b.packs EXCEPT ![st.x.pack] = None]
             /\ e.defaults = IF st.x.scope = BundleScope THEN b.defaults ELSE [b.defaults EXCEPT ![st.x.scope] = NoPack]
  <2>1. e = apply_pack_remove(b, st.x)
    BY <1>3, EffectIs
  <2> HIDE DEF e
  <2> QED
    BY <2>1 DEF IsBundle, apply_pack_remove
<1>4. ASSUME st.op = "link"
      PROVE  LET id == IdOf(b.meta, st.x)
             IN  e.linked = IF id \in Linkable /\ b.linked[id] = None THEN [b.linked EXCEPT ![id] = b.packs[id]] ELSE b.linked
  <2>1. e = link_packs_to_provider_dirs(b, st.x)
    BY <1>4, EffectIs
  <2> HIDE DEF e
  <2> QED
    BY <2>1 DEF IsBundle, link_packs_to_provider_dirs
<1>5. ASSUME st.op = "default"
      PROVE  /\ e.defaults = IF Applies(b, st.x) THEN [b.defaults EXCEPT ![st.x.scope] = st.x.pack] ELSE b.defaults
             /\ e.dirs = IF Applies(b, st.x) /\ st.x.scope # <<>> THEN WithDir(b.dirs, st.x.scope) ELSE b.dirs
  <2>1. e = apply_default_assignment(b, st.x)
    BY <1>5, EffectIs
  <2> HIDE DEF e
  <2> QED
    BY <2>1 DEF IsBundle, apply_default_assignment, Applies
<1>6. ASSUME st.op = "drop"
      PROVE  /\ e.defaults = [x \in DOMAIN b.defaults |-> IF x \in Inside(st.x) THEN NoPack ELSE b.defaults[x]]
             /\ e.dirs = b.dirs \ Inside(st.x) /\ e.files = b.files \ Inside(st.x)
             /\ e.gmap = [x \in Places |-> IF x \in Inside(st.x) THEN EmptyFile ELSE b.gmap[x]]
  <2>1. e = remove_tenant_or_team(b, st.x)
    BY <1>6, EffectIs
  <2> HIDE DEF e
  <2> QED
    BY <2>1 DEF IsBundle, remove_tenant_or_team
<1>7. ASSUME st.op = "register" PROVE e.registry = PutEntries(b.registry, RefEntries(b, st.x)) /\ e.registryFile = TRUE
  <2>1. e = upsert_provider_registry(b, st.x)
    BY <1>7, EffectIs
  <2> HIDE DEF e
  <2> QED
    BY <2>1 DEF IsBundle, upsert_provider_registry, RefEntries
<1>8. ASSUME st.op = "enable" PROVE e.registry = PutEntries(b.registry, IdEntries(b, st.x)) /\ e.registryFile = TRUE
  <2>1. e = upsert_provider_ids(b, st.x)
    BY <1>8, EffectIs
  <2> HIDE DEF e
  <2>2. e = [b EXCEPT !.registry = PutEntries(@, IdEntries(b, st.x)), !.registryFile = TRUE]
    BY <2>1 DEF upsert_provider_ids, IdEntries, RefOf
  <2> QED
    BY <2>2 DEF IsBundle
<1>9. ASSUME st.op = "disable" PROVE e.registry = IF b.registryFile THEN Disabled(b, st.x) ELSE b.registry
  <2>1. e = remove_provider_ids(b, st.x)
    BY <1>9, EffectIs
  <2> HIDE DEF e
  <2>2. e = IF ~b.registryFile THEN b ELSE [b EXCEPT !.registry = Disabled(b, st.x)]
    BY <2>1 DEF remove_provider_ids, Disabled
  <2> QED
    BY <2>2 DEF IsBundle
<1>10. ASSUME st.op = "ensure"
       PROVE  /\ e.dirs = b.dirs \union {Tenant(st.x), st.x} /\ e.files = b.files \union {Tenant(st.x), st.x}
              /\ e.gmap = Created(b, {Tenant(st.x), st.x})
  <2>1. e = ensure_tenant_and_team(b, st.x)
    BY <1>10, EffectIs
  <2> HIDE DEF e
  <2> QED
    BY <2>1 DEF IsBundle, ensure_tenant_and_team, WithScopes, Created
<1>11. ASSUME st.op = "rule"
       PROVE  /\ e.dirs = WithDir(b.dirs, st.x.scope) /\ e.files = b.files \union {st.x.scope}
              /\ e.gmap = [b.gmap EXCEPT ![st.x.scope] = upsert_policy(b.gmap[st.x.scope], st.x.path, st.x.policy)]
  <2>1. e = PutRule(b, st.x)
    BY <1>11, EffectIs
  <2> HIDE DEF e
  <2> QED
    BY <2>1 DEF IsBundle, PutRule
<1>12. ASSUME st.op = "sync" PROVE e.staged = sync_project(b.staged, b.dirs)
  <2>1. e = [b EXCEPT !.staged = sync_project(@, b.dirs)]
    BY <1>12, EffectIs
  <2> HIDE DEF e
  <2> QED
    BY <2>1 DEF IsBundle
<1>13. ASSUME st.op = "manifest" PROVE e.resolved = IF st.x \in b.staged THEN b.resolved \union {st.x} ELSE b.resolved
  <2>1. e = copy_resolved_for_target(b, st.x)
    BY <1>13, EffectIs
  <2> HIDE DEF e
  <2> QED
    BY <2>1 DEF IsBundle, copy_resolved_for_target
<1> HIDE DEF e
<1>14. MakesPacks(b, e, st)
  BY <1>1, <1>2, <1>3, <1>4, <1>5, <1>6 DEF MakesPacks
<1>15. MakesRegistry(b, e, st)
  BY <1>7, <1>8, <1>9 DEF MakesRegistry
<1>16. MakesScopes(b, e, st)
  BY <1>1, <1>5, <1>6, <1>10, <1>11, <1>12, <1>13 DEF MakesScopes
<1> QED
  BY <1>14, <1>15, <1>16 DEF e

-----------------------------------------------------------------------------
(* What the steps of a plan leave *)

LEMMA StepFields ==
    ASSUME NEW p, NEW st \in StepSet(p)
    PROVE  /\ st.op \in StepOps
           /\ st.op \in {"assign", "register"} => st.x = p.refs
           /\ st.op \in {"copy", "link"} => st.x \in Range(p.refs)
           /\ st.op = "default" => st.x \in DefaultRec
           /\ st.op = "unpack" => st.x \in RemovalRec
           /\ st.op = "enable" => st.x = p.providers
           /\ st.op = "disable" => st.x = p.providersRemove
           /\ st.op \in {"ensure", "drop", "manifest"} => st.x \in Places
           /\ st.op = "rule" => st.x \in RuleChange(p)
<1>1. CASE st \in [op : Plain3, x : {None}]
  BY <1>1 DEF Plain3, StepOps
<1>2. CASE st \in [op : {"assign", "register"}, x : {p.refs}]
  BY <1>2 DEF StepOps
<1>3. CASE st \in [op : {"copy", "link"}, x : Range(p.refs)]
  BY <1>3 DEF StepOps
<1>4. CASE st \in Kind("default", DefaultRec) \union Kind("unpack", RemovalRec) \union Kind("enable", {p.providers})
                    \union Kind("disable", {p.providersRemove})
  BY <1>4 DEF StepOps, Kind
<1>5. CASE st \in [op : {"ensure", "drop", "manifest"}, x : Places]
  BY <1>5 DEF StepOps
<1>6. CASE st \in Kind("rule", RuleChange(p))
  BY <1>6 DEF StepOps, Kind
<1>7. CASE st \in [op : {"seed", "webhook"}, x : PackIds \X Places]
  BY <1>7 DEF StepOps
<1> QED
  BY <1>1, <1>2, <1>3, <1>4, <1>5, <1>6, <1>7 DEF StepSet

(* The first of a sequence of steps, and the others. *)
LEMMA TailSeq ==
    ASSUME NEW A, NEW s \in Seq(A), s # <<>>
    PROVE  /\ Head(s) \in A /\ Tail(s) \in Seq(A) /\ Range(s) = {Head(s)} \union Range(Tail(s))
           /\ \A B : FreeOf(s, B) <=> Head(s) \notin B /\ FreeOf(Tail(s), B)
           /\ \A x, B : LastIn(s, x, B) => LastIn(Tail(s), x, B) \/ (Head(s) = x /\ FreeOf(Tail(s), B))
           /\ Ordered(s) => Ordered(Tail(s)) /\ \A y \in Range(Tail(s)) : ~Precedes(y.op, Head(s).op)
<1> DEFINE t == Tail(s)
           n == Len(s)
<1>1. /\ n \in Nat /\ n > 0 /\ Head(s) = s[1] /\ Head(s) \in A /\ t \in Seq(A) /\ Len(t) = n - 1
      /\ DOMAIN s = 1..n /\ DOMAIN t = 1..n-1 /\ \A i \in 1..n-1 : t[i] = s[i + 1]
  OBVIOUS
<1> HIDE DEF t, n
<1>2. \A j \in 1..n : j = 1 \/ (j - 1 \in 1..n-1 /\ s[j] = t[j - 1])
  <2> SUFFICES ASSUME NEW j \in 1..n, j # 1 PROVE j - 1 \in 1..n-1 /\ s[j] = t[j - 1]
    OBVIOUS
  <2>1. j - 1 \in 1..n-1
    BY <1>1
  <2>2. t[j - 1] = s[(j - 1) + 1]
    BY <1>1, <2>1
  <2>3. (j - 1) + 1 = j
    BY <1>1
  <2> QED
    BY <2>1, <2>2, <2>3
<1>3. \A j \in 1..n-1 : j + 1 \in 1..n /\ s[j + 1] = t[j]
  BY <1>1
<1>4. Range(s) = {Head(s)} \union Range(t)
  <2>1. \A x : x \in Range(s) <=> \E j \in 1..n : s[j] = x
    BY <1>1 DEF Range
  <2>2. \A x : x \in Range(t) <=> \E j \in 1..n-1 : t[j] = x
    BY <1>1 DEF Range
  <2>3. 1 \in 1..n
    BY <1>1
  <2> QED
    BY <1>1, <1>2, <1>3, <2>1, <2>2, <2>3
<1>5. ASSUME NEW B PROVE FreeOf(s, B) <=> Head(s) \notin B /\ FreeOf(t, B)
  <2>1. 1 \in 1..n
    BY <1>1
  <2>2. FreeOf(s, B) <=> \A j \in 1..n : s[j] \notin B
    BY DEF FreeOf, n
  <2>3. FreeOf(t, B) <=> \A j \in 1..n-1 : t[j] \notin B
    BY <1>1 DEF FreeOf
  <2> QED
    BY <1>1, <1>2, <1>3, <2>1, <2>2, <2>3
<1>6. ASSUME NEW x, NEW B, LastIn(s, x, B) PROVE LastIn(t, x, B) \/ (Head(s) = x /\ FreeOf(t, B))
  <2>1. PICK j \in 1..n : s[j] = x /\ \A k \in j+1..n : s[k] \notin B
    BY <1>6 DEF LastIn, n
  <2>2. CASE j = 1
    <3>1. \A k \in 1..n-1 : k + 1 \in j+1..n
      BY <1>1, <2>2
    <3>2. \A k \in 1..n-1 : t[k] \notin B
      BY <1>3, <2>1, <3>1
    <3>3. FreeOf(t, B)
      BY <1>1, <3>2 DEF FreeOf
    <3> QED
      BY <1>1, <2>1, <2>2, <3>3
  <2>3. CASE j # 1
    <3>1. j - 1 \in 1..n-1 /\ t[j - 1] = x
      BY <1>2, <2>1, <2>3
    <3>2. \A k \in (j - 1)+1..n-1 : k + 1 \in j+1..n /\ k \in 1..n-1
      BY <1>1, <3>1
    <3>3. \A k \in (j - 1)+1..n-1 : t[k] \notin B
      BY <1>3, <2>1, <3>2
    <3>4. LastIn(t, x, B)
      BY <1>1, <3>1, <3>3 DEF LastIn
    <3> QED
      BY <3>4
  <2> QED
    BY <2>2, <2>3
<1>7. ASSUME Ordered(s) PROVE Ordered(t) /\ \A y \in Range(t) : ~Precedes(y.op, Head(s).op)
  <2>1. \A i, j \in 1..n : i < j => ~Precedes(s[j].op, s[i].op)
    BY <1>7 DEF Ordered, n
  <2>2. \A i, j \in 1..n-1 : i < j => i + 1 \in 1..n /\ j + 1 \in 1..n /\ i + 1 < j + 1
    BY <1>1
  <2>3. Ordered(t)
    BY <1>1, <1>3, <2>1, <2>2 DEF Ordered
  <2>4. \A j \in 1..n-1 : 1 \in 1..n /\ j + 1 \in 1..n /\ 1 < j + 1
    BY <1>1
  <2>5. \A j \in 1..n-1 : ~Precedes(t[j].op, s[1].op)
    BY <1>3, <2>1, <2>4
  <2> QED
    BY <1>1, <2>3, <2>5 DEF Range
<1> QED
  BY <1>1, <1>4, <1>5, <1>6, <1>7 DEF t

-----------------------------------------------------------------------------
(* Bundles as the program makes them *)

Held == {None, "whole", "torn"}
RegistryRec == [id : PackIds, ref : Refs \union PackIds, enabled : BOOLEAN]

OneEach(entries) == \A x, y \in entries : x.id = y.id => x = y

SoundPacks(b) ==
    /\ b.there \in BOOLEAN /\ b.yaml \in BOOLEAN
    /\ b.packs \in [PackIds -> Held] /\ b.linked \in [PackIds -> Held]
    /\ b.defaults \in [Where -> PackIds \union {NoPack}]
SoundRegistry(b) ==
    /\ b.registry \in SUBSET RegistryRec /\ OneEach(b.registry)
    /\ b.registryFile \in BOOLEAN /\ (~b.registryFile => b.registry = {})
SoundScopes(b) ==
    /\ b.dirs \in SUBSET Places /\ b.files \in SUBSET Places /\ b.gmap \in [Places -> FileRec]
    /\ b.staged \in SUBSET Places /\ b.resolved \in SUBSET Places
    /\ \A s \in Places \ b.files : b.gmap[s] = EmptyFile
Sound(b) == IsBundle(b) /\ MetaGood(b.meta) /\ SoundPacks(b) /\ SoundRegistry(b) /\ SoundScopes(b)

(* A step that names packs finds their ids. *)
Finds(b, st) ==
    /\ st.op \in {"copy", "link"} => RefIn(b.meta, st.x) # {}
    /\ st.op = "register" => \A r \in Range(st.x) : RefIn(b.meta, r) # {}

LEMMA ScopesAre ==
    /\ Scaffold \subseteq Places
    /\ \A s \in Places : Tenant(s) \in Places /\ Inside(s) \subseteq Places /\ s \in Inside(s)
    /\ <<>> \in Where /\ Places \subseteq Where /\ \A s \in Where : s = <<>> \/ s \in Places
<1>1. ASSUME NEW s \in Places PROVE s \in Inside(s)
  <2>1. s \in Seq(STRING)
    BY WizardAssumption
  <2>2. IsPrefix(s, s)
    <3>1. DOMAIN s = 1..Len(s) /\ Len(s) \in Nat
      BY <2>1
    <3> QED
      BY <3>1 DEF IsPrefix
  <2> QED
    BY <2>2 DEF Inside
<1> QED
  BY <1>1, WizardAssumption DEF Inside, Where

LEMMA PacksSound ==
    ASSUME NEW p, PlanTypes(p), NEW b, Sound(b), NEW st \in StepSet(p), Finds(b, st)
    PROVE  SoundPacks(Effect(b, st))
<1> DEFINE e == Effect(b, st)
<1>1. MakesPacks(b, e, st) /\ Untouched(b, e, st.op) /\ SoundPacks(b) /\ MetaGood(b.meta)
  BY EffectMakes, EffectUntouched, StepFields DEF Sound
<1> HIDE DEF e
<1>2. e.there \in BOOLEAN /\ e.yaml \in BOOLEAN
  BY <1>1 DEF MakesPacks, Untouched, SoundPacks
<1>3. e.packs \in [PackIds -> Held]
  <2>1. CASE st.op = "copy"
    BY <1>1, <2>1 DEF MakesPacks, SoundPacks, Held
  <2>2. CASE st.op = "unpack"
    BY <1>1, <2>2 DEF MakesPacks, SoundPacks, Held
  <2> QED
    BY <1>1, <2>1, <2>2 DEF Untouched, SoundPacks
<1>4. e.linked \in [PackIds -> Held]
  <2>1. CASE st.op = "link"
    <3> DEFINE id == IdOf(b.meta, st.x)
    <3>1. id \in PackIds
      <4>1. [id |-> id, ref |-> st.x] \in b.meta
        BY <1>1, <2>1, IdOfKnown DEF Finds
      <4> QED
        BY <1>1, <4>1 DEF MetaGood, MetaRec
    <3>2. e.linked = IF id \in Linkable /\ b.linked[id] = None THEN [b.linked EXCEPT ![id] = b.packs[id]] ELSE b.linked
      BY <1>1, <2>1 DEF MakesPacks
    <3> HIDE DEF id
    <3> QED
      BY <1>1, <3>1, <3>2 DEF SoundPacks
  <2> QED
    BY <1>1, <2>1 DEF Untouched, SoundPacks
<1>5. e.defaults \in [Where -> PackIds \union {NoPack}]
  <2>1. CASE st.op = "default"
    <3>1. st.x \in DefaultRec
      BY <2>1, StepFields
    <3>2. e.defaults = IF Applies(b, st.x) THEN [b.defaults EXCEPT ![st.x.scope] = st.x.pack] ELSE b.defaults
      BY <1>1, <2>1 DEF MakesPacks
    <3> QED
      BY <1>1, <3>1, <3>2 DEF DefaultRec, SoundPacks
  <2>2. CASE st.op = "unpack"
    <3>1. e.defaults = IF st.x.scope = BundleScope THEN b.defaults ELSE [b.defaults EXCEPT ![st.x.scope] = NoPack]
      BY <1>1, <2>2 DEF MakesPacks
    <3> QED
      BY <1>1, <3>1 DEF SoundPacks
  <2>3. CASE st.op = "drop"
    <3>1. e.defaults = [x \in DOMAIN b.defaults |-> IF x \in Inside(st.x) THEN NoPack ELSE b.defaults[x]]
      BY <1>1, <2>3 DEF MakesPacks
    <3>2. DOMAIN b.defaults = Where /\ \A x \in Where : b.defaults[x] \in PackIds \union {NoPack}
      BY <1>1 DEF SoundPacks
    <3> QED
      BY <3>1, <3>2
  <2> QED
    BY <1>1, <2>1, <2>2, <2>3 DEF Untouched, SoundPacks
<1> QED
  BY <1>2, <1>3, <1>4, <1>5 DEF SoundPacks, e

LEMMA EntriesPut ==
    ASSUME NEW old \in SUBSET RegistryRec, OneEach(old), NEW new \in SUBSET RegistryRec, OneEach(new)
    PROVE  PutEntries(old, new) \in SUBSET RegistryRec /\ OneEach(PutEntries(old, new))
BY DEF PutEntries, OneEach

LEMMA RefEntriesSound ==
    ASSUME NEW meta, MetaGood(meta), NEW b, b.meta = meta, NEW refs, \A r \in Range(refs) : RefIn(meta, r) # {}
    PROVE  RefEntries(b, refs) \in SUBSET RegistryRec /\ OneEach(RefEntries(b, refs))
<1>1. ASSUME NEW r \in Range(refs) PROVE [id |-> IdOf(meta, r), ref |-> r] \in meta
  BY <1>1, IdOfKnown
<1>2. ASSUME NEW r \in Range(refs) PROVE [id |-> IdOf(meta, r), ref |-> r, enabled |-> TRUE] \in RegistryRec
  BY <1>1, <1>2 DEF MetaGood, MetaRec, RegistryRec
<1>3. ASSUME NEW r \in Range(refs), NEW q \in Range(refs), IdOf(meta, r) = IdOf(meta, q) PROVE r = q
  <2>1. [id |-> IdOf(meta, r), ref |-> r] = [id |-> IdOf(meta, q), ref |-> q]
    BY <1>1, <1>3 DEF MetaGood, MetaOk
  <2> QED
    BY <2>1
<1>4. ASSUME NEW x \in RefEntries(b, refs), NEW y \in RefEntries(b, refs), x.id = y.id PROVE x = y
  <2>1. PICK r \in Range(refs) : x = [id |-> IdOf(meta, r), ref |-> r, enabled |-> TRUE]
    BY <1>4 DEF RefEntries
  <2>2. PICK q \in Range(refs) : y = [id |-> IdOf(meta, q), ref |-> q, enabled |-> TRUE]
    BY <1>4 DEF RefEntries
  <2> QED
    BY <1>3, <1>4, <2>1, <2>2
<1> QED
  BY <1>2, <1>4 DEF RefEntries, OneEach

LEMMA IdEntriesSound ==
    ASSUME NEW b, b.registry \in SUBSET RegistryRec, NEW ids \in Seq(PackIds)
    PROVE  IdEntries(b, ids) \in SUBSET RegistryRec /\ OneEach(IdEntries(b, ids))
<1>1. \A id \in Range(ids) : id \in PackIds
  BY SeqAt DEF Range
<1>2. \A id \in PackIds : RefOf(b.registry, id) \in Refs \union PackIds
  BY DEF RefOf, RegistryRec
<1> DEFINE made(id) == [id |-> id, ref |-> RefOf(b.registry, id), enabled |-> TRUE]
<1>3. \A id \in PackIds : made(id) \in RegistryRec /\ made(id).id = id
  BY <1>2 DEF RegistryRec
<1>4. IdEntries(b, ids) = {made(id) : id \in Range(ids)}
  BY DEF IdEntries
<1> HIDE DEF made
<1> QED
  BY <1>1, <1>3, <1>4 DEF OneEach

LEMMA DisabledSound ==
    ASSUME NEW b, b.registry \in SUBSET RegistryRec, OneEach(b.registry), NEW ids
    PROVE  Disabled(b, ids) \in SUBSET RegistryRec /\ OneEach(Disabled(b, ids))
<1> DEFINE off(x) == IF x.id \in Range(ids) THEN [x EXCEPT !.enabled = FALSE] ELSE x
<1>1. \A x \in b.registry : off(x) \in RegistryRec /\ off(x).id = x.id
  BY DEF RegistryRec
<1>2. Disabled(b, ids) = {off(x) : x \in b.registry}
  BY DEF Disabled
<1> HIDE DEF off
<1> QED
  BY <1>1, <1>2 DEF OneEach

LEMMA RegistrySound ==
    ASSUME NEW p, PlanTypes(p), NEW b, Sound(b), NEW st \in StepSet(p), Finds(b, st)
    PROVE  SoundRegistry(Effect(b, st))
<1> DEFINE e == Effect(b, st)
<1>1. MakesRegistry(b, e, st) /\ Untouched(b, e, st.op) /\ SoundRegistry(b) /\ MetaGood(b.meta)
  BY EffectMakes, EffectUntouched, StepFields DEF Sound
<1> HIDE DEF e
<1>2. CASE st.op = "register"
  <2>1. e.registry = PutEntries(b.registry, RefEntries(b, st.x)) /\ e.registryFile = TRUE
    BY <1>1, <1>2 DEF MakesRegistry
  <2>2. RefEntries(b, st.x) \in SUBSET RegistryRec /\ OneEach(RefEntries(b, st.x))
    BY <1>1, <1>2, RefEntriesSound DEF Finds
  <2> QED
    BY <1>1, <2>1, <2>2, EntriesPut DEF SoundRegistry, e
<1>3. CASE st.op = "enable"
  <2>1. e.registry = PutEntries(b.registry, IdEntries(b, st.x)) /\ e.registryFile = TRUE
    BY <1>1, <1>3 DEF MakesRegistry
  <2>2. st.x \in Seq(PackIds)
    BY <1>3, StepFields DEF PlanTypes
  <2>3. IdEntries(b, st.x) \in SUBSET RegistryRec /\ OneEach(IdEntries(b, st.x))
    BY <1>1, <2>2, IdEntriesSound DEF SoundRegistry
  <2> QED
    BY <1>1, <2>1, <2>3, EntriesPut DEF SoundRegistry, e
<1>4. CASE st.op = "disable"
  <2>1. e.registry = (IF b.registryFile THEN Disabled(b, st.x) ELSE b.registry) /\ e.registryFile = b.registryFile
    BY <1>1, <1>4 DEF MakesRegistry, Untouched
  <2>2. Disabled(b, st.x) \in SUBSET RegistryRec /\ OneEach(Disabled(b, st.x))
    BY <1>1, DisabledSound DEF SoundRegistry
  <2> QED
    BY <1>1, <2>1, <2>2 DEF SoundRegistry, e
<1>5. CASE st.op \notin {"register", "enable", "disable"}
  BY <1>1, <1>5 DEF Untouched, SoundRegistry, e
<1> QED
  BY <1>2, <1>3, <1>4, <1>5

LEMMA ScopesSound ==
    ASSUME NEW p, PlanTypes(p), NEW b, Sound(b), NEW st \in StepSet(p)
    PROVE  SoundScopes(Effect(b, st))
<1> DEFINE e == Effect(b, st)
<1>1. MakesScopes(b, e, st) /\ Untouched(b, e, st.op) /\ SoundScopes(b)
  BY EffectMakes, EffectUntouched, StepFields DEF Sound
<1>2. ClosedFile \in FileRec /\ EmptyFile \in FileRec
  <2>1. <<>> \in Seq(Nat) /\ Rule(<<>>, Forbidden) \in RuleRec
    BY DEF Rule, RuleRec
  <2>2. <<Rule(<<>>, Forbidden)>> \in Seq(RuleRec)
    BY <2>1, OneHeld
  <2> QED
    BY <2>2, EmptyFileGood DEF ClosedFile, FileRec
<1>3. \A ss \in SUBSET Places : /\ Created(b, ss) \in [Places -> FileRec]
                                /\ \A s \in Places \ (b.files \union ss) : Created(b, ss)[s] = EmptyFile
  BY <1>1, <1>2 DEF SoundScopes, Created
<1> HIDE DEF e
<1>4. CASE st.op = "scaffold"
  <2>1. e.dirs = b.dirs \union Scaffold /\ e.files = b.files \union Scaffold /\ e.gmap = Created(b, Scaffold)
    BY <1>1, <1>4 DEF MakesScopes
  <2>2. e.staged = b.staged /\ e.resolved = b.resolved
    BY <1>1, <1>4 DEF Untouched
  <2> QED
    BY <1>1, <1>3, <2>1, <2>2, ScopesAre DEF SoundScopes, e
<1>5. CASE st.op = "default"
  <2>1. e.dirs = IF Applies(b, st.x) /\ st.x.scope # <<>> THEN WithDir(b.dirs, st.x.scope) ELSE b.dirs
    BY <1>1, <1>5 DEF MakesScopes
  <2>2. st.x.scope \in Where
    BY <1>5, StepFields DEF DefaultRec
  <2>3. e.dirs \in SUBSET Places
    BY <1>1, <2>1, <2>2, ScopesAre DEF SoundScopes, WithDir
  <2> QED
    BY <1>1, <1>5, <2>3 DEF Untouched, SoundScopes, e
<1>6. CASE st.op = "ensure"
  <2>1. /\ e.dirs = b.dirs \union {Tenant(st.x), st.x} /\ e.files = b.files \union {Tenant(st.x), st.x}
        /\ e.gmap = Created(b, {Tenant(st.x), st.x})
    BY <1>1, <1>6 DEF MakesScopes
  <2>2. {Tenant(st.x), st.x} \in SUBSET Places
    BY <1>6, StepFields, ScopesAre
  <2>3. e.staged = b.staged /\ e.resolved = b.resolved
    BY <1>1, <1>6 DEF Untouched
  <2> QED
    BY <1>1, <1>3, <2>1, <2>2, <2>3 DEF SoundScopes, e
<1>7. CASE st.op = "drop"
  <2>1. /\ e.dirs = b.dirs \ Inside(st.x) /\ e.files = b.files \ Inside(st.x)
        /\ e.gmap = [x \in Places |-> IF x \in Inside(st.x) THEN EmptyFile ELSE b.gmap[x]]
    BY <1>1, <1>7 DEF MakesScopes
  <2>2. e.staged = b.staged /\ e.resolved = b.resolved
    BY <1>1, <1>7 DEF Untouched
  <2> QED
    BY <1>1, <1>2, <2>1, <2>2 DEF SoundScopes, e
<1>8. CASE st.op = "rule"
  <2> DEFINE s == st.x.scope
             new == upsert_policy(b.gmap[s], st.x.path, st.x.policy)
  <2>1. /\ e.dirs = WithDir(b.dirs, s) /\ e.files = b.files \union {s} /\ e.gmap = [b.gmap EXCEPT ![s] = new]
    BY <1>1, <1>8 DEF MakesScopes
  <2>2. s \in Places /\ st.x.path.names \in Seq(Nat) /\ st.x.policy \in {Public, Forbidden}
    BY <1>8, StepFields DEF RuleChange, PlanPath, PathRec
  <2>3. new \in FileRec
    BY <1>1, <2>2, UpsertKeeps DEF SoundScopes
  <2>4. e.staged = b.staged /\ e.resolved = b.resolved
    BY <1>1, <1>8 DEF Untouched
  <2> HIDE DEF s, new
  <2> QED
    BY <1>1, <2>1, <2>2, <2>3, <2>4, ScopesAre DEF SoundScopes, WithDir, e
<1>9. CASE st.op = "sync"
  <2>1. e.staged = b.staged \union ManifestScopes(b.dirs)
    BY <1>1, <1>9 DEF MakesScopes, sync_project
  <2>2. ManifestScopes(b.dirs) \subseteq b.dirs
    BY DEF ManifestScopes
  <2> QED
    BY <1>1, <1>9, <2>1, <2>2 DEF Untouched, SoundScopes, e
<1>10. CASE st.op = "manifest"
  <2>1. e.resolved = IF st.x \in b.staged THEN b.resolved \union {st.x} ELSE b.resolved
    BY <1>1, <1>10 DEF MakesScopes
  <2> QED
    BY <1>1, <1>10, <2>1 DEF Untouched, SoundScopes, e
<1>11. CASE st.op \notin {"scaffold", "default", "ensure", "drop", "rule", "sync", "manifest"}
  BY <1>1, <1>11 DEF Untouched, SoundScopes, e
<1> QED
  BY <1>4, <1>5, <1>6, <1>7, <1>8, <1>9, <1>10, <1>11

LEMMA EffectSound ==
    ASSUME NEW p, PlanTypes(p), NEW b, Sound(b), NEW st \in StepSet(p), Finds(b, st)
    PROVE  /\ Sound(Effect(b, st)) /\ b.meta \subseteq Effect(b, st).meta
           /\ RefsIn(Effect(b, st).meta) = IF st.op = "assign" THEN RefsIn(b.meta) \union Range(p.refs) ELSE RefsIn(b.meta)
<1> DEFINE e == Effect(b, st)
<1>1. IsBundle(e) /\ Untouched(b, e, st.op) /\ IsBundle(b) /\ MetaGood(b.meta)
  BY EffectUntouched, StepFields DEF Sound
<1>2. /\ MetaGood(e.meta) /\ b.meta \subseteq e.meta
      /\ RefsIn(e.meta) = IF st.op = "assign" THEN RefsIn(b.meta) \union Range(p.refs) ELSE RefsIn(b.meta)
  <2>1. CASE st.op = "assign"
    <3>1. e = assign_pack_ids_and_persist_metadata(b, p.refs)
      BY <2>1, EffectIs, StepFields
    <3> HIDE DEF e
    <3> QED
      BY <1>1, <2>1, <3>1, AssignKeeps DEF PlanTypes
  <2>2. CASE st.op # "assign"
    <3>1. e.meta = b.meta
      BY <1>1, <2>2 DEF Untouched
    <3> QED
      BY <1>1, <2>2, <3>1
  <2> QED
    BY <2>1, <2>2
<1>3. SoundPacks(e) /\ SoundRegistry(e) /\ SoundScopes(e)
  BY PacksSound, RegistrySound, ScopesSound
<1> QED
  BY <1>1, <1>2, <1>3 DEF Sound

(* What a step that is cut short may have done. *)
HalfMade(b, h, st) ==
    /\ IsBundle(h) /\ Untouched(b, h, st.op)
    /\ h.meta = b.meta /\ h.linked = b.linked /\ h.registry = b.registry /\ h.registryFile = b.registryFile /\ h.resolved = b.resolved
    /\ st.op = "scaffold" => /\ h.there = TRUE /\ h.yaml \in {b.yaml, TRUE}
                             /\ \/ h.dirs = b.dirs /\ h.files = b.files /\ h.gmap = b.gmap
                                \/ /\ h.dirs = b.dirs \union {<<"demo">>} /\ h.files = b.files \union {<<"demo">>}
                                   /\ h.gmap = Created(b, {<<"demo">>})
    /\ st.op = "copy" => h.packs = [b.packs EXCEPT ![IdOf(b.meta, st.x)] = "torn"]
    /\ st.op = "unpack" => h.packs = [b.packs EXCEPT ![st.x.pack] = None] /\ h.defaults = b.defaults
    /\ st.op = "default" =>
         /\ Applies(b, st.x) /\ h.defaults \in {b.defaults, [b.defaults EXCEPT ![st.x.scope] = NoPack]}
         /\ h.dirs = IF st.x.scope # <<>> THEN WithDir(b.dirs, st.x.scope) ELSE b.dirs
    /\ st.op = "sync" => \E s \in ManifestScopes(b.dirs) : h.staged = b.staged \union {s}
    /\ st.op = "ensure" => /\ h.dirs = b.dirs \union {Tenant(st.x)} /\ h.files = b.files \union {Tenant(st.x)}
                           /\ h.gmap = Created(b, {Tenant(st.x)})
    /\ st.op = "drop" => /\ h.dirs = b.dirs /\ h.defaults = b.defaults /\ h.files = b.files \ Inside(st.x)
                         /\ h.gmap = [x \in Places |-> IF x \in Inside(st.x) THEN EmptyFile ELSE b.gmap[x]]

LEMMA HalfwayIs ==
    ASSUME NEW b, NEW st, NEW h \in Halfway(b, st)
    PROVE  /\ st.op \in {"scaffold", "copy", "default", "unpack", "sync", "ensure", "drop"}
           /\ st.op = "scaffold" => h = [b EXCEPT !.there = TRUE] \/ h = WithScopes([b EXCEPT !.there = TRUE, !.yaml = TRUE], {<<"demo">>})
           /\ st.op = "copy" => h = [b EXCEPT !.packs[IdOf(b.meta, st.x)] = "torn"]
           /\ st.op = "default" => h \in HalfDefault(b, st.x)
           /\ st.op = "unpack" => h = [b EXCEPT !.packs[st.x.pack] = None]
           /\ st.op = "sync" => \E s \in ManifestScopes(b.dirs) : h = [b EXCEPT !.staged = @ \union {s}]
           /\ st.op = "ensure" => h = WithScopes(b, {Tenant(st.x)})
           /\ st.op = "drop" => h = [b EXCEPT !.files = @ \ Inside(st.x),
                                              !.gmap = [x \in Places |-> IF x \in Inside(st.x) THEN EmptyFile ELSE @[x]]]
BY DEF Halfway

LEMMA HalfwayMakes ==
    ASSUME NEW b, IsBundle(b), b.defaults \in [Where -> PackIds \union {NoPack}], NEW st, NEW h \in Halfway(b, st)
    PROVE  HalfMade(b, h, st)
<1>1. CASE st.op = "scaffold"
  <2>1. CASE h = [b EXCEPT !.there = TRUE]
    <3>1. IsBundle(h)
      BY <2>1 DEF IsBundle
    <3>2. HalfMade(b, h, [op |-> "scaffold", x |-> st.x])
      BY <2>1, <3>1 DEF IsBundle, HalfMade, Untouched
    <3> QED
      BY <1>1, <3>2 DEF HalfMade
  <2>2. CASE h = WithScopes([b EXCEPT !.there = TRUE, !.yaml = TRUE], {<<"demo">>})
    <3>1. IsBundle(h)
      BY <2>2 DEF IsBundle, WithScopes
    <3>2. HalfMade(b, h, [op |-> "scaffold", x |-> st.x])
      BY <2>2, <3>1 DEF IsBundle, HalfMade, Untouched, WithScopes, Created
    <3> QED
      BY <1>1, <3>2 DEF HalfMade
  <2> QED
    BY <1>1, <2>1, <2>2, HalfwayIs
<1>2. CASE st.op = "copy"
  <2>1. h = [b EXCEPT !.packs[IdOf(b.meta, st.x)] = "torn"]
    BY <1>2, HalfwayIs
  <2>2. IsBundle(h)
    BY <2>1 DEF IsBundle
  <2> QED
    BY <1>2, <2>1, <2>2 DEF IsBundle, HalfMade, Untouched
<1>3. CASE st.op = "default"
  <2> DEFINE made == apply_default_assignment(b, st.x)
             f == [b.defaults EXCEPT ![st.x.scope] = st.x.pack]
             ds == IF st.x.scope # <<>> THEN WithDir(b.dirs, st.x.scope) ELSE b.dirs
  <2>1. made # b /\ (h = [b EXCEPT !.dirs = made.dirs] \/ h = [made EXCEPT !.defaults[st.x.scope] = NoPack])
    BY <1>3, HalfwayIs, ZenonT(60) DEF HalfDefault, If
  <2>2. Applies(b, st.x) /\ made = [b EXCEPT !.defaults[st.x.scope] = st.x.pack,
                                              !.dirs = IF st.x.scope = <<>> THEN @ ELSE WithDir(@, st.x.scope)]
    BY <2>1 DEF apply_default_assignment, Applies
  <2> HIDE DEF made
  <2>3. IsBundle(made) /\ made.dirs = ds /\ made.defaults = f
    BY <2>2 DEF IsBundle
  <2>4. [f EXCEPT ![st.x.scope] = NoPack] = [b.defaults EXCEPT ![st.x.scope] = NoPack]
    OBVIOUS
  <2>5. CASE h = [b EXCEPT !.dirs = made.dirs]
    <3>1. IsBundle(h) /\ h.dirs = ds /\ h.defaults = b.defaults
      BY <2>3, <2>5 DEF IsBundle
    <3>2. Untouched(b, h, "default") /\ h.meta = b.meta /\ h.linked = b.linked /\ h.registry = b.registry /\ h.registryFile = b.registryFile /\ h.resolved = b.resolved
      BY <2>3, <2>5 DEF IsBundle, Untouched
    <3> HIDE DEF ds, f
    <3> QED
      BY <1>3, <2>2, <3>1, <3>2 DEF HalfMade, ds
  <2>6. CASE h = [made EXCEPT !.defaults[st.x.scope] = NoPack]
    <3>1. IsBundle(h) /\ h.dirs = ds /\ h.defaults = [f EXCEPT ![st.x.scope] = NoPack]
      BY <2>3, <2>6 DEF IsBundle
    <3>2. Untouched(b, h, "default") /\ h.meta = b.meta /\ h.linked = b.linked /\ h.registry = b.registry /\ h.registryFile = b.registryFile /\ h.resolved = b.resolved
      BY <2>2, <2>6 DEF IsBundle, Untouched
    <3> HIDE DEF ds, f
    <3> QED
      BY <1>3, <2>2, <2>4, <3>1, <3>2 DEF HalfMade, ds
  <2> QED
    BY <2>1, <2>5, <2>6
<1>4. CASE st.op = "unpack"
  <2>1. h = [b EXCEPT !.packs[st.x.pack] = None]
    BY <1>4, HalfwayIs
  <2>2. IsBundle(h)
    BY <2>1 DEF IsBundle
  <2> QED
    BY <1>4, <2>1, <2>2 DEF IsBundle, HalfMade, Untouched
<1>5. CASE st.op = "sync"
  <2>1. PICK s \in ManifestScopes(b.dirs) : h = [b EXCEPT !.staged = @ \union {s}]
    BY <1>5 DEF Halfway
  <2>2. IsBundle(h) /\ h.staged = b.staged \union {s}
    BY <2>1 DEF IsBundle
  <2>3. Untouched(b, h, "sync") /\ h.meta = b.meta /\ h.linked = b.linked /\ h.registry = b.registry /\ h.registryFile = b.registryFile /\ h.resolved = b.resolved
    BY <2>1 DEF IsBundle, Untouched
  <2> QED
    BY <1>5, <2>2, <2>3 DEF HalfMade
<1>6. CASE st.op = "ensure"
  <2>1. h = WithScopes(b, {Tenant(st.x)})
    BY <1>6, HalfwayIs
  <2>2. IsBundle(h)
    BY <2>1 DEF IsBundle, WithScopes
  <2> QED
    BY <1>6, <2>1, <2>2 DEF IsBundle, HalfMade, Untouched, WithScopes, Created
<1>7. CASE st.op = "drop"
  <2>1. h = [b EXCEPT !.files = @ \ Inside(st.x), !.gmap = [x \in Places |-> IF x \in Inside(st.x) THEN EmptyFile ELSE @[x]]]
    BY <1>7 DEF Halfway
  <2>2. IsBundle(h)
    BY <2>1 DEF IsBundle
  <2> QED
    BY <1>7, <2>1, <2>2 DEF IsBundle, HalfMade, Untouched
<1> QED
  BY <1>1, <1>2, <1>3, <1>4, <1>5, <1>6, <1>7, HalfwayIs

LEMMA FilesGood == ClosedFile \in FileRec /\ Unique(ClosedFile.rules) /\ EmptyFile \in FileRec /\ Unique(EmptyFile.rules) /\ EmptySays
<1>1. <<>> \in Seq(Nat) /\ Rule(<<>>, Forbidden) \in RuleRec
  BY DEF Rule, RuleRec
<1>2. <<Rule(<<>>, Forbidden)>> \in Seq(RuleRec) /\ DOMAIN <<Rule(<<>>, Forbidden)>> = {1}
  BY <1>1, OneHeld
<1>3. ClosedFile \in FileRec /\ Unique(ClosedFile.rules)
  BY <1>2 DEF ClosedFile, FileRec, Unique
<1> QED
  BY <1>3, EmptyFileGood

LEMMA CreatedSound ==
    ASSUME NEW b, b.gmap \in [Places -> FileRec], NEW ss \in SUBSET Places
    PROVE  /\ Created(b, ss) \in [Places -> FileRec]
           /\ (\A s \in Places \ b.files : b.gmap[s] = EmptyFile) => \A s \in Places \ (b.files \union ss) : Created(b, ss)[s] = EmptyFile
BY FilesGood DEF Created

LEMMA HalfwaySound ==
    ASSUME NEW p, PlanTypes(p), NEW b, Sound(b), NEW st \in StepSet(p), NEW h \in Halfway(b, st)
    PROVE  Sound(h) /\ HalfMade(b, h, st)
<1>1. HalfMade(b, h, st)
  BY HalfwayMakes DEF Sound, SoundPacks
<1>2. SoundPacks(b) /\ SoundRegistry(b) /\ SoundScopes(b) /\ Untouched(b, h, st.op) /\ MetaGood(b.meta)
  BY <1>1 DEF Sound, HalfMade
<1>3. SoundRegistry(h) /\ MetaGood(h.meta) /\ IsBundle(h)
  BY <1>1, <1>2 DEF HalfMade, SoundRegistry
<1>4. SoundPacks(h)
  <2>1. h.there \in BOOLEAN /\ h.yaml \in BOOLEAN
    BY <1>1, <1>2 DEF HalfMade, Untouched, SoundPacks
  <2>2. h.packs \in [PackIds -> Held] /\ h.linked \in [PackIds -> Held]
    <3>1. CASE st.op = "copy"
      BY <1>1, <1>2, <3>1 DEF HalfMade, SoundPacks, Held
    <3>2. CASE st.op = "unpack"
      BY <1>1, <1>2, <3>2 DEF HalfMade, SoundPacks, Held
    <3> QED
      BY <1>1, <1>2, <3>1, <3>2 DEF HalfMade, Untouched, SoundPacks
  <2>3. h.defaults \in [Where -> PackIds \union {NoPack}]
    <3>1. CASE st.op = "default"
      <4>1. h.defaults \in {b.defaults, [b.defaults EXCEPT ![st.x.scope] = NoPack]}
        BY <1>1, <3>1 DEF HalfMade
      <4> QED
        BY <1>2, <4>1 DEF SoundPacks
    <3> QED
      BY <1>1, <1>2, <3>1 DEF HalfMade, Untouched, SoundPacks
  <2> QED
    BY <2>1, <2>2, <2>3 DEF SoundPacks
<1>5. SoundScopes(h)
  <2>1. CASE st.op = "scaffold"
    <3>1. {<<"demo">>} \in SUBSET Places
      BY ScopesAre DEF Scaffold
    <3>2. h.staged = b.staged /\ h.resolved = b.resolved
      BY <1>2, <2>1 DEF Untouched
    <3>3. CASE h.dirs = b.dirs /\ h.files = b.files /\ h.gmap = b.gmap
      BY <1>2, <3>2, <3>3 DEF SoundScopes
    <3>4. CASE h.dirs = b.dirs \union {<<"demo">>} /\ h.files = b.files \union {<<"demo">>} /\ h.gmap = Created(b, {<<"demo">>})
      BY <1>2, <3>1, <3>2, <3>4, CreatedSound DEF SoundScopes
    <3> QED
      BY <1>1, <2>1, <3>3, <3>4 DEF HalfMade
  <2>2. CASE st.op = "default"
    <3>1. st.x.scope \in Where /\ h.dirs = IF st.x.scope # <<>> THEN WithDir(b.dirs, st.x.scope) ELSE b.dirs
      BY <1>1, <2>2, StepFields DEF HalfMade, DefaultRec
    <3>2. h.dirs \in SUBSET Places
      BY <1>2, <3>1, ScopesAre DEF SoundScopes, WithDir
    <3> QED
      BY <1>2, <2>2, <3>2 DEF Untouched, SoundScopes
  <2>3. CASE st.op = "sync"
    <3>1. PICK s \in ManifestScopes(b.dirs) : h.staged = b.staged \union {s}
      BY <1>1, <2>3 DEF HalfMade
    <3>2. s \in b.dirs
      BY <3>1 DEF ManifestScopes
    <3> QED
      BY <1>2, <2>3, <3>1, <3>2 DEF Untouched, SoundScopes
  <2>4. CASE st.op = "ensure"
    <3>1. {Tenant(st.x)} \in SUBSET Places
      BY <2>4, StepFields, ScopesAre
    <3>2. h.staged = b.staged /\ h.resolved = b.resolved
      BY <1>2, <2>4 DEF Untouched
    <3>3. h.dirs = b.dirs \union {Tenant(st.x)} /\ h.files = b.files \union {Tenant(st.x)} /\ h.gmap = Created(b, {Tenant(st.x)})
      BY <1>1, <2>4 DEF HalfMade
    <3> QED
      BY <1>2, <3>1, <3>2, <3>3, CreatedSound DEF SoundScopes
  <2>5. CASE st.op = "drop"
    <3>1. h.staged = b.staged /\ h.resolved = b.resolved
      BY <1>2, <2>5 DEF Untouched
    <3>2. /\ h.dirs = b.dirs /\ h.files = b.files \ Inside(st.x)
          /\ h.gmap = [x \in Places |-> IF x \in Inside(st.x) THEN EmptyFile ELSE b.gmap[x]]
      BY <1>1, <2>5 DEF HalfMade
    <3> QED
      BY <1>2, <3>1, <3>2, FilesGood DEF SoundScopes
  <2>6. CASE st.op \notin {"scaffold", "default", "ensure", "drop", "rule", "sync", "manifest"}
    BY <1>2, <2>6 DEF Untouched, SoundScopes
  <2> QED
    BY <2>1, <2>2, <2>3, <2>4, <2>5, <2>6, HalfwayIs
<1> QED
  BY <1>1, <1>3, <1>4, <1>5 DEF Sound

(* The bundle a run begins with. *)
LEMMA BaseSound ==
    ASSUME NEW b, Sound(b)
    PROVE  /\ Sound(Base(b)) /\ RefsIn(Base(b).meta) \subseteq RefsIn(b.meta)
           /\ (\A s \in Places : Unique(b.gmap[s].rules)) => \A s \in Places : Unique(Base(b).gmap[s].rules)
<1>1. CASE answers.mode = "create"
  <2> DEFINE e == [NoBundle EXCEPT !.webhooks = b.webhooks]
  <2>1. Base(b) = e
    BY <1>1 DEF Base
  <2>2. IsBundle(e)
    <3>1. IsBundle(NoBundle)
      BY Zenon DEF IsBundle, NoBundle
    <3> QED
      BY <3>1 DEF IsBundle
  <2>3. /\ e.there = FALSE /\ e.yaml = FALSE /\ e.meta = {} /\ e.packs = [i \in PackIds |-> None] /\ e.linked = [i \in PackIds |-> None]
        /\ e.registry = {} /\ e.registryFile = FALSE /\ e.defaults = [s \in Where |-> NoPack] /\ e.dirs = {} /\ e.files = {}
        /\ e.gmap = [s \in Places |-> EmptyFile] /\ e.staged = {} /\ e.resolved = {}
    BY DEF NoBundle, Where
  <2> HIDE DEF e
  <2>4. MetaGood(e.meta)
    BY <2>3 DEF MetaGood, MetaOk
  <2>5. SoundPacks(e)
    BY <2>3 DEF SoundPacks, Held
  <2>6. SoundRegistry(e)
    BY <2>3 DEF SoundRegistry, OneEach
  <2>7. SoundScopes(e)
    BY <2>3, FilesGood DEF SoundScopes
  <2>8. RefsIn(e.meta) = {}
    BY <2>3 DEF RefsIn
  <2> QED
    BY <2>1, <2>2, <2>3, <2>4, <2>5, <2>6, <2>7, <2>8, FilesGood DEF Sound
<1>2. CASE answers.mode # "create"
  <2>1. Base(b) = b
    BY <1>2 DEF Base
  <2> QED
    BY <2>1
<1> QED
  BY <1>1, <1>2

-----------------------------------------------------------------------------
(* The steps that are left of a run *)

Assigned(b, t, p) == Do("assign", p.refs) \in Range(t) \/ Range(p.refs) \subseteq RefsIn(b.meta) \/ AddsNone(t)
RunGood(b, t, p) == Sound(b) /\ PlanTypes(p) /\ t \in Seq(StepSet(p)) /\ Ordered(t) /\ Assigned(b, t, p)

(* The step is done, or, if it need not be, left out. *)
Moves(b, e, st) == e = Effect(b, st) \/ (Optional(st) /\ e = b)

LEMMA KnownRefs == \A meta, r : r \in RefsIn(meta) <=> RefIn(meta, r) # {}
BY DEF RefsIn, RefIn

LEMMA RunStarts ==
    ASSUME NEW p, PlanTypes(p), NEW b, Sound(b)
    PROVE  RunGood(b, execute_plan(p), p)
BY PlanShaped DEF PlanShape, RunGood, Assigned, AddsAll

LEMMA RunFinds ==
    ASSUME NEW b, NEW t, NEW p, RunGood(b, t, p), t # <<>>
    PROVE  Head(t) \in StepSet(p) /\ Finds(b, Head(t))
<1> DEFINE st == Head(t)
<1>1. t \in Seq(StepSet(p)) /\ Ordered(t) /\ Assigned(b, t, p)
  BY DEF RunGood
<1>2. /\ st \in StepSet(p) /\ Range(t) = {st} \union Range(Tail(t))
      /\ \A y \in Range(Tail(t)) : ~Precedes(y.op, st.op)
  BY <1>1, TailSeq
<1> HIDE DEF st
<1>3. ASSUME st.op \in {"copy", "link", "register"} PROVE Range(p.refs) \subseteq RefsIn(b.meta)
  <2>1. Do("assign", p.refs).op = "assign"
    BY DEF Do
  <2>2. Do("assign", p.refs) \notin Range(t)
    BY <1>2, <1>3, <2>1 DEF Precedes
  <2>3. ~AddsNone(t)
    BY <1>2, <1>3 DEF AddsNone, Adding
  <2> QED
    BY <1>1, <2>2, <2>3 DEF Assigned
<1>4. /\ st.op \in {"copy", "link"} => st.x \in Range(p.refs)
      /\ st.op = "register" => st.x = p.refs
  BY <1>2, StepFields
<1>5. Finds(b, st)
  BY <1>3, <1>4, KnownRefs DEF Finds
<1> QED
  BY <1>2, <1>5 DEF st

LEMMA OptionalIs == \A b, e, st : Moves(b, e, st) /\ st.op \notin {"seed", "webhook"} => e = Effect(b, st)
BY DEF Moves, Optional

LEMMA RunSteps ==
    ASSUME NEW b, NEW t, NEW p, RunGood(b, t, p), t # <<>>, NEW e, Moves(b, e, Head(t))
    PROVE  /\ RunGood(e, Tail(t), p) /\ RefsIn(e.meta) \subseteq RefsIn(b.meta) \union Range(p.refs)
           /\ Untouched(b, e, Head(t).op) /\ RefsIn(b.meta) \subseteq RefsIn(e.meta)
<1> DEFINE st == Head(t)
<1>1. PlanTypes(p) /\ t \in Seq(StepSet(p)) /\ Ordered(t) /\ Assigned(b, t, p) /\ Sound(b)
  BY DEF RunGood
<1>2. /\ st \in StepSet(p) /\ Tail(t) \in Seq(StepSet(p)) /\ Range(t) = {st} \union Range(Tail(t)) /\ Ordered(Tail(t))
  BY <1>1, TailSeq
<1>3. Finds(b, st)
  BY RunFinds
<1>0. Moves(b, e, st)
  OBVIOUS
<1> HIDE DEF st
<1>4. /\ Sound(e) /\ RefsIn(e.meta) \subseteq RefsIn(b.meta) \union Range(p.refs)
      /\ RefsIn(b.meta) \subseteq RefsIn(e.meta) /\ (st.op = "assign" => Range(p.refs) \subseteq RefsIn(e.meta))
  <2>1. CASE e = Effect(b, st)
    <3>1. /\ Sound(e) /\ b.meta \subseteq e.meta
          /\ RefsIn(e.meta) = IF st.op = "assign" THEN RefsIn(b.meta) \union Range(p.refs) ELSE RefsIn(b.meta)
      BY <1>1, <1>2, <1>3, <2>1, EffectSound
    <3> QED
      BY <3>1
  <2>2. CASE Optional(st) /\ e = b
    BY <1>1, <2>2 DEF Optional
  <2> QED
    BY <1>0, <2>1, <2>2 DEF Moves
<1>5. Untouched(b, e, st.op)
  <2>1. CASE e = Effect(b, st)
    BY <1>1, <1>2, <2>1, EffectUntouched, StepFields DEF Sound
  <2>2. CASE Optional(st) /\ e = b
    BY <2>2 DEF Untouched
  <2> QED
    BY <1>0, <2>1, <2>2 DEF Moves
<1>6. Assigned(e, Tail(t), p)
  <2>1. CASE Do("assign", p.refs) \in Range(t)
    <3>1. CASE Do("assign", p.refs) = st
      <4>1. st.op = "assign"
        BY <3>1 DEF Do
      <4> QED
        BY <1>4, <4>1 DEF Assigned
    <3> QED
      BY <1>2, <2>1, <3>1 DEF Assigned
  <2>2. CASE Range(p.refs) \subseteq RefsIn(b.meta)
    BY <1>4, <2>2 DEF Assigned
  <2>3. CASE AddsNone(t)
    BY <1>2, <2>3 DEF Assigned, AddsNone
  <2> QED
    BY <1>1, <2>1, <2>2, <2>3 DEF Assigned
<1> QED
  BY <1>1, <1>2, <1>4, <1>5, <1>6 DEF RunGood, st

(* In files of which a path is in one rule at most, a path that is spelled as they do is put in one. *)
OnePerPath(b) == \A s \in Places : Unique(b.gmap[s].rules)

LEMMA OneKept ==
    ASSUME NEW p, PlanTypes(p), NEW b, Sound(b), OnePerPath(b), NEW st \in StepSet(p), st.op = "rule" => st.x.path.plain
    PROVE  OnePerPath(Effect(b, st))
<1> DEFINE e == Effect(b, st)
<1>1. MakesScopes(b, e, st) /\ Untouched(b, e, st.op) /\ SoundScopes(b)
  BY EffectMakes, EffectUntouched, StepFields DEF Sound
<1> HIDE DEF e
<1>2. \A ss : \A s \in Places : Unique(Created(b, ss)[s].rules)
  BY FilesGood DEF Created, OnePerPath
<1>3. CASE st.op = "scaffold" \/ st.op = "ensure"
  BY <1>1, <1>2, <1>3 DEF MakesScopes, OnePerPath, e
<1>4. CASE st.op = "drop"
  <2>1. e.gmap = [x \in Places |-> IF x \in Inside(st.x) THEN EmptyFile ELSE b.gmap[x]]
    BY <1>1, <1>4 DEF MakesScopes
  <2> QED
    BY <2>1, FilesGood DEF OnePerPath, e
<1>5. CASE st.op = "rule"
  <2> DEFINE new == upsert_policy(b.gmap[st.x.scope], st.x.path, st.x.policy)
  <2>1. e.gmap = [b.gmap EXCEPT ![st.x.scope] = new]
    BY <1>1, <1>5 DEF MakesScopes
  <2>2. st.x.scope \in Places /\ st.x.path.names \in Seq(Nat) /\ st.x.policy \in {Public, Forbidden}
    BY <1>5, StepFields DEF RuleChange, PlanPath, PathRec
  <2>3. Unique(new.rules)
    <3> DEFINE file == b.gmap[st.x.scope]
               meant == st.x.path
               set == st.x.policy
    <3>1. file \in FileRec /\ meant.names \in Seq(Nat) /\ set \in {Public, Forbidden} /\ Unique(file.rules) /\ meant.plain
      BY <1>1, <1>5, <2>2 DEF SoundScopes, OnePerPath
    <3> HIDE DEF file, meant, set
    <3>2. Unique(upsert_policy(file, meant, set).rules)
      BY <3>1, UpsertKeeps
    <3> QED
      BY <3>2 DEF new, file, meant, set
  <2> HIDE DEF new
  <2> QED
    BY <1>1, <2>1, <2>2, <2>3 DEF OnePerPath, SoundScopes, e
<1>6. CASE st.op \notin {"scaffold", "ensure", "drop", "rule"}
  BY <1>1, <1>6 DEF Untouched, OnePerPath, e
<1> QED
  BY <1>3, <1>4, <1>5, <1>6

LEMMA OneKeptHalfway ==
    ASSUME NEW p, PlanTypes(p), NEW b, Sound(b), OnePerPath(b), NEW st \in StepSet(p), NEW h \in Halfway(b, st)
    PROVE  OnePerPath(h)
<1>0. HalfMade(b, h, st)
  BY HalfwaySound
<1>1. HalfMade(b, h, st) /\ Untouched(b, h, st.op)
  BY <1>0 DEF HalfMade
<1>2. \A ss : \A s \in Places : Unique(Created(b, ss)[s].rules)
  BY FilesGood DEF Created, OnePerPath
<1>3. CASE st.op = "scaffold" \/ st.op = "ensure"
  BY <1>1, <1>2, <1>3 DEF HalfMade, OnePerPath
<1>4. CASE st.op = "drop"
  <2>1. h.gmap = [x \in Places |-> IF x \in Inside(st.x) THEN EmptyFile ELSE b.gmap[x]]
    BY <1>1, <1>4 DEF HalfMade
  <2> QED
    BY <2>1, FilesGood DEF OnePerPath
<1>5. CASE st.op \notin {"scaffold", "ensure", "drop"}
  <2>1. st.op # "rule"
    BY HalfwayIs
  <2> QED
    BY <1>1, <1>5, <2>1 DEF Untouched, OnePerPath
<1> QED
  BY <1>3, <1>4, <1>5

-----------------------------------------------------------------------------
(* What is granted for a pack *)

Unpacks(p, id) == {st \in StepSet(p) : st.op = "unpack" /\ st.x.pack = id}
Against(p, s, id) ==
    {st \in StepSet(p) : (st.op = "drop" /\ s \in Inside(st.x)) \/ (st.op = "rule" /\ st.x.scope = s /\ st.x.path.names = <<id>>)}

GrantRule(id, s, pol) == RuleOf([pack |-> id, scope |-> s, policy |-> pol])

(* The pack is there and its rule says what is asked for, or will be when the steps that are left are done. *)
Stays(b, t, p, r, s, pol) ==
    /\ FreeOf(t, Unpacks(p, BaseOf[r]))
    /\ Do("assign", p.refs) \in Range(t) \/ r \in RefsIn(b.meta)
    /\ Do("copy", r) \in Range(t) \/ b.packs[BaseOf[r]] = "whole"
    /\ \/ LastIn(t, GrantRule(BaseOf[r], s, pol), Against(p, s, BaseOf[r]))
       \/ FreeOf(t, Against(p, s, BaseOf[r])) /\ LastPolicy(b.gmap[s].rules, <<BaseOf[r]>>) = pol

LEMMA PackStays ==
    ASSUME NEW b, NEW t, NEW p, RunGood(b, t, p), t # <<>>, NEW e, Moves(b, e, Head(t)), NEW M \in SUBSET Refs, RefsIn(e.meta) \subseteq M,
           NEW r \in Range(p.refs), Alone(r, M), FreeOf(t, Unpacks(p, BaseOf[r])),
           Do("assign", p.refs) \in Range(t) \/ r \in RefsIn(b.meta),
           Do("copy", r) \in Range(t) \/ b.packs[BaseOf[r]] = "whole"
    PROVE  /\ FreeOf(Tail(t), Unpacks(p, BaseOf[r]))
           /\ Do("assign", p.refs) \in Range(Tail(t)) \/ r \in RefsIn(e.meta)
           /\ Do("copy", r) \in Range(Tail(t)) \/ e.packs[BaseOf[r]] = "whole"
<1> DEFINE st == Head(t)
           id == BaseOf[r]
<1>1. /\ t \in Seq(StepSet(p)) /\ Sound(b) /\ SoundPacks(b) /\ MetaGood(b.meta)
      /\ RefsIn(b.meta) \subseteq RefsIn(e.meta) /\ Untouched(b, e, st.op) /\ Moves(b, e, st)
  BY RunSteps DEF RunGood, Sound
<1>2. /\ st \in StepSet(p) /\ Range(t) = {st} \union Range(Tail(t))
      /\ st \notin Unpacks(p, id) /\ FreeOf(Tail(t), Unpacks(p, id))
  BY <1>1, TailSeq
<1>3. Finds(b, st)
  BY RunFinds
<1>4. PlanTypes(p) /\ id \in PackIds
  <2>1. r \in Refs
    BY DEF Alone
  <2> QED
    BY <2>1, Numbers DEF RunGood
<1> HIDE DEF st, id
<1>5. st.op \notin {"seed", "webhook"} => e = Effect(b, st)
  BY <1>1, OptionalIs
<1>6. Do("assign", p.refs) \in Range(Tail(t)) \/ r \in RefsIn(e.meta)
  <2>1. CASE Do("assign", p.refs) = st
    <3>1. st.op = "assign" /\ e = Effect(b, st)
      BY <1>5, <2>1 DEF Do
    <3>2. RefsIn(e.meta) = RefsIn(b.meta) \union Range(p.refs)
      BY <1>1, <1>2, <1>3, <1>4, <3>1, EffectSound
    <3> QED
      BY <3>2
  <2> QED
    BY <1>1, <1>2, <2>1
<1>7. Do("copy", r) \in Range(Tail(t)) \/ e.packs[id] = "whole"
  <2>0. st.op \in {"copy", "unpack"} => MakesPacks(b, e, st)
    BY <1>1, <1>5, EffectMakes DEF Sound
  <2>1. CASE Do("copy", r) = st
    <3>1. st.op = "copy" /\ st.x = r
      BY <2>1 DEF Do
    <3>2. e.packs = [b.packs EXCEPT ![IdOf(b.meta, r)] = "whole"]
      BY <2>0, <3>1 DEF MakesPacks
    <3>3. RefIn(b.meta, r) # {}
      BY <1>3, <3>1 DEF Finds
    <3>4. IdOf(b.meta, r) = id
      <4>1. RefsIn(b.meta) \subseteq M
        BY <1>1
      <4> QED
        BY <1>1, <3>3, <4>1, AloneHasName DEF id
    <3> QED
      BY <1>1, <1>4, <3>2, <3>4 DEF SoundPacks
  <2>2. CASE b.packs[id] = "whole"
    <3>1. CASE st.op = "copy"
      <4>1. e.packs = [b.packs EXCEPT ![IdOf(b.meta, st.x)] = "whole"]
        BY <2>0, <3>1 DEF MakesPacks
      <4> QED
        BY <1>1, <1>4, <2>2, <4>1 DEF SoundPacks
    <3>2. CASE st.op = "unpack"
      <4>1. e.packs = [b.packs EXCEPT ![st.x.pack] = None] /\ st.x.pack # id
        BY <1>2, <2>0, <3>2 DEF MakesPacks, Unpacks
      <4> QED
        BY <1>1, <1>4, <2>2, <4>1 DEF SoundPacks
    <3> QED
      BY <1>1, <2>2, <3>1, <3>2 DEF Untouched
  <2> QED
    BY <1>2, <2>1, <2>2 DEF id
<1> QED
  BY <1>2, <1>6, <1>7 DEF id

(* What a rule says changes only by what is against it. *)
LEMMA RuleStays ==
    ASSUME NEW b, NEW t, NEW p, RunGood(b, t, p), t # <<>>, NEW e, Moves(b, e, Head(t)), OnePerPath(b),
           Head(t).op = "rule" => Head(t).x.path.plain, NEW s \in Places, NEW id \in PackIds, NEW pol \in {Public, Forbidden},
           \/ LastIn(t, GrantRule(id, s, pol), Against(p, s, id))
           \/ FreeOf(t, Against(p, s, id)) /\ LastPolicy(b.gmap[s].rules, <<id>>) = pol
    PROVE  \/ LastIn(Tail(t), GrantRule(id, s, pol), Against(p, s, id))
           \/ FreeOf(Tail(t), Against(p, s, id)) /\ LastPolicy(e.gmap[s].rules, <<id>>) = pol
<1> DEFINE st == Head(t)
           c == GrantRule(id, s, pol)
           B == Against(p, s, id)
<1>1. t \in Seq(StepSet(p)) /\ Sound(b) /\ SoundScopes(b) /\ Untouched(b, e, st.op) /\ Moves(b, e, st)
  BY RunSteps DEF RunGood, Sound
<1>2. /\ st \in StepSet(p) /\ (FreeOf(t, B) => st \notin B /\ FreeOf(Tail(t), B))
      /\ LastIn(t, c, B) => LastIn(Tail(t), c, B) \/ (st = c /\ FreeOf(Tail(t), B))
  BY <1>1, TailSeq
<1> HIDE DEF st, c, B
<1>3. st.op \notin {"seed", "webhook"} => e = Effect(b, st)
  BY <1>1, OptionalIs
<1>4. st.op \in {"scaffold", "ensure", "drop", "rule"} => MakesScopes(b, e, st)
  BY <1>1, <1>3, EffectMakes DEF Sound
<1>5. ASSUME st.op = "rule"
      PROVE  /\ st.x.scope \in Places /\ e.gmap = [b.gmap EXCEPT ![st.x.scope] = e.gmap[st.x.scope]]
             /\ \A x : LastPolicy(e.gmap[st.x.scope].rules, x) =
                         IF x = st.x.path.names THEN st.x.policy ELSE LastPolicy(b.gmap[st.x.scope].rules, x)
  <2> DEFINE new == upsert_policy(b.gmap[st.x.scope], st.x.path, st.x.policy)
  <2>1. e.gmap = [b.gmap EXCEPT ![st.x.scope] = new]
    BY <1>4, <1>5 DEF MakesScopes
  <2>2. st.x.scope \in Places /\ st.x.path.names \in Seq(Nat) /\ st.x.policy \in {Public, Forbidden}
    BY <1>2, <1>5, StepFields DEF RuleChange, PlanPath, PathRec
  <2>3. b.gmap[st.x.scope] \in FileRec /\ Unique(b.gmap[st.x.scope].rules) /\ st.x.path.plain
    BY <1>1, <1>5, <2>2 DEF SoundScopes, OnePerPath, st
  <2>4. \A x : LastPolicy(new.rules, x) = IF x = st.x.path.names THEN st.x.policy ELSE LastPolicy(b.gmap[st.x.scope].rules, x)
    <3> DEFINE file == b.gmap[st.x.scope]
               meant == st.x.path
               set == st.x.policy
    <3>1. file \in FileRec /\ meant.names \in Seq(Nat) /\ set \in {Public, Forbidden} /\ Unique(file.rules) /\ meant.plain
      BY <2>2, <2>3
    <3> HIDE DEF file, meant, set
    <3>2. \A x : LastPolicy(upsert_policy(file, meant, set).rules, x) = IF x = meant.names THEN set ELSE LastPolicy(file.rules, x)
      BY <3>1, UpsertKeeps, ZenonT(40)
    <3> QED
      BY <3>2 DEF file, meant, set
  <2> HIDE DEF new
  <2>5. e.gmap[st.x.scope] = new
    BY <1>1, <2>1, <2>2 DEF SoundScopes
  <2> QED
    BY <2>1, <2>2, <2>4, <2>5
<1>6. ASSUME st = c, FreeOf(Tail(t), B) PROVE LastPolicy(e.gmap[s].rules, <<id>>) = pol
  <2>1. st.op = "rule" /\ st.x.scope = s /\ st.x.path.names = <<id>> /\ st.x.policy = pol
    BY <1>6 DEF c, GrantRule, RuleOf, Do, Given
  <2> QED
    BY <1>5, <2>1
<1>7. ASSUME st \notin B, LastPolicy(b.gmap[s].rules, <<id>>) = pol PROVE LastPolicy(e.gmap[s].rules, <<id>>) = pol
  <2>1. CASE st.op = "rule"
    <3>1. CASE st.x.scope = s
      <4>1. st.x.path.names # <<id>>
        BY <1>2, <1>7, <2>1, <3>1 DEF B, Against
      <4> QED
        BY <1>5, <1>7, <2>1, <3>1, <4>1
    <3>2. CASE st.x.scope # s
      <4>1. e.gmap[s] = b.gmap[s]
        BY <1>1, <1>5, <2>1, <3>2 DEF SoundScopes
      <4> QED
        BY <1>7, <4>1
    <3> QED
      BY <3>1, <3>2
  <2>2. CASE st.op = "drop"
    <3>1. s \notin Inside(st.x)
      BY <1>2, <1>7, <2>2 DEF B, Against
    <3>2. e.gmap[s] = b.gmap[s]
      BY <1>4, <2>2, <3>1 DEF MakesScopes
    <3> QED
      BY <1>7, <3>2
  <2>3. CASE st.op = "scaffold" \/ st.op = "ensure"
    <3>1. \E ss : e.gmap = Created(b, ss)
      BY <1>4, <2>3 DEF MakesScopes
    <3>2. s \in b.files
      <4>1. SUFFICES ASSUME s \notin b.files PROVE FALSE
        OBVIOUS
      <4>2. b.gmap[s] = EmptyFile
        BY <1>1, <4>1 DEF SoundScopes
      <4>3. pol = NoDecision
        BY <1>7, <4>2, FilesGood DEF EmptySays
      <4> QED
        BY <4>3 DEF NoDecision, Public, Forbidden
    <3>3. e.gmap[s] = b.gmap[s]
      BY <3>1, <3>2 DEF Created
    <3> QED
      BY <1>7, <3>3
  <2>4. CASE st.op \notin {"scaffold", "ensure", "drop", "rule"}
    BY <1>1, <1>7, <2>4 DEF Untouched
  <2> QED
    BY <2>1, <2>2, <2>3, <2>4
<1>8. CASE LastIn(t, c, B)
  BY <1>2, <1>6, <1>8 DEF c, B
<1>9. CASE FreeOf(t, B) /\ LastPolicy(b.gmap[s].rules, <<id>>) = pol
  BY <1>2, <1>7, <1>9 DEF B
<1> QED
  BY <1>8, <1>9 DEF c, B

LEMMA GrantStays ==
    ASSUME NEW b, NEW t, NEW p, RunGood(b, t, p), t # <<>>, NEW e, Moves(b, e, Head(t)), NEW M \in SUBSET Refs, RefsIn(e.meta) \subseteq M,
           OnePerPath(b), Head(t).op = "rule" => Head(t).x.path.plain,
           NEW r \in Range(p.refs), Alone(r, M), NEW s \in Places, NEW pol \in {Public, Forbidden}, Stays(b, t, p, r, s, pol)
    PROVE  Stays(e, Tail(t), p, r, s, pol)
<1> DEFINE id == BaseOf[r]
           c == GrantRule(id, s, pol)
           B == Against(p, s, id)
<1>1. id \in PackIds
  BY Numbers DEF Alone
<1>2. /\ FreeOf(Tail(t), Unpacks(p, id))
      /\ Do("assign", p.refs) \in Range(Tail(t)) \/ r \in RefsIn(e.meta)
      /\ Do("copy", r) \in Range(Tail(t)) \/ e.packs[id] = "whole"
  BY PackStays DEF Stays
<1>3. LastIn(t, c, B) \/ (FreeOf(t, B) /\ LastPolicy(b.gmap[s].rules, <<id>>) = pol)
  BY DEF Stays
<1>4. LastIn(Tail(t), c, B) \/ (FreeOf(Tail(t), B) /\ LastPolicy(e.gmap[s].rules, <<id>>) = pol)
  <2> HIDE DEF id
  <2> QED
    BY <1>1, <1>3, RuleStays
<1> QED
  BY <1>2, <1>4 DEF Stays

LEMMA NameMeans ==
    ASSUME NEW meta, MetaGood(meta), NEW M \in SUBSET Refs, RefsIn(meta) \subseteq M, NEW r, Alone(r, M),
           NEW x \in Refs \union PackIds, canonical_pack_identifier(meta, x) = BaseOf[r]
    PROVE  NameOfPack(x) = BaseOf[r]
<1>0. CASE x \in DOMAIN BareName
  BY <1>0, BareNames DEF canonical_pack_identifier, NameOfPack
<1>1. CASE x \in PackIds
  <2>1. ~IsRef(x) /\ x \notin DOMAIN BareName
    BY <1>1, Numbers, BareNames
  <2> QED
    BY <2>1 DEF canonical_pack_identifier, NameOfPack
<1>2. CASE x \in Refs \ DOMAIN BareName /\ RefIn(meta, x) = {}
  <2>1. IsRef(x)
    BY <1>2, Numbers
  <2> QED
    BY <1>2, <2>1 DEF canonical_pack_identifier, NameOfPack
<1>3. CASE x \in Refs \ DOMAIN BareName /\ RefIn(meta, x) # {}
  <2>1. IsRef(x)
    BY <1>3, Numbers
  <2>2. IdOf(meta, x) = BaseOf[r]
    BY <1>3, <2>1 DEF canonical_pack_identifier
  <2>3. x \in M
    BY <1>3, KnownRefs
  <2>4. x = r
    BY <1>3, <2>2, <2>3, AloneHasName
  <2> QED
    BY <1>3, <2>1, <2>4 DEF NameOfPack, derive_pack_id_from_reference
<1> QED
  BY <1>0, <1>1, <1>2, <1>3

(* No later change is of the same pack in the same scope. *)
Stands(wishes, i) ==
    \A j \in DOMAIN wishes : j > i /\ wishes[j].scope = wishes[i].scope => NameOfPack(wishes[j].pack) # NameOfPack(wishes[i].pack)

LEMMA LastChange ==
    ASSUME NEW p, PlanTypes(p), NEW wishes \in Seq(Access), NEW meta, MetaGood(meta), p.access = Named(wishes, meta),
           NEW M \in SUBSET Refs, RefsIn(meta) \subseteq M, NEW i \in DOMAIN wishes, Alone(wishes[i].pack, M), Stands(wishes, i),
           NameOfPack(wishes[i].pack) = BaseOf[wishes[i].pack]
    PROVE  LET id == BaseOf[wishes[i].pack]
           IN  LastIn(Grants(p), GrantRule(id, wishes[i].scope, wishes[i].policy), Against(p, wishes[i].scope, id))
<1> DEFINE r == wishes[i].pack
           s == wishes[i].scope
           id == BaseOf[r]
           c == GrantRule(id, s, wishes[i].policy)
           B == Against(p, s, id)
           n == Len(wishes)
           A == StepOf(p, Touching)
           ss == [k \in DOMAIN p.tenants |-> AllowSteps(p.tenants[k])]
           tt == [k \in DOMAIN p.access |-> ChangeSteps(p.access[k])]
<1>1. /\ ss \in [1..Len(p.tenants) -> Seq(A)] /\ tt \in [1..Len(p.access) -> Seq(A)]
      /\ Grants(p) = FlattenSeq(ss) \o FlattenSeq(tt)
  BY GrantParts
<1>2. n \in Nat /\ DOMAIN wishes = 1..n /\ \A k \in 1..n : wishes[k] \in Access
  BY SeqAt
<1>3. DOMAIN p.access = 1..n /\ Len(p.access) = n /\ \A k \in 1..n : p.access[k] = [wishes[k] EXCEPT !.pack = canonical_pack_identifier(meta, @)]
  BY <1>2 DEF Named
<1>4. \A k \in 1..n : tt[k] = ChangeSteps(p.access[k])
  BY <1>3
<1>5. ASSUME NEW k \in 1..n
      PROVE  p.access[k].scope = wishes[k].scope /\ p.access[k].policy = wishes[k].policy
             /\ p.access[k].pack = canonical_pack_identifier(meta, wishes[k].pack)
  BY <1>2, <1>3 DEF Access
<1>6. canonical_pack_identifier(meta, r) = id /\ NameOfPack(r) = id
  BY AloneHasName
<1>7. LastIn(tt[i], c, B)
  <2>1. RuleOf(p.access[i]) = c
    BY <1>2, <1>5, <1>6 DEF RuleOf, GrantRule
  <2>2. tt[i] = <<Do("ensure", s), c>>
    BY <1>2, <1>4, <1>5, <2>1 DEF ChangeSteps, RuleOf
  <2> HIDE DEF tt, c, B
  <2>3. Len(tt[i]) = 2 /\ tt[i][2] = c
    BY <2>2
  <2>4. 2 \in 1..2 /\ 2 + 1..2 = {}
    OBVIOUS
  <2> QED
    BY <2>3, <2>4 DEF LastIn
<1>8. ASSUME NEW k \in 1..n, k > i PROVE FreeOf(tt[k], B)
  <2>1. Do("ensure", p.access[k].scope) \notin B
    BY DEF Against, Do
  <2>2. RuleOf(p.access[k]) \notin B
    <3> SUFFICES ASSUME RuleOf(p.access[k]) \in B PROVE FALSE
      OBVIOUS
    <3>1. p.access[k].scope = s /\ <<p.access[k].pack>> = <<id>>
      BY DEF Against, RuleOf, Do, Given
    <3>2. canonical_pack_identifier(meta, wishes[k].pack) = id /\ wishes[k].scope = s
      BY <1>5, <3>1
    <3>3. wishes[k].pack \in Refs \union PackIds
      BY <1>2 DEF Access
    <3>4. NameOfPack(wishes[k].pack) = id
      BY <3>2, <3>3, NameMeans
    <3> QED
      BY <1>2, <1>6, <1>8, <3>2, <3>4 DEF Stands
  <2>3. tt[k] = <<Do("ensure", p.access[k].scope), RuleOf(p.access[k])>>
    BY <1>4 DEF ChangeSteps, RuleOf
  <2> HIDE DEF tt, B
  <2>4. Len(tt[k]) = 2 /\ tt[k][1] \notin B /\ tt[k][2] \notin B
    BY <2>1, <2>2, <2>3
  <2>5. \A h \in 1..2 : h = 1 \/ h = 2
    OBVIOUS
  <2> QED
    BY <2>4, <2>5 DEF FreeOf
<1> HIDE DEF ss, tt, A, c, B, n
<1>9. tt \in [1..n -> Seq(A)]
  BY <1>1, <1>3
<1>10. FlattenSeq(tt) \in Seq(A) /\ LastIn(FlattenSeq(tt), c, B)
  <2>1. \A k \in i+1..n : k \in 1..n /\ k > i
    BY <1>2
  <2>2. \A k \in i+1..n : FreeOf(tt[k], B)
    BY <1>8, <2>1
  <2> QED
    BY <1>2, <1>7, <1>9, <2>2, FlattenedSeqs
<1>11. FlattenSeq(ss) \in Seq(A)
  BY <1>1, FlattenSeqType, SeqAt DEF PlanTypes
<1>12. LastIn(FlattenSeq(ss) \o FlattenSeq(tt), c, B)
  BY <1>10, <1>11, JoinedSeqs
<1> QED
  BY <1>1, <1>12 DEF c, B

(* What is asked for, as long as no later change and no removal is against it. *)
Asks(wishes, i, p, M) ==
    /\ wishes[i].pack \in Range(p.refs) /\ Alone(wishes[i].pack, M) /\ Stands(wishes, i)
    /\ BaseOf[wishes[i].pack] \notin PacksOf("unpack", execute_plan(p))
    /\ NameOfPack(wishes[i].pack) = BaseOf[wishes[i].pack]

Kept(b, t, p, wishes, i) == Stays(b, t, p, wishes[i].pack, wishes[i].scope, wishes[i].policy)

(* The plan of a run that adds packs and changes access has the steps for what is asked for. *)
LEMMA GrantBegins ==
    ASSUME NEW a, AnswerSeqs(a), NEW meta, MetaGood(meta), NEW M \in SUBSET Refs, RefsIn(meta) \subseteq M, NEW p, p = build_plan(a, meta),
           a.mode = "create" \/ {"packs_add", "access_change"} \subseteq p.ops, NEW wishes, wishes = build_access_changes(a),
           NEW i \in DOMAIN wishes, Asks(wishes, i, p, M), NEW b
    PROVE  Kept(b, execute_plan(p), p, wishes, i)
<1> DEFINE r == wishes[i].pack
           id == BaseOf[r]
           c == GrantRule(id, wishes[i].scope, wishes[i].policy)
           B == Against(p, wishes[i].scope, id)
           S == execute_plan(p)
<1>1. PlanTypes(p) /\ wishes \in Seq(Access)
  BY PlanTyped, GrantsTyped DEF MetaGood
<1>2. PlanFields(p, a, meta)
  BY PlanIs
<1>3. p.access = Named(wishes, meta) /\ p.mode = a.mode /\ (a.mode = "remove" => p.refs = <<>>)
  BY <1>2 DEF PlanFields
<1>4. /\ r \in Range(p.refs) /\ Alone(r, M) /\ Stands(wishes, i) /\ id \notin PacksOf("unpack", S)
      /\ NameOfPack(r) = BaseOf[r]
  BY DEF Asks
<1>5. p.refs # <<>> /\ a.mode # "remove"
  BY <1>3, <1>4, NothingHeld
<1>6. PlanShape(S, p)
  BY <1>1, PlanShaped
<1>7. p.mode = "create" \/ (p.mode = "update" /\ {"packs_add", "access_change"} \subseteq p.ops)
  BY <1>1, <1>3, <1>5 DEF PlanTypes
<1>8. S \in Seq(StepSet(p)) /\ AddsAll(S, p) /\ \E u \in Seq(StepSet(p)) : S = u \o apply_access_and_sync(p)
  BY <1>5, <1>6, <1>7 DEF PlanShape
<1>9. LastIn(Grants(p), c, B)
  BY <1>1, <1>3, <1>4, LastChange
<1>10. LastIn(apply_access_and_sync(p), c, B)
  <2>1. PICK t \in Seq(StepOf(p, Syncing)) : apply_access_and_sync(p) = Grants(p) \o t
    BY <1>1, AccessPiece
  <2>2. FreeOf(t, B)
    <3>1. \A k \in 1..Len(t) : t[k] \in StepOf(p, Syncing)
      BY SeqAt
    <3> QED
      BY <3>1 DEF FreeOf, StepOf, Syncing, Against
  <2>3. Grants(p) \in Seq(StepSet(p)) /\ t \in Seq(StepSet(p))
    <3>1. Grants(p) \in Seq(StepOf(p, Touching))
      BY <1>1, GrantsPiece DEF Piece
    <3>2. \A P, s : s \in Seq(StepOf(p, P)) => s \in Seq(StepSet(p))
      BY DEF StepOf
    <3> QED
      BY <3>1, <3>2
  <2> HIDE DEF c, B
  <2> QED
    BY <1>9, <2>1, <2>2, <2>3, JoinedSeqs
<1>11. LastIn(S, c, B)
  <2>1. PICK u \in Seq(StepSet(p)) : S = u \o apply_access_and_sync(p)
    BY <1>8
  <2>2. apply_access_and_sync(p) \in Seq(StepSet(p))
    BY <1>1, AccessPiece, PieceOps
  <2> HIDE DEF c, B
  <2> QED
    BY <1>10, <2>1, <2>2, JoinedSeqs
<1>12. FreeOf(S, Unpacks(p, id))
  <2> SUFFICES ASSUME NEW k \in 1..Len(S), S[k] \in Unpacks(p, id) PROVE FALSE
    BY DEF FreeOf
  <2>1. k \in DOMAIN S
    BY <1>8, SeqAt
  <2> QED
    BY <1>4, <2>1 DEF PacksOf, Unpacks
<1>13. Do("assign", p.refs) \in Range(S) /\ Do("copy", r) \in Range(S)
  BY <1>4, <1>8 DEF AddsAll
<1> QED
  BY <1>11, <1>12, <1>13 DEF Kept, Stays

-----------------------------------------------------------------------------
(* The states of the wizard *)

(* The packs of the plan have ids, or will have. *)
Identified(b, t, p) == Do("assign", p.refs) \in Range(t) \/ Range(p.refs) \subseteq RefsIn(b.meta)

LEMMA IdentifiedBegins ==
    ASSUME NEW a, AnswerSeqs(a), NEW meta, MetaGood(meta), NEW p, p = build_plan(a, meta),
           a.mode = "create" \/ {"packs_add", "access_change"} \subseteq p.ops, NEW b
    PROVE  Identified(b, execute_plan(p), p)
<1>1. PlanTypes(p)
  BY PlanTyped DEF MetaGood
<1>2. p.mode = a.mode /\ (a.mode = "remove" => p.refs = <<>>)
  <2>1. PlanFields(p, a, meta)
    BY PlanIs
  <2> QED
    BY <2>1 DEF PlanFields
<1>3. PlanShape(execute_plan(p), p)
  BY <1>1, PlanShaped
<1>4. CASE p.refs = <<>>
  BY <1>4, NothingHeld DEF Identified
<1>5. CASE p.refs # <<>>
  <2>1. p.mode = "create" \/ (p.mode = "update" /\ {"packs_add", "access_change"} \subseteq p.ops)
    BY <1>1, <1>2, <1>5 DEF PlanTypes
  <2> QED
    BY <1>3, <1>5, <2>1 DEF PlanShape, AddsAll, Identified
<1> QED
  BY <1>4, <1>5

LEMMA IdentifiedStays ==
    ASSUME NEW b, NEW t, NEW p, RunGood(b, t, p), t # <<>>, NEW e, Moves(b, e, Head(t)), Identified(b, t, p)
    PROVE  Identified(e, Tail(t), p)
<1> DEFINE st == Head(t)
<1>1. RefsIn(b.meta) \subseteq RefsIn(e.meta) /\ t \in Seq(StepSet(p)) /\ PlanTypes(p) /\ Sound(b) /\ Moves(b, e, st)
  BY RunSteps DEF RunGood
<1>2. st \in StepSet(p) /\ Finds(b, st) /\ Range(t) = {st} \union Range(Tail(t))
  BY <1>1, RunFinds, TailSeq
<1> HIDE DEF st
<1>3. CASE Do("assign", p.refs) = st
  <2>1. st.op = "assign"
    BY <1>3 DEF Do
  <2>2. e = Effect(b, st)
    BY <1>1, <2>1, OptionalIs
  <2>3. RefsIn(e.meta) = RefsIn(b.meta) \union Range(p.refs)
    BY <1>1, <1>2, <2>1, <2>2, EffectSound
  <2> QED
    BY <2>3 DEF Identified
<1>4. CASE Do("assign", p.refs) # st
  BY <1>1, <1>2, <1>4 DEF Identified
<1> QED
  BY <1>3, <1>4

PlainRules(p) == \A t \in Range(p.tenants) : \A q \in Range(t.allow) : q.plain

Wishes == build_access_changes(answers)

Offers == answers.mode = "create" \/ {"packs_add", "access_change"} \subseteq plan.ops

BundleSound == Sound(bundle) /\ RefsIn(bundle.meta) \subseteq Mentioned /\ (Plainly => OnePerPath(bundle))

RunSound ==
    /\ RunGood(bundle, todo, plan) /\ Range(plan.refs) \subseteq Mentioned
    /\ Plainly => PlainRules(plan)
    /\ Offers => Identified(bundle, todo, plan)
    /\ Plainly /\ Offers => \A i \in DOMAIN Wishes : Asks(Wishes, i, plan, Mentioned) => Kept(bundle, todo, plan, Wishes, i)

WizardInv ==
    /\ answers \in Answers /\ start \in Bundles
    /\ wizard \in {"idle", "running", "failed", "done"} /\ (wizard = "done" => todo = <<>>)
    /\ ~lost => BundleSound /\ (wizard \in {"running", "done"} => RunSound)

LEMMA AnswersGood ==
    ASSUME answers \in Answers, start \in Bundles
    PROVE  /\ AnswerSeqs(answers) /\ Mentioned \in SUBSET Refs
           /\ Sound(start) /\ RefsIn(start.meta) \subseteq Mentioned /\ OnePerPath(start)
<1>1. AnswerSeqs(answers)
  BY WizardAssumption, AnswerTyped
<1>2. start \in Bundle /\ StartOk(start)
  BY WizardAssumption
<1>3. /\ start.there \in BOOLEAN /\ start.yaml \in BOOLEAN /\ start.meta \in SUBSET MetaRec
      /\ start.packs \in [PackIds -> Held] /\ start.linked \in [PackIds -> Held]
      /\ start.registry \in SUBSET RegistryRec /\ start.registryFile \in BOOLEAN
      /\ start.defaults \in [Where -> PackIds \union {NoPack}]
  BY <1>2 DEF Bundle, MetaRec, Held, RegistryRec
<1>4. /\ start.dirs \in SUBSET Places /\ start.files \in SUBSET Places /\ start.gmap \in [Places -> AccessFile]
      /\ start.staged \in SUBSET Places /\ start.resolved \in SUBSET Places
  BY <1>2 DEF Bundle
<1>5. IsBundle(start)
  BY <1>2, Zenon DEF Bundle, IsBundle
<1>6. \A f \in AccessFile : f \in FileRec /\ Unique(f.rules)
  BY DEF AccessFile, FileRec, RuleRec, Unique
<1>7. start.gmap \in [Places -> FileRec] /\ OnePerPath(start)
  BY <1>4, <1>6 DEF OnePerPath
<1>8. Sound(start)
  BY <1>2, <1>3, <1>4, <1>5, <1>7 DEF Sound, MetaGood, SoundPacks, SoundRegistry, SoundScopes, StartOk, OneEach
<1>9. Mentioned \in SUBSET Refs /\ RefsIn(start.meta) \subseteq Mentioned
  <2>1. RequestOf(answers).refs = RefsOf(answers)
    BY DEF RequestOf
  <2>2. Range(RefsOf(answers)) \subseteq Refs
    BY <1>1, RefsTyped, RangeSeq
  <2>3. \A m \in start.meta : m.ref \in Refs
    BY <1>3 DEF MetaRec
  <2> QED
    BY <2>1, <2>2, <2>3 DEF Mentioned, RefsIn
<1> QED
  BY <1>1, <1>7, <1>8, <1>9

LEMMA MentionedStays == ASSUME UNCHANGED <<answers, start>> PROVE Mentioned' = Mentioned /\ (Plainly' <=> Plainly) /\ Wishes' = Wishes
BY DEF Mentioned, Plainly, Wishes

(* A run begins. *)
LEMMA RunBegins ==
    ASSUME answers \in Answers, start \in Bundles, BundleSound, NEW p, p = build_plan(answers, bundle.meta)
    PROVE  /\ RunGood(Base(bundle), execute_plan(p), p) /\ Range(p.refs) \subseteq Mentioned
           /\ RefsIn(Base(bundle).meta) \subseteq Mentioned
           /\ Plainly => PlainRules(p) /\ OnePerPath(Base(bundle))
           /\ answers.mode = "create" \/ {"packs_add", "access_change"} \subseteq p.ops =>
                /\ Identified(Base(bundle), execute_plan(p), p)
                /\ \A i \in DOMAIN Wishes : Asks(Wishes, i, p, Mentioned) => Kept(Base(bundle), execute_plan(p), p, Wishes, i)
<1>1. AnswerSeqs(answers) /\ Mentioned \in SUBSET Refs
  BY AnswersGood
<1>2. Sound(bundle) /\ MetaGood(bundle.meta) /\ RefsIn(bundle.meta) \subseteq Mentioned
  BY DEF BundleSound, Sound
<1>3. Sound(Base(bundle)) /\ RefsIn(Base(bundle).meta) \subseteq RefsIn(bundle.meta) /\ (OnePerPath(bundle) => OnePerPath(Base(bundle)))
  BY <1>2, BaseSound DEF OnePerPath
<1>4. PlanTypes(p) /\ (answers.mode # "remove" => Range(p.refs) = Range(RefsOf(answers)))
  BY <1>1, <1>2, PlanTyped DEF MetaGood
<1>5. RunGood(Base(bundle), execute_plan(p), p)
  BY <1>3, <1>4, RunStarts
<1>6. p.tenants = TenantsOf(answers) /\ (answers.mode = "remove" => p.refs = <<>>)
  <2>1. PlanFields(p, answers, bundle.meta)
    BY <1>1, PlanIs
  <2> QED
    BY <2>1 DEF PlanFields
<1>7. Range(p.refs) \subseteq Mentioned
  BY <1>4, <1>6, NothingHeld DEF Mentioned, RequestOf
<1>8. Plainly => PlainRules(p)
  <2>1. \A t \in Range(p.tenants) : t.allow = answers.allow
    BY <1>6 DEF TenantsOf, Range
  <2>2. Plainly => \A q \in Range(answers.allow) : q.plain
    BY DEF Plainly, Range
  <2> QED
    BY <2>1, <2>2 DEF PlainRules
<1>9. Wishes = build_access_changes(answers)
  BY DEF Wishes
<1>10. ASSUME answers.mode = "create" \/ {"packs_add", "access_change"} \subseteq p.ops, NEW i \in DOMAIN Wishes, Asks(Wishes, i, p, Mentioned)
       PROVE  Kept(Base(bundle), execute_plan(p), p, Wishes, i)
  BY <1>1, <1>2, <1>9, <1>10, GrantBegins
<1>11. answers.mode = "create" \/ {"packs_add", "access_change"} \subseteq p.ops => Identified(Base(bundle), execute_plan(p), p)
  BY <1>1, <1>2, IdentifiedBegins
<1> QED
  BY <1>2, <1>3, <1>5, <1>7, <1>8, <1>10, <1>11 DEF BundleSound

(* A step is done or left out. *)
LEMMA RunContinues ==
    ASSUME answers \in Answers, start \in Bundles, BundleSound, RunSound, todo # <<>>, NEW e, Moves(bundle, e, Head(todo))
    PROVE  /\ RunGood(e, Tail(todo), plan) /\ RefsIn(e.meta) \subseteq Mentioned
           /\ Plainly => OnePerPath(e)
           /\ Offers => Identified(e, Tail(todo), plan)
           /\ Plainly /\ Offers => \A i \in DOMAIN Wishes : Asks(Wishes, i, plan, Mentioned) => Kept(e, Tail(todo), plan, Wishes, i)
<1>1. RunGood(bundle, todo, plan) /\ Range(plan.refs) \subseteq Mentioned /\ Sound(bundle) /\ PlanTypes(plan)
  BY DEF RunSound, RunGood
<1>2. /\ RunGood(e, Tail(todo), plan) /\ RefsIn(e.meta) \subseteq RefsIn(bundle.meta) \union Range(plan.refs)
  BY <1>1, RunSteps
<1>3. RefsIn(e.meta) \subseteq Mentioned
  BY <1>1, <1>2 DEF BundleSound
<1>4. AnswerSeqs(answers) /\ Mentioned \in SUBSET Refs
  BY AnswersGood
<1>5. Head(todo) \in StepSet(plan)
  BY <1>1, RunFinds
<1>6. Plainly => OnePerPath(bundle) /\ (Head(todo).op = "rule" => Head(todo).x.path.plain)
  <2>1. ASSUME Plainly, Head(todo).op = "rule" PROVE Head(todo).x.path.plain
    <3>1. Head(todo).x.path \in PlanPath(plan)
      BY <1>5, <2>1, StepFields DEF RuleChange
    <3>2. PlainRules(plan)
      BY <2>1 DEF RunSound
    <3>3. \A i \in DOMAIN plan.tenants : plan.tenants[i] \in Range(plan.tenants)
      BY DEF Range
    <3> QED
      BY <3>1, <3>2, <3>3 DEF PlanPath, PlainRules
  <2> QED
    BY <2>1 DEF BundleSound
<1>7. Plainly => OnePerPath(e)
  <2>1. Plainly => OnePerPath(Effect(bundle, Head(todo)))
    BY <1>1, <1>5, <1>6, OneKept
  <2> QED
    BY <1>6, <2>1 DEF Moves
<1>8. ASSUME Plainly, Offers, NEW i \in DOMAIN Wishes, Asks(Wishes, i, plan, Mentioned) PROVE Kept(e, Tail(todo), plan, Wishes, i)
  <2>1. Wishes \in Seq(Access)
    BY <1>4, GrantsTyped DEF Wishes
  <2>2. Wishes[i].scope \in Places /\ Wishes[i].policy \in {Public, Forbidden}
    <3>1. Wishes[i] \in Access
      BY <2>1, SeqAt
    <3> QED
      BY <3>1 DEF Access
  <2>3. Wishes[i].pack \in Range(plan.refs) /\ Alone(Wishes[i].pack, Mentioned)
    BY <1>8 DEF Asks
  <2>4. Stays(bundle, todo, plan, Wishes[i].pack, Wishes[i].scope, Wishes[i].policy)
    BY <1>8 DEF RunSound, Kept
  <2>5. Stays(e, Tail(todo), plan, Wishes[i].pack, Wishes[i].scope, Wishes[i].policy)
    BY <1>1, <1>3, <1>4, <1>6, <1>8, <2>2, <2>3, <2>4, GrantStays
  <2> QED
    BY <2>5 DEF Kept
<1>9. Offers => Identified(e, Tail(todo), plan)
  BY <1>1, IdentifiedStays DEF RunSound
<1> QED
  BY <1>2, <1>3, <1>7, <1>8, <1>9

(* What the runs of the wizard keep, whatever fails: the packs of the plan are on their way to  *)
(* the names they are known by, and what was granted for them stands, or a step that is left    *)
(* will grant it.                                                                               *)
THEOREM WizardInvariant == WizardSpec => []WizardInv
<1>1. WizardInit => WizardInv
  <2> SUFFICES ASSUME WizardInit PROVE WizardInv
    OBVIOUS
  <2>1. answers \in Answers /\ start \in Bundles /\ bundle = start /\ wizard = "idle"
    BY DEF WizardInit
  <2> QED
    BY <2>1, AnswersGood DEF WizardInv, BundleSound
<1>2. WizardInv /\ [WizardNext]_wizardVars => WizardInv'
  <2> SUFFICES ASSUME WizardInv, [WizardNext]_wizardVars PROVE WizardInv'
    OBVIOUS
  <2>0. /\ answers \in Answers /\ start \in Bundles
        /\ wizard \in {"idle", "running", "failed", "done"} /\ (wizard = "done" => todo = <<>>)
        /\ ~lost => BundleSound /\ (wizard \in {"running", "done"} => RunSound)
    BY DEF WizardInv
  <2>1. CASE WizardCommand
    <3>1. /\ wizard' = "running" /\ bundle' = Base(bundle) /\ plan' = build_plan(answers, bundle.meta) /\ todo' = execute_plan(plan')
          /\ UNCHANGED <<answers, start, lost>>
      BY <2>1 DEF WizardCommand
    <3>2. Mentioned' = Mentioned /\ (Plainly' <=> Plainly) /\ Wishes' = Wishes /\ (Offers' <=> answers.mode = "create" \/ {"packs_add", "access_change"} \subseteq plan'.ops)
      BY <3>1, MentionedStays DEF Offers
    <3>3. ASSUME ~lost PROVE BundleSound' /\ RunSound'
      <4> DEFINE p == build_plan(answers, bundle.meta)
      <4>1. BundleSound
        BY <2>0, <3>3
      <4> HIDE DEF p
      <4>2. /\ RunGood(Base(bundle), execute_plan(p), p) /\ Range(p.refs) \subseteq Mentioned
            /\ RefsIn(Base(bundle).meta) \subseteq Mentioned
            /\ Plainly => PlainRules(p) /\ OnePerPath(Base(bundle))
            /\ answers.mode = "create" \/ {"packs_add", "access_change"} \subseteq p.ops =>
                 /\ Identified(Base(bundle), execute_plan(p), p)
                 /\ \A i \in DOMAIN Wishes : Asks(Wishes, i, p, Mentioned) => Kept(Base(bundle), execute_plan(p), p, Wishes, i)
        BY <2>0, <4>1, RunBegins DEF p
      <4>3. plan' = p
        BY <3>1 DEF p
      <4>4. RunSound'
        BY <3>1, <3>2, <4>2, <4>3 DEF RunSound
      <4>5. BundleSound'
        BY <3>1, <3>2, <4>2 DEF BundleSound, RunGood
      <4> QED
        BY <4>4, <4>5
    <3> QED
      BY <2>0, <3>1, <3>3 DEF WizardInv
  <2>2. CASE Refused
    <3>1. UNCHANGED <<answers, start, bundle, plan, todo, wizard, lost>>
      BY <2>2 DEF Refused
    <3> QED
      BY <2>0, <3>1, MentionedStays DEF WizardInv, BundleSound, RunSound, Offers
  <2>3. CASE WizardStep \/ SkipOptional
    <3>1. /\ wizard = "running" /\ todo # <<>> /\ Moves(bundle, bundle', Head(todo)) /\ todo' = Tail(todo)
          /\ UNCHANGED <<answers, start, plan, wizard, lost>>
      BY <2>3 DEF WizardStep, SkipOptional, Moves
    <3>2. Mentioned' = Mentioned /\ (Plainly' <=> Plainly) /\ Wishes' = Wishes /\ (Offers' <=> Offers)
      BY <3>1, MentionedStays DEF Offers
    <3>3. ASSUME ~lost PROVE BundleSound' /\ RunSound'
      <4> DEFINE e == bundle'
      <4>1. BundleSound /\ RunSound
        BY <2>0, <3>1, <3>3
      <4> HIDE DEF e
      <4>2. /\ RunGood(e, Tail(todo), plan) /\ RefsIn(e.meta) \subseteq Mentioned
            /\ Plainly => OnePerPath(e)
            /\ Offers => Identified(e, Tail(todo), plan)
            /\ Plainly /\ Offers => \A i \in DOMAIN Wishes : Asks(Wishes, i, plan, Mentioned) => Kept(e, Tail(todo), plan, Wishes, i)
        <5>1. Moves(bundle, e, Head(todo))
          BY <3>1 DEF e
        <5> QED
          BY <2>0, <3>1, <4>1, <5>1, RunContinues
      <4>3. bundle' = e
        BY DEF e
      <4>4. RunSound'
        BY <3>1, <3>2, <4>1, <4>2, <4>3 DEF RunSound
      <4>5. BundleSound'
        BY <3>1, <3>2, <4>2, <4>3 DEF BundleSound, RunGood
      <4> QED
        BY <4>4, <4>5
    <3> QED
      BY <2>0, <3>1, <3>3 DEF WizardInv
  <2>4. CASE StepFails
    <3>1. /\ wizard = "running" /\ todo # <<>> /\ wizard' = "failed" /\ UNCHANGED <<answers, start, plan>>
          /\ (bundle' \in {bundle} \union Halfway(bundle, Head(todo)) /\ lost' = lost) \/ lost' = TRUE
      BY <2>4 DEF StepFails
    <3>2. Mentioned' = Mentioned /\ (Plainly' <=> Plainly)
      BY <3>1, MentionedStays
    <3>3. ASSUME ~lost' PROVE BundleSound'
      <4>1. bundle' \in {bundle} \union Halfway(bundle, Head(todo)) /\ ~lost
        BY <3>1, <3>3
      <4>2. BundleSound /\ RunSound
        BY <2>0, <3>1, <4>1
      <4>3. PlanTypes(plan) /\ Sound(bundle) /\ Head(todo) \in StepSet(plan)
        BY <3>1, <4>2, RunFinds DEF RunSound, RunGood
      <4>4. CASE bundle' = bundle
        BY <3>2, <4>2, <4>4 DEF BundleSound
      <4>5. CASE bundle' \in Halfway(bundle, Head(todo))
        <5>1. Sound(bundle') /\ HalfMade(bundle, bundle', Head(todo))
          BY <4>3, <4>5, HalfwaySound
        <5>2. RefsIn(bundle'.meta) = RefsIn(bundle.meta)
          BY <5>1 DEF HalfMade
        <5>3. Plainly => OnePerPath(bundle')
          BY <4>2, <4>3, <4>5, OneKeptHalfway DEF BundleSound
        <5> QED
          BY <3>2, <4>2, <5>1, <5>2, <5>3 DEF BundleSound
      <4> QED
        BY <4>1, <4>4, <4>5
    <3> QED
      BY <2>0, <3>1, <3>3 DEF WizardInv
  <2>5. CASE WizardEnds
    <3>1. wizard = "running" /\ todo = <<>> /\ wizard' = "done" /\ UNCHANGED <<answers, start, bundle, plan, todo, lost>>
      BY <2>5 DEF WizardEnds
    <3> QED
      BY <2>0, <3>1, MentionedStays DEF WizardInv, BundleSound, RunSound, Offers
  <2>6. CASE UNCHANGED wizardVars
    <3>1. UNCHANGED <<answers, start, bundle, plan, todo, wizard, lost>>
      BY <2>6 DEF wizardVars
    <3> QED
      BY <2>0, <3>1, MentionedStays DEF WizardInv, BundleSound, RunSound, Offers
  <2> QED
    BY <2>1, <2>2, <2>3, <2>4, <2>5, <2>6 DEF WizardNext
<1> QED
  BY <1>1, <1>2, PTL DEF WizardSpec

(* A pack that is granted is there when the wizard ends well, and what was granted was granted to its id;
   but for a reference that looks like an id and is spelled otherwise (canonical_pack_identifier). *)
THEOREM GrantsAreTheirPacks == WizardSpec => []GrantsNameTheirPack
<1>1. WizardInv => GrantsNameTheirPack
  <2> SUFFICES ASSUME WizardInv, wizard = "done", ~lost, Plainly, Offers, NEW i \in DOMAIN Wishes,
                      Wishes[i].pack \in Range(plan.refs) \ Namesakes(Mentioned), Stands(Wishes, i),
                      IdOf(bundle.meta, Wishes[i].pack) \notin PacksOf("unpack", execute_plan(plan)),
                      NameOfPack(Wishes[i].pack) = derive_pack_id_from_reference(Wishes[i].pack)
               PROVE  /\ bundle.packs[IdOf(bundle.meta, Wishes[i].pack)] = "whole"
                      /\ LastPolicy(bundle.gmap[Wishes[i].scope].rules, <<IdOf(bundle.meta, Wishes[i].pack)>>) = Wishes[i].policy
    <3>1. RequestOf(answers).access = Wishes
      BY DEF RequestOf, Wishes
    <3> QED
      BY <3>1, Zenon DEF GrantsNameTheirPack, Offers, Stands
  <2> DEFINE r == Wishes[i].pack
  <2>1. /\ answers \in Answers /\ start \in Bundles /\ todo = <<>> /\ BundleSound /\ RunSound
    BY DEF WizardInv
  <2>2. Alone(r, Mentioned) /\ r \in Range(plan.refs)
    <3>1. r \in Mentioned
      BY <2>1 DEF RunSound
    <3> QED
      BY <3>1 DEF Alone, Namesakes
  <2>3. r \in RefsIn(bundle.meta) => IdOf(bundle.meta, r) = BaseOf[r]
    <3>1. Mentioned \in SUBSET Refs /\ MetaGood(bundle.meta) /\ RefsIn(bundle.meta) \subseteq Mentioned
      BY <2>1, AnswersGood DEF BundleSound, Sound
    <3> QED
      BY <2>2, <3>1, AloneHasName, KnownRefs
  <2>4. r \in RefsIn(bundle.meta)
    BY <2>1, <2>2, NothingHeld DEF RunSound, Identified
  <2>5. Asks(Wishes, i, plan, Mentioned)
    BY <2>2, <2>3, <2>4 DEF Asks, derive_pack_id_from_reference
  <2>6. Stays(bundle, todo, plan, r, Wishes[i].scope, Wishes[i].policy)
    BY <2>1, <2>5 DEF RunSound, Kept
  <2>7. Range(todo) = {} /\ ~LastIn(todo, GrantRule(BaseOf[r], Wishes[i].scope, Wishes[i].policy), Against(plan, Wishes[i].scope, BaseOf[r]))
    BY <2>1, NothingHeld DEF LastIn
  <2> QED
    BY <2>3, <2>4, <2>6, <2>7 DEF Stays
<1> QED
  BY <1>1, WizardInvariant, PTL

-----------------------------------------------------------------------------
(* The outcome of steps *)

OutcomeRun(f, b, u, n) == f = [i \in 0..n |-> IF i = 0 THEN b ELSE Effect(f[i - 1], u[i])]

LEMMA OutcomeRunExists ==
    ASSUME NEW b, NEW u, NEW n \in Nat
    PROVE  \E f : OutcomeRun(f, b, u, n)
<1> DEFINE G == {m \in Nat : \E f : OutcomeRun(f, b, u, m)}
<1>1. 0 \in G
  <2> DEFINE g == [i \in 0..0 |-> b]
  <2>1. g = [i \in 0..0 |-> IF i = 0 THEN b ELSE Effect(g[i - 1], u[i])]
    OBVIOUS
  <2> HIDE DEF g
  <2>2. OutcomeRun(g, b, u, 0)
    BY <2>1 DEF OutcomeRun
  <2> QED
    BY <2>2
<1>2. ASSUME NEW m \in 1..n, m - 1 \in G PROVE m \in G
  <2>1. PICK f : OutcomeRun(f, b, u, m - 1)
    BY <1>2
  <2> DEFINE g == [i \in 0..m |-> IF i = 0 THEN b ELSE Effect(f[i - 1], u[i])]
  <2>2. \A i \in 0..(m - 1) : g[i] = f[i]
    <3>1. \A i \in 0..(m - 1) : f[i] = IF i = 0 THEN b ELSE Effect(f[i - 1], u[i])
      BY <2>1, Zenon DEF OutcomeRun
    <3>2. \A i \in 0..(m - 1) : i \in 0..m
      OBVIOUS
    <3> QED
      BY <3>1, <3>2
  <2>3. ASSUME NEW i \in 0..m PROVE g[i] = IF i = 0 THEN b ELSE Effect(g[i - 1], u[i])
    <3>1. CASE i = 0
      BY <3>1
    <3>2. CASE i # 0
      <4>1. i - 1 \in 0..(m - 1)
        BY <3>2
      <4>2. g[i - 1] = f[i - 1]
        BY <2>2, <4>1
      <4> QED
        BY <3>2, <4>2
    <3> QED
      BY <3>1, <3>2
  <2>4. OutcomeRun(g, b, u, m)
    BY <2>3 DEF OutcomeRun
  <2> QED
    BY <2>4
<1>3. n \in G
  <2>1. G \in SUBSET Nat
    OBVIOUS
  <2> HIDE DEF G
  <2>2. \A m \in 0..n : m \in G
    BY <1>1, <1>2, <2>1, InductionUpTo
  <2> QED
    BY <2>2
<1> QED
  BY <1>3

LEMMA OutcomeIsRun ==
    ASSUME NEW b, NEW u, Len(u) \in Nat
    PROVE  \E f : OutcomeRun(f, b, u, Len(u)) /\ Outcome(b, u) = f[Len(u)]
<1> DEFINE run == CHOOSE f : OutcomeRun(f, b, u, Len(u))
<1>1. OutcomeRun(run, b, u, Len(u))
  BY OutcomeRunExists, Zenon
<1>2. Outcome(b, u) = run[Len(u)]
  BY Zenon DEF Outcome, OutcomeRun
<1> HIDE DEF run
<1> QED
  BY <1>1, <1>2

(* The outcome of steps is that of the first and then of the others. *)
LEMMA OutcomeSteps ==
    ASSUME NEW b, NEW A, NEW u \in Seq(A)
    PROVE  /\ u = <<>> => Outcome(b, u) = b
           /\ u # <<>> => Outcome(b, u) = Outcome(Effect(b, Head(u)), Tail(u))
<1> DEFINE n == Len(u)
<1>1. n \in Nat /\ DOMAIN u = 1..n
  BY SeqAt
<1>2. PICK f : OutcomeRun(f, b, u, n) /\ Outcome(b, u) = f[n]
  BY <1>1, OutcomeIsRun
<1>3. \A i \in 0..n : f[i] = IF i = 0 THEN b ELSE Effect(f[i - 1], u[i])
  BY <1>2, Zenon DEF OutcomeRun
<1>4. CASE u = <<>>
  <2>1. n = 0 /\ 0 \in 0..n
    BY <1>4
  <2> QED
    BY <1>2, <1>3, <1>4, <2>1
<1>5. CASE u # <<>>
  <2> DEFINE v == Tail(u)
             e == Effect(b, Head(u))
  <2>1. Len(v) \in Nat /\ n = Len(v) + 1 /\ u[1] = Head(u) /\ \A i \in 1..Len(v) : v[i] = u[i + 1]
    BY <1>1, <1>5
  <2>2. PICK g : OutcomeRun(g, e, v, Len(v)) /\ Outcome(e, v) = g[Len(v)]
    BY <2>1, OutcomeIsRun
  <2>3. \A i \in 0..Len(v) : g[i] = IF i = 0 THEN e ELSE Effect(g[i - 1], v[i])
    BY <2>2, Zenon DEF OutcomeRun
  <2> DEFINE G == {m \in Nat : g[m] = f[m + 1]}
  <2> HIDE DEF v, e, n
  <2>4. 0 \in G
    <3>1. 0 \in 0..Len(v) /\ 0 \in 0..n /\ 1 \in 0..n
      BY <2>1
    <3>2. g[0] = e /\ f[0] = b /\ f[1] = Effect(f[0], u[1])
      BY <1>3, <2>3, <3>1
    <3> QED
      BY <2>1, <3>2 DEF e
  <2>5. ASSUME NEW m \in 1..Len(v), m - 1 \in G PROVE m \in G
    <3>1. m \in 0..Len(v) /\ m # 0 /\ m + 1 \in 0..n /\ m + 1 # 0 /\ (m + 1) - 1 = m /\ (m - 1) + 1 = m /\ m \in Nat
      BY <2>1
    <3>2. g[m] = Effect(g[m - 1], v[m])
      BY <2>3, <3>1
    <3>3. f[m + 1] = Effect(f[m], u[m + 1])
      BY <1>3, <3>1
    <3>4. g[m - 1] = f[m]
      BY <2>5, <3>1
    <3> QED
      BY <2>1, <3>1, <3>2, <3>3, <3>4
  <2>6. G \in SUBSET Nat
    OBVIOUS
  <2> HIDE DEF G
  <2>7. \A m \in 0..Len(v) : m \in G
    BY <2>1, <2>4, <2>5, <2>6, InductionUpTo
  <2>8. g[Len(v)] = f[Len(v) + 1]
    <3>1. Len(v) \in G
      BY <2>1, <2>7
    <3> QED
      BY <3>1 DEF G
  <2> QED
    BY <1>2, <1>5, <2>1, <2>2, <2>8 DEF v, e, n
<1> QED
  BY <1>4, <1>5

-----------------------------------------------------------------------------
(* Bundles that differ in nothing but secrets and webhooks *)

SameKept(x, y) ==
    /\ IsBundle(x) /\ IsBundle(y)
    /\ x.there = y.there /\ x.yaml = y.yaml /\ x.meta = y.meta /\ x.packs = y.packs /\ x.linked = y.linked
    /\ x.registry = y.registry /\ x.registryFile = y.registryFile /\ x.broken = y.broken /\ x.defaults = y.defaults
    /\ x.dirs = y.dirs /\ x.files = y.files /\ x.gmap = y.gmap /\ x.staged = y.staged /\ x.resolved = y.resolved

KeptOf(b) == [b EXCEPT !.secrets = {}, !.webhooks = {}]

LEMMA KeptIs ==
    ASSUME NEW x, NEW y, SameKept(x, y)
    PROVE  KeptOf(x) = KeptOf(y)
<1> DEFINE K(b) == [there |-> b.there, yaml |-> b.yaml, meta |-> b.meta, packs |-> b.packs, linked |-> b.linked, registry |-> b.registry,
                    registryFile |-> b.registryFile, broken |-> b.broken, defaults |-> b.defaults, dirs |-> b.dirs, files |-> b.files,
                    gmap |-> b.gmap, staged |-> b.staged, resolved |-> b.resolved, secrets |-> {}, webhooks |-> {}]
<1>1. ASSUME NEW b, IsBundle(b) PROVE KeptOf(b) = K(b)
  <2> DEFINE R == [there |-> b.there, yaml |-> b.yaml, meta |-> b.meta, packs |-> b.packs, linked |-> b.linked, registry |-> b.registry,
                   registryFile |-> b.registryFile, broken |-> b.broken, defaults |-> b.defaults, dirs |-> b.dirs, files |-> b.files,
                   gmap |-> b.gmap, staged |-> b.staged, resolved |-> b.resolved, secrets |-> b.secrets, webhooks |-> b.webhooks]
  <2>1. b = R
    BY <1>1, Zenon DEF IsBundle
  <2>2. [R EXCEPT !.secrets = {}, !.webhooks = {}] = K(b)
    <3> DEFINE F == [R EXCEPT !.secrets = {}, !.webhooks = {}]
    <3>1. F = [f \in DOMAIN R |-> F[f]] /\ DOMAIN R = DOMAIN K(b) /\ K(b) = [f \in DOMAIN R |-> K(b)[f]]
      OBVIOUS
    <3>2. F.there = K(b).there
      OBVIOUS
    <3>3. F.yaml = K(b).yaml
      OBVIOUS
    <3>4. F.meta = K(b).meta
      OBVIOUS
    <3>5. F.packs = K(b).packs
      OBVIOUS
    <3>6. F.linked = K(b).linked
      OBVIOUS
    <3>7. F.registry = K(b).registry
      OBVIOUS
    <3>8. F.registryFile = K(b).registryFile
      OBVIOUS
    <3>9. F.broken = K(b).broken
      OBVIOUS
    <3>10. F.defaults = K(b).defaults
      OBVIOUS
    <3>11. F.dirs = K(b).dirs
      OBVIOUS
    <3>12. F.files = K(b).files
      OBVIOUS
    <3>13. F.gmap = K(b).gmap
      OBVIOUS
    <3>14. F.staged = K(b).staged
      OBVIOUS
    <3>15. F.resolved = K(b).resolved
      OBVIOUS
    <3>16. F.secrets = K(b).secrets /\ F.webhooks = K(b).webhooks
      OBVIOUS
    <3>17. DOMAIN R = {"there", "yaml", "meta", "packs", "linked", "registry", "registryFile", "broken", "defaults", "dirs", "files", "gmap", "staged", "resolved", "secrets", "webhooks"}
      OBVIOUS
    <3> HIDE DEF F, K, R
    <3> QED
      BY <3>1, <3>2, <3>3, <3>4, <3>5, <3>6, <3>7, <3>8, <3>9, <3>10, <3>11, <3>12, <3>13, <3>14, <3>15, <3>16, <3>17 DEF F
  <2> HIDE DEF R, K
  <2> QED
    BY <2>1, <2>2 DEF KeptOf
<1>2. K(x) = K(y)
  BY DEF SameKept
<1> HIDE DEF K
<1> QED
  BY <1>1, <1>2 DEF SameKept

MetaAfter(meta, refs) == (CHOOSE f : AssignRun(f, meta, refs, Len(refs)))[Len(refs)]

LEMMA AssignMakes ==
    ASSUME NEW b, NEW refs, Len(refs) \in Nat
    PROVE  assign_pack_ids_and_persist_metadata(b, refs) = [b EXCEPT !.meta = MetaAfter(b.meta, refs)]
BY Zenon DEF assign_pack_ids_and_persist_metadata, AssignRun, AddMeta, MetaAfter

LEMMA SameAfter ==
    ASSUME NEW p, PlanTypes(p), NEW x, NEW y, SameKept(x, y), NEW st \in StepSet(p)
    PROVE  SameKept(Effect(x, st), Effect(y, st))
<1> DEFINE e == Effect(x, st)
           d == Effect(y, st)
<1>0. /\ IsBundle(x) /\ IsBundle(y)
      /\ x.there = y.there /\ x.yaml = y.yaml /\ x.meta = y.meta /\ x.packs = y.packs /\ x.linked = y.linked
      /\ x.registry = y.registry /\ x.registryFile = y.registryFile /\ x.broken = y.broken /\ x.defaults = y.defaults
      /\ x.dirs = y.dirs /\ x.files = y.files /\ x.gmap = y.gmap /\ x.staged = y.staged /\ x.resolved = y.resolved
  BY DEF SameKept
<1>1. st.op \in StepOps
  BY StepFields
<1>2. /\ IsBundle(e) /\ Untouched(x, e, st.op) /\ MakesPacks(x, e, st) /\ MakesRegistry(x, e, st) /\ MakesScopes(x, e, st)
      /\ IsBundle(d) /\ Untouched(y, d, st.op) /\ MakesPacks(y, d, st) /\ MakesRegistry(y, d, st) /\ MakesScopes(y, d, st)
  BY <1>0, <1>1, EffectUntouched, EffectMakes
<1>3. e.meta = d.meta
  <2>1. CASE st.op = "assign"
    <3>1. st.x = p.refs /\ Len(p.refs) \in Nat
      BY <2>1, StepFields, SeqAt DEF PlanTypes
    <3>2. e = [x EXCEPT !.meta = MetaAfter(x.meta, st.x)] /\ d = [y EXCEPT !.meta = MetaAfter(y.meta, st.x)]
      BY <2>1, <3>1, EffectIs, AssignMakes
    <3> HIDE DEF e, d
    <3>3. e.meta = MetaAfter(x.meta, st.x) /\ d.meta = MetaAfter(y.meta, st.x)
      BY <1>0, <3>2 DEF IsBundle
    <3> QED
      BY <1>0, <3>3
  <2>2. CASE st.op # "assign"
    BY <1>0, <1>2, <2>2 DEF Untouched
  <2> QED
    BY <2>1, <2>2
<1> HIDE DEF e, d
<1>4. e.there = d.there /\ e.yaml = d.yaml
  BY <1>0, <1>2 DEF Untouched, MakesPacks
<1>5. e.packs = d.packs
  <2>1. CASE st.op = "copy"
    BY <1>0, <1>2, <2>1 DEF MakesPacks
  <2>2. CASE st.op = "unpack"
    BY <1>0, <1>2, <2>2 DEF MakesPacks
  <2> QED
    BY <1>0, <1>2, <2>1, <2>2 DEF Untouched
<1>6. e.linked = d.linked
  BY <1>0, <1>2 DEF Untouched, MakesPacks
<1>7. e.defaults = d.defaults
  <2>1. CASE st.op = "default"
    BY <1>0, <1>2, <2>1 DEF MakesPacks, Applies
  <2>2. CASE st.op = "unpack"
    BY <1>0, <1>2, <2>2 DEF MakesPacks
  <2>3. CASE st.op = "drop"
    BY <1>0, <1>2, <2>3 DEF MakesPacks
  <2> QED
    BY <1>0, <1>2, <2>1, <2>2, <2>3 DEF Untouched
<1>8. e.registry = d.registry
  <2>1. CASE st.op = "register"
    BY <1>0, <1>2, <2>1 DEF MakesRegistry, RefEntries
  <2>2. CASE st.op = "enable"
    BY <1>0, <1>2, <2>2 DEF MakesRegistry, IdEntries
  <2>3. CASE st.op = "disable"
    BY <1>0, <1>2, <2>3 DEF MakesRegistry, Disabled
  <2> QED
    BY <1>0, <1>2, <2>1, <2>2, <2>3 DEF Untouched
<1>9. e.registryFile = d.registryFile /\ e.broken = d.broken
  BY <1>0, <1>2 DEF Untouched, MakesRegistry
<1>10. e.dirs = d.dirs
  <2>1. CASE st.op = "default"
    BY <1>0, <1>2, <2>1 DEF MakesScopes, Applies
  <2>2. CASE st.op \in {"scaffold", "ensure", "drop"}
    BY <1>0, <1>2, <2>2 DEF MakesScopes
  <2>3. CASE st.op = "rule"
    BY <1>0, <1>2, <2>3 DEF MakesScopes
  <2> QED
    BY <1>0, <1>2, <2>1, <2>2, <2>3 DEF Untouched
<1>11. e.files = d.files
  <2>1. CASE st.op = "scaffold"
    BY <1>0, <1>2, <2>1 DEF MakesScopes
  <2>2. CASE st.op \in {"ensure", "drop"}
    BY <1>0, <1>2, <2>2 DEF MakesScopes
  <2>3. CASE st.op = "rule"
    BY <1>0, <1>2, <2>3 DEF MakesScopes
  <2> QED
    BY <1>0, <1>2, <2>1, <2>2, <2>3 DEF Untouched
<1>12. e.gmap = d.gmap
  BY <1>0, <1>2 DEF Untouched, MakesScopes, Created
<1>13. e.staged = d.staged
  BY <1>0, <1>2 DEF Untouched, MakesScopes
<1>14. e.resolved = d.resolved
  BY <1>0, <1>2 DEF Untouched, MakesScopes
<1>15. SameKept(e, d)
  BY <1>2, <1>3, <1>4, <1>5, <1>6, <1>7, <1>8, <1>9, <1>10, <1>11, <1>12, <1>13, <1>14 DEF SameKept
<1> QED
  BY <1>15 DEF e, d

LEMMA SameOutcome ==
    ASSUME NEW p, PlanTypes(p), NEW S \in Seq(StepSet(p)), NEW x, NEW y, SameKept(x, y)
    PROVE  SameKept(Outcome(x, S), Outcome(y, S))
<1> DEFINE A == StepSet(p)
           G == {m \in Nat : \A u \in Seq(A) : Len(u) = m => \A b, c : SameKept(b, c) => SameKept(Outcome(b, u), Outcome(c, u))}
<1>1. 0 \in G
  <2> SUFFICES ASSUME NEW u \in Seq(A), Len(u) = 0, NEW b, NEW c, SameKept(b, c) PROVE SameKept(Outcome(b, u), Outcome(c, u))
    OBVIOUS
  <2>1. u = <<>>
    OBVIOUS
  <2>2. Outcome(b, u) = b /\ Outcome(c, u) = c
    BY <2>1, OutcomeSteps
  <2> QED
    BY <2>2
<1>2. ASSUME NEW m \in Nat \ {0}, m - 1 \in G PROVE m \in G
  <2> SUFFICES ASSUME NEW u \in Seq(A), Len(u) = m, NEW b, NEW c, SameKept(b, c) PROVE SameKept(Outcome(b, u), Outcome(c, u))
    OBVIOUS
  <2>1. u # <<>> /\ Head(u) \in A /\ Tail(u) \in Seq(A) /\ Len(Tail(u)) = m - 1
    OBVIOUS
  <2>2. SameKept(Effect(b, Head(u)), Effect(c, Head(u)))
    BY <2>1, SameAfter
  <2>3. Outcome(b, u) = Outcome(Effect(b, Head(u)), Tail(u)) /\ Outcome(c, u) = Outcome(Effect(c, Head(u)), Tail(u))
    BY <2>1, OutcomeSteps
  <2> HIDE DEF A
  <2>4. SameKept(Outcome(Effect(b, Head(u)), Tail(u)), Outcome(Effect(c, Head(u)), Tail(u)))
    BY <1>2, <2>1, <2>2
  <2> QED
    BY <2>3, <2>4
<1>3. Len(S) \in G
  <2>1. Len(S) \in Nat /\ G \in SUBSET Nat
    OBVIOUS
  <2> HIDE DEF G
  <2>2. \A m \in 0..Len(S) : m \in G
    <3>1. \A m \in 1..Len(S) : m \in Nat \ {0}
      OBVIOUS
    <3> QED
      BY <1>1, <1>2, <2>1, <3>1, InductionUpTo
  <2> QED
    BY <2>1, <2>2
<1> QED
  BY <1>3

-----------------------------------------------------------------------------
(* Where no two packs have names that may come to be the same, the plan does not depend on
   what packs.json knows. *)

LEMMA SamePlan ==
    ASSUME NEW a, AnswerSeqs(a), NEW M \in SUBSET Refs, \A r \in M : Alone(r, M),
           NEW m1, MetaGood(m1), RefsIn(m1) \subseteq M, NEW m2, MetaGood(m2), RefsIn(m2) \subseteq M
    PROVE  build_plan(a, m1) = build_plan(a, m2)
<1>1. ASSUME NEW x \in Refs \union PackIds PROVE canonical_pack_identifier(m1, x) = canonical_pack_identifier(m2, x)
  <2>0. CASE x \in DOMAIN BareName
    BY <2>0, BareNames DEF canonical_pack_identifier
  <2>1. CASE x \in PackIds
    BY <2>1, Numbers DEF canonical_pack_identifier
  <2>2. CASE x \in M
    BY <2>2, AloneHasName
  <2>3. CASE x \in Refs \ M /\ x \notin DOMAIN BareName
    <3>1. RefIn(m1, x) = {} /\ RefIn(m2, x) = {}
      BY <2>3, KnownRefs
    <3> QED
      BY <2>3, <3>1, Numbers DEF canonical_pack_identifier
  <2> QED
    BY <2>0, <2>1, <2>2, <2>3
<1>2. ASSUME NEW X, NEW seq \in Seq(X), \A x \in X : x.pack \in Refs \union PackIds PROVE Named(seq, m1) = Named(seq, m2)
  <2>1. \A i \in DOMAIN seq : seq[i].pack \in Refs \union PackIds
    BY <1>2, SeqAt
  <2>2. \A i \in DOMAIN seq : canonical_pack_identifier(m1, seq[i].pack) = canonical_pack_identifier(m2, seq[i].pack)
    BY <1>1, <2>1
  <2> QED
    BY <2>2, Zenon DEF Named
<1>3. /\ Named(normalize_default_assignments_from_pack_refs(a), m1) = Named(normalize_default_assignments_from_pack_refs(a), m2)
      /\ Named(build_access_changes(a), m1) = Named(build_access_changes(a), m2)
      /\ Named(a.packsRemove, m1) = Named(a.packsRemove, m2)
  <2>1. \A x \in WishRec : x.pack \in Refs \union PackIds
    BY DEF WishRec
  <2>2. \A x \in Access : x.pack \in Refs \union PackIds
    BY DEF Access
  <2>3. \A x \in [pack : Refs \union PackIds, scope : Where \union {BundleScope}] : x.pack \in Refs \union PackIds
    OBVIOUS
  <2>4. a.packsRemove \in Seq([pack : Refs \union PackIds, scope : Where \union {BundleScope}])
    BY DEF AnswerSeqs
  <2> QED
    BY <1>2, <2>1, <2>2, <2>3, <2>4, DefaultsTyped, GrantsTyped
<1>4. normalize_request_for_plan(RequestOf(a), m1) = normalize_request_for_plan(RequestOf(a), m2)
  <2> DEFINE N(m) == [RequestOf(a) EXCEPT !.defaults = Named(normalize_default_assignments_from_pack_refs(a), m),
                                          !.packsRemove = Named(a.packsRemove, m), !.access = Named(build_access_changes(a), m)]
  <2>1. \A m : normalize_request_for_plan(RequestOf(a), m) = N(m)
    BY DEF normalize_request_for_plan, RequestOf, Named
  <2>2. N(m1) = N(m2)
    BY <1>3
  <2> HIDE DEF N
  <2> QED
    BY <2>1, <2>2
<1> QED
  BY <1>4 DEF build_plan

(* A rule is put into a file that a step before has made, if it was not there. *)
LedAt(s, j) == \E i \in 1..(j - 1) : s[i] = Do("ensure", s[j].x.scope) /\ \A k \in i..j : s[k].op # "drop"
Led(s) == \A j \in 1..Len(s) : s[j].op = "rule" => LedAt(s, j)

LEMMA LedJoined ==
    ASSUME NEW A, NEW s \in Seq(A), NEW t \in Seq(A), Led(s), Led(t)
    PROVE  Led(s \o t)
<1> DEFINE r == s \o t
<1>1. /\ Len(r) = Len(s) + Len(t) /\ Len(s) \in Nat /\ Len(t) \in Nat
      /\ \A i \in 1..Len(s) : r[i] = s[i]
      /\ \A i \in 1..Len(t) : r[Len(s) + i] = t[i]
      /\ \A i \in 1..Len(r) : i > Len(s) => i - Len(s) \in 1..Len(t) /\ r[i] = t[i - Len(s)]
  BY JoinedAt
<1> HIDE DEF r
<1> SUFFICES ASSUME NEW j \in 1..Len(r), r[j].op = "rule" PROVE LedAt(r, j)
  BY DEF Led, r
<1>2. CASE j <= Len(s)
  <2>1. j \in 1..Len(s) /\ r[j] = s[j]
    BY <1>1, <1>2
  <2>2. PICK i \in 1..(j - 1) : s[i] = Do("ensure", s[j].x.scope) /\ \A k \in i..j : s[k].op # "drop"
    BY <2>1 DEF Led, LedAt
  <2>3. i \in 1..Len(s) /\ \A k \in i..j : k \in 1..Len(s)
    BY <1>1, <2>1
  <2>4. r[i] = s[i] /\ \A k \in i..j : r[k] = s[k]
    BY <1>1, <2>3
  <2> QED
    BY <2>1, <2>2, <2>4 DEF LedAt
<1>3. CASE j > Len(s)
  <2> DEFINE n == Len(s)
             m == j - n
  <2>1. m \in 1..Len(t) /\ r[j] = t[m] /\ n \in Nat /\ j = n + m
    BY <1>1, <1>3
  <2>2. PICK i \in 1..(m - 1) : t[i] = Do("ensure", t[m].x.scope) /\ \A k \in i..m : t[k].op # "drop"
    BY <2>1 DEF Led, LedAt
  <2>3. \A i0 \in 1..Len(t) : r[n + i0] = t[i0]
    BY <1>1
  <2> HIDE DEF n, m
  <2>4. i \in 1..Len(t) /\ n + i \in 1..(j - 1)
    BY <1>1, <2>1
  <2>5. ASSUME NEW k \in (n + i)..j PROVE r[k].op # "drop"
    <3>1. k - n \in i..m /\ k - n \in 1..Len(t) /\ n + (k - n) = k
      BY <1>1, <2>1, <2>4
    <3> QED
      BY <2>2, <2>3, <3>1
  <2> QED
    BY <2>1, <2>2, <2>3, <2>4, <2>5 DEF LedAt
<1> QED
  BY <1>1, <1>2, <1>3

LEMMA LedFlat ==
    ASSUME NEW A, NEW n \in Nat, NEW ss \in [1..n -> Seq(A)], \A i \in 1..n : Led(ss[i])
    PROVE  Led(FlattenSeq(ss))
<1>1. CASE n = 0
  <2>1. ss = <<>>
    BY <1>1
  <2>2. FlattenSeq(ss) = <<>>
    BY <2>1 DEF FlattenSeq
  <2> QED
    BY <2>2 DEF Led
<1>2. CASE n # 0
  <2>1. PICK f : Flattens(f, ss, n) /\ FlattenSeq(ss) = f[n]
    BY <1>2, FlattenIsLast
  <2>2. \A m \in 1..n : f[m] = IF m = 1 THEN ss[m] ELSE f[m - 1] \o ss[m]
    BY <2>1 DEF Flattens
  <2> DEFINE G == {m \in Nat : m = 0 \/ (f[m] \in Seq(A) /\ Led(f[m]))}
  <2>3. 0 \in G
    OBVIOUS
  <2>4. ASSUME NEW m \in 1..n, m - 1 \in G PROVE m \in G
    <3>1. CASE m = 1
      BY <2>2, <3>1
    <3>2. CASE m # 1
      <4>0. f[m - 1] \in Seq(A) /\ Led(f[m - 1])
        BY <2>4, <3>2
      <4> HIDE DEF G
      <4>1. f[m] = f[m - 1] \o ss[m] /\ ss[m] \in Seq(A) /\ Led(ss[m])
        BY <2>2, <3>2
      <4> USE DEF G
      <4>2. f[m] \in Seq(A) /\ Led(f[m])
        BY <4>0, <4>1, LedJoined, JoinedSeqs
      <4> QED
        BY <4>2
    <3> QED
      BY <3>1, <3>2
  <2>5. n \in G
    <3>1. G \in SUBSET Nat
      OBVIOUS
    <3> HIDE DEF G
    <3>2. \A m \in 0..n : m \in G
      BY <2>3, <2>4, <3>1, InductionUpTo
    <3> QED
      BY <3>2
  <2> QED
    BY <1>2, <2>1, <2>5
<1> QED
  BY <1>1, <1>2

LEMMA JoinedToOne ==
    ASSUME NEW A, NEW x \in A, NEW f \in Seq(A)
    PROVE  /\ Len(<<x>> \o f) = 1 + Len(f) /\ (<<x>> \o f)[1] = x /\ Len(f) \in Nat
           /\ \A k \in 1..Len(<<x>> \o f) : k > 1 => k - 1 \in 1..Len(f) /\ (<<x>> \o f)[k] = f[k - 1]
OBVIOUS

LEMMA AccessLed ==
    ASSUME NEW p, PlanTypes(p)
    PROVE  Led(apply_access_and_sync(p)) /\ \A j \in 1..Len(apply_access_and_sync(p)) : apply_access_and_sync(p)[j].op # "scaffold"
<1> DEFINE A == StepOf(p, Touching)
           ss == [i \in DOMAIN p.tenants |-> AllowSteps(p.tenants[i])]
           tt == [i \in DOMAIN p.access |-> ChangeSteps(p.access[i])]
<1>1. /\ ss \in [1..Len(p.tenants) -> Seq(A)] /\ tt \in [1..Len(p.access) -> Seq(A)]
      /\ Grants(p) = FlattenSeq(ss) \o FlattenSeq(tt)
  BY GrantParts
<1>2. Len(p.tenants) \in Nat /\ Len(p.access) \in Nat
  BY SeqAt DEF PlanTypes
<1>3. ASSUME NEW i \in 1..Len(p.tenants) PROVE Led(ss[i])
  <2> DEFINE t == p.tenants[i]
             one == <<Do("ensure", t.scope)>>
             f == [k \in DOMAIN t.allow |-> Do("rule", [scope |-> t.scope, path |-> t.allow[k], policy |-> Public])]
  <2>1. ss[i] = one \o f
    BY <1>1 DEF AllowSteps
  <2>2. t.allow \in Seq(PathRec)
    <3>1. t \in TenantRec
      BY SeqAt DEF PlanTypes
    <3> QED
      BY <3>1 DEF TenantRec
  <2>3. DOMAIN f = 1..Len(t.allow) /\ Len(t.allow) \in Nat
    BY <2>2, SeqAt
  <2> DEFINE X == Range(f) \union {Do("ensure", t.scope)}
  <2>4. f \in Seq(X) /\ Len(f) = Len(t.allow)
    <3>1. f \in [1..Len(t.allow) -> X]
      BY <2>3 DEF Range
    <3> HIDE DEF f, X
    <3> QED
      BY <2>3, <3>1, FunctionSeq
  <2>5. Do("ensure", t.scope) \in X /\ one = <<Do("ensure", t.scope)>>
    OBVIOUS
  <2>6. \A k \in 1..Len(f) : f[k].op = "rule" /\ f[k].x.scope = t.scope
    BY <2>3, <2>4 DEF Do
  <2> HIDE DEF f, one, X
  <2>7. /\ Len(one \o f) = 1 + Len(f) /\ (one \o f)[1] = Do("ensure", t.scope) /\ Len(f) \in Nat
        /\ \A k \in 1..Len(one \o f) : k > 1 => k - 1 \in 1..Len(f) /\ (one \o f)[k] = f[k - 1]
    BY <2>4, <2>5, JoinedToOne
  <2> DEFINE r == one \o f
  <2> HIDE DEF r
  <2>8. \A k \in 1..Len(r) : r[k].op # "drop" /\ (k # 1 => r[k].x.scope = t.scope) /\ (r[k].op = "rule" => k # 1)
    <3>1. r[1].op = "ensure"
      BY <2>7 DEF r, Do
    <3>2. \A k \in 1..Len(r) : k = 1 \/ (k > 1 /\ r[k].op = "rule" /\ r[k].x.scope = t.scope)
      BY <2>6, <2>7 DEF r
    <3> QED
      BY <3>1, <3>2
  <2>9. ASSUME NEW j \in 1..Len(r), r[j].op = "rule" PROVE LedAt(r, j)
    <3>1. j # 1 /\ 1 \in 1..(j - 1) /\ \A k \in 1..j : k \in 1..Len(r)
      BY <2>7, <2>8, <2>9 DEF r
    <3>2. r[1] = Do("ensure", r[j].x.scope)
      BY <2>7, <2>8, <3>1 DEF r
    <3> QED
      BY <2>8, <3>1, <3>2 DEF LedAt
  <2> QED
    BY <2>1, <2>9 DEF Led, r
<1>4. ASSUME NEW i \in 1..Len(p.access) PROVE Led(tt[i])
  <2> DEFINE c == p.access[i]
  <2>1. tt[i] = <<Do("ensure", c.scope), RuleOf(c)>>
    BY <1>1 DEF ChangeSteps, RuleOf
  <2>2. Do("ensure", c.scope).op = "ensure" /\ RuleOf(c).x.scope = c.scope
    BY DEF Do, RuleOf
  <2> HIDE DEF c, tt
  <2>3. Len(tt[i]) = 2 /\ tt[i][1] = Do("ensure", c.scope) /\ tt[i][2] = RuleOf(c)
    BY <2>1
  <2>4. \A j \in 1..2 : j = 1 \/ (j = 2 /\ 1 \in 1..(j - 1))
    OBVIOUS
  <2>5. Do("ensure", c.scope).op # "drop" /\ Do("ensure", c.scope).op # "rule" /\ RuleOf(c).op # "drop"
    BY DEF Do, RuleOf
  <2>6. \A k \in 1..2 : k = 1 \/ k = 2
    OBVIOUS
  <2> QED
    BY <2>2, <2>3, <2>4, <2>5, <2>6 DEF Led, LedAt
<1> HIDE DEF A, ss, tt
<1>5. FlattenSeq(ss) \in Seq(A) /\ FlattenSeq(tt) \in Seq(A) /\ Led(FlattenSeq(ss)) /\ Led(FlattenSeq(tt))
  BY <1>1, <1>2, <1>3, <1>4, FlattenSeqType, LedFlat
<1>6. Led(Grants(p))
  BY <1>1, <1>5, LedJoined
<1>7. PICK t \in Seq(StepOf(p, Syncing)) : apply_access_and_sync(p) = Grants(p) \o t
  BY AccessPiece
<1>8. Led(t)
  <2>1. \A j \in 1..Len(t) : t[j] \in StepOf(p, Syncing)
    BY SeqAt
  <2> QED
    BY <2>1 DEF Led, StepOf, Syncing
<1>9. Grants(p) \in Seq(StepSet(p)) /\ t \in Seq(StepSet(p))
  <2>1. Grants(p) \in Seq(StepOf(p, Touching))
    BY GrantsPiece DEF Piece
  <2>2. \A P, s : s \in Seq(StepOf(p, P)) => s \in Seq(StepSet(p))
    BY DEF StepOf
  <2> QED
    BY <2>1, <2>2
<1>10. Led(apply_access_and_sync(p))
  BY <1>6, <1>7, <1>8, <1>9, LedJoined
<1>11. ASSUME NEW j \in 1..Len(apply_access_and_sync(p)) PROVE apply_access_and_sync(p)[j].op # "scaffold"
  <2>1. apply_access_and_sync(p) \in Seq(StepOf(p, Touching \union Syncing))
    BY AccessPiece DEF Piece
  <2>2. apply_access_and_sync(p)[j] \in StepOf(p, Touching \union Syncing)
    BY <2>1, SeqAt
  <2> QED
    BY <2>2 DEF StepOf, Touching, Syncing
<1> QED
  BY <1>10, <1>11

(* An update or a removal makes no bundle, and puts rules only into files it has made sure of. *)
LEMMA UpdateLed ==
    ASSUME NEW p, PlanTypes(p), p.mode # "create"
    PROVE  Led(execute_plan(p)) /\ \A st \in Range(execute_plan(p)) : st.op # "scaffold"
<1> DEFINE S == execute_plan(p)
<1>0. S \in Seq(StepSet(p))
  BY PlanShaped DEF PlanShape
<1>1. CASE p.mode = "update"
  <2> DEFINE t == When("access_change" \in p.ops, apply_access_and_sync(p))
  <2>1. PICK u \in Seq(StepSet(p)) : /\ \A j \in 1..Len(u) : u[j].op \notin {"rule", "scaffold"}
                                    /\ execute_update_plan(p) = u \o t
    BY UpdateSteps
  <2>2. S = u \o t
    BY <1>1, <2>1 DEF execute_plan
  <2>0. t = <<>> \/ t = apply_access_and_sync(p)
    BY DEF When
  <2> HIDE DEF t, S
  <2>3. t \in Seq(StepSet(p)) /\ Led(t) /\ \A j \in 1..Len(t) : t[j].op # "scaffold"
    <3>1. CASE t = <<>>
      <4>1. Len(t) = 0 /\ t \in Seq(StepSet(p))
        BY <3>1
      <4> QED
        BY <4>1 DEF Led
    <3>2. CASE t = apply_access_and_sync(p)
      <4>1. apply_access_and_sync(p) \in Seq(StepSet(p))
        BY AccessPiece, PieceOps
      <4> QED
        BY <3>2, <4>1, AccessLed
    <3> QED
      BY <2>0, <3>1, <3>2
  <2>4. Led(S)
    <3>1. Led(u)
      BY <2>1 DEF Led
    <3> QED
      BY <2>2, <2>3, <3>1, LedJoined
  <2>5. ASSUME NEW st \in Range(S) PROVE st.op # "scaffold"
    <3>1. Range(S) = Range(u) \union Range(t)
      BY <2>2, <2>3, JoinedSeqs
    <3>2. DOMAIN u = 1..Len(u) /\ DOMAIN t = 1..Len(t)
      BY <2>3, SeqAt
    <3> QED
      BY <2>1, <2>3, <3>1, <3>2 DEF Range
  <2> QED
    BY <2>4, <2>5 DEF S
<1>2. CASE p.mode = "remove"
  <2>1. S = execute_remove_plan(p)
    BY <1>2 DEF execute_plan
  <2>2. \A st \in Range(S) : st.op \in {"unpack", "disable", "drop"}
    BY <2>1, RemoveSteps
  <2>3. \A j \in 1..Len(S) : S[j] \in Range(S)
    BY <1>0, SeqAt DEF Range
  <2> HIDE DEF S
  <2>4. Led(S)
    BY <2>2, <2>3 DEF Led
  <2> QED
    BY <2>2, <2>4 DEF S
<1> QED
  BY <1>1, <1>2 DEF PlanTypes

-----------------------------------------------------------------------------
(* A file that has been through a rule, and one that is still to go through it. *)

OnFile(st, s) == st.op = "rule" /\ st.x.scope = s
Said(u, s) == {st.x.path.names : st \in {q \in Range(u) : OnFile(q, s)}}

(* Q has one path more than P, that of a rule to come, and the rules before it are for paths of P. *)
Grown(P, Q, u, s) ==
    \E j \in 1..Len(u) : /\ OnFile(u[j], s) /\ Q = Append(P, u[j].x.path.names)
                         /\ \A i \in 1..(j - 1) : OnFile(u[i], s) => Holds(P, u[i].x.path.names)

(* The files of s will be the same when the steps of u are done. *)
Agree(f, g, u, s) ==
    f = g \/ /\ f.commented = g.commented /\ Said(u, s) # {}
             /\ \A q : q \in Said(u, s) \/ LastPolicy(f.rules, q) = LastPolicy(g.rules, q)
             /\ IF f.commented THEN PathsIn(f.rules) = PathsIn(g.rules) \/ Grown(PathsIn(f.rules), PathsIn(g.rules), u, s)
                ELSE Short(f.rules) /\ Short(g.rules) /\ \A q \in Said(u, s) : Len(q) <= 3

LEMMA SaidTail ==
    ASSUME NEW A, NEW u \in Seq(A), u # <<>>, NEW s
    PROVE  Said(u, s) = IF OnFile(Head(u), s) THEN {Head(u).x.path.names} \union Said(Tail(u), s) ELSE Said(Tail(u), s)
<1>1. Range(u) = {Head(u)} \union Range(Tail(u))
  BY TailSeq
<1> DEFINE h == Head(u)
           R == Range(Tail(u))
<1> HIDE DEF h, R
<1>2. Range(u) = {h} \union R
  BY <1>1 DEF h, R
<1>3. Said(u, s) = {st.x.path.names : st \in {q \in {h} \union R : OnFile(q, s)}}
  BY <1>2 DEF Said
<1>4. Said(Tail(u), s) = {st.x.path.names : st \in {q \in R : OnFile(q, s)}}
  BY DEF Said, R
<1>5. CASE OnFile(h, s)
  BY <1>3, <1>4, <1>5 DEF h
<1>6. CASE ~OnFile(h, s)
  BY <1>3, <1>4, <1>6 DEF h
<1> QED
  BY <1>5, <1>6

LEMMA GrownTail ==
    ASSUME NEW A, NEW u \in Seq(A), u # <<>>, NEW s, NEW P, NEW Q, Grown(P, Q, u, s)
    PROVE  \/ OnFile(Head(u), s) /\ Q = Append(P, Head(u).x.path.names)
           \/ Grown(P, Q, Tail(u), s) /\ (OnFile(Head(u), s) => Holds(P, Head(u).x.path.names))
<1> DEFINE t == Tail(u)
           n == Len(u)
<1>1. n \in Nat /\ n > 0 /\ Head(u) = u[1] /\ Len(t) = n - 1 /\ \A i \in 1..(n - 1) : t[i] = u[i + 1]
  OBVIOUS
<1>2. PICK j \in 1..n : /\ OnFile(u[j], s) /\ Q = Append(P, u[j].x.path.names)
                        /\ \A i \in 1..(j - 1) : OnFile(u[i], s) => Holds(P, u[i].x.path.names)
  BY DEF Grown
<1> HIDE DEF t, n
<1>3. CASE j = 1
  BY <1>1, <1>2, <1>3
<1>4. CASE j # 1
  <2> DEFINE k == j - 1
  <2>1. k \in 1..(n - 1) /\ t[k] = u[j] /\ 1 \in 1..(j - 1)
    <3>1. k \in 1..(n - 1) /\ k + 1 = j /\ 1 \in 1..(j - 1)
      BY <1>1, <1>4
    <3> QED
      BY <1>1, <3>1
  <2>2. ASSUME NEW i \in 1..(k - 1), OnFile(t[i], s) PROVE Holds(P, t[i].x.path.names)
    <3>1. i + 1 \in 1..(j - 1) /\ i \in 1..(n - 1)
      BY <1>1, <1>4
    <3>2. t[i] = u[i + 1]
      BY <1>1, <3>1
    <3> QED
      BY <1>2, <2>2, <3>1, <3>2
  <2>3. Grown(P, Q, t, s)
    <3>1. OnFile(t[k], s) /\ Q = Append(P, t[k].x.path.names)
      BY <1>2, <2>1
    <3>2. k \in 1..Len(t)
      BY <1>1, <2>1
    <3> HIDE DEF k
    <3> QED
      BY <2>2, <3>1, <3>2 DEF Grown
  <2> QED
    BY <1>1, <1>2, <2>1, <2>3 DEF t
<1> QED
  BY <1>3, <1>4

LEMMA AgreeAside ==
    ASSUME NEW A, NEW u \in Seq(A), u # <<>>, NEW s, NEW f, NEW g, Agree(f, g, u, s), ~OnFile(Head(u), s)
    PROVE  Agree(f, g, Tail(u), s)
<1>1. Said(u, s) = Said(Tail(u), s)
  BY SaidTail
<1>2. Grown(PathsIn(f.rules), PathsIn(g.rules), u, s) => Grown(PathsIn(f.rules), PathsIn(g.rules), Tail(u), s)
  BY GrownTail
<1> QED
  BY <1>1, <1>2 DEF Agree

LEMMA AgreeEnd ==
    ASSUME NEW s, NEW f, NEW g, Agree(f, g, <<>>, s)
    PROVE  f = g
<1>1. Said(<<>>, s) = {}
  BY NothingHeld DEF Said
<1> QED
  BY <1>1 DEF Agree

(* Both go through a rule. *)
LEMMA AgreeRule ==
    ASSUME NEW A, NEW u \in Seq(A), u # <<>>, NEW s, NEW f \in FileRec, Unique(f.rules), NEW g \in FileRec, Unique(g.rules),
           Agree(f, g, u, s), OnFile(Head(u), s), NEW way, way.names \in Seq(Nat), way.plain, Head(u).x.path.names = way.names,
           NEW pol \in {Public, Forbidden}
    PROVE  Agree(upsert_policy(f, way, pol), upsert_policy(g, way, pol), Tail(u), s)
<1>a1. upsert_policy(f, way, pol) \in FileRec
  BY UpsertSays
<1>a2. Unique(upsert_policy(f, way, pol).rules)
  BY UpsertSays
<1>a3. \A x : LastPolicy(upsert_policy(f, way, pol).rules, x) = IF x = way.names THEN pol ELSE LastPolicy(f.rules, x)
  BY UpsertSays
<1>b1. upsert_policy(g, way, pol) \in FileRec
  BY UpsertSays
<1>b2. Unique(upsert_policy(g, way, pol).rules)
  BY UpsertSays
<1>b3. \A x : LastPolicy(upsert_policy(g, way, pol).rules, x) = IF x = way.names THEN pol ELSE LastPolicy(g.rules, x)
  BY UpsertSays
<1> DEFINE v == Tail(u)
           q == way.names
           e == upsert_policy(f, way, pol)
           d == upsert_policy(g, way, pol)
           P == PathsIn(f.rules)
           Q == PathsIn(g.rules)
<1>1. CASE f = g
  BY <1>1 DEF Agree
<1>2. CASE f # g
  <2>1. Said(u, s) = {q} \union Said(v, s)
    BY SaidTail
  <2>2. /\ f.commented = g.commented
        /\ \A x : x \in Said(u, s) \/ LastPolicy(f.rules, x) = LastPolicy(g.rules, x)
        /\ f.commented => P = Q \/ Grown(P, Q, u, s)
        /\ ~f.commented => Short(f.rules) /\ Short(g.rules) /\ \A x \in Said(u, s) : Len(x) <= 3
    BY <1>2 DEF Agree
  <2>a. q \in Seq(Nat)
    OBVIOUS
  <2>b. e \in FileRec /\ Unique(e.rules) /\ \A x : LastPolicy(e.rules, x) = IF x = q THEN pol ELSE LastPolicy(f.rules, x)
    BY <1>a1, <1>a2, <1>a3
  <2>c. d \in FileRec /\ Unique(d.rules) /\ \A x : LastPolicy(d.rules, x) = IF x = q THEN pol ELSE LastPolicy(g.rules, x)
    BY <1>b1, <1>b2, <1>b3
  <2>3. /\ e \in FileRec /\ Unique(e.rules) /\ \A x : LastPolicy(e.rules, x) = IF x = q THEN pol ELSE LastPolicy(f.rules, x)
        /\ d \in FileRec /\ Unique(d.rules) /\ \A x : LastPolicy(d.rules, x) = IF x = q THEN pol ELSE LastPolicy(g.rules, x)
    BY <2>b, <2>c
  <2>4. /\ e.commented = f.commented /\ d.commented = g.commented
        /\ f.commented => PathsIn(e.rules) = IF Holds(P, q) THEN P ELSE Append(P, q)
        /\ g.commented => PathsIn(d.rules) = IF Holds(Q, q) THEN Q ELSE Append(Q, q)
        /\ ~f.commented /\ Short(f.rules) /\ Len(q) <= 3 => Rising(e.rules) /\ Short(e.rules)
        /\ ~g.commented /\ Short(g.rules) /\ Len(q) <= 3 => Rising(d.rules) /\ Short(d.rules)
    BY UpsertMakes
  <2>5. /\ f.rules \in Seq(RuleRec) /\ g.rules \in Seq(RuleRec) /\ e.rules \in Seq(RuleRec) /\ d.rules \in Seq(RuleRec)
        /\ e = [commented |-> e.commented, rules |-> e.rules] /\ d = [commented |-> d.commented, rules |-> d.rules]
    BY <2>3 DEF FileRec
  <2>6. P \in Seq(Seq(Nat)) /\ Q \in Seq(Seq(Nat))
    BY <2>5, PathsTyped
  <2> HIDE DEF v, q, e, d, P, Q
  <2>7. \A x : x \in Said(v, s) \/ LastPolicy(e.rules, x) = LastPolicy(d.rules, x)
    BY <2>1, <2>2, <2>3
  <2>8. ASSUME f.commented PROVE PathsIn(e.rules) = PathsIn(d.rules) \/ (Grown(PathsIn(e.rules), PathsIn(d.rules), v, s) /\ Said(v, s) # {})
    <3>1. CASE P = Q
      BY <2>2, <2>4, <2>8, <3>1
    <3>2. CASE Grown(P, Q, u, s)
      <4>1. CASE Q = Append(P, q)
        <5>1. q \in Seq(Nat)
          BY DEF q
        <5>2. ~Holds(P, q)
          BY <2>5, <2>6, <4>1, <5>1, NotTwice DEF Q
        <5>3. Holds(Q, q)
          BY <2>6, <4>1, <5>1, HoldsMore
        <5> QED
          BY <2>2, <2>4, <2>8, <4>1, <5>2, <5>3
      <4>2. CASE Grown(P, Q, v, s) /\ Holds(P, q)
        <5>1. PICK j \in 1..Len(v) : OnFile(v[j], s) /\ Q = Append(P, v[j].x.path.names)
          BY <4>2 DEF Grown
        <5>2. v \in Seq(A)
          BY DEF v
        <5>3. v[j] \in Range(v)
          BY <5>2, SeqAt DEF Range
        <5>4. v[j].x.path.names \in Said(v, s)
          BY <5>1, <5>3 DEF Said
        <5>5. Holds(Q, q)
          <6>1. PICK k \in DOMAIN P : q = P[k]
            BY <4>2 DEF Holds
          <6>2. k \in DOMAIN Append(P, v[j].x.path.names) /\ Append(P, v[j].x.path.names)[k] = P[k]
            BY <2>6
          <6> QED
            BY <5>1, <6>1, <6>2 DEF Holds
        <5> QED
          BY <2>2, <2>4, <2>8, <4>2, <5>4, <5>5
      <4> QED
        BY <3>2, <4>1, <4>2, GrownTail DEF P, Q, q, v
    <3> QED
      BY <2>2, <2>8, <3>1, <3>2
  <2>9. ASSUME ~f.commented PROVE /\ Rising(e.rules) /\ Short(e.rules) /\ Rising(d.rules) /\ Short(d.rules)
                                  /\ \A x \in Said(v, s) : Len(x) <= 3
    BY <2>1, <2>2, <2>4, <2>9
  <2>10. CASE Said(v, s) = {}
    <3>1. SaySame(e.rules, d.rules) /\ SaySame(d.rules, e.rules)
      BY <2>7, <2>10 DEF SaySame
    <3>2. e.rules = d.rules
      <4>1. CASE f.commented
        BY <2>3, <2>5, <2>8, <2>10, <3>1, <4>1, SamePathsSame
      <4>2. CASE ~f.commented
        <5>0. Unique(e.rules) /\ Unique(d.rules) /\ e.rules \in Seq(RuleRec) /\ d.rules \in Seq(RuleRec)
          BY <2>3, <2>5
        <5>1. Range(e.rules) \subseteq Range(d.rules)
          BY <3>1, <5>0, SaysAll
        <5>2. Range(d.rules) \subseteq Range(e.rules)
          BY <3>1, <5>0, SaysAll
        <5>3. Range(e.rules) = Range(d.rules)
          BY <5>1, <5>2
        <5>4. Rising(e.rules) /\ Rising(d.rules)
          BY <2>9, <4>2
        <5> QED
          BY <5>0, <5>3, <5>4, RisingSame
      <4> QED
        BY <4>1, <4>2
    <3> QED
      BY <2>2, <2>4, <2>5, <3>2 DEF Agree, e, d, v
  <2>11. CASE Said(v, s) # {}
    <3>1. Agree(e, d, v, s)
      BY <2>2, <2>4, <2>7, <2>8, <2>9, <2>11 DEF Agree
    <3> QED
      BY <3>1 DEF e, d, v
  <2> QED
    BY <2>10, <2>11
<1> QED
  BY <1>1, <1>2

-----------------------------------------------------------------------------
(* A run from one bundle and from another that a step of the same run has made of it: the
   steps that are left make up for what is different. *)

(* A bundle on which the steps of u are still to be done; what they link they copy before. *)
Fits(x, u, p, M) ==
    /\ RunGood(x, u, p) /\ OnePerPath(x)
    /\ M \in SUBSET Refs /\ RefsIn(x.meta) \union Range(p.refs) \subseteq M /\ \A r \in M : Alone(r, M)
    /\ \A st \in Range(u) : st.op # "scaffold" /\ (st.op = "rule" => st.x.path.plain)
    /\ \A r \in Refs : Do("link", r) \in Range(u) => Do("copy", r) \in Range(u) \/ x.packs[BaseOf[r]] = "whole"

(* The first of the steps. *)
LEMMA HeadFits ==
    ASSUME NEW u, NEW p, NEW x, RunGood(x, u, p), u # <<>>
    PROVE  /\ Head(u) \in StepSet(p) /\ Head(u).op \in StepOps
           /\ Tail(u) \in Seq(StepSet(p)) /\ Range(u) = {Head(u)} \union Range(Tail(u))
           /\ \A st \in Range(Tail(u)) : st \in StepSet(p) /\ ~Precedes(st.op, Head(u).op)
           /\ IsBundle(x) /\ PlanTypes(p)
<1>1. PlanTypes(p) /\ u \in Seq(StepSet(p)) /\ Ordered(u) /\ Sound(x)
  BY DEF RunGood
<1>2. /\ Head(u) \in StepSet(p) /\ Tail(u) \in Seq(StepSet(p)) /\ Range(u) = {Head(u)} \union Range(Tail(u))
      /\ \A st \in Range(Tail(u)) : ~Precedes(st.op, Head(u).op)
  BY <1>1, TailSeq
<1>3. Range(Tail(u)) \subseteq StepSet(p)
  BY <1>2, RangeSeq
<1>4. Head(u).op \in StepOps
  BY <1>2, StepFields
<1>5. IsBundle(x)
  BY <1>1 DEF Sound
<1> QED
  BY <1>1, <1>2, <1>3, <1>4, <1>5

(* The packs are known by the names that are derived from their references. *)
LEMMA FirstNames ==
    ASSUME NEW u, NEW p, NEW M, NEW x, Fits(x, u, p, M), u # <<>>
    PROVE  /\ Head(u).op \in {"copy", "link"} => Head(u).x \in Refs /\ IdOf(x.meta, Head(u).x) = BaseOf[Head(u).x]
           /\ Head(u).op = "register" => Head(u).x = p.refs /\ \A r \in Range(p.refs) : r \in Refs /\ IdOf(x.meta, r) = BaseOf[r]
<1> DEFINE st == Head(u)
<1>1. /\ RunGood(x, u, p) /\ M \in SUBSET Refs /\ RefsIn(x.meta) \subseteq M /\ Range(p.refs) \subseteq M
      /\ \A r \in M : Alone(r, M)
  BY DEF Fits
<1>2. MetaGood(x.meta) /\ st \in StepSet(p) /\ Finds(x, st)
  BY <1>1, RunFinds DEF RunGood, Sound
<1>3. \A r \in Range(p.refs) : RefIn(x.meta, r) # {} => IdOf(x.meta, r) = BaseOf[r]
  BY <1>1, <1>2, AloneHasName
<1>4. (st.op \in {"copy", "link"} => st.x \in Range(p.refs)) /\ (st.op = "register" => st.x = p.refs)
  BY <1>2, StepFields
<1> QED
  BY <1>1, <1>2, <1>3, <1>4 DEF Finds

LEMMA FitsSteps ==
    ASSUME NEW u, NEW p, NEW M, NEW x, Fits(x, u, p, M), u # <<>>
    PROVE  Fits(Effect(x, Head(u)), Tail(u), p, M)
<1> DEFINE st == Head(u)
           v == Tail(u)
           e == Effect(x, st)
<1>1. /\ RunGood(x, u, p) /\ OnePerPath(x) /\ M \in SUBSET Refs /\ RefsIn(x.meta) \union Range(p.refs) \subseteq M
      /\ \A r \in M : Alone(r, M)
      /\ \A q \in Range(u) : q.op # "scaffold" /\ (q.op = "rule" => q.x.path.plain)
      /\ \A r \in Refs : Do("link", r) \in Range(u) => Do("copy", r) \in Range(u) \/ x.packs[BaseOf[r]] = "whole"
  BY DEF Fits
<1>2. /\ st \in StepSet(p) /\ Range(u) = {st} \union Range(v) /\ IsBundle(x) /\ PlanTypes(p)
      /\ \A q \in Range(v) : q \in StepSet(p) /\ ~Precedes(q.op, st.op)
  BY <1>1, HeadFits
<1>3. RunGood(e, v, p) /\ RefsIn(e.meta) \subseteq RefsIn(x.meta) \union Range(p.refs) /\ Untouched(x, e, st.op)
  BY <1>1, RunSteps DEF Moves
<1>4. OnePerPath(e)
  BY <1>1, <1>2, OneKept DEF RunGood
<1>5. ASSUME NEW r \in Refs, Do("link", r) \in Range(v) PROVE Do("copy", r) \in Range(v) \/ e.packs[BaseOf[r]] = "whole"
  <2>1. Do("copy", r) \in Range(u) \/ x.packs[BaseOf[r]] = "whole"
    BY <1>1, <1>2, <1>5
  <2>2. st.op # "unpack"
    BY <1>2, <1>5 DEF Precedes, Do
  <2>3. x.packs \in [PackIds -> Held] /\ BaseOf[r] \in PackIds
    BY <1>1, Numbers DEF RunGood, Sound, SoundPacks
  <2>4. CASE st.op = "copy"
    <3>1. st.x \in Refs /\ IdOf(x.meta, st.x) = BaseOf[st.x]
      BY <2>4, FirstNames
    <3>a. MakesPacks(x, e, st)
      BY <1>2, EffectMakes
    <3>3. st = Do("copy", r) => st.x = r
      BY DEF Do
    <3> HIDE DEF e, st
    <3>2. e.packs = [x.packs EXCEPT ![BaseOf[st.x]] = "whole"]
      BY <2>4, <3>1, <3>a DEF MakesPacks
    <3> QED
      BY <1>2, <2>1, <2>3, <3>2, <3>3
  <2>5. CASE st.op # "copy"
    <3>1. e.packs = x.packs
      BY <1>3, <2>2, <2>5 DEF Untouched
    <3>2. st # Do("copy", r)
      BY <2>5 DEF Do
    <3> QED
      BY <1>2, <2>1, <3>1, <3>2
  <2> QED
    BY <2>4, <2>5
<1> HIDE DEF st, v, e
<1>6. \A q \in Range(v) : q.op # "scaffold" /\ (q.op = "rule" => q.x.path.plain)
  BY <1>1, <1>2
<1>7. RefsIn(e.meta) \union Range(p.refs) \subseteq M
  BY <1>1, <1>3
<1> QED
  BY <1>1, <1>3, <1>4, <1>5, <1>6, <1>7 DEF Fits, e, st, v

-----------------------------------------------------------------------------
(* Packs *)

CopiedTo(u, i) == \E r \in Refs : BaseOf[r] = i /\ Do("copy", r) \in Range(u)
Unpacked(u, i) == \E st \in Range(u) : st.op = "unpack" /\ st.x.pack = i
Chosen(u, i) == \E st \in Range(u) : st.op = "default" /\ st.x.pack = i

PacksRel(x, y, u) ==
    \A i \in PackIds : x.packs[i] = y.packs[i] \/ CopiedTo(u, i) \/ (Unpacked(u, i) /\ ~Chosen(u, i))

LEMMA PacksStep ==
    ASSUME NEW u, NEW p, NEW M, NEW x, Fits(x, u, p, M), NEW y, Fits(y, u, p, M), u # <<>>, PacksRel(x, y, u)
    PROVE  PacksRel(Effect(x, Head(u)), Effect(y, Head(u)), Tail(u))
<1> DEFINE st == Head(u)
           v == Tail(u)
           e == Effect(x, st)
           d == Effect(y, st)
<1>1. RunGood(x, u, p) /\ RunGood(y, u, p)
  BY DEF Fits
<1>2. /\ st \in StepSet(p) /\ st.op \in StepOps /\ Range(u) = {st} \union Range(v) /\ IsBundle(x) /\ IsBundle(y)
  BY <1>1, HeadFits
<1>3. Untouched(x, e, st.op) /\ Untouched(y, d, st.op) /\ MakesPacks(x, e, st) /\ MakesPacks(y, d, st)
  BY <1>2, EffectUntouched, EffectMakes
<1>4. x.packs \in [PackIds -> Held] /\ y.packs \in [PackIds -> Held]
  BY <1>1 DEF RunGood, Sound, SoundPacks
<1>5. (st.op = "copy" => st.x \in Refs /\ IdOf(x.meta, st.x) = BaseOf[st.x] /\ IdOf(y.meta, st.x) = BaseOf[st.x] /\ st = Do("copy", st.x))
  <2>1. st.op = "copy" => st = Do("copy", st.x)
    BY <1>2 DEF StepSet, Kind, Do
  <2> QED
    BY <2>1, FirstNames
<1> HIDE DEF st, v, e, d
<1>6. ASSUME NEW i \in PackIds PROVE e.packs[i] = d.packs[i] \/ CopiedTo(v, i) \/ (Unpacked(v, i) /\ ~Chosen(v, i))
  <2>1. x.packs[i] = y.packs[i] \/ CopiedTo(u, i) \/ (Unpacked(u, i) /\ ~Chosen(u, i))
    BY DEF PacksRel
  <2>2. ~Chosen(u, i) => ~Chosen(v, i)
    BY <1>2 DEF Chosen
  <2>3. CASE st.op = "copy"
    <3>1. e.packs = [x.packs EXCEPT ![BaseOf[st.x]] = "whole"] /\ d.packs = [y.packs EXCEPT ![BaseOf[st.x]] = "whole"]
      BY <1>3, <1>5, <2>3 DEF MakesPacks
    <3>2. BaseOf[st.x] # i => (CopiedTo(u, i) => CopiedTo(v, i))
      BY <1>2, <1>5, <2>3 DEF CopiedTo, Do
    <3>3. Unpacked(u, i) => Unpacked(v, i)
      BY <1>2, <2>3 DEF Unpacked
    <3> QED
      BY <1>4, <2>1, <2>2, <3>1, <3>2, <3>3
  <2>4. CopiedTo(u, i) /\ st.op # "copy" => CopiedTo(v, i)
    BY <1>2 DEF CopiedTo, Do
  <2>5. CASE st.op = "unpack"
    <3>1. e.packs = [x.packs EXCEPT ![st.x.pack] = None] /\ d.packs = [y.packs EXCEPT ![st.x.pack] = None]
      BY <1>3, <2>5 DEF MakesPacks
    <3>2. st.x.pack # i => (Unpacked(u, i) => Unpacked(v, i))
      BY <1>2 DEF Unpacked
    <3> QED
      BY <1>4, <2>1, <2>2, <2>4, <2>5, <3>1, <3>2
  <2>6. CASE st.op \notin {"copy", "unpack"}
    <3>1. e.packs = x.packs /\ d.packs = y.packs
      BY <1>3, <2>6 DEF Untouched
    <3>2. Unpacked(u, i) => Unpacked(v, i)
      BY <1>2, <2>6 DEF Unpacked
    <3> QED
      BY <2>1, <2>2, <2>4, <2>6, <3>1, <3>2
  <2> QED
    BY <2>3, <2>5, <2>6
<1> QED
  BY <1>6 DEF PacksRel, e, d, v, st

(* The copies for the domains *)

LinksRel(x, y, u) ==
    \A i \in PackIds : \/ x.linked[i] = y.linked[i]
                       \/ /\ x.linked[i] \in {None, "whole"} /\ y.linked[i] \in {None, "whole"} /\ i \in Linkable
                          /\ \E r \in Refs : BaseOf[r] = i /\ Do("link", r) \in Range(u)

LEMMA LinksStep ==
    ASSUME NEW u, NEW p, NEW M, NEW x, Fits(x, u, p, M), NEW y, Fits(y, u, p, M), u # <<>>, LinksRel(x, y, u)
    PROVE  LinksRel(Effect(x, Head(u)), Effect(y, Head(u)), Tail(u))
<1> DEFINE st == Head(u)
           v == Tail(u)
           e == Effect(x, st)
           d == Effect(y, st)
<1>1. RunGood(x, u, p) /\ RunGood(y, u, p)
  BY DEF Fits
<1>2. /\ st \in StepSet(p) /\ st.op \in StepOps /\ Range(u) = {st} \union Range(v) /\ IsBundle(x) /\ IsBundle(y)
      /\ \A q \in Range(v) : ~Precedes(q.op, st.op)
  BY <1>1, HeadFits
<1>3. Untouched(x, e, st.op) /\ Untouched(y, d, st.op) /\ MakesPacks(x, e, st) /\ MakesPacks(y, d, st)
  BY <1>2, EffectUntouched, EffectMakes
<1>4. x.linked \in [PackIds -> Held] /\ y.linked \in [PackIds -> Held]
  BY <1>1 DEF RunGood, Sound, SoundPacks
<1>5. st.op = "link" => /\ st.x \in Refs /\ IdOf(x.meta, st.x) = BaseOf[st.x] /\ IdOf(y.meta, st.x) = BaseOf[st.x] /\ st = Do("link", st.x)
                        /\ x.packs[BaseOf[st.x]] = "whole" /\ y.packs[BaseOf[st.x]] = "whole"
  <2> SUFFICES ASSUME st.op = "link"
               PROVE  /\ st.x \in Refs /\ IdOf(x.meta, st.x) = BaseOf[st.x] /\ IdOf(y.meta, st.x) = BaseOf[st.x] /\ st = Do("link", st.x)
                      /\ x.packs[BaseOf[st.x]] = "whole" /\ y.packs[BaseOf[st.x]] = "whole"
    OBVIOUS
  <2>1. st = Do("link", st.x)
    BY <1>2 DEF StepSet, Kind, Do
  <2>2. st.x \in Refs /\ IdOf(x.meta, st.x) = BaseOf[st.x] /\ IdOf(y.meta, st.x) = BaseOf[st.x]
    BY FirstNames
  <2>3. Do("copy", st.x) \notin Range(u)
    BY <1>2 DEF Precedes, Do
  <2> QED
    BY <1>2, <2>1, <2>2, <2>3 DEF Fits
<1> HIDE DEF st, v, e, d
<1>6. ASSUME NEW i \in PackIds
      PROVE  \/ e.linked[i] = d.linked[i]
             \/ /\ e.linked[i] \in {None, "whole"} /\ d.linked[i] \in {None, "whole"} /\ i \in Linkable
                /\ \E r \in Refs : BaseOf[r] = i /\ Do("link", r) \in Range(v)
  <2>1. \/ x.linked[i] = y.linked[i]
        \/ /\ x.linked[i] \in {None, "whole"} /\ y.linked[i] \in {None, "whole"} /\ i \in Linkable
           /\ \E r \in Refs : BaseOf[r] = i /\ Do("link", r) \in Range(u)
    BY DEF LinksRel
  <2>2. (\E r \in Refs : BaseOf[r] = i /\ Do("link", r) \in Range(u)) =>
           (st.op = "link" /\ BaseOf[st.x] = i) \/ \E r \in Refs : BaseOf[r] = i /\ Do("link", r) \in Range(v)
    BY <1>2 DEF Do
  <2>3. CASE st.op = "link"
    <3>1. /\ e.linked = IF BaseOf[st.x] \in Linkable /\ x.linked[BaseOf[st.x]] = None THEN [x.linked EXCEPT ![BaseOf[st.x]] = "whole"] ELSE x.linked
          /\ d.linked = IF BaseOf[st.x] \in Linkable /\ y.linked[BaseOf[st.x]] = None THEN [y.linked EXCEPT ![BaseOf[st.x]] = "whole"] ELSE y.linked
      BY <1>3, <1>5, <2>3 DEF MakesPacks
    <3>2. CASE BaseOf[st.x] = i
      BY <1>4, <2>1, <3>1, <3>2
    <3>3. CASE BaseOf[st.x] # i
      <4>1. e.linked[i] = x.linked[i] /\ d.linked[i] = y.linked[i]
        BY <1>4, <3>1, <3>3
      <4> QED
        BY <2>1, <2>2, <3>3, <4>1
    <3> QED
      BY <3>2, <3>3
  <2>4. CASE st.op # "link"
    <3>1. e.linked = x.linked /\ d.linked = y.linked
      BY <1>3, <2>4 DEF Untouched
    <3> QED
      BY <2>1, <2>2, <2>4, <3>1
  <2> QED
    BY <2>3, <2>4
<1> QED
  BY <1>6 DEF LinksRel, e, d, v, st

(* packs.json *)

MetaRel(x, y, u, p) ==
    \/ x.meta = y.meta
    \/ Do("assign", p.refs) \in Range(u) /\ RefsIn(x.meta) \union Range(p.refs) = RefsIn(y.meta) \union Range(p.refs)

(* Packs that are alone have the names that are derived from their references. *)
LEMMA MetaFromRefs ==
    ASSUME NEW M \in SUBSET Refs, \A r \in M : Alone(r, M),
           NEW m1, MetaGood(m1), RefsIn(m1) \subseteq M, NEW m2, MetaGood(m2), RefsIn(m2) = RefsIn(m1)
    PROVE  m1 \subseteq m2
<1> SUFFICES ASSUME NEW x \in m1 PROVE x \in m2
  OBVIOUS
<1>1. x.ref \in RefsIn(m1) /\ x.ref \in M /\ x \in RefIn(m1, x.ref) /\ m1 \subseteq MetaRec
  BY DEF RefsIn, RefIn, MetaGood
<1>2. RefIn(m1, x.ref) # {} /\ RefIn(m2, x.ref) # {}
  BY <1>1, KnownRefs
<1>3. IdOf(m1, x.ref) = BaseOf[x.ref] /\ IdOf(m2, x.ref) = BaseOf[x.ref]
  BY <1>1, <1>2, AloneHasName
<1>4. [id |-> BaseOf[x.ref], ref |-> x.ref] \in m1 /\ [id |-> BaseOf[x.ref], ref |-> x.ref] \in m2
  BY <1>2, <1>3, IdOfKnown
<1>5. x = [id |-> BaseOf[x.ref], ref |-> x.ref]
  BY <1>1, <1>4 DEF MetaGood, MetaOk
<1> QED
  BY <1>4, <1>5

LEMMA MetaStep ==
    ASSUME NEW u, NEW p, NEW M, NEW x, Fits(x, u, p, M), NEW y, Fits(y, u, p, M), u # <<>>, MetaRel(x, y, u, p)
    PROVE  MetaRel(Effect(x, Head(u)), Effect(y, Head(u)), Tail(u), p)
<1> DEFINE st == Head(u)
           v == Tail(u)
           e == Effect(x, st)
           d == Effect(y, st)
<1>1. RunGood(x, u, p) /\ RunGood(y, u, p)
  BY DEF Fits
<1>2. /\ st \in StepSet(p) /\ st.op \in StepOps /\ Range(u) = {st} \union Range(v) /\ IsBundle(x) /\ IsBundle(y) /\ PlanTypes(p)
  BY <1>1, HeadFits
<1>3. Untouched(x, e, st.op) /\ Untouched(y, d, st.op)
  BY <1>2, EffectUntouched
<1>4. CASE st.op = "assign"
  <2>1. st.x = p.refs /\ p.refs \in Seq(Refs) /\ MetaGood(x.meta) /\ MetaGood(y.meta)
    BY <1>1, <1>2, <1>4, StepFields DEF RunGood, Sound, PlanTypes
  <2>2. e = assign_pack_ids_and_persist_metadata(x, p.refs) /\ d = assign_pack_ids_and_persist_metadata(y, p.refs)
    BY <1>4, <2>1, EffectIs
  <2>3. MetaGood(e.meta) /\ RefsIn(e.meta) = RefsIn(x.meta) \union Range(p.refs)
    BY <1>2, <2>1, <2>2, AssignKeeps
  <2>4. MetaGood(d.meta) /\ RefsIn(d.meta) = RefsIn(y.meta) \union Range(p.refs)
    BY <1>2, <2>1, <2>2, AssignKeeps
  <2>5. RefsIn(e.meta) = RefsIn(d.meta)
    BY <2>3, <2>4 DEF MetaRel
  <2>6. M \in SUBSET Refs /\ RefsIn(e.meta) \subseteq M /\ \A r \in M : Alone(r, M)
    BY <2>3 DEF Fits
  <2> HIDE DEF e, d
  <2>7. e.meta \subseteq d.meta
    BY <2>3, <2>4, <2>5, <2>6, MetaFromRefs
  <2>8. d.meta \subseteq e.meta
    BY <2>3, <2>4, <2>5, <2>6, MetaFromRefs
  <2>9. MetaRel(e, d, v, p)
    BY <2>7, <2>8 DEF MetaRel
  <2> QED
    BY <2>9 DEF e, d
<1>5. CASE st.op # "assign"
  <2>1. e.meta = x.meta /\ d.meta = y.meta
    BY <1>3, <1>5 DEF Untouched
  <2>2. st # Do("assign", p.refs)
    BY <1>5 DEF Do
  <2> HIDE DEF e, d, st, v
  <2>3. MetaRel(e, d, v, p)
    BY <1>2, <2>1, <2>2 DEF MetaRel
  <2> QED
    BY <2>3 DEF e, d, st, v
<1> QED
  BY <1>4, <1>5

-----------------------------------------------------------------------------
(* The registry: the entries of each id for itself *)

EntryAt(entries, i) == {x \in entries : x.id = i}
TurnedOff(entries) == {[x EXCEPT !.enabled = FALSE] : x \in entries}

LEMMA PutAt ==
    ASSUME NEW old, NEW new, NEW i
    PROVE  EntryAt(PutEntries(old, new), i) = IF EntryAt(new, i) = {} THEN EntryAt(old, i) ELSE EntryAt(new, i)
BY DEF PutEntries, EntryAt

LEMMA IdEntryAt ==
    ASSUME NEW b, NEW ids, NEW i
    PROVE  EntryAt(IdEntries(b, ids), i) = IF i \in Range(ids) THEN {[id |-> i, ref |-> RefOf(b.registry, i), enabled |-> TRUE]} ELSE {}
<1> DEFINE E(j) == [id |-> j, ref |-> RefOf(b.registry, j), enabled |-> TRUE]
<1>1. \A j : E(j).id = j
  OBVIOUS
<1>2. IdEntries(b, ids) = {E(j) : j \in Range(ids)}
  BY DEF IdEntries
<1> HIDE DEF E
<1>3. EntryAt(IdEntries(b, ids), i) = IF i \in Range(ids) THEN {E(i)} ELSE {}
  BY <1>1, <1>2 DEF EntryAt
<1> QED
  BY <1>3 DEF E

LEMMA DisabledAt ==
    ASSUME NEW b, b.registry \in SUBSET RegistryRec, NEW ids, NEW i
    PROVE  EntryAt(Disabled(b, ids), i) = IF i \in Range(ids) THEN TurnedOff(EntryAt(b.registry, i)) ELSE EntryAt(b.registry, i)
<1> DEFINE off(x) == [x EXCEPT !.enabled = FALSE]
<1>1. \A x \in b.registry : off(x).id = x.id
  BY DEF RegistryRec
<1>2. Disabled(b, ids) = {IF x.id \in Range(ids) THEN off(x) ELSE x : x \in b.registry} /\ TurnedOff(EntryAt(b.registry, i)) = {off(x) : x \in EntryAt(b.registry, i)}
  BY DEF Disabled, TurnedOff
<1> HIDE DEF off
<1>3. EntryAt(Disabled(b, ids), i) = IF i \in Range(ids) THEN {off(x) : x \in EntryAt(b.registry, i)} ELSE EntryAt(b.registry, i)
  <2>1. CASE i \in Range(ids)
    BY <1>1, <1>2, <2>1 DEF EntryAt
  <2>2. CASE i \notin Range(ids)
    BY <1>1, <1>2, <2>2 DEF EntryAt
  <2> QED
    BY <2>1, <2>2
<1> QED
  BY <1>2, <1>3

LEMMA SameRefs ==
    ASSUME NEW b, NEW c, NEW i, EntryAt(b, i) = EntryAt(c, i)
    PROVE  RefOf(b, i) = RefOf(c, i)
<1>1. /\ RefOf(b, i) = IF EntryAt(b, i) = {} THEN i ELSE (CHOOSE x \in EntryAt(b, i) : TRUE).ref
      /\ RefOf(c, i) = IF EntryAt(c, i) = {} THEN i ELSE (CHOOSE x \in EntryAt(c, i) : TRUE).ref
  BY DEF RefOf, EntryAt
<1> QED
  BY <1>1

(* What is turned off keeps its reference. *)
LEMMA OffRefs ==
    ASSUME NEW r1 \in SUBSET RegistryRec, OneEach(r1), NEW r2 \in SUBSET RegistryRec, OneEach(r2), NEW i,
           TurnedOff(EntryAt(r1, i)) = TurnedOff(EntryAt(r2, i))
    PROVE  RefOf(r1, i) = RefOf(r2, i)
<1> DEFINE A == EntryAt(r1, i)
           B == EntryAt(r2, i)
           off(x) == [x EXCEPT !.enabled = FALSE]
<1>1. /\ RefOf(r1, i) = IF A = {} THEN i ELSE (CHOOSE x \in A : TRUE).ref
      /\ RefOf(r2, i) = IF B = {} THEN i ELSE (CHOOSE x \in B : TRUE).ref
  BY DEF RefOf, EntryAt
<1>2. (\A x, y \in A : x = y) /\ (\A x, y \in B : x = y)
  BY DEF OneEach, EntryAt
<1>3. {off(x) : x \in A} = {off(x) : x \in B}
  BY DEF TurnedOff
<1>4. \A x \in A \union B : off(x).ref = x.ref
  BY DEF RegistryRec, EntryAt
<1> HIDE DEF A, B, off
<1>5. CASE A = {}
  <2>1. B = {}
    BY <1>3, <1>5
  <2> QED
    BY <1>1, <1>5, <2>1
<1>6. CASE A # {}
  <2>1. PICK x \in A : TRUE
    BY <1>6
  <2>2. PICK y \in B : off(y) = off(x)
    BY <1>3, <2>1
  <2>3. x.ref = y.ref
    BY <1>4, <2>2
  <2>4. (CHOOSE z \in A : TRUE) = x /\ (CHOOSE z \in B : TRUE) = y
    BY <1>2, <2>1, <2>2
  <2> QED
    BY <1>1, <1>6, <2>2, <2>3, <2>4
<1> QED
  BY <1>5, <1>6

(* What registers, enables or disables i will do away with what is different. *)
RegistryRel(x, y, u, p) ==
    \A i \in PackIds :
        \/ EntryAt(x.registry, i) = EntryAt(y.registry, i)
        \/ Do("register", p.refs) \in Range(u) /\ \E r \in Range(p.refs) : BaseOf[r] = i
        \/ Do("enable", p.providers) \in Range(u) /\ i \in Range(p.providers) /\ RefOf(x.registry, i) = RefOf(y.registry, i)
        \/ /\ Do("disable", p.providersRemove) \in Range(u) /\ i \in Range(p.providersRemove)
           /\ TurnedOff(EntryAt(x.registry, i)) = TurnedOff(EntryAt(y.registry, i))

LEMMA RegistryStep ==
    ASSUME NEW u, NEW p, NEW M, NEW x, Fits(x, u, p, M), NEW y, Fits(y, u, p, M), u # <<>>, RegistryRel(x, y, u, p)
    PROVE  RegistryRel(Effect(x, Head(u)), Effect(y, Head(u)), Tail(u), p)
<1> DEFINE st == Head(u)
           v == Tail(u)
           e == Effect(x, st)
           d == Effect(y, st)
<1>1. RunGood(x, u, p) /\ RunGood(y, u, p)
  BY DEF Fits
<1>2. /\ st \in StepSet(p) /\ st.op \in StepOps /\ Range(u) = {st} \union Range(v) /\ IsBundle(x) /\ IsBundle(y) /\ PlanTypes(p)
      /\ \A q \in Range(v) : ~Precedes(q.op, st.op)
  BY <1>1, HeadFits
<1>3. Untouched(x, e, st.op) /\ Untouched(y, d, st.op) /\ MakesRegistry(x, e, st) /\ MakesRegistry(y, d, st)
  BY <1>2, EffectUntouched, EffectMakes
<1>4. /\ x.registry \in SUBSET RegistryRec /\ OneEach(x.registry) /\ (~x.registryFile => x.registry = {})
      /\ y.registry \in SUBSET RegistryRec /\ OneEach(y.registry) /\ (~y.registryFile => y.registry = {})
  BY <1>1 DEF RunGood, Sound, SoundRegistry
<1>5. st.op = "register" => st.x = p.refs /\ \A r \in Range(p.refs) : IdOf(x.meta, r) = BaseOf[r] /\ IdOf(y.meta, r) = BaseOf[r]
  BY FirstNames
<1>6. (st.op = "enable" => st.x = p.providers) /\ (st.op = "disable" => st.x = p.providersRemove)
  BY <1>2, StepFields
<1>7. /\ Do("register", p.refs).op = "register" /\ Do("enable", p.providers).op = "enable"
      /\ Do("disable", p.providersRemove).op = "disable"
  BY DEF Do
<1> HIDE DEF st, v, e, d
<1>8. ASSUME NEW i \in PackIds
      PROVE  \/ EntryAt(e.registry, i) = EntryAt(d.registry, i)
             \/ Do("register", p.refs) \in Range(v) /\ \E r \in Range(p.refs) : BaseOf[r] = i
             \/ Do("enable", p.providers) \in Range(v) /\ i \in Range(p.providers) /\ RefOf(e.registry, i) = RefOf(d.registry, i)
             \/ /\ Do("disable", p.providersRemove) \in Range(v) /\ i \in Range(p.providersRemove)
                /\ TurnedOff(EntryAt(e.registry, i)) = TurnedOff(EntryAt(d.registry, i))
  <2>1. \/ EntryAt(x.registry, i) = EntryAt(y.registry, i)
        \/ Do("register", p.refs) \in Range(u) /\ \E r \in Range(p.refs) : BaseOf[r] = i
        \/ Do("enable", p.providers) \in Range(u) /\ i \in Range(p.providers) /\ RefOf(x.registry, i) = RefOf(y.registry, i)
        \/ /\ Do("disable", p.providersRemove) \in Range(u) /\ i \in Range(p.providersRemove)
           /\ TurnedOff(EntryAt(x.registry, i)) = TurnedOff(EntryAt(y.registry, i))
    BY DEF RegistryRel
  <2>2. \A b, c : EntryAt(b, i) = EntryAt(c, i) => RefOf(b, i) = RefOf(c, i)
    BY SameRefs
  <2>3. CASE st.op = "register"
    <3> DEFINE E == RefEntries(x, p.refs)
    <3>1. RefEntries(y, p.refs) = E
      BY <1>5, <2>3 DEF RefEntries
    <3>2. EntryAt(E, i) = {} => ~\E r \in Range(p.refs) : BaseOf[r] = i
      <4> SUFFICES ASSUME NEW r \in Range(p.refs), BaseOf[r] = i PROVE EntryAt(E, i) # {}
        OBVIOUS
      <4>1. [id |-> i, ref |-> r, enabled |-> TRUE] \in E
        BY <1>5, <2>3 DEF RefEntries
      <4> QED
        BY <4>1 DEF EntryAt
    <3>3. e.registry = PutEntries(x.registry, E) /\ d.registry = PutEntries(y.registry, E)
      BY <1>3, <1>5, <2>3, <3>1 DEF MakesRegistry
    <3> HIDE DEF E
    <3>4. /\ EntryAt(e.registry, i) = IF EntryAt(E, i) = {} THEN EntryAt(x.registry, i) ELSE EntryAt(E, i)
          /\ EntryAt(d.registry, i) = IF EntryAt(E, i) = {} THEN EntryAt(y.registry, i) ELSE EntryAt(E, i)
      BY <3>3, PutAt
    <3>5. CASE EntryAt(E, i) = {}
      <4>1. RefOf(e.registry, i) = RefOf(x.registry, i) /\ RefOf(d.registry, i) = RefOf(y.registry, i)
        BY <2>2, <3>4, <3>5
      <4> QED
        BY <1>2, <1>7, <2>1, <2>3, <3>2, <3>4, <3>5, <4>1
    <3> QED
      BY <3>4, <3>5
  <2>4. CASE st.op = "enable"
    <3>1. e.registry = PutEntries(x.registry, IdEntries(x, p.providers)) /\ d.registry = PutEntries(y.registry, IdEntries(y, p.providers))
      BY <1>3, <1>6, <2>4 DEF MakesRegistry
    <3>2. Do("register", p.refs) \notin Range(u)
      BY <1>2, <1>7, <2>4 DEF Precedes
    <3>3. CASE i \in Range(p.providers)
      <4>1. EntryAt(IdEntries(x, p.providers), i) = {[id |-> i, ref |-> RefOf(x.registry, i), enabled |-> TRUE]}
        BY <3>3, IdEntryAt
      <4>2. EntryAt(IdEntries(y, p.providers), i) = {[id |-> i, ref |-> RefOf(y.registry, i), enabled |-> TRUE]}
        BY <3>3, IdEntryAt
      <4>3. RefOf(x.registry, i) = RefOf(y.registry, i)
        BY <1>4, <2>1, <2>2, <3>2, OffRefs
      <4>4. EntryAt(IdEntries(x, p.providers), i) # {} /\ EntryAt(IdEntries(x, p.providers), i) = EntryAt(IdEntries(y, p.providers), i)
        BY <4>1, <4>2, <4>3
      <4>5. EntryAt(e.registry, i) = EntryAt(IdEntries(x, p.providers), i)
        BY <3>1, <4>4, PutAt
      <4>6. EntryAt(d.registry, i) = EntryAt(IdEntries(y, p.providers), i)
        BY <3>1, <4>4, PutAt
      <4> QED
        BY <4>4, <4>5, <4>6
    <3>4. CASE i \notin Range(p.providers)
      <4>1. EntryAt(IdEntries(x, p.providers), i) = {} /\ EntryAt(IdEntries(y, p.providers), i) = {}
        BY <3>4, IdEntryAt
      <4>2. EntryAt(e.registry, i) = EntryAt(x.registry, i) /\ EntryAt(d.registry, i) = EntryAt(y.registry, i)
        BY <3>1, <4>1, PutAt
      <4>3. Do("disable", p.providersRemove) \in Range(u) => Do("disable", p.providersRemove) \in Range(v)
        BY <1>2, <1>7, <2>4
      <4>4. TurnedOff(EntryAt(e.registry, i)) = TurnedOff(EntryAt(x.registry, i)) /\ TurnedOff(EntryAt(d.registry, i)) = TurnedOff(EntryAt(y.registry, i))
        BY <4>2
      <4>5. \/ EntryAt(x.registry, i) = EntryAt(y.registry, i)
            \/ /\ Do("disable", p.providersRemove) \in Range(u) /\ i \in Range(p.providersRemove)
               /\ TurnedOff(EntryAt(x.registry, i)) = TurnedOff(EntryAt(y.registry, i))
        BY <2>1, <3>2, <3>4
      <4> QED
        BY <4>2, <4>3, <4>4, <4>5
    <3> QED
      BY <3>3, <3>4
  <2>5. CASE st.op = "disable"
    <3>1. /\ e.registry = IF x.registryFile THEN Disabled(x, p.providersRemove) ELSE x.registry
          /\ d.registry = IF y.registryFile THEN Disabled(y, p.providersRemove) ELSE y.registry
      BY <1>3, <1>6, <2>5 DEF MakesRegistry
    <3>2. Do("register", p.refs) \notin Range(u) /\ Do("enable", p.providers) \notin Range(u)
      BY <1>2, <1>7, <2>5 DEF Precedes
    <3>3. EntryAt({}, i) = {} /\ TurnedOff({}) = {}
      BY DEF EntryAt, TurnedOff
    <3>4. EntryAt(e.registry, i) = IF i \in Range(p.providersRemove) THEN TurnedOff(EntryAt(x.registry, i)) ELSE EntryAt(x.registry, i)
      <4>1. CASE x.registryFile
        BY <1>4, <3>1, <4>1, DisabledAt
      <4>2. CASE ~x.registryFile
        <5>1. x.registry = {} /\ e.registry = {}
          BY <1>4, <3>1, <4>2
        <5> QED
          BY <3>3, <5>1
      <4> QED
        BY <4>1, <4>2
    <3>5. EntryAt(d.registry, i) = IF i \in Range(p.providersRemove) THEN TurnedOff(EntryAt(y.registry, i)) ELSE EntryAt(y.registry, i)
      <4>1. CASE y.registryFile
        BY <1>4, <3>1, <4>1, DisabledAt
      <4>2. CASE ~y.registryFile
        <5>1. y.registry = {} /\ d.registry = {}
          BY <1>4, <3>1, <4>2
        <5> QED
          BY <3>3, <5>1
      <4> QED
        BY <4>1, <4>2
    <3> QED
      BY <2>1, <3>2, <3>4, <3>5
  <2>6. CASE st.op \notin {"register", "enable", "disable"}
    <3>1. e.registry = x.registry /\ d.registry = y.registry
      BY <1>3, <2>6 DEF Untouched
    <3>2. Range(u) \ {st} \subseteq Range(v)
      BY <1>2
    <3> QED
      BY <1>7, <2>1, <2>6, <3>1, <3>2
  <2> QED
    BY <2>3, <2>4, <2>5, <2>6
<1> QED
  BY <1>8 DEF RegistryRel, e, d, v, st

(* Registries with the same entries for each id are the same. *)
LEMMA RegistryEnd ==
    ASSUME NEW x, x.registry \in SUBSET RegistryRec, NEW y, y.registry \in SUBSET RegistryRec, NEW p, RegistryRel(x, y, <<>>, p)
    PROVE  x.registry = y.registry
<1>1. \A i \in PackIds : EntryAt(x.registry, i) = EntryAt(y.registry, i)
  BY NothingHeld DEF RegistryRel
<1>2. \A q \in RegistryRec : q.id \in PackIds
  BY DEF RegistryRec
<1>3. ASSUME NEW q \in RegistryRec PROVE q \in x.registry <=> q \in y.registry
  <2>1. EntryAt(x.registry, q.id) = EntryAt(y.registry, q.id)
    BY <1>1, <1>2
  <2>2. (q \in x.registry <=> q \in EntryAt(x.registry, q.id)) /\ (q \in y.registry <=> q \in EntryAt(y.registry, q.id))
    BY DEF EntryAt
  <2> QED
    BY <2>1, <2>2
<1> QED
  BY <1>3

RegisteredRel(x, y, u) == x.registryFile = y.registryFile \/ \E st \in Range(u) : st.op \in {"register", "enable"}

LEMMA RegisteredStep ==
    ASSUME NEW u, NEW p, NEW M, NEW x, Fits(x, u, p, M), NEW y, Fits(y, u, p, M), u # <<>>, RegisteredRel(x, y, u)
    PROVE  RegisteredRel(Effect(x, Head(u)), Effect(y, Head(u)), Tail(u))
<1> DEFINE st == Head(u)
           v == Tail(u)
           e == Effect(x, st)
           d == Effect(y, st)
<1>1. RunGood(x, u, p) /\ RunGood(y, u, p)
  BY DEF Fits
<1>2. /\ st \in StepSet(p) /\ st.op \in StepOps /\ Range(u) = {st} \union Range(v) /\ IsBundle(x) /\ IsBundle(y)
  BY <1>1, HeadFits
<1>3. Untouched(x, e, st.op) /\ Untouched(y, d, st.op) /\ MakesRegistry(x, e, st) /\ MakesRegistry(y, d, st)
  BY <1>2, EffectUntouched, EffectMakes
<1> HIDE DEF st, v, e, d
<1>4. CASE st.op \in {"register", "enable"}
  BY <1>3, <1>4 DEF MakesRegistry, RegisteredRel, e, d, v, st
<1>5. CASE st.op \notin {"register", "enable"}
  <2>1. e.registryFile = x.registryFile /\ d.registryFile = y.registryFile
    BY <1>3, <1>5 DEF Untouched
  <2>2. RegisteredRel(e, d, v)
    BY <1>2, <1>5, <2>1 DEF RegisteredRel
  <2> QED
    BY <2>2 DEF e, d, v, st
<1> QED
  BY <1>4, <1>5

-----------------------------------------------------------------------------
(* Defaults and directories *)

Sure(x, u, i) == x.packs[i] # None \/ CopiedTo(u, i)
Picks(st, x, u) == st.op = "default" /\ st.x.scope # BundleScope /\ Sure(x, u, st.x.pack)
Drops(st, s) == st.op = "drop" /\ s \in Inside(st.x)

(* A pack that is there or is still to be copied is so after any step that does not remove packs. *)
LEMMA SureStays ==
    ASSUME NEW u, NEW p, NEW M, NEW x, Fits(x, u, p, M), u # <<>>, NEW i \in PackIds, Sure(x, u, i), Head(u).op # "unpack"
    PROVE  Sure(Effect(x, Head(u)), Tail(u), i)
<1> DEFINE st == Head(u)
           v == Tail(u)
           e == Effect(x, st)
<1>1. RunGood(x, u, p)
  BY DEF Fits
<1>2. st \in StepSet(p) /\ st.op \in StepOps /\ Range(u) = {st} \union Range(v) /\ IsBundle(x)
  BY <1>1, HeadFits
<1>3. Untouched(x, e, st.op) /\ MakesPacks(x, e, st)
  BY <1>2, EffectUntouched, EffectMakes
<1>4. x.packs \in [PackIds -> Held]
  BY <1>1 DEF RunGood, Sound, SoundPacks
<1>5. st.op = "copy" => st.x \in Refs /\ IdOf(x.meta, st.x) = BaseOf[st.x]
  BY FirstNames
<1> HIDE DEF st, v, e
<1>6. CASE st.op = "copy"
  <2>1. e.packs = [x.packs EXCEPT ![BaseOf[st.x]] = "whole"]
    BY <1>3, <1>5, <1>6 DEF MakesPacks
  <2>2. BaseOf[st.x] # i => (CopiedTo(u, i) => CopiedTo(v, i))
    BY <1>2, <1>5, <1>6 DEF CopiedTo, Do
  <2>3. Sure(e, v, i)
    BY <1>4, <2>1, <2>2 DEF Sure, None
  <2> QED
    BY <2>3 DEF e, v, st
<1>7. CASE st.op # "copy"
  <2>1. e.packs = x.packs
    BY <1>3, <1>7 DEF Untouched, st
  <2>2. CopiedTo(u, i) => CopiedTo(v, i)
    BY <1>2, <1>7 DEF CopiedTo, Do
  <2>3. Sure(e, v, i)
    BY <2>1, <2>2 DEF Sure
  <2> QED
    BY <2>3 DEF e, v, st
<1> QED
  BY <1>6, <1>7

(* When a default is made nothing is to be copied any more. *)
LEMMA SureNow ==
    ASSUME NEW u, NEW p, NEW M, NEW x, Fits(x, u, p, M), NEW y, Fits(y, u, p, M), u # <<>>, Head(u).op = "default", PacksRel(x, y, u)
    PROVE  /\ Applies(x, Head(u).x) <=> Applies(y, Head(u).x)
           /\ Picks(Head(u), x, u) => Applies(x, Head(u).x)
<1> DEFINE st == Head(u)
           v == Tail(u)
<1>1. RunGood(x, u, p)
  BY DEF Fits
<1>2. st \in StepSet(p) /\ Range(u) = {st} \union Range(v) /\ \A q \in Range(v) : ~Precedes(q.op, st.op)
  BY <1>1, HeadFits
<1>3. st.x.pack \in PackIds
  BY <1>2, StepFields DEF DefaultRec
<1>4. ~CopiedTo(u, st.x.pack)
  <2> SUFFICES ASSUME NEW r \in Refs, Do("copy", r) \in Range(u) PROVE FALSE
    BY DEF CopiedTo
  <2> DEFINE q == Do("copy", r)
  <2>1. q.op = "copy" /\ st.op = "default"
    BY DEF Do
  <2> HIDE DEF q, st, v
  <2>2. q \in Range(v)
    BY <1>2, <2>1 DEF q
  <2> QED
    BY <1>2, <2>1, <2>2 DEF Precedes
<1>5. Chosen(u, st.x.pack)
  BY <1>2 DEF Chosen
<1> HIDE DEF st, v
<1>6. x.packs[st.x.pack] = y.packs[st.x.pack]
  BY <1>3, <1>4, <1>5 DEF PacksRel
<1> QED
  BY <1>4, <1>6 DEF Applies, Picks, Sure, st

(* A default that is to be made, and will be, after another step. *)
LEMMA PicksStay ==
    ASSUME NEW u, NEW p, NEW M, NEW x, Fits(x, u, p, M), u # <<>>, NEW q \in Range(Tail(u)), Picks(q, x, u)
    PROVE  Picks(q, Effect(x, Head(u)), Tail(u)) /\ Head(u).op # "unpack"
<1>1. RunGood(x, u, p)
  BY DEF Fits
<1>2. q \in StepSet(p) /\ ~Precedes(q.op, Head(u).op) /\ q.op = "default"
  BY <1>1, HeadFits DEF Picks
<1>3. q.x.pack \in PackIds
  BY <1>2, StepFields DEF DefaultRec
<1>4. Head(u).op # "unpack"
  BY <1>2 DEF Precedes
<1>5. Sure(Effect(x, Head(u)), Tail(u), q.x.pack)
  BY <1>3, <1>4, SureStays DEF Picks
<1> QED
  BY <1>4, <1>5 DEF Picks

DefaultsRel(x, y, u) ==
    \A s \in Where : \/ x.defaults[s] = y.defaults[s]
                     \/ \E st \in Range(u) : (st.op = "unpack" /\ st.x.scope = s) \/ Drops(st, s)
                     \/ \E st \in Range(u) : Picks(st, x, u) /\ Picks(st, y, u) /\ st.x.scope = s

LEMMA DefaultsStep ==
    ASSUME NEW u, NEW p, NEW M, NEW x, Fits(x, u, p, M), NEW y, Fits(y, u, p, M), u # <<>>, PacksRel(x, y, u), DefaultsRel(x, y, u)
    PROVE  DefaultsRel(Effect(x, Head(u)), Effect(y, Head(u)), Tail(u))
<1> DEFINE st == Head(u)
           v == Tail(u)
           e == Effect(x, st)
           d == Effect(y, st)
<1>1. RunGood(x, u, p) /\ RunGood(y, u, p)
  BY DEF Fits
<1>2. /\ st \in StepSet(p) /\ st.op \in StepOps /\ Range(u) = {st} \union Range(v) /\ IsBundle(x) /\ IsBundle(y)
  BY <1>1, HeadFits
<1>3. Untouched(x, e, st.op) /\ Untouched(y, d, st.op) /\ MakesPacks(x, e, st) /\ MakesPacks(y, d, st)
  BY <1>2, EffectUntouched, EffectMakes
<1>4. x.defaults \in [Where -> PackIds \union {NoPack}] /\ y.defaults \in [Where -> PackIds \union {NoPack}]
  BY <1>1 DEF RunGood, Sound, SoundPacks
<1>5. st.op = "default" => /\ (Applies(x, st.x) <=> Applies(y, st.x))
                           /\ (Picks(st, x, u) => Applies(x, st.x))
  BY SureNow
<1>6. \A q \in Range(v) : Picks(q, x, u) /\ Picks(q, y, u) => Picks(q, e, v) /\ Picks(q, d, v)
  BY PicksStay
<1>7. BundleScope \notin Where
  <2>1. Len(BundleScope) = 3 /\ BundleScope # <<>>
    BY DEF BundleScope
  <2>2. \A s \in Places : Len(s) \in {1, 2}
    BY WizardAssumption
  <2>3. BundleScope \notin Places
    BY <2>1, <2>2
  <2> QED
    BY <2>1, <2>3, Zenon DEF Where
<1> HIDE DEF st, v, e, d
<1>8. ASSUME NEW s \in Where
      PROVE  \/ e.defaults[s] = d.defaults[s]
             \/ \E q \in Range(v) : (q.op = "unpack" /\ q.x.scope = s) \/ Drops(q, s)
             \/ \E q \in Range(v) : Picks(q, e, v) /\ Picks(q, d, v) /\ q.x.scope = s
  <2>1. \/ x.defaults[s] = y.defaults[s]
        \/ \E q \in Range(u) : (q.op = "unpack" /\ q.x.scope = s) \/ Drops(q, s)
        \/ \E q \in Range(u) : Picks(q, x, u) /\ Picks(q, y, u) /\ q.x.scope = s
    BY DEF DefaultsRel
  <2>2. \/ x.defaults[s] = y.defaults[s]
        \/ (st.op = "unpack" /\ st.x.scope = s) \/ Drops(st, s)
        \/ \E q \in Range(v) : (q.op = "unpack" /\ q.x.scope = s) \/ Drops(q, s)
        \/ st.op = "default" /\ Picks(st, x, u) /\ st.x.scope = s
        \/ \E q \in Range(v) : Picks(q, e, v) /\ Picks(q, d, v) /\ q.x.scope = s
    <3>1. CASE x.defaults[s] = y.defaults[s]
      BY <3>1
    <3>2. CASE \E q \in Range(u) : (q.op = "unpack" /\ q.x.scope = s) \/ Drops(q, s)
      BY <1>2, <3>2
    <3>3. CASE \E q \in Range(u) : Picks(q, x, u) /\ Picks(q, y, u) /\ q.x.scope = s
      <4>1. PICK q \in Range(u) : Picks(q, x, u) /\ Picks(q, y, u) /\ q.x.scope = s
        BY <3>3
      <4>2. CASE q = st
        BY <4>1, <4>2 DEF Picks
      <4>3. CASE q \in Range(v)
        BY <1>6, <4>1, <4>3
      <4> QED
        BY <1>2, <4>1, <4>2, <4>3
    <3> QED
      BY <2>1, <3>1, <3>2, <3>3
  <2>3. CASE st.op = "default"
    <3>1. e.defaults = (IF Applies(x, st.x) THEN [x.defaults EXCEPT ![st.x.scope] = st.x.pack] ELSE x.defaults)
      BY <1>3, <2>3 DEF MakesPacks
    <3>2. d.defaults = (IF Applies(x, st.x) THEN [y.defaults EXCEPT ![st.x.scope] = st.x.pack] ELSE y.defaults)
      BY <1>3, <1>5, <2>3 DEF MakesPacks
    <3>3. ~Drops(st, s)
      BY <2>3 DEF Drops
    <3> QED
      BY <1>4, <1>5, <2>2, <2>3, <3>1, <3>2, <3>3
  <2>4. CASE st.op = "unpack"
    <3>1. /\ e.defaults = IF st.x.scope = BundleScope THEN x.defaults ELSE [x.defaults EXCEPT ![st.x.scope] = NoPack]
          /\ d.defaults = IF st.x.scope = BundleScope THEN y.defaults ELSE [y.defaults EXCEPT ![st.x.scope] = NoPack]
      BY <1>3, <2>4 DEF MakesPacks
    <3>2. ~Drops(st, s)
      BY <2>4 DEF Drops
    <3> QED
      BY <1>4, <1>7, <2>2, <2>4, <3>1, <3>2
  <2>5. CASE st.op = "drop"
    <3>1. /\ e.defaults = [z \in DOMAIN x.defaults |-> IF z \in Inside(st.x) THEN NoPack ELSE x.defaults[z]]
          /\ d.defaults = [z \in DOMAIN y.defaults |-> IF z \in Inside(st.x) THEN NoPack ELSE y.defaults[z]]
      BY <1>3, <2>5 DEF MakesPacks
    <3>2. Drops(st, s) <=> s \in Inside(st.x)
      BY <2>5 DEF Drops
    <3> QED
      BY <1>4, <2>2, <2>5, <3>1, <3>2
  <2>6. CASE st.op \notin {"default", "unpack", "drop"}
    <3>1. e.defaults = x.defaults /\ d.defaults = y.defaults
      BY <1>3, <2>6 DEF Untouched
    <3> QED
      BY <2>2, <2>6, <3>1 DEF Drops
  <2> QED
    BY <2>3, <2>4, <2>5, <2>6
<1> QED
  BY <1>8 DEF DefaultsRel, e, d, v, st

MakesDir(st, s) == (st.op = "ensure" /\ s \in {Tenant(st.x), st.x}) \/ (st.op = "rule" /\ s \in {Tenant(st.x.scope), st.x.scope})
ForDefault(st, s) == st.x.scope # <<>> /\ s \in {Tenant(st.x.scope), st.x.scope}

DirsRel(x, y, u) ==
    \A s \in Places : \/ s \in x.dirs <=> s \in y.dirs
                      \/ \E st \in Range(u) : MakesDir(st, s) \/ Drops(st, s)
                      \/ \E st \in Range(u) : Picks(st, x, u) /\ Picks(st, y, u) /\ ForDefault(st, s)

LEMMA DirsStep ==
    ASSUME NEW u, NEW p, NEW M, NEW x, Fits(x, u, p, M), NEW y, Fits(y, u, p, M), u # <<>>, PacksRel(x, y, u), DirsRel(x, y, u)
    PROVE  DirsRel(Effect(x, Head(u)), Effect(y, Head(u)), Tail(u))
<1> DEFINE st == Head(u)
           v == Tail(u)
           e == Effect(x, st)
           d == Effect(y, st)
<1>1. RunGood(x, u, p) /\ RunGood(y, u, p)
  BY DEF Fits
<1>2. /\ st \in StepSet(p) /\ st.op \in StepOps /\ Range(u) = {st} \union Range(v) /\ IsBundle(x) /\ IsBundle(y)
  BY <1>1, HeadFits
<1>3. Untouched(x, e, st.op) /\ Untouched(y, d, st.op) /\ MakesScopes(x, e, st) /\ MakesScopes(y, d, st)
  BY <1>2, EffectUntouched, EffectMakes
<1>4. st.op # "scaffold"
  BY <1>2 DEF Fits
<1>5. st.op = "default" => /\ (Applies(x, st.x) <=> Applies(y, st.x))
                           /\ (Picks(st, x, u) => Applies(x, st.x))
  BY SureNow
<1>6. \A q \in Range(v) : Picks(q, x, u) /\ Picks(q, y, u) => Picks(q, e, v) /\ Picks(q, d, v)
  BY PicksStay
<1> HIDE DEF st, v, e, d
<1>8. ASSUME NEW s \in Places
      PROVE  \/ s \in e.dirs <=> s \in d.dirs
             \/ \E q \in Range(v) : MakesDir(q, s) \/ Drops(q, s)
             \/ \E q \in Range(v) : Picks(q, e, v) /\ Picks(q, d, v) /\ ForDefault(q, s)
  <2>1. \/ s \in x.dirs <=> s \in y.dirs
        \/ \E q \in Range(u) : MakesDir(q, s) \/ Drops(q, s)
        \/ \E q \in Range(u) : Picks(q, x, u) /\ Picks(q, y, u) /\ ForDefault(q, s)
    BY DEF DirsRel
  <2>2. \/ s \in x.dirs <=> s \in y.dirs
        \/ MakesDir(st, s) \/ Drops(st, s)
        \/ \E q \in Range(v) : MakesDir(q, s) \/ Drops(q, s)
        \/ st.op = "default" /\ Picks(st, x, u) /\ ForDefault(st, s)
        \/ \E q \in Range(v) : Picks(q, e, v) /\ Picks(q, d, v) /\ ForDefault(q, s)
    <3>1. CASE s \in x.dirs <=> s \in y.dirs
      BY <3>1
    <3>2. CASE \E q \in Range(u) : MakesDir(q, s) \/ Drops(q, s)
      BY <1>2, <3>2
    <3>3. CASE \E q \in Range(u) : Picks(q, x, u) /\ Picks(q, y, u) /\ ForDefault(q, s)
      <4>1. PICK q \in Range(u) : Picks(q, x, u) /\ Picks(q, y, u) /\ ForDefault(q, s)
        BY <3>3
      <4>2. CASE q = st
        BY <4>1, <4>2 DEF Picks
      <4>3. CASE q \in Range(v)
        BY <1>6, <4>1, <4>3
      <4> QED
        BY <1>2, <4>1, <4>2, <4>3
    <3> QED
      BY <2>1, <3>1, <3>2, <3>3
  <2>3. CASE st.op = "default"
    <3>1. e.dirs = (IF Applies(x, st.x) /\ st.x.scope # <<>> THEN WithDir(x.dirs, st.x.scope) ELSE x.dirs)
      BY <1>3, <2>3 DEF MakesScopes
    <3>2. d.dirs = (IF Applies(x, st.x) /\ st.x.scope # <<>> THEN WithDir(y.dirs, st.x.scope) ELSE y.dirs)
      BY <1>3, <1>5, <2>3 DEF MakesScopes
    <3>3. ~Drops(st, s) /\ ~MakesDir(st, s)
      BY <2>3 DEF Drops, MakesDir
    <3> QED
      BY <1>5, <2>2, <2>3, <3>1, <3>2, <3>3 DEF WithDir, ForDefault
  <2>4. CASE st.op = "ensure"
    <3>1. e.dirs = x.dirs \union {Tenant(st.x), st.x} /\ d.dirs = y.dirs \union {Tenant(st.x), st.x}
      BY <1>3, <2>4 DEF MakesScopes
    <3>2. MakesDir(st, s) => s \in {Tenant(st.x), st.x}
      BY <2>4 DEF MakesDir
    <3>3. ~Drops(st, s)
      BY <2>4 DEF Drops
    <3> QED
      BY <2>2, <2>4, <3>1, <3>2, <3>3
  <2>5. CASE st.op = "drop"
    <3>1. e.dirs = x.dirs \ Inside(st.x) /\ d.dirs = y.dirs \ Inside(st.x)
      BY <1>3, <2>5 DEF MakesScopes
    <3>2. (Drops(st, s) <=> s \in Inside(st.x)) /\ ~MakesDir(st, s)
      BY <2>5 DEF Drops, MakesDir
    <3> QED
      BY <2>2, <2>5, <3>1, <3>2
  <2>6. CASE st.op = "rule"
    <3>1. e.dirs = WithDir(x.dirs, st.x.scope) /\ d.dirs = WithDir(y.dirs, st.x.scope)
      BY <1>3, <2>6 DEF MakesScopes
    <3>2. MakesDir(st, s) => s \in {Tenant(st.x.scope), st.x.scope}
      BY <2>6 DEF MakesDir
    <3>3. ~Drops(st, s)
      BY <2>6 DEF Drops
    <3> QED
      BY <2>2, <2>6, <3>1, <3>2, <3>3 DEF WithDir
  <2>7. CASE st.op \notin {"default", "ensure", "drop", "rule"}
    <3>1. e.dirs = x.dirs /\ d.dirs = y.dirs
      BY <1>3, <1>4, <2>7 DEF Untouched
    <3> QED
      BY <2>2, <2>7, <3>1 DEF Drops, MakesDir
  <2> QED
    BY <2>3, <2>4, <2>5, <2>6, <2>7
<1> QED
  BY <1>8 DEF DirsRel, e, d, v, st

-----------------------------------------------------------------------------
(* Manifests *)

DirOps == {"scaffold", "default", "ensure", "drop", "rule"}

(* Steps that make and remove no directories. *)
LEMMA DirsStay ==
    ASSUME NEW p, NEW S \in Seq(StepSet(p)), NEW x, IsBundle(x), \A st \in Range(S) : st.op \notin DirOps
    PROVE  Outcome(x, S).dirs = x.dirs
<1> DEFINE A == StepSet(p)
           G == {m \in Nat : \A u \in Seq(A) : Len(u) = m /\ (\A st \in Range(u) : st.op \notin DirOps) =>
                               \A b : IsBundle(b) => Outcome(b, u).dirs = b.dirs}
<1>1. 0 \in G
  <2> SUFFICES ASSUME NEW u \in Seq(A), Len(u) = 0, NEW b PROVE Outcome(b, u).dirs = b.dirs
    OBVIOUS
  <2>1. u = <<>>
    OBVIOUS
  <2> QED
    BY <2>1, OutcomeSteps
<1>2. ASSUME NEW m \in 0..(Len(S) - 1), m \in G PROVE m + 1 \in G
  <2>0. m \in Nat /\ m + 1 \in Nat
    OBVIOUS
  <2> SUFFICES ASSUME NEW u \in Seq(A), Len(u) = m + 1, \A st \in Range(u) : st.op \notin DirOps, NEW b, IsBundle(b)
               PROVE  Outcome(b, u).dirs = b.dirs
    BY <2>0
  <2>1. u # <<>> /\ Len(Tail(u)) = m
    BY <2>0
  <2>2. Head(u) \in A /\ Tail(u) \in Seq(A) /\ Range(u) = {Head(u)} \union Range(Tail(u))
    BY <2>1, TailSeq
  <2>3. Head(u).op \in StepOps /\ Head(u).op \notin DirOps
    BY <2>2, StepFields
  <2> DEFINE e == Effect(b, Head(u))
  <2>4. IsBundle(e) /\ Untouched(b, e, Head(u).op)
    BY <2>3, EffectUntouched
  <2>5. e.dirs = b.dirs
    BY <2>3, <2>4 DEF Untouched, DirOps
  <2>6. Outcome(b, u) = Outcome(e, Tail(u))
    BY <2>1, OutcomeSteps
  <2> HIDE DEF e
  <2>7. Outcome(e, Tail(u)).dirs = e.dirs
    <3>1. \A st \in Range(Tail(u)) : st.op \notin DirOps
      BY <2>2
    <3>2. \A w \in Seq(A) : Len(w) = m /\ (\A st \in Range(w) : st.op \notin DirOps) => \A c : IsBundle(c) => Outcome(c, w).dirs = c.dirs
      BY <1>2
    <3> HIDE DEF A, G
    <3> QED
      BY <2>1, <2>2, <2>4, <3>1, <3>2
  <2> QED
    BY <2>5, <2>6, <2>7
<1>3. G \in SUBSET Nat /\ Len(S) \in Nat
  BY SeqAt
<1> HIDE DEF G
<1>4. \A m \in 0..Len(S) : m \in G
  BY <1>1, <1>2, <1>3, InductionUpTo
<1>5. Len(S) \in G
  BY <1>3, <1>4
<1> QED
  BY <1>5 DEF G

(* The directories are those of W when the manifests are made. *)
Tracks(x, u, W) == Do("sync", None) \in Range(u) => Outcome(x, u).dirs = W

StagedRel(x, y, u, W) ==
    \/ x.staged = y.staged
    \/ Do("sync", None) \in Range(u) /\ x.staged \union ManifestScopes(W) = y.staged \union ManifestScopes(W)

LEMMA TracksStep ==
    ASSUME NEW u, NEW p, NEW x, RunGood(x, u, p), u # <<>>, NEW W, Tracks(x, u, W)
    PROVE  Tracks(Effect(x, Head(u)), Tail(u), W)
<1>1. u \in Seq(StepSet(p)) /\ Range(u) = {Head(u)} \union Range(Tail(u))
  BY HeadFits DEF RunGood
<1>2. Outcome(x, u) = Outcome(Effect(x, Head(u)), Tail(u))
  BY <1>1, OutcomeSteps
<1> QED
  BY <1>1, <1>2 DEF Tracks

LEMMA StagedStep ==
    ASSUME NEW u, NEW p, NEW M, NEW x, Fits(x, u, p, M), NEW y, Fits(y, u, p, M), u # <<>>,
           NEW W, Tracks(x, u, W), DirsRel(x, y, u), StagedRel(x, y, u, W)
    PROVE  StagedRel(Effect(x, Head(u)), Effect(y, Head(u)), Tail(u), W)
<1> DEFINE st == Head(u)
           v == Tail(u)
           e == Effect(x, st)
           d == Effect(y, st)
<1>1. RunGood(x, u, p) /\ RunGood(y, u, p) /\ u \in Seq(StepSet(p))
  BY DEF Fits, RunGood
<1>2. /\ st \in StepSet(p) /\ st.op \in StepOps /\ Range(u) = {st} \union Range(v) /\ IsBundle(x) /\ IsBundle(y)
      /\ \A q \in Range(v) : ~Precedes(q.op, st.op)
  BY <1>1, HeadFits
<1>3. Untouched(x, e, st.op) /\ Untouched(y, d, st.op) /\ MakesScopes(x, e, st) /\ MakesScopes(y, d, st)
  BY <1>2, EffectUntouched, EffectMakes
<1>4. x.dirs \in SUBSET Places /\ y.dirs \in SUBSET Places
  BY <1>1 DEF RunGood, Sound, SoundScopes
<1>5. Do("sync", None).op = "sync" /\ (st.op = "sync" => st = Do("sync", None))
  BY <1>2 DEF StepSet, Kind, Do
<1> HIDE DEF st, v, e, d
<1>6. CASE st.op = "sync"
  <2>1. \A q \in Range(u) : q.op \notin DirOps
    BY <1>2, <1>6 DEF Precedes, DirOps
  <2>2. x.dirs = W
    BY <1>1, <1>2, <1>5, <1>6, <2>1, DirsStay DEF Tracks
  <2>3. ASSUME NEW s \in Places PROVE s \in x.dirs <=> s \in y.dirs
    BY <2>1 DEF DirsRel, MakesDir, Drops, Picks, DirOps
  <2>4. y.dirs = W
    BY <1>4, <2>2, <2>3
  <2>5. e.staged = x.staged \union ManifestScopes(W) /\ d.staged = y.staged \union ManifestScopes(W)
    BY <1>3, <1>6, <2>2, <2>4 DEF MakesScopes, sync_project
  <2>6. e.staged = d.staged
    BY <2>5 DEF StagedRel
  <2> QED
    BY <2>6 DEF StagedRel, e, d, v, st
<1>7. CASE st.op # "sync"
  <2>1. e.staged = x.staged /\ d.staged = y.staged
    BY <1>3, <1>7 DEF Untouched
  <2>2. StagedRel(e, d, v, W)
    BY <1>2, <1>5, <1>7, <2>1 DEF StagedRel
  <2> QED
    BY <2>2 DEF e, d, v, st
<1> QED
  BY <1>6, <1>7

ResolvedRel(x, y, u) ==
    \A s \in Places : (s \in x.resolved <=> s \in y.resolved) \/ (Do("manifest", s) \in Range(u) /\ s \in x.staged /\ s \in y.staged)

LEMMA ResolvedStep ==
    ASSUME NEW u, NEW p, NEW M, NEW x, Fits(x, u, p, M), NEW y, Fits(y, u, p, M), u # <<>>,
           NEW W, StagedRel(x, y, u, W), ResolvedRel(x, y, u)
    PROVE  ResolvedRel(Effect(x, Head(u)), Effect(y, Head(u)), Tail(u))
<1> DEFINE st == Head(u)
           v == Tail(u)
           e == Effect(x, st)
           d == Effect(y, st)
<1>1. RunGood(x, u, p) /\ RunGood(y, u, p)
  BY DEF Fits
<1>2. /\ st \in StepSet(p) /\ st.op \in StepOps /\ Range(u) = {st} \union Range(v) /\ IsBundle(x) /\ IsBundle(y)
      /\ \A q \in Range(v) : ~Precedes(q.op, st.op)
  BY <1>1, HeadFits
<1>3. Untouched(x, e, st.op) /\ Untouched(y, d, st.op) /\ MakesScopes(x, e, st) /\ MakesScopes(y, d, st)
  BY <1>2, EffectUntouched, EffectMakes
<1>5. Do("sync", None).op = "sync" /\ \A s : Do("manifest", s).op = "manifest" /\ Do("manifest", s).x = s
  BY DEF Do
<1> HIDE DEF st, v, e, d
<1>6. ASSUME NEW s \in Places PROVE (s \in e.resolved <=> s \in d.resolved) \/ (Do("manifest", s) \in Range(v) /\ s \in e.staged /\ s \in d.staged)
  <2>1. (s \in x.resolved <=> s \in y.resolved) \/ (Do("manifest", s) \in Range(u) /\ s \in x.staged /\ s \in y.staged)
    BY DEF ResolvedRel
  <2>2. CASE st.op = "manifest"
    <3>1. Do("sync", None) \notin Range(u)
      BY <1>2, <1>5, <2>2 DEF Precedes
    <3>2. x.staged = y.staged /\ e.staged = x.staged /\ d.staged = y.staged
      BY <1>3, <2>2, <3>1 DEF StagedRel, Untouched
    <3>3. /\ e.resolved = IF st.x \in x.staged THEN x.resolved \union {st.x} ELSE x.resolved
          /\ d.resolved = IF st.x \in y.staged THEN y.resolved \union {st.x} ELSE y.resolved
      BY <1>3, <2>2 DEF MakesScopes
    <3>4. Do("manifest", s) \in Range(u) => Do("manifest", s) \in Range(v) \/ st.x = s
      BY <1>2, <1>5
    <3> QED
      BY <2>1, <3>2, <3>3, <3>4
  <2>3. CASE st.op # "manifest"
    <3>1. e.resolved = x.resolved /\ d.resolved = y.resolved
      BY <1>3, <2>3 DEF Untouched
    <3>2. x.staged \subseteq e.staged /\ y.staged \subseteq d.staged
      BY <1>3 DEF Untouched, MakesScopes, sync_project
    <3>3. Do("manifest", s) \in Range(u) => Do("manifest", s) \in Range(v)
      BY <1>2, <1>5, <2>3
    <3> QED
      BY <2>1, <3>1, <3>2, <3>3
  <2> QED
    BY <2>2, <2>3
<1> QED
  BY <1>6 DEF ResolvedRel, e, d, v, st

-----------------------------------------------------------------------------
(* Access maps *)

Ensures(st, s) == st.op = "ensure" /\ s \in {Tenant(st.x), st.x}

(* The file of s is made before a rule is put into it. *)
MadeFirst(u, s) == \E j \in 1..Len(u) : Ensures(u[j], s) /\ \A i \in 1..(j - 1) : ~OnFile(u[i], s)

LEMMA MadeFirstTail ==
    ASSUME NEW A, NEW u \in Seq(A), u # <<>>, NEW s, MadeFirst(u, s)
    PROVE  Ensures(Head(u), s) \/ (MadeFirst(Tail(u), s) /\ ~OnFile(Head(u), s))
<1> DEFINE t == Tail(u)
           n == Len(u)
<1>1. n \in Nat /\ n > 0 /\ Head(u) = u[1] /\ Len(t) = n - 1 /\ \A i \in 1..(n - 1) : t[i] = u[i + 1]
  OBVIOUS
<1>2. PICK j \in 1..n : Ensures(u[j], s) /\ \A i \in 1..(j - 1) : ~OnFile(u[i], s)
  BY DEF MadeFirst
<1> HIDE DEF t, n
<1>3. CASE j = 1
  BY <1>1, <1>2, <1>3
<1>4. CASE j # 1
  <2> DEFINE k == j - 1
  <2>1. k \in 1..(n - 1) /\ k + 1 = j /\ 1 \in 1..(j - 1) /\ k \in 1..Len(t)
    BY <1>1, <1>4
  <2>2. t[k] = u[j]
    BY <1>1, <2>1
  <2>3. ASSUME NEW i \in 1..(k - 1) PROVE ~OnFile(t[i], s)
    <3>1. i + 1 \in 1..(j - 1) /\ i \in 1..(n - 1)
      BY <1>1, <1>4
    <3>2. t[i] = u[i + 1]
      BY <1>1, <3>1
    <3> QED
      BY <1>2, <3>1, <3>2
  <2>4. MadeFirst(t, s)
    <3> HIDE DEF k
    <3> QED
      BY <1>2, <2>1, <2>2, <2>3 DEF MadeFirst
  <2> QED
    BY <1>1, <1>2, <2>1, <2>4 DEF t
<1> QED
  BY <1>3, <1>4

FilesRel(x, y, u) ==
    \A s \in Places : \/ (s \in x.files <=> s \in y.files) /\ x.gmap[s] = y.gmap[s]
                      \/ \E st \in Range(u) : Drops(st, s)
                      \/ s \notin x.files /\ s \in y.files /\ y.gmap[s] = ClosedFile /\ MadeFirst(u, s)
                      \/ s \in x.files /\ s \in y.files /\ Agree(x.gmap[s], y.gmap[s], u, s)

LEMMA FilesStep ==
    ASSUME NEW u, NEW p, NEW M, NEW x, Fits(x, u, p, M), NEW y, Fits(y, u, p, M), u # <<>>, FilesRel(x, y, u)
    PROVE  FilesRel(Effect(x, Head(u)), Effect(y, Head(u)), Tail(u))
<1> DEFINE st == Head(u)
           v == Tail(u)
           e == Effect(x, st)
           d == Effect(y, st)
<1>1. RunGood(x, u, p) /\ RunGood(y, u, p) /\ u \in Seq(StepSet(p)) /\ OnePerPath(x) /\ OnePerPath(y)
  BY DEF Fits, RunGood
<1>2. /\ st \in StepSet(p) /\ st.op \in StepOps /\ Range(u) = {st} \union Range(v) /\ IsBundle(x) /\ IsBundle(y)
  BY <1>1, HeadFits
<1>3. Untouched(x, e, st.op) /\ Untouched(y, d, st.op) /\ MakesScopes(x, e, st) /\ MakesScopes(y, d, st)
  BY <1>2, EffectUntouched, EffectMakes
<1>4. st.op # "scaffold" /\ (st.op = "rule" => st.x.path.plain)
  BY <1>2 DEF Fits
<1>5. x.gmap \in [Places -> FileRec] /\ y.gmap \in [Places -> FileRec]
  BY <1>1 DEF RunGood, Sound, SoundScopes
<1>6. \A s \in Places : Unique(x.gmap[s].rules) /\ Unique(y.gmap[s].rules)
  BY <1>1 DEF OnePerPath
<1>7. \A s, f, g : Agree(f, g, u, s) /\ ~OnFile(st, s) => Agree(f, g, v, s)
  BY <1>1, AgreeAside
<1>8. \A s : MadeFirst(u, s) => Ensures(st, s) \/ (MadeFirst(v, s) /\ ~OnFile(st, s))
  BY <1>1, MadeFirstTail
<1>9. ASSUME st.op = "rule", NEW s, s = st.x.scope, s \in Places, Agree(x.gmap[s], y.gmap[s], u, s)
      PROVE  Agree(upsert_policy(x.gmap[s], st.x.path, st.x.policy), upsert_policy(y.gmap[s], st.x.path, st.x.policy), v, s)
  <2>1. OnFile(st, s)
    BY <1>9 DEF OnFile
  <2>2. st.x.path.names \in Seq(Nat) /\ st.x.path.plain /\ st.x.policy \in {Public, Forbidden}
    BY <1>2, <1>4, <1>9, StepFields DEF RuleChange, PlanPath, PathRec
  <2>3. x.gmap[s] \in FileRec /\ Unique(x.gmap[s].rules) /\ y.gmap[s] \in FileRec /\ Unique(y.gmap[s].rules)
    BY <1>5, <1>6, <1>9
  <2> QED
    BY <1>1, <1>9, <2>1, <2>2, <2>3, AgreeRule
<1> HIDE DEF st, v, e, d
<1>10. ASSUME NEW s \in Places
       PROVE  \/ (s \in e.files <=> s \in d.files) /\ e.gmap[s] = d.gmap[s]
              \/ \E q \in Range(v) : Drops(q, s)
              \/ s \notin e.files /\ s \in d.files /\ d.gmap[s] = ClosedFile /\ MadeFirst(v, s)
              \/ s \in e.files /\ s \in d.files /\ Agree(e.gmap[s], d.gmap[s], v, s)
  <2>1. \/ (s \in x.files <=> s \in y.files) /\ x.gmap[s] = y.gmap[s]
        \/ Drops(st, s)
        \/ \E q \in Range(v) : Drops(q, s)
        \/ s \notin x.files /\ s \in y.files /\ y.gmap[s] = ClosedFile /\ MadeFirst(u, s)
        \/ s \in x.files /\ s \in y.files /\ Agree(x.gmap[s], y.gmap[s], u, s)
    BY <1>2 DEF FilesRel
  <2>2. CASE st.op = "ensure"
    <3>1. ~Drops(st, s) /\ ~OnFile(st, s) /\ (Ensures(st, s) <=> s \in {Tenant(st.x), st.x})
      BY <2>2 DEF Drops, OnFile, Ensures
    <3>2. /\ e.files = x.files \union {Tenant(st.x), st.x} /\ e.gmap = Created(x, {Tenant(st.x), st.x})
          /\ d.files = y.files \union {Tenant(st.x), st.x} /\ d.gmap = Created(y, {Tenant(st.x), st.x})
      BY <1>3, <2>2 DEF MakesScopes
    <3>3. /\ e.gmap[s] = IF Ensures(st, s) /\ s \notin x.files THEN ClosedFile ELSE x.gmap[s]
          /\ d.gmap[s] = IF Ensures(st, s) /\ s \notin y.files THEN ClosedFile ELSE y.gmap[s]
          /\ s \in e.files <=> s \in x.files \/ Ensures(st, s)
          /\ s \in d.files <=> s \in y.files \/ Ensures(st, s)
      BY <3>1, <3>2 DEF Created
    <3> QED
      BY <1>7, <1>8, <2>1, <3>1, <3>3
  <2>3. CASE st.op = "drop"
    <3>1. ~OnFile(st, s) /\ ~Ensures(st, s) /\ (Drops(st, s) <=> s \in Inside(st.x))
      BY <2>3 DEF Drops, OnFile, Ensures
    <3>2. /\ e.files = x.files \ Inside(st.x) /\ e.gmap = [z \in Places |-> IF z \in Inside(st.x) THEN EmptyFile ELSE x.gmap[z]]
          /\ d.files = y.files \ Inside(st.x) /\ d.gmap = [z \in Places |-> IF z \in Inside(st.x) THEN EmptyFile ELSE y.gmap[z]]
      BY <1>3, <2>3 DEF MakesScopes
    <3>3. /\ e.gmap[s] = IF Drops(st, s) THEN EmptyFile ELSE x.gmap[s]
          /\ d.gmap[s] = IF Drops(st, s) THEN EmptyFile ELSE y.gmap[s]
          /\ s \in e.files <=> s \in x.files /\ ~Drops(st, s)
          /\ s \in d.files <=> s \in y.files /\ ~Drops(st, s)
      BY <3>1, <3>2
    <3> QED
      BY <1>7, <1>8, <2>1, <3>1, <3>3
  <2>4. CASE st.op = "rule"
    <3>1. ~Drops(st, s) /\ ~Ensures(st, s) /\ (OnFile(st, s) <=> st.x.scope = s)
      BY <2>4 DEF Drops, OnFile, Ensures
    <3>2. /\ e.files = x.files \union {st.x.scope} /\ d.files = y.files \union {st.x.scope}
          /\ e.gmap = [x.gmap EXCEPT ![st.x.scope] = upsert_policy(x.gmap[st.x.scope], st.x.path, st.x.policy)]
          /\ d.gmap = [y.gmap EXCEPT ![st.x.scope] = upsert_policy(y.gmap[st.x.scope], st.x.path, st.x.policy)]
      BY <1>3, <2>4 DEF MakesScopes
    <3>3. CASE st.x.scope = s
      <4>1. e.gmap[s] = upsert_policy(x.gmap[s], st.x.path, st.x.policy) /\ d.gmap[s] = upsert_policy(y.gmap[s], st.x.path, st.x.policy)
        BY <1>5, <3>2, <3>3
      <4>2. s \in e.files /\ s \in d.files
        BY <3>2, <3>3
      <4>3. CASE x.gmap[s] = y.gmap[s]
        BY <4>1, <4>2, <4>3
      <4>4. CASE \E q \in Range(v) : Drops(q, s)
        BY <4>4
      <4>5. CASE Agree(x.gmap[s], y.gmap[s], u, s)
        BY <1>9, <2>4, <3>3, <4>1, <4>2, <4>5
      <4> QED
        BY <1>8, <2>1, <3>1, <3>3, <4>3, <4>4, <4>5
    <3>4. CASE st.x.scope # s
      <4>1. e.gmap[s] = x.gmap[s] /\ d.gmap[s] = y.gmap[s] /\ (s \in e.files <=> s \in x.files) /\ (s \in d.files <=> s \in y.files)
        BY <1>5, <3>2, <3>4
      <4> QED
        BY <1>7, <1>8, <2>1, <3>1, <3>4, <4>1
    <3> QED
      BY <3>3, <3>4
  <2>5. CASE st.op \notin {"ensure", "drop", "rule"}
    <3>1. ~Drops(st, s) /\ ~Ensures(st, s) /\ ~OnFile(st, s)
      BY <2>5 DEF Drops, OnFile, Ensures
    <3>2. e.files = x.files /\ e.gmap = x.gmap /\ d.files = y.files /\ d.gmap = y.gmap
      BY <1>3, <1>4, <2>5 DEF Untouched
    <3> QED
      BY <1>7, <1>8, <2>1, <3>1, <3>2
  <2> QED
    BY <2>2, <2>3, <2>4, <2>5
<1> QED
  BY <1>10 DEF FilesRel, e, d, v, st

-----------------------------------------------------------------------------
(* All of it together *)

Rel(x, y, u, p, W) ==
    /\ PacksRel(x, y, u) /\ LinksRel(x, y, u) /\ MetaRel(x, y, u, p)
    /\ RegistryRel(x, y, u, p) /\ RegisteredRel(x, y, u)
    /\ DefaultsRel(x, y, u) /\ DirsRel(x, y, u) /\ FilesRel(x, y, u)
    /\ Tracks(x, u, W) /\ StagedRel(x, y, u, W) /\ ResolvedRel(x, y, u)
    /\ x.there = y.there /\ x.yaml = y.yaml /\ x.broken = y.broken

LEMMA RelStep ==
    ASSUME NEW u, NEW p, NEW M, NEW x, Fits(x, u, p, M), NEW y, Fits(y, u, p, M), u # <<>>, NEW W, Rel(x, y, u, p, W)
    PROVE  Rel(Effect(x, Head(u)), Effect(y, Head(u)), Tail(u), p, W)
<1> DEFINE st == Head(u)
           v == Tail(u)
           e == Effect(x, st)
           d == Effect(y, st)
<1>1. RunGood(x, u, p) /\ RunGood(y, u, p)
  BY DEF Fits
<1>2. st \in StepSet(p) /\ st.op \in StepOps /\ Range(u) = {st} \union Range(v) /\ IsBundle(x) /\ IsBundle(y)
  BY <1>1, HeadFits
<1>3. Untouched(x, e, st.op) /\ Untouched(y, d, st.op)
  BY <1>2, EffectUntouched
<1>4. st.op # "scaffold"
  BY <1>2 DEF Fits
<1>5. e.there = x.there /\ e.yaml = x.yaml /\ e.broken = x.broken /\ d.there = y.there /\ d.yaml = y.yaml /\ d.broken = y.broken
  BY <1>3, <1>4 DEF Untouched
<1>6. /\ PacksRel(x, y, u) /\ LinksRel(x, y, u) /\ MetaRel(x, y, u, p)
      /\ RegistryRel(x, y, u, p) /\ RegisteredRel(x, y, u)
      /\ DefaultsRel(x, y, u) /\ DirsRel(x, y, u) /\ FilesRel(x, y, u)
      /\ Tracks(x, u, W) /\ StagedRel(x, y, u, W) /\ ResolvedRel(x, y, u)
      /\ x.there = y.there /\ x.yaml = y.yaml /\ x.broken = y.broken
  BY DEF Rel
<1> HIDE DEF st, v, e, d
<1>7. PacksRel(e, d, v) /\ LinksRel(e, d, v) /\ MetaRel(e, d, v, p)
  BY <1>6, PacksStep, LinksStep, MetaStep DEF e, d, v, st
<1>8. RegistryRel(e, d, v, p) /\ RegisteredRel(e, d, v)
  BY <1>6, RegistryStep, RegisteredStep DEF e, d, v, st
<1>9. DefaultsRel(e, d, v) /\ DirsRel(e, d, v) /\ FilesRel(e, d, v)
  BY <1>6, DefaultsStep, DirsStep, FilesStep DEF e, d, v, st
<1>10. Tracks(e, v, W) /\ StagedRel(e, d, v, W) /\ ResolvedRel(e, d, v)
  BY <1>1, <1>6, TracksStep, StagedStep, ResolvedStep DEF e, d, v, st
<1>11. Rel(e, d, v, p, W)
  BY <1>5, <1>6, <1>7, <1>8, <1>9, <1>10 DEF Rel
<1> QED
  BY <1>11 DEF e, d, v, st

LEMMA RelEnd ==
    ASSUME NEW p, NEW M, NEW x, Fits(x, <<>>, p, M), NEW y, Fits(y, <<>>, p, M), NEW W, Rel(x, y, <<>>, p, W)
    PROVE  SameKept(x, y)
<1>1. Range(<<>>) = {}
  BY NothingHeld
<1>2. Sound(x) /\ Sound(y)
  BY DEF Fits, RunGood
<1>3. IsBundle(x) /\ IsBundle(y)
  BY <1>2 DEF Sound
<1>4. /\ x.packs \in [PackIds -> Held] /\ y.packs \in [PackIds -> Held]
      /\ x.linked \in [PackIds -> Held] /\ y.linked \in [PackIds -> Held]
      /\ x.defaults \in [Where -> PackIds \union {NoPack}] /\ y.defaults \in [Where -> PackIds \union {NoPack}]
  BY <1>2 DEF Sound, SoundPacks
<1>5. x.packs = y.packs
  <2>1. \A i \in PackIds : x.packs[i] = y.packs[i]
    BY <1>1 DEF Rel, PacksRel, CopiedTo, Unpacked
  <2> QED
    BY <1>4, <2>1
<1>6. x.linked = y.linked
  <2>1. \A i \in PackIds : x.linked[i] = y.linked[i]
    BY <1>1 DEF Rel, LinksRel
  <2> QED
    BY <1>4, <2>1
<1>7. x.meta = y.meta /\ x.registryFile = y.registryFile
  BY <1>1 DEF Rel, MetaRel, RegisteredRel
<1>8. x.registry = y.registry
  <2>1. x.registry \in SUBSET RegistryRec /\ y.registry \in SUBSET RegistryRec
    BY <1>2 DEF Sound, SoundRegistry
  <2>2. RegistryRel(x, y, <<>>, p)
    BY DEF Rel
  <2> QED
    BY <2>1, <2>2, RegistryEnd
<1>9. x.defaults = y.defaults
  <2>1. \A s \in Where : x.defaults[s] = y.defaults[s]
    BY <1>1 DEF Rel, DefaultsRel
  <2> QED
    BY <1>4, <2>1
<1>10. /\ x.dirs \in SUBSET Places /\ y.dirs \in SUBSET Places /\ x.files \in SUBSET Places /\ y.files \in SUBSET Places
       /\ x.gmap \in [Places -> FileRec] /\ y.gmap \in [Places -> FileRec] /\ x.resolved \in SUBSET Places /\ y.resolved \in SUBSET Places
  BY <1>2 DEF Sound, SoundScopes
<1>11. x.dirs = y.dirs
  <2>1. \A s \in Places : s \in x.dirs <=> s \in y.dirs
    BY <1>1 DEF Rel, DirsRel
  <2> QED
    BY <1>10, <2>1
<1>12. x.files = y.files /\ x.gmap = y.gmap
  <2>1. \A s : ~MadeFirst(<<>>, s)
    BY DEF MadeFirst
  <2>2. ASSUME NEW s \in Places PROVE (s \in x.files <=> s \in y.files) /\ x.gmap[s] = y.gmap[s]
    <3>1. \/ (s \in x.files <=> s \in y.files) /\ x.gmap[s] = y.gmap[s]
          \/ s \in x.files /\ s \in y.files /\ Agree(x.gmap[s], y.gmap[s], <<>>, s)
      BY <1>1, <2>1 DEF Rel, FilesRel
    <3> QED
      BY <3>1, AgreeEnd
  <2>3. x.files = y.files
    BY <1>10, <2>2
  <2>4. \A s \in Places : x.gmap[s] = y.gmap[s]
    BY <2>2
  <2>5. x.gmap = y.gmap
    BY <1>10, <2>4
  <2> QED
    BY <2>3, <2>5
<1>13. x.staged = y.staged /\ x.resolved = y.resolved
  <2>1. x.staged = y.staged /\ \A s \in Places : s \in x.resolved <=> s \in y.resolved
    BY <1>1 DEF Rel, StagedRel, ResolvedRel
  <2> QED
    BY <1>10, <2>1
<1>14. x.there = y.there /\ x.yaml = y.yaml /\ x.broken = y.broken
  BY DEF Rel
<1> QED
  BY <1>3, <1>5, <1>6, <1>7, <1>8, <1>9, <1>11, <1>12, <1>13, <1>14 DEF SameKept

(* Runs of the same steps come to the same end. *)
LEMMA RelOutcome ==
    ASSUME NEW p, NEW M, NEW S \in Seq(StepSet(p)), NEW x, Fits(x, S, p, M), NEW y, Fits(y, S, p, M), NEW W, Rel(x, y, S, p, W)
    PROVE  SameKept(Outcome(x, S), Outcome(y, S))
<1> DEFINE A == StepSet(p)
           Holds2(u) == \A b, c : Fits(b, u, p, M) /\ Fits(c, u, p, M) /\ Rel(b, c, u, p, W) => SameKept(Outcome(b, u), Outcome(c, u))
           G == {m \in Nat : \A u \in Seq(A) : Len(u) = m => Holds2(u)}
<1>1. 0 \in G
  <2> SUFFICES ASSUME NEW u \in Seq(A), Len(u) = 0, NEW b, NEW c, Fits(b, u, p, M), Fits(c, u, p, M), Rel(b, c, u, p, W)
               PROVE  SameKept(Outcome(b, u), Outcome(c, u))
    OBVIOUS
  <2>1. u = <<>>
    OBVIOUS
  <2>2. Outcome(b, u) = b /\ Outcome(c, u) = c
    BY <2>1, OutcomeSteps
  <2>3. SameKept(b, c)
    BY <2>1, RelEnd
  <2> QED
    BY <2>2, <2>3
<1>2. ASSUME NEW m \in 0..(Len(S) - 1), m \in G PROVE m + 1 \in G
  <2>0. m \in Nat /\ m + 1 \in Nat
    OBVIOUS
  <2> SUFFICES ASSUME NEW u \in Seq(A), Len(u) = m + 1, NEW b, NEW c, Fits(b, u, p, M), Fits(c, u, p, M), Rel(b, c, u, p, W)
               PROVE  SameKept(Outcome(b, u), Outcome(c, u))
    BY <2>0
  <2>1. u # <<>> /\ Len(Tail(u)) = m /\ Tail(u) \in Seq(A)
    BY <2>0
  <2> DEFINE e == Effect(b, Head(u))
             d == Effect(c, Head(u))
             v == Tail(u)
  <2>2. Fits(e, v, p, M) /\ Fits(d, v, p, M)
    BY <2>1, FitsSteps
  <2>3. Rel(e, d, v, p, W)
    BY <2>1, RelStep
  <2>4. Outcome(b, u) = Outcome(e, v) /\ Outcome(c, u) = Outcome(d, v)
    BY <2>1, OutcomeSteps
  <2>5. Holds2(v)
    BY <1>2, <2>1
  <2> HIDE DEF e, d, v, G, A
  <2>6. SameKept(Outcome(e, v), Outcome(d, v))
    BY <2>2, <2>3, <2>5
  <2> QED
    BY <2>4, <2>6
<1>3. G \in SUBSET Nat /\ Len(S) \in Nat
  BY SeqAt
<1> HIDE DEF G
<1>4. \A m \in 0..Len(S) : m \in G
  BY <1>1, <1>2, <1>3, InductionUpTo
<1>5. Len(S) \in G
  BY <1>3, <1>4
<1> QED
  BY <1>5 DEF G

-----------------------------------------------------------------------------
(* What a step, or a part of it, makes different will be made up for by all the steps. *)

WholeOps == {"assign", "link", "register", "enable", "disable", "rule", "manifest"}

Touched(b, e, st) ==
    /\ Untouched(b, e, st.op)
    /\ st.op \in WholeOps => e = Effect(b, st)
    /\ st.op = "copy" => \A i \in PackIds : i # BaseOf[st.x] => e.packs[i] = b.packs[i]
    /\ st.op = "unpack" => /\ \A i \in PackIds : i # st.x.pack => e.packs[i] = b.packs[i]
                           /\ \A s \in Where : s # st.x.scope => e.defaults[s] = b.defaults[s]
    /\ st.op = "default" => /\ Applies(b, st.x) \/ (e.defaults = b.defaults /\ e.dirs = b.dirs)
                            /\ \A s \in Where : s # st.x.scope => e.defaults[s] = b.defaults[s]
                            /\ \A s \in Places : ~ForDefault(st, s) => (s \in b.dirs <=> s \in e.dirs)
    /\ st.op = "ensure" => \A s \in Places :
         /\ ~Ensures(st, s) => (s \in b.dirs <=> s \in e.dirs)
         /\ \/ (s \in b.files <=> s \in e.files) /\ b.gmap[s] = e.gmap[s]
            \/ Ensures(st, s) /\ s \notin b.files /\ s \in e.files /\ e.gmap[s] = ClosedFile
    /\ st.op = "drop" => /\ \A s \in Places : ~Drops(st, s) => /\ s \in b.dirs <=> s \in e.dirs
                                                               /\ s \in b.files <=> s \in e.files
                                                               /\ b.gmap[s] = e.gmap[s]
                         /\ \A s \in Where : ~Drops(st, s) => e.defaults[s] = b.defaults[s]
    /\ st.op = "sync" => \E D \in SUBSET ManifestScopes(b.dirs) : e.staged = b.staged \union D

LEMMA TouchedDone ==
    ASSUME NEW t, NEW p, NEW M, NEW b, Fits(b, t, p, M), t # <<>>
    PROVE  Touched(b, Effect(b, Head(t)), Head(t))
<1> DEFINE st == Head(t)
           e == Effect(b, st)
<1>1. RunGood(b, t, p)
  BY DEF Fits
<1>2. st \in StepSet(p) /\ st.op \in StepOps /\ IsBundle(b)
  BY <1>1, HeadFits
<1>3. Untouched(b, e, st.op) /\ MakesPacks(b, e, st) /\ MakesScopes(b, e, st)
  BY <1>2, EffectUntouched, EffectMakes
<1>4. /\ b.packs \in [PackIds -> Held] /\ b.defaults \in [Where -> PackIds \union {NoPack}]
      /\ b.gmap \in [Places -> FileRec]
  BY <1>1 DEF RunGood, Sound, SoundPacks, SoundScopes
<1>5. st.op = "copy" => st.x \in Refs /\ IdOf(b.meta, st.x) = BaseOf[st.x]
  BY FirstNames
<1>a. st.op \in WholeOps => e = Effect(b, st)
  OBVIOUS
<1> HIDE DEF st, e
<1>6. st.op = "copy" => \A i \in PackIds : i # BaseOf[st.x] => e.packs[i] = b.packs[i]
  <2> SUFFICES ASSUME st.op = "copy" PROVE \A i \in PackIds : i # BaseOf[st.x] => e.packs[i] = b.packs[i]
    OBVIOUS
  <2>1. e.packs = [b.packs EXCEPT ![BaseOf[st.x]] = "whole"]
    BY <1>3, <1>5 DEF MakesPacks
  <2> QED
    BY <1>4, <2>1
<1>7. st.op = "unpack" => /\ \A i \in PackIds : i # st.x.pack => e.packs[i] = b.packs[i]
                          /\ \A s \in Where : s # st.x.scope => e.defaults[s] = b.defaults[s]
  <2> SUFFICES ASSUME st.op = "unpack" PROVE /\ \A i \in PackIds : i # st.x.pack => e.packs[i] = b.packs[i]
                                             /\ \A s \in Where : s # st.x.scope => e.defaults[s] = b.defaults[s]
    OBVIOUS
  <2>1. /\ e.packs = [b.packs EXCEPT ![st.x.pack] = None]
        /\ e.defaults = IF st.x.scope = BundleScope THEN b.defaults ELSE [b.defaults EXCEPT ![st.x.scope] = NoPack]
    BY <1>3 DEF MakesPacks
  <2> QED
    BY <1>4, <2>1
<1>8. st.op = "default" => /\ Applies(b, st.x) \/ (e.defaults = b.defaults /\ e.dirs = b.dirs)
                           /\ \A s \in Where : s # st.x.scope => e.defaults[s] = b.defaults[s]
                           /\ \A s \in Places : ~ForDefault(st, s) => (s \in b.dirs <=> s \in e.dirs)
  <2> SUFFICES ASSUME st.op = "default" PROVE /\ Applies(b, st.x) \/ (e.defaults = b.defaults /\ e.dirs = b.dirs)
                                              /\ \A s \in Where : s # st.x.scope => e.defaults[s] = b.defaults[s]
                                              /\ \A s \in Places : ~ForDefault(st, s) => (s \in b.dirs <=> s \in e.dirs)
    OBVIOUS
  <2>1. /\ e.defaults = (IF Applies(b, st.x) THEN [b.defaults EXCEPT ![st.x.scope] = st.x.pack] ELSE b.defaults)
        /\ e.dirs = (IF Applies(b, st.x) /\ st.x.scope # <<>> THEN WithDir(b.dirs, st.x.scope) ELSE b.dirs)
    BY <1>3 DEF MakesPacks, MakesScopes
  <2>2. \A s \in Where : s # st.x.scope => e.defaults[s] = b.defaults[s]
    BY <1>4, <2>1
  <2>3. \A s \in Places : ~ForDefault(st, s) => (s \in b.dirs <=> s \in e.dirs)
    BY <2>1 DEF ForDefault, WithDir
  <2> QED
    BY <2>1, <2>2, <2>3
<1>9. st.op = "ensure" => \A s \in Places :
         /\ ~Ensures(st, s) => (s \in b.dirs <=> s \in e.dirs)
         /\ \/ (s \in b.files <=> s \in e.files) /\ b.gmap[s] = e.gmap[s]
            \/ Ensures(st, s) /\ s \notin b.files /\ s \in e.files /\ e.gmap[s] = ClosedFile
  <2> SUFFICES ASSUME st.op = "ensure", NEW s \in Places
               PROVE  /\ ~Ensures(st, s) => (s \in b.dirs <=> s \in e.dirs)
                      /\ \/ (s \in b.files <=> s \in e.files) /\ b.gmap[s] = e.gmap[s]
                         \/ Ensures(st, s) /\ s \notin b.files /\ s \in e.files /\ e.gmap[s] = ClosedFile
    OBVIOUS
  <2>1. /\ e.dirs = b.dirs \union {Tenant(st.x), st.x} /\ e.files = b.files \union {Tenant(st.x), st.x}
        /\ e.gmap = Created(b, {Tenant(st.x), st.x})
    BY <1>3 DEF MakesScopes
  <2>2. e.gmap[s] = IF s \in {Tenant(st.x), st.x} \ b.files THEN ClosedFile ELSE b.gmap[s]
    BY <2>1 DEF Created
  <2> QED
    BY <2>1, <2>2 DEF Ensures
<1>10. st.op = "drop" => /\ \A s \in Places : ~Drops(st, s) => /\ s \in b.dirs <=> s \in e.dirs
                                                               /\ s \in b.files <=> s \in e.files
                                                               /\ b.gmap[s] = e.gmap[s]
                         /\ \A s \in Where : ~Drops(st, s) => e.defaults[s] = b.defaults[s]
  <2> SUFFICES ASSUME st.op = "drop"
               PROVE  /\ \A s \in Places : ~Drops(st, s) => /\ s \in b.dirs <=> s \in e.dirs
                                                            /\ s \in b.files <=> s \in e.files
                                                            /\ b.gmap[s] = e.gmap[s]
                      /\ \A s \in Where : ~Drops(st, s) => e.defaults[s] = b.defaults[s]
    OBVIOUS
  <2>1. /\ e.dirs = b.dirs \ Inside(st.x) /\ e.files = b.files \ Inside(st.x)
        /\ e.gmap = [z \in Places |-> IF z \in Inside(st.x) THEN EmptyFile ELSE b.gmap[z]]
    BY <1>3 DEF MakesScopes
  <2>2. e.defaults = [z \in DOMAIN b.defaults |-> IF z \in Inside(st.x) THEN NoPack ELSE b.defaults[z]]
    BY <1>3 DEF MakesPacks
  <2>3. \A s : ~Drops(st, s) => s \notin Inside(st.x)
    BY DEF Drops
  <2>4. \A s \in Places : ~Drops(st, s) => (s \in b.dirs <=> s \in e.dirs) /\ (s \in b.files <=> s \in e.files) /\ b.gmap[s] = e.gmap[s]
    BY <2>1, <2>3
  <2>5. \A s \in Where : ~Drops(st, s) => e.defaults[s] = b.defaults[s]
    BY <1>4, <2>2, <2>3
  <2> QED
    BY <2>4, <2>5
<1>11. st.op = "sync" => \E D \in SUBSET ManifestScopes(b.dirs) : e.staged = b.staged \union D
  BY <1>3 DEF MakesScopes, sync_project
<1>12. Touched(b, e, st)
  BY <1>3, <1>a, <1>6, <1>7, <1>8, <1>9, <1>10, <1>11 DEF Touched
<1> QED
  BY <1>12 DEF e, st

LEMMA TouchedHalf ==
    ASSUME NEW t, NEW p, NEW M, NEW b, Fits(b, t, p, M), t # <<>>, NEW h \in Halfway(b, Head(t))
    PROVE  Touched(b, h, Head(t))
<1> DEFINE st == Head(t)
<1>1. RunGood(b, t, p)
  BY DEF Fits
<1>2. st \in StepSet(p) /\ IsBundle(b) /\ PlanTypes(p)
  BY <1>1, HeadFits
<1>3. HalfMade(b, h, st) /\ st.op \notin WholeOps
  <2>1. HalfMade(b, h, st)
    BY <1>1, <1>2, HalfwaySound DEF RunGood
  <2>2. st.op \in {"scaffold", "copy", "default", "unpack", "sync", "ensure", "drop"}
    BY HalfwayIs
  <2> QED
    BY <2>1, <2>2 DEF WholeOps
<1>4. /\ b.packs \in [PackIds -> Held] /\ b.defaults \in [Where -> PackIds \union {NoPack}]
      /\ b.gmap \in [Places -> FileRec]
  BY <1>1 DEF RunGood, Sound, SoundPacks, SoundScopes
<1>5. st.op = "copy" => st.x \in Refs /\ IdOf(b.meta, st.x) = BaseOf[st.x]
  BY FirstNames
<1> HIDE DEF st
<1>6. st.op = "copy" => \A i \in PackIds : i # BaseOf[st.x] => h.packs[i] = b.packs[i]
  <2> SUFFICES ASSUME st.op = "copy" PROVE \A i \in PackIds : i # BaseOf[st.x] => h.packs[i] = b.packs[i]
    OBVIOUS
  <2>1. h.packs = [b.packs EXCEPT ![BaseOf[st.x]] = "torn"]
    BY <1>3, <1>5 DEF HalfMade
  <2> QED
    BY <1>4, <2>1
<1>7. st.op = "unpack" => /\ \A i \in PackIds : i # st.x.pack => h.packs[i] = b.packs[i]
                          /\ \A s \in Where : s # st.x.scope => h.defaults[s] = b.defaults[s]
  <2> SUFFICES ASSUME st.op = "unpack" PROVE /\ \A i \in PackIds : i # st.x.pack => h.packs[i] = b.packs[i]
                                             /\ \A s \in Where : s # st.x.scope => h.defaults[s] = b.defaults[s]
    OBVIOUS
  <2>1. h.packs = [b.packs EXCEPT ![st.x.pack] = None] /\ h.defaults = b.defaults
    BY <1>3 DEF HalfMade
  <2> QED
    BY <1>4, <2>1
<1>8. st.op = "default" => /\ Applies(b, st.x) \/ (h.defaults = b.defaults /\ h.dirs = b.dirs)
                           /\ \A s \in Where : s # st.x.scope => h.defaults[s] = b.defaults[s]
                           /\ \A s \in Places : ~ForDefault(st, s) => (s \in b.dirs <=> s \in h.dirs)
  <2> SUFFICES ASSUME st.op = "default" PROVE /\ Applies(b, st.x)
                                              /\ \A s \in Where : s # st.x.scope => h.defaults[s] = b.defaults[s]
                                              /\ \A s \in Places : ~ForDefault(st, s) => (s \in b.dirs <=> s \in h.dirs)
    OBVIOUS
  <2>1. /\ Applies(b, st.x) /\ h.defaults \in {b.defaults, [b.defaults EXCEPT ![st.x.scope] = NoPack]}
        /\ h.dirs = IF st.x.scope # <<>> THEN WithDir(b.dirs, st.x.scope) ELSE b.dirs
    BY <1>3 DEF HalfMade
  <2>2. \A s \in Where : s # st.x.scope => h.defaults[s] = b.defaults[s]
    BY <1>4, <2>1
  <2>3. \A s \in Places : ~ForDefault(st, s) => (s \in b.dirs <=> s \in h.dirs)
    BY <2>1 DEF ForDefault, WithDir
  <2> QED
    BY <2>1, <2>2, <2>3
<1>9. st.op = "ensure" => \A s \in Places :
         /\ ~Ensures(st, s) => (s \in b.dirs <=> s \in h.dirs)
         /\ \/ (s \in b.files <=> s \in h.files) /\ b.gmap[s] = h.gmap[s]
            \/ Ensures(st, s) /\ s \notin b.files /\ s \in h.files /\ h.gmap[s] = ClosedFile
  <2> SUFFICES ASSUME st.op = "ensure", NEW s \in Places
               PROVE  /\ ~Ensures(st, s) => (s \in b.dirs <=> s \in h.dirs)
                      /\ \/ (s \in b.files <=> s \in h.files) /\ b.gmap[s] = h.gmap[s]
                         \/ Ensures(st, s) /\ s \notin b.files /\ s \in h.files /\ h.gmap[s] = ClosedFile
    OBVIOUS
  <2>1. h.dirs = b.dirs \union {Tenant(st.x)} /\ h.files = b.files \union {Tenant(st.x)} /\ h.gmap = Created(b, {Tenant(st.x)})
    BY <1>3 DEF HalfMade
  <2>2. h.gmap[s] = IF s \in {Tenant(st.x)} \ b.files THEN ClosedFile ELSE b.gmap[s]
    BY <2>1 DEF Created
  <2> QED
    BY <2>1, <2>2 DEF Ensures
<1>10. st.op = "drop" => /\ \A s \in Places : ~Drops(st, s) => /\ s \in b.dirs <=> s \in h.dirs
                                                               /\ s \in b.files <=> s \in h.files
                                                               /\ b.gmap[s] = h.gmap[s]
                         /\ \A s \in Where : ~Drops(st, s) => h.defaults[s] = b.defaults[s]
  <2> SUFFICES ASSUME st.op = "drop"
               PROVE  /\ \A s \in Places : ~Drops(st, s) => /\ s \in b.dirs <=> s \in h.dirs
                                                            /\ s \in b.files <=> s \in h.files
                                                            /\ b.gmap[s] = h.gmap[s]
                      /\ \A s \in Where : ~Drops(st, s) => h.defaults[s] = b.defaults[s]
    OBVIOUS
  <2>1. /\ h.dirs = b.dirs /\ h.defaults = b.defaults /\ h.files = b.files \ Inside(st.x)
        /\ h.gmap = [x \in Places |-> IF x \in Inside(st.x) THEN EmptyFile ELSE b.gmap[x]]
    BY <1>3 DEF HalfMade
  <2>2. \A s : ~Drops(st, s) => s \notin Inside(st.x)
    BY DEF Drops
  <2> QED
    BY <2>1, <2>2
<1>11. st.op = "sync" => \E D \in SUBSET ManifestScopes(b.dirs) : h.staged = b.staged \union D
  <2> SUFFICES ASSUME st.op = "sync" PROVE \E D \in SUBSET ManifestScopes(b.dirs) : h.staged = b.staged \union D
    OBVIOUS
  <2>1. PICK s \in ManifestScopes(b.dirs) : h.staged = b.staged \union {s}
    BY <1>3 DEF HalfMade
  <2>2. {s} \in SUBSET ManifestScopes(b.dirs)
    BY <2>1
  <2> QED
    BY <2>1, <2>2
<1>12. Untouched(b, h, st.op)
  BY <1>3 DEF HalfMade
<1>13. Touched(b, h, st)
  BY <1>3, <1>12, <1>6, <1>7, <1>8, <1>9, <1>10, <1>11 DEF Touched
<1> QED
  BY <1>13 DEF st

-----------------------------------------------------------------------------
(* What one step of a run makes different when it has been begun or done once more. *)

LEMMA StepIs == \A p : \A st \in StepSet(p) : st = Do(st.op, st.x)
BY DEF StepSet, Kind, Do

(* The step is one of those of S, and the first of those that are left. *)
Begun(b, e, st, S, t, p, M) ==
    /\ Fits(b, t, p, M) /\ t # <<>> /\ st = Head(t)
    /\ S \in Seq(StepSet(p)) /\ st \in Range(S) /\ Sound(e) /\ Touched(b, e, st)

LEMMA BegunIs ==
    ASSUME NEW p, NEW M, NEW S, NEW t, NEW st, NEW b, NEW e, Begun(b, e, st, S, t, p, M)
    PROVE  /\ PlanTypes(p) /\ st \in StepSet(p) /\ st \in Range(S) /\ Range(p.refs) \subseteq Refs
           /\ Sound(b) /\ Sound(e) /\ IsBundle(b) /\ Touched(b, e, st) /\ Untouched(b, e, st.op)
           /\ st.op \in WholeOps => MakesPacks(b, e, st) /\ MakesRegistry(b, e, st) /\ MakesScopes(b, e, st)
<1>1. RunGood(b, t, p) /\ Range(p.refs) \subseteq Refs /\ t # <<>> /\ st = Head(t)
  BY DEF Begun, Fits
<1>2. st \in StepSet(p) /\ IsBundle(b) /\ PlanTypes(p)
  BY <1>1, HeadFits
<1>3. MakesPacks(b, Effect(b, st), st) /\ MakesRegistry(b, Effect(b, st), st) /\ MakesScopes(b, Effect(b, st), st)
  BY <1>2, EffectMakes
<1>4. Touched(b, e, st) /\ st \in Range(S) /\ Sound(e)
  BY DEF Begun
<1> QED
  BY <1>1, <1>2, <1>3, <1>4 DEF Touched, RunGood

LEMMA PacksBegin ==
    ASSUME NEW p, NEW M, NEW S, NEW t, NEW st, NEW b, NEW e, Begun(b, e, st, S, t, p, M),
           \A i \in PackIds : Chosen(S, i) /\ Unpacked(S, i) => CopiedTo(S, i)
    PROVE  PacksRel(b, e, S)
<1> SUFFICES ASSUME NEW i \in PackIds PROVE b.packs[i] = e.packs[i] \/ CopiedTo(S, i) \/ (Unpacked(S, i) /\ ~Chosen(S, i))
  BY DEF PacksRel
<1>0. st \in StepSet(p) /\ st \in Range(S) /\ Range(p.refs) \subseteq Refs /\ Touched(b, e, st)
  BY BegunIs
<1>1. CASE st.op = "copy"
  <2>1. st = Do("copy", st.x) /\ st.x \in Refs
    <3>1. st = Do("copy", st.x)
      BY <1>0, <1>1, StepIs, StepFields
    <3>2. st.x \in Range(p.refs)
      BY <1>0, <1>1, StepFields
    <3> QED
      BY <1>0, <3>1, <3>2
  <2> QED
    BY <1>0, <1>1, <2>1 DEF Touched, CopiedTo
<1>2. CASE st.op = "unpack"
  BY <1>0, <1>2 DEF Touched, Unpacked
<1>3. CASE st.op \notin {"copy", "unpack"}
  BY <1>0, <1>3 DEF Touched, Untouched
<1> QED
  BY <1>1, <1>2, <1>3

LEMMA LinksBegin ==
    ASSUME NEW p, NEW M, NEW S, NEW t, NEW st, NEW b, NEW e, Begun(b, e, st, S, t, p, M)
    PROVE  LinksRel(b, e, S)
<1>0. st \in StepSet(p) /\ st \in Range(S) /\ Untouched(b, e, st.op) /\ (st.op \in WholeOps => MakesPacks(b, e, st))
  BY BegunIs
<1>1. CASE st.op = "link"
  <2>1. st = Do("link", st.x)
    BY <1>0, <1>1, StepIs, StepFields
  <2>2. Fits(b, t, p, M) /\ t # <<>> /\ st = Head(t)
    BY DEF Begun
  <2>3. st.x \in Refs /\ IdOf(b.meta, st.x) = BaseOf[st.x]
    BY <1>1, <2>2, FirstNames
  <2>4. RunGood(b, t, p) /\ (Do("link", st.x) \in Range(t) => Do("copy", st.x) \in Range(t) \/ b.packs[BaseOf[st.x]] = "whole")
    BY <2>2, <2>3 DEF Fits
  <2>5. Range(t) = {st} \union Range(Tail(t)) /\ \A q \in Range(Tail(t)) : ~Precedes(q.op, st.op)
    BY <2>2, <2>4, HeadFits
  <2>6. Do("copy", st.x) \notin Range(t)
    BY <1>1, <2>5 DEF Precedes, Do
  <2>7. b.packs[BaseOf[st.x]] = "whole"
    BY <2>1, <2>4, <2>5, <2>6
  <2>8. b.linked \in [PackIds -> Held] /\ BaseOf[st.x] \in PackIds
    BY <2>3, <2>4, Numbers DEF RunGood, Sound, SoundPacks
  <2>9. e.linked = IF BaseOf[st.x] \in Linkable /\ b.linked[BaseOf[st.x]] = None THEN [b.linked EXCEPT ![BaseOf[st.x]] = "whole"] ELSE b.linked
    BY <1>0, <1>1, <2>3, <2>7 DEF MakesPacks, WholeOps
  <2> QED
    BY <1>0, <2>1, <2>3, <2>8, <2>9 DEF LinksRel
<1>2. CASE st.op # "link"
  BY <1>0, <1>2 DEF Untouched, LinksRel
<1> QED
  BY <1>1, <1>2

LEMMA MetaBegin ==
    ASSUME NEW p, NEW M, NEW S, NEW t, NEW st, NEW b, NEW e, Begun(b, e, st, S, t, p, M)
    PROVE  MetaRel(b, e, S, p)
<1>0. st \in StepSet(p) /\ st \in Range(S) /\ Untouched(b, e, st.op) /\ PlanTypes(p) /\ Sound(b) /\ IsBundle(b) /\ Touched(b, e, st)
  BY BegunIs
<1>1. CASE st.op = "assign"
  <2>1. st = Do("assign", p.refs) /\ st.x = p.refs
    BY <1>0, <1>1, StepIs, StepFields
  <2>2. e = assign_pack_ids_and_persist_metadata(b, st.x)
    BY <1>0, <1>1, EffectIs DEF Touched, WholeOps
  <2>3. MetaGood(b.meta) /\ p.refs \in Seq(Refs)
    BY <1>0 DEF Sound, PlanTypes
  <2>4. RefsIn(e.meta) = RefsIn(b.meta) \union Range(p.refs)
    BY <1>0, <2>1, <2>2, <2>3, AssignKeeps
  <2> QED
    BY <1>0, <2>1, <2>4 DEF MetaRel
<1>2. CASE st.op # "assign"
  BY <1>0, <1>2 DEF Untouched, MetaRel
<1> QED
  BY <1>1, <1>2

LEMMA RegistryBegin ==
    ASSUME NEW p, NEW M, NEW S, NEW t, NEW st, NEW b, NEW e, Begun(b, e, st, S, t, p, M)
    PROVE  RegistryRel(b, e, S, p)
<1>0. /\ st \in StepSet(p) /\ st \in Range(S) /\ Untouched(b, e, st.op) /\ Sound(b)
      /\ st.op \in WholeOps => MakesRegistry(b, e, st)
  BY BegunIs
<1> SUFFICES ASSUME NEW i \in PackIds, EntryAt(b.registry, i) # EntryAt(e.registry, i)
             PROVE  \/ Do("register", p.refs) \in Range(S) /\ \E r \in Range(p.refs) : BaseOf[r] = i
                    \/ Do("enable", p.providers) \in Range(S) /\ i \in Range(p.providers) /\ RefOf(b.registry, i) = RefOf(e.registry, i)
                    \/ /\ Do("disable", p.providersRemove) \in Range(S) /\ i \in Range(p.providersRemove)
                       /\ TurnedOff(EntryAt(b.registry, i)) = TurnedOff(EntryAt(e.registry, i))
  BY DEF RegistryRel
<1>1. CASE st.op = "register"
  <2>1. st = Do("register", p.refs)
    BY <1>0, <1>1, StepIs, StepFields
  <2>2. Fits(b, t, p, M) /\ t # <<>> /\ st = Head(t)
    BY DEF Begun
  <2>3. st.x = p.refs /\ \A r \in Range(p.refs) : IdOf(b.meta, r) = BaseOf[r]
    BY <1>1, <2>2, FirstNames
  <2>4. e.registry = PutEntries(b.registry, RefEntries(b, p.refs))
    BY <1>0, <1>1, <2>3 DEF MakesRegistry, WholeOps
  <2>5. EntryAt(RefEntries(b, p.refs), i) # {}
    BY <2>4, PutAt
  <2>6. \E r \in Range(p.refs) : BaseOf[r] = i
    BY <2>3, <2>5 DEF EntryAt, RefEntries
  <2> QED
    BY <1>0, <2>1, <2>6
<1>2. CASE st.op = "enable"
  <2>1. st = Do("enable", p.providers) /\ st.x = p.providers
    BY <1>0, <1>2, StepIs, StepFields
  <2>2. e.registry = PutEntries(b.registry, IdEntries(b, p.providers))
    BY <1>0, <1>2, <2>1 DEF MakesRegistry, WholeOps
  <2>3. EntryAt(IdEntries(b, p.providers), i) # {}
    BY <2>2, PutAt
  <2>4. i \in Range(p.providers) /\ EntryAt(e.registry, i) = {[id |-> i, ref |-> RefOf(b.registry, i), enabled |-> TRUE]}
    BY <2>2, <2>3, PutAt, IdEntryAt
  <2>5. RefOf(e.registry, i) = RefOf(b.registry, i)
    <3> DEFINE one == [id |-> i, ref |-> RefOf(b.registry, i), enabled |-> TRUE]
    <3>1. {x \in e.registry : x.id = i} = {one} /\ one.ref = RefOf(b.registry, i)
      BY <2>4 DEF EntryAt
    <3> HIDE DEF one
    <3> QED
      BY <3>1 DEF RefOf
  <2> QED
    BY <1>0, <2>1, <2>4, <2>5
<1>3. CASE st.op = "disable"
  <2>1. st = Do("disable", p.providersRemove) /\ st.x = p.providersRemove
    BY <1>0, <1>3, StepIs, StepFields
  <2>2. e.registry = IF b.registryFile THEN Disabled(b, p.providersRemove) ELSE b.registry
    BY <1>0, <1>3, <2>1 DEF MakesRegistry, WholeOps
  <2>3. b.registry \in SUBSET RegistryRec
    BY <1>0 DEF Sound, SoundRegistry
  <2>4. e.registry = Disabled(b, p.providersRemove)
    BY <2>2
  <2>5. i \in Range(p.providersRemove) /\ EntryAt(e.registry, i) = TurnedOff(EntryAt(b.registry, i))
    BY <2>3, <2>4, DisabledAt
  <2>6. TurnedOff(TurnedOff(EntryAt(b.registry, i))) = TurnedOff(EntryAt(b.registry, i))
    <3> DEFINE E == EntryAt(b.registry, i)
    <3>1. \A x \in E : x = [id |-> x.id, ref |-> x.ref, enabled |-> x.enabled]
      BY <2>3 DEF EntryAt, RegistryRec
    <3>2. \A x \in E : [[x EXCEPT !.enabled = FALSE] EXCEPT !.enabled = FALSE] = [x EXCEPT !.enabled = FALSE]
      BY <3>1
    <3> HIDE DEF E
    <3>3. TurnedOff(TurnedOff(E)) = {[[x EXCEPT !.enabled = FALSE] EXCEPT !.enabled = FALSE] : x \in E}
      BY DEF TurnedOff
    <3>4. TurnedOff(TurnedOff(E)) = TurnedOff(E)
      BY <3>2, <3>3, Zenon DEF TurnedOff
    <3> QED
      BY <3>4 DEF E
  <2> QED
    BY <1>0, <2>1, <2>5, <2>6
<1>4. CASE st.op \notin {"register", "enable", "disable"}
  BY <1>0, <1>4 DEF Untouched
<1> QED
  BY <1>1, <1>2, <1>3, <1>4

LEMMA RegisteredBegin ==
    ASSUME NEW p, NEW M, NEW S, NEW t, NEW st, NEW b, NEW e, Begun(b, e, st, S, t, p, M)
    PROVE  RegisteredRel(b, e, S)
BY BegunIs DEF Untouched, RegisteredRel

LEMMA DefaultsBegin ==
    ASSUME NEW p, NEW M, NEW S, NEW t, NEW st, NEW b, NEW e, Begun(b, e, st, S, t, p, M)
    PROVE  DefaultsRel(b, e, S)
<1>0. st \in StepSet(p) /\ st \in Range(S) /\ Untouched(b, e, st.op) /\ Touched(b, e, st)
  BY BegunIs
<1> SUFFICES ASSUME NEW s \in Where, b.defaults[s] # e.defaults[s]
             PROVE  \/ \E q \in Range(S) : (q.op = "unpack" /\ q.x.scope = s) \/ Drops(q, s)
                    \/ \E q \in Range(S) : Picks(q, b, S) /\ Picks(q, e, S) /\ q.x.scope = s
  BY DEF DefaultsRel
<1>1. CASE st.op = "default"
  <2>1. Applies(b, st.x) /\ st.x.scope = s /\ e.packs = b.packs
    BY <1>0, <1>1 DEF Touched, Untouched
  <2>2. Picks(st, b, S) /\ Picks(st, e, S)
    BY <1>1, <2>1 DEF Picks, Sure, Applies
  <2> QED
    BY <1>0, <2>1, <2>2
<1>2. CASE st.op \in {"unpack", "drop"}
  BY <1>0, <1>2 DEF Touched
<1>3. CASE st.op \notin {"default", "unpack", "drop"}
  BY <1>0, <1>3 DEF Untouched
<1> QED
  BY <1>1, <1>2, <1>3

LEMMA DirsBegin ==
    ASSUME NEW p, NEW M, NEW S, NEW t, NEW st, NEW b, NEW e, Begun(b, e, st, S, t, p, M), st.op # "scaffold"
    PROVE  DirsRel(b, e, S)
<1>0. /\ st \in StepSet(p) /\ st \in Range(S) /\ Untouched(b, e, st.op) /\ Touched(b, e, st)
      /\ st.op \in WholeOps => MakesScopes(b, e, st)
  BY BegunIs
<1> SUFFICES ASSUME NEW s \in Places, ~(s \in b.dirs <=> s \in e.dirs)
             PROVE  \/ \E q \in Range(S) : MakesDir(q, s) \/ Drops(q, s)
                    \/ \E q \in Range(S) : Picks(q, b, S) /\ Picks(q, e, S) /\ ForDefault(q, s)
  BY DEF DirsRel
<1>1. CASE st.op = "default"
  <2>1. Applies(b, st.x) /\ ForDefault(st, s) /\ e.packs = b.packs
    BY <1>0, <1>1 DEF Touched, Untouched
  <2>2. Picks(st, b, S) /\ Picks(st, e, S)
    BY <1>1, <2>1 DEF Picks, Sure, Applies
  <2> QED
    BY <1>0, <2>1, <2>2
<1>2. CASE st.op = "ensure"
  BY <1>0, <1>2 DEF Touched, MakesDir, Ensures
<1>3. CASE st.op = "drop"
  BY <1>0, <1>3 DEF Touched
<1>4. CASE st.op = "rule"
  <2>1. e.dirs = b.dirs \union {st.x.scope, Tenant(st.x.scope)}
    BY <1>0, <1>4 DEF MakesScopes, WholeOps, WithDir
  <2>2. MakesDir(st, s)
    BY <1>4, <2>1 DEF MakesDir
  <2> QED
    BY <1>0, <2>2
<1>5. CASE st.op \notin {"default", "ensure", "drop", "rule"}
  BY <1>0, <1>5 DEF Untouched
<1> QED
  BY <1>1, <1>2, <1>3, <1>4, <1>5

LEMMA StagedBegin ==
    ASSUME NEW p, NEW M, NEW S, NEW t, NEW st, NEW b, NEW e, Begun(b, e, st, S, t, p, M), NEW W, st.op = "sync" => b.dirs = W
    PROVE  StagedRel(b, e, S, W)
<1>0. st \in StepSet(p) /\ st \in Range(S) /\ Untouched(b, e, st.op) /\ Touched(b, e, st)
  BY BegunIs
<1>1. CASE st.op = "sync"
  <2>1. st = Do("sync", None)
    BY <1>0, <1>1 DEF StepSet, Kind, Do, Plain3
  <2>2. PICK D \in SUBSET ManifestScopes(W) : e.staged = b.staged \union D
    BY <1>0, <1>1 DEF Touched
  <2>3. b.staged \union ManifestScopes(W) = e.staged \union ManifestScopes(W)
    BY <2>2
  <2> QED
    BY <1>0, <2>1, <2>3 DEF StagedRel
<1>2. CASE st.op # "sync"
  BY <1>0, <1>2 DEF Untouched, StagedRel
<1> QED
  BY <1>1, <1>2

LEMMA ResolvedBegin ==
    ASSUME NEW p, NEW M, NEW S, NEW t, NEW st, NEW b, NEW e, Begun(b, e, st, S, t, p, M)
    PROVE  ResolvedRel(b, e, S)
<1>0. /\ st \in StepSet(p) /\ st \in Range(S) /\ Untouched(b, e, st.op)
      /\ st.op \in WholeOps => MakesScopes(b, e, st)
  BY BegunIs
<1>1. CASE st.op = "manifest"
  <2>1. st = Do("manifest", st.x)
    BY <1>0, <1>1, StepIs, StepFields
  <2>2. e.resolved = (IF st.x \in b.staged THEN b.resolved \union {st.x} ELSE b.resolved) /\ e.staged = b.staged
    BY <1>0, <1>1 DEF MakesScopes, WholeOps, Untouched
  <2> QED
    BY <1>0, <2>1, <2>2 DEF ResolvedRel
<1>2. CASE st.op # "manifest"
  BY <1>0, <1>2 DEF Untouched, ResolvedRel
<1> QED
  BY <1>1, <1>2

(* Where the steps before the k-th have been done: their rules stand. *)
SoFar(b, S, k) ==
    \A j \in 1..(k - 1) : S[j].op = "rule" =>
        /\ S[j].x.scope \in b.files /\ LastPolicy(b.gmap[S[j].x.scope].rules, S[j].x.path.names) # NoDecision
        /\ Len(S[j].x.path.names) > 3 => b.gmap[S[j].x.scope].commented

(* Paths that are too long are only for files with comments. *)
Hopeful(b, S) == \A st \in Range(S) : st.op = "rule" /\ Len(st.x.path.names) > 3 => b.gmap[st.x.scope].commented

LEMMA RuleIs ==
    ASSUME NEW p, NEW st \in StepSet(p), st.op = "rule"
    PROVE  /\ st.x.scope \in Places /\ st.x.path.names \in Seq(Nat) /\ st.x.policy \in {Public, Forbidden}
           /\ Len(st.x.path.names) \in Nat
<1>1. st.x \in RuleChange(p)
  BY StepFields
<1>2. st.x.path \in PathRec
  BY <1>1 DEF RuleChange, PlanPath
<1> QED
  BY <1>1, <1>2 DEF RuleChange, PathRec

LEMMA FilesBegin ==
    ASSUME NEW p, NEW M, NEW S, NEW t, NEW st, NEW b, NEW e, Begun(b, e, st, S, t, p, M), NEW k \in 1..Len(S), S[k] = st,
           SoFar(b, S, k), Hopeful(b, S), st.op # "scaffold", st.op = "rule" => st.x.scope \in b.files /\ StepOk(b, st)
    PROVE  FilesRel(b, e, S)
<1>0. /\ st \in StepSet(p) /\ st \in Range(S) /\ Untouched(b, e, st.op) /\ Touched(b, e, st) /\ Sound(b)
      /\ st.op \in WholeOps => MakesScopes(b, e, st)
  BY BegunIs
<1>1. /\ S \in Seq(StepSet(p)) /\ OnePerPath(b) /\ t # <<>> /\ st = Head(t) /\ RunGood(b, t, p)
      /\ \A q \in Range(t) : q.op = "rule" => q.x.path.plain
  BY DEF Begun, Fits
<1>2. Len(S) \in Nat /\ \A i \in 1..Len(S) : S[i] \in StepSet(p) /\ S[i] \in Range(S)
  BY <1>1, SeqAt DEF Range
<1>3. b.gmap \in [Places -> FileRec]
  BY <1>0 DEF Sound, SoundScopes
<1> SUFFICES ASSUME NEW s \in Places, ~((s \in b.files <=> s \in e.files) /\ b.gmap[s] = e.gmap[s])
             PROVE  \/ \E q \in Range(S) : Drops(q, s)
                    \/ s \notin b.files /\ s \in e.files /\ e.gmap[s] = ClosedFile /\ MadeFirst(S, s)
                    \/ s \in b.files /\ s \in e.files /\ Agree(b.gmap[s], e.gmap[s], S, s)
  BY DEF FilesRel
<1>4. CASE st.op = "ensure"
  <2>1. Ensures(S[k], s) /\ s \notin b.files /\ s \in e.files /\ e.gmap[s] = ClosedFile
    BY <1>0, <1>4 DEF Touched
  <2>2. \A i \in 1..(k - 1) : ~OnFile(S[i], s)
    BY <2>1 DEF SoFar, OnFile
  <2>3. MadeFirst(S, s)
    BY <2>1, <2>2 DEF MadeFirst
  <2> QED
    BY <2>1, <2>3
<1>5. CASE st.op = "rule"
  <2> DEFINE f == b.gmap[s]
             g == e.gmap[s]
             q == st.x.path.names
             way == st.x.path
             pol == st.x.policy
  <2>1. st.x.scope = s /\ s \in b.files /\ s \in e.files /\ g = upsert_policy(f, st.x.path, st.x.policy)
    <3>1. /\ e.files = b.files \union {st.x.scope}
          /\ e.gmap = [b.gmap EXCEPT ![st.x.scope] = upsert_policy(b.gmap[st.x.scope], st.x.path, st.x.policy)]
      BY <1>0, <1>5 DEF MakesScopes, WholeOps
    <3>2. st.x.scope \in b.files
      BY <1>5
    <3> QED
      BY <1>3, <3>1, <3>2
  <2>2. q \in Seq(Nat) /\ st.x.policy \in {Public, Forbidden} /\ Len(q) \in Nat
    BY <1>0, <1>5, RuleIs
  <2>3. st.x.path.plain
    BY <1>1, <1>5, HeadFits
  <2>4. f \in FileRec /\ Unique(f.rules)
    BY <1>1, <1>3 DEF OnePerPath
  <2>5. UpsertOk(f, st.x.path)
    BY <1>5, <2>1 DEF StepOk
  <2>6. OnFile(S[k], s) /\ S[k].x.path.names = q
    BY <1>5, <2>1 DEF OnFile
  <2>7. q \in Said(S, s)
    BY <1>0, <2>6 DEF Said
  <2>8. g.commented = f.commented
    BY <2>1, <2>2, <2>3, <2>4, UpsertMakes
  <2>9. \A x : x \in Said(S, s) \/ LastPolicy(f.rules, x) = LastPolicy(g.rules, x)
    <3>1. \A x : LastPolicy(upsert_policy(f, way, pol).rules, x) = IF x = way.names THEN pol ELSE LastPolicy(f.rules, x)
      <4>1. way.names \in Seq(Nat) /\ way.plain /\ pol \in {Public, Forbidden}
        BY <2>2, <2>3
      <4> HIDE DEF f, way, pol
      <4> QED
        BY <2>4, <4>1, UpsertSays
    <3> QED
      BY <2>1, <2>7, <3>1
  <2>10. ASSUME f.commented PROVE PathsIn(f.rules) = PathsIn(g.rules) \/ Grown(PathsIn(f.rules), PathsIn(g.rules), S, s)
    <3>1. PathsIn(g.rules) = IF Holds(PathsIn(f.rules), q) THEN PathsIn(f.rules) ELSE Append(PathsIn(f.rules), q)
      BY <2>1, <2>2, <2>3, <2>4, <2>10, UpsertMakes
    <3>2. ASSUME NEW i \in 1..(k - 1), OnFile(S[i], s) PROVE Holds(PathsIn(f.rules), S[i].x.path.names)
      <4>1. LastPolicy(f.rules, S[i].x.path.names) # NoDecision
        BY <3>2 DEF SoFar, OnFile
      <4>2. Hits(f.rules, S[i].x.path.names) # {}
        BY <4>1 DEF LastPolicy
      <4>3. f.rules \in Seq(RuleRec)
        BY <2>4 DEF FileRec
      <4> QED
        BY <4>2, <4>3, PathsTyped
    <3>3. Grown(PathsIn(f.rules), Append(PathsIn(f.rules), q), S, s)
      BY <2>6, <3>2 DEF Grown
    <3> QED
      BY <3>1, <3>3
  <2>11. ASSUME ~f.commented PROVE Short(f.rules) /\ Short(g.rules) /\ \A x \in Said(S, s) : Len(x) <= 3
    <3>0. f.rules \in Seq(RuleRec) /\ \A i \in DOMAIN f.rules : Len(f.rules[i].path) \in Nat
      <4>1. f.rules \in Seq(RuleRec)
        BY <2>4 DEF FileRec
      <4> HIDE DEF f
      <4>2. DOMAIN f.rules = 1..Len(f.rules) /\ \A i \in 1..Len(f.rules) : f.rules[i] \in RuleRec
        BY <4>1, SeqAt
      <4>3. \A i \in DOMAIN f.rules : f.rules[i].path \in Seq(Nat)
        BY <4>2 DEF RuleRec
      <4>4. \A x \in Seq(Nat) : Len(x) \in Nat
        OBVIOUS
      <4> QED
        BY <4>1, <4>3, <4>4
    <3>1. Short(f.rules) /\ Len(q) <= 3
      <4> HIDE DEF f
      <4> QED
        BY <2>2, <2>5, <2>11, <3>0 DEF UpsertOk, Short, parse_path_ok
    <3>2. Short(g.rules)
      <4>1. way.names \in Seq(Nat) /\ way.plain /\ pol \in {Public, Forbidden} /\ Len(way.names) <= 3
        BY <2>2, <2>3, <3>1
      <4>2. g = upsert_policy(f, way, pol)
        BY <2>1
      <4> HIDE DEF f, g, way, pol
      <4>3. Short(upsert_policy(f, way, pol).rules)
        BY <2>4, <2>11, <3>1, <4>1, UpsertMakes
      <4> QED
        BY <4>2, <4>3
    <3>3. ASSUME NEW x \in Said(S, s) PROVE Len(x) <= 3
      <4>1. PICK r \in Range(S) : OnFile(r, s) /\ x = r.x.path.names
        BY DEF Said
      <4>2. r \in StepSet(p)
        BY <1>1, RangeSeq
      <4>3. Len(x) \in Nat
        BY <4>1, <4>2, RuleIs DEF OnFile
      <4>4. Len(x) > 3 => b.gmap[s].commented
        BY <4>1 DEF Hopeful, OnFile
      <4> QED
        BY <2>11, <4>3, <4>4
    <3> QED
      BY <3>1, <3>2, <3>3
  <2> HIDE DEF f, g, q
  <2>12. Agree(f, g, S, s)
    BY <2>7, <2>8, <2>9, <2>10, <2>11 DEF Agree
  <2> QED
    BY <2>1, <2>12 DEF f, g
<1>6. CASE st.op = "drop"
  <2>1. Drops(st, s)
    BY <1>0, <1>6 DEF Touched
  <2> QED
    BY <1>0, <2>1
<1>7. CASE st.op \notin {"ensure", "drop", "rule"}
  BY <1>0, <1>7 DEF Untouched
<1> QED
  BY <1>4, <1>5, <1>6, <1>7

LEMMA RelBegins ==
    ASSUME NEW p, NEW M, NEW S, NEW t, NEW st, NEW b, NEW e, Begun(b, e, st, S, t, p, M), NEW k \in 1..Len(S), S[k] = st,
           SoFar(b, S, k), Hopeful(b, S), st.op # "scaffold", st.op = "rule" => st.x.scope \in b.files /\ StepOk(b, st),
           \A i \in PackIds : Chosen(S, i) /\ Unpacked(S, i) => CopiedTo(S, i),
           st.op = "sync" => b.dirs = Outcome(b, S).dirs
    PROVE  Rel(b, e, S, p, Outcome(b, S).dirs)
<1> DEFINE W == Outcome(b, S).dirs
<1>1. PacksRel(b, e, S) /\ LinksRel(b, e, S) /\ MetaRel(b, e, S, p) /\ RegistryRel(b, e, S, p) /\ RegisteredRel(b, e, S)
  BY PacksBegin, LinksBegin, MetaBegin, RegistryBegin, RegisteredBegin
<1>2. DefaultsRel(b, e, S) /\ DirsRel(b, e, S) /\ FilesRel(b, e, S) /\ ResolvedRel(b, e, S)
  BY DefaultsBegin, DirsBegin, FilesBegin, ResolvedBegin
<1>3. StagedRel(b, e, S, W)
  BY StagedBegin
<1>4. Tracks(b, S, W)
  BY DEF Tracks
<1>5. b.there = e.there /\ b.yaml = e.yaml /\ b.broken = e.broken
  BY BegunIs DEF Untouched
<1> HIDE DEF W
<1>6. Rel(b, e, S, p, W)
  BY <1>1, <1>2, <1>3, <1>4, <1>5 DEF Rel
<1> QED
  BY <1>6 DEF W

-----------------------------------------------------------------------------
(* A run that goes on *)

(* The k first steps of S are done, those of u are left. *)
ToCome(S, k, u) == Len(u) = Len(S) - k /\ \A i \in 1..Len(u) : u[i] = S[k + i]

(* A rule that is still to come finds its file, or a step that is left makes it. *)
Guarded(b, S, k) ==
    \A j \in (k + 1)..Len(S) : S[j].op = "rule" =>
        \/ S[j].x.scope \in b.files /\ \A i \in (k + 1)..j : S[i].op # "drop"
        \/ \E i \in (k + 1)..(j - 1) : S[i] = Do("ensure", S[j].x.scope) /\ \A m \in i..j : S[m].op # "drop"

(* The first of the steps that are left. *)
LEMMA RestHead ==
    ASSUME NEW A, NEW S \in Seq(A), NEW u \in Seq(A), u # <<>>, NEW k \in 0..Len(S), ToCome(S, k, u)
    PROVE  k + 1 \in 1..Len(S) /\ S[k + 1] = Head(u) /\ ToCome(S, k + 1, Tail(u)) /\ Len(S) \in Nat
<1>1. Len(S) \in Nat /\ Len(u) \in Nat /\ Len(u) >= 1 /\ Head(u) = u[1]
  OBVIOUS
<1>2. Len(Tail(u)) = Len(u) - 1 /\ \A i \in 1..Len(Tail(u)) : Tail(u)[i] = u[i + 1]
  OBVIOUS
<1>3. S[k + 1] = Head(u) /\ k + 1 \in 1..Len(S)
  BY <1>1 DEF ToCome
<1>4. ASSUME NEW i \in 1..Len(Tail(u)) PROVE Tail(u)[i] = S[(k + 1) + i]
  <2>1. u[i + 1] = S[k + (i + 1)]
    BY <1>1, <1>2 DEF ToCome
  <2>2. k + (i + 1) = (k + 1) + i
    BY <1>1, <1>2
  <2> QED
    BY <1>2, <2>1, <2>2
<1>5. Len(Tail(u)) = Len(S) - (k + 1)
  BY <1>1, <1>2 DEF ToCome
<1> QED
  BY <1>1, <1>3, <1>4, <1>5 DEF ToCome

(* What the steps make of the files, one of them. *)
MovesFiles(b, e, st) ==
    /\ st.op # "drop" => b.files \subseteq e.files
    /\ st.op = "ensure" => st.x \in e.files
    /\ st.op = "rule" => st.x.scope \in e.files
    /\ st.op \notin {"drop", "rule"} => \A s \in Places : s \in b.files => e.gmap[s] = b.gmap[s]
    /\ st.op = "rule" => e.gmap = [b.gmap EXCEPT ![st.x.scope] = upsert_policy(b.gmap[st.x.scope], st.x.path, st.x.policy)]

LEMMA FilesMove ==
    ASSUME NEW p, NEW b, Sound(b), NEW st \in StepSet(p), st.op # "scaffold", NEW e, Moves(b, e, st)
    PROVE  MovesFiles(b, e, st)
<1> SUFFICES /\ st.op # "drop" => b.files \subseteq e.files
             /\ st.op = "ensure" => st.x \in e.files
             /\ st.op = "rule" => st.x.scope \in e.files
             /\ st.op \notin {"drop", "rule"} => \A s \in Places : s \in b.files => e.gmap[s] = b.gmap[s]
             /\ st.op = "rule" => e.gmap = [b.gmap EXCEPT ![st.x.scope] = upsert_policy(b.gmap[st.x.scope], st.x.path, st.x.policy)]
  BY DEF MovesFiles
<1>1. st.op \in StepOps /\ IsBundle(b)
  BY StepFields DEF Sound
<1>2. CASE e = Effect(b, st)
  <2>1. Untouched(b, e, st.op) /\ MakesScopes(b, e, st)
    BY <1>1, <1>2, EffectUntouched, EffectMakes
  <2>2. CASE st.op = "ensure"
    <3>1. e.files = b.files \union {Tenant(st.x), st.x} /\ e.gmap = Created(b, {Tenant(st.x), st.x})
      BY <2>1, <2>2 DEF MakesScopes
    <3> QED
      BY <2>2, <3>1 DEF Created
  <2>3. CASE st.op = "rule"
    BY <2>1, <2>3 DEF MakesScopes
  <2>4. CASE st.op \notin {"ensure", "rule"}
    BY <2>1, <2>4 DEF Untouched
  <2> QED
    BY <2>2, <2>3, <2>4
<1>3. CASE Optional(st) /\ e = b
  BY <1>3 DEF Optional
<1> QED
  BY <1>2, <1>3 DEF Moves

LEMMA GuardedMoves ==
    ASSUME NEW p, NEW S \in Seq(StepSet(p)), NEW k \in 0..Len(S), k + 1 \in 1..Len(S), NEW b, Sound(b), S[k + 1].op # "scaffold",
           Guarded(b, S, k), NEW e, Moves(b, e, S[k + 1])
    PROVE  Guarded(e, S, k + 1)
<1>1. Len(S) \in Nat /\ \A i \in 1..Len(S) : S[i] \in StepSet(p)
  BY SeqAt
<1>2. /\ S[k + 1].op # "drop" => b.files \subseteq e.files
      /\ S[k + 1].op = "ensure" => S[k + 1].x \in e.files
  <2> DEFINE st == S[k + 1]
  <2>1. st \in StepSet(p) /\ st.op # "scaffold" /\ Moves(b, e, st)
    BY <1>1
  <2> HIDE DEF st
  <2>2. MovesFiles(b, e, st)
    BY <2>1, FilesMove, Zenon
  <2> QED
    BY <2>2 DEF st, MovesFiles
<1> SUFFICES ASSUME NEW j \in ((k + 1) + 1)..Len(S), S[j].op = "rule"
             PROVE  \/ S[j].x.scope \in e.files /\ \A i \in ((k + 1) + 1)..j : S[i].op # "drop"
                    \/ \E i \in ((k + 1) + 1)..(j - 1) : S[i] = Do("ensure", S[j].x.scope) /\ \A m \in i..j : S[m].op # "drop"
  BY DEF Guarded
<1>3. j \in (k + 1)..Len(S) /\ k \in Nat /\ j \in Nat
  BY <1>1
<1>4. CASE S[j].x.scope \in b.files /\ \A i \in (k + 1)..j : S[i].op # "drop"
  BY <1>2, <1>3, <1>4
<1>5. CASE \E i \in (k + 1)..(j - 1) : S[i] = Do("ensure", S[j].x.scope) /\ \A m \in i..j : S[m].op # "drop"
  <2>1. PICK i \in (k + 1)..(j - 1) : S[i] = Do("ensure", S[j].x.scope) /\ \A m \in i..j : S[m].op # "drop"
    BY <1>5
  <2>2. CASE i = k + 1
    <3>1. S[j].x.scope \in e.files
      BY <1>2, <2>1, <2>2 DEF Do
    <3>2. \A m \in ((k + 1) + 1)..j : S[m].op # "drop"
      BY <1>3, <2>1, <2>2
    <3> QED
      BY <3>1, <3>2
  <2>3. CASE i # k + 1
    BY <1>3, <2>1, <2>3
  <2> QED
    BY <2>2, <2>3
<1> QED
  BY <1>3, <1>4, <1>5 DEF Guarded

(* The rule that is next finds its file. *)
LEMMA GuardedNow ==
    ASSUME NEW A, NEW S \in Seq(A), NEW k \in 0..Len(S), k + 1 \in 1..Len(S), NEW b, Guarded(b, S, k), S[k + 1].op = "rule"
    PROVE  S[k + 1].x.scope \in b.files
<1>1. Len(S) \in Nat /\ k \in Nat
  OBVIOUS
<1>2. ~\E i \in (k + 1)..((k + 1) - 1) : TRUE
  BY <1>1
<1> QED
  BY <1>1, <1>2 DEF Guarded

LEMMA GuardedBegins ==
    ASSUME NEW A, NEW S \in Seq(A), Led(S), NEW b
    PROVE  Guarded(b, S, 0)
<1>1. Len(S) \in Nat
  OBVIOUS
<1> SUFFICES ASSUME NEW j \in (0 + 1)..Len(S), S[j].op = "rule"
             PROVE  \E i \in (0 + 1)..(j - 1) : S[i] = Do("ensure", S[j].x.scope) /\ \A m \in i..j : S[m].op # "drop"
  BY DEF Guarded
<1> QED
  BY <1>1 DEF Led, LedAt

LEMMA PastMoves ==
    ASSUME NEW p, NEW S \in Seq(StepSet(p)), Ordered(S), NEW k \in 0..Len(S), k + 1 \in 1..Len(S), NEW b, Sound(b), OnePerPath(b),
           S[k + 1].op # "scaffold", S[k + 1].op = "rule" => S[k + 1].x.path.plain /\ StepOk(b, S[k + 1]),
           SoFar(b, S, k + 1), NEW e, Moves(b, e, S[k + 1])
    PROVE  SoFar(e, S, (k + 1) + 1)
<1> DEFINE st == S[k + 1]
<1>1. Len(S) \in Nat /\ k \in Nat /\ (\A i \in 1..Len(S) : S[i] \in StepSet(p)) /\ st \in StepSet(p)
  BY SeqAt
<1>2. /\ st.op # "drop" => b.files \subseteq e.files
      /\ st.op = "rule" => st.x.scope \in e.files
      /\ st.op \notin {"drop", "rule"} => \A s \in Places : s \in b.files => e.gmap[s] = b.gmap[s]
      /\ st.op = "rule" => e.gmap = [b.gmap EXCEPT ![st.x.scope] = upsert_policy(b.gmap[st.x.scope], st.x.path, st.x.policy)]
  <2>1. MovesFiles(b, e, st)
    <3>1. st \in StepSet(p) /\ st.op # "scaffold" /\ Moves(b, e, st)
      BY <1>1
    <3> HIDE DEF st
    <3> QED
      BY <3>1, FilesMove, Zenon
  <2> QED
    BY <2>1 DEF MovesFiles
<1>3. b.gmap \in [Places -> FileRec] /\ b.files \in SUBSET Places
  BY DEF Sound, SoundScopes
<1>4. ASSUME st.op = "rule", NEW s \in Places, NEW q, s # st.x.scope \/ q # st.x.path.names
      PROVE  LastPolicy(e.gmap[s].rules, q) = LastPolicy(b.gmap[s].rules, q) /\ e.gmap[s].commented = b.gmap[s].commented
  <2> DEFINE way == st.x.path
             pol == st.x.policy
             f == b.gmap[s]
  <2>1. way.names \in Seq(Nat) /\ way.plain /\ pol \in {Public, Forbidden} /\ st.x.scope \in Places
    BY <1>1, <1>4, RuleIs
  <2>2. f \in FileRec /\ Unique(f.rules)
    BY <1>3 DEF OnePerPath
  <2>3. CASE s = st.x.scope
    <3>1. e.gmap[s] = upsert_policy(f, way, pol)
      BY <1>2, <1>3, <1>4, <2>3
    <3>2. q # way.names
      BY <1>4, <2>3
    <3> HIDE DEF f, way, pol
    <3>3. upsert_policy(f, way, pol).commented = f.commented
      BY <2>1, <2>2, UpsertMakes
    <3>4. \A x : LastPolicy(upsert_policy(f, way, pol).rules, x) = IF x = way.names THEN pol ELSE LastPolicy(f.rules, x)
      BY <2>1, <2>2, UpsertSays
    <3> QED
      BY <3>1, <3>2, <3>3, <3>4 DEF f
  <2>4. CASE s # st.x.scope
    BY <1>2, <1>3, <1>4, <2>1, <2>4
  <2> QED
    BY <2>3, <2>4
<1>5. ASSUME st.op = "rule"
      PROVE  /\ LastPolicy(e.gmap[st.x.scope].rules, st.x.path.names) # NoDecision
             /\ Len(st.x.path.names) > 3 => e.gmap[st.x.scope].commented
             /\ e.gmap[st.x.scope].commented = b.gmap[st.x.scope].commented
  <2> DEFINE way == st.x.path
             pol == st.x.policy
             f == b.gmap[st.x.scope]
             q == way.names
  <2>1. way.names \in Seq(Nat) /\ way.plain /\ pol \in {Public, Forbidden} /\ st.x.scope \in Places /\ Len(way.names) \in Nat
    BY <1>1, <1>5, RuleIs
  <2>2. f \in FileRec /\ Unique(f.rules)
    BY <1>3, <2>1 DEF OnePerPath
  <2>3. e.gmap[st.x.scope] = upsert_policy(f, way, pol)
    BY <1>2, <1>3, <1>5, <2>1
  <2>4. UpsertOk(f, way)
    BY <1>5 DEF StepOk
  <2> HIDE DEF f, way, pol
  <2>5. upsert_policy(f, way, pol).commented = f.commented /\ LastPolicy(upsert_policy(f, way, pol).rules, way.names) = pol
    BY <2>1, <2>2, UpsertSays, UpsertMakes
  <2>6. Len(way.names) > 3 => f.commented
    BY <2>1, <2>4 DEF UpsertOk, parse_path_ok
  <2>7. pol # NoDecision
    BY <2>1 DEF Public, Forbidden, NoDecision
  <2> QED
    BY <2>3, <2>5, <2>6, <2>7 DEF f, way
<1> HIDE DEF st
<1> SUFFICES ASSUME NEW j \in 1..(((k + 1) + 1) - 1), S[j].op = "rule"
             PROVE  /\ S[j].x.scope \in e.files /\ LastPolicy(e.gmap[S[j].x.scope].rules, S[j].x.path.names) # NoDecision
                    /\ Len(S[j].x.path.names) > 3 => e.gmap[S[j].x.scope].commented
  BY DEF SoFar
<1>6. j \in 1..(k + 1) /\ j \in 1..Len(S)
  BY <1>1
<1>7. CASE j = k + 1
  <2>1. S[j] = st
    BY <1>7 DEF st
  <2> QED
    BY <1>2, <1>5, <2>1
<1>8. CASE j # k + 1
  <2>1. j \in 1..((k + 1) - 1) /\ j < k + 1
    BY <1>1, <1>6, <1>8
  <2>2. /\ S[j].x.scope \in b.files /\ LastPolicy(b.gmap[S[j].x.scope].rules, S[j].x.path.names) # NoDecision
        /\ Len(S[j].x.path.names) > 3 => b.gmap[S[j].x.scope].commented
    BY <2>1 DEF SoFar
  <2>3. st.op # "drop"
    <3>1. ~Precedes(st.op, S[j].op)
      BY <1>6, <2>1 DEF Ordered, st
    <3> QED
      BY <3>1 DEF Precedes
  <2>4. S[j].x.scope \in Places
    BY <1>1, <1>6, RuleIs
  <2>5. CASE st.op = "rule"
    <3>1. CASE st.x.scope = S[j].x.scope /\ st.x.path.names = S[j].x.path.names
      <4>1. S[j].x.scope \in e.files
        BY <1>2, <2>2, <2>3
      <4> QED
        BY <1>5, <2>2, <2>5, <3>1, <4>1
    <3>2. CASE st.x.scope # S[j].x.scope \/ st.x.path.names # S[j].x.path.names
      BY <1>2, <1>4, <2>2, <2>3, <2>4, <2>5, <3>2
    <3> QED
      BY <3>1, <3>2
  <2>6. CASE st.op # "rule"
    BY <1>2, <2>2, <2>3, <2>4, <2>6
  <2> QED
    BY <2>5, <2>6
<1> QED
  BY <1>7, <1>8

-----------------------------------------------------------------------------
(* Running the steps of S once more, from wherever a run of them stopped *)

(* Steps that may be repeated: what they link they copy, they do not make a default of what
   they only remove, and no two packs come to the same name. *)
Repeatable(S, p, M) ==
    /\ PlanTypes(p) /\ S \in Seq(StepSet(p)) /\ Ordered(S) /\ Led(S) /\ \A b : Sound(b) => RunGood(b, S, p)
    /\ M \in SUBSET Refs /\ Range(p.refs) \subseteq M /\ \A r \in M : Alone(r, M)
    /\ \A st \in Range(S) : st.op # "scaffold" /\ (st.op = "rule" => st.x.path.plain)
    /\ \A r \in Refs : Do("link", r) \in Range(S) => Do("copy", r) \in Range(S)
    /\ \A i \in PackIds : Chosen(S, i) /\ Unpacked(S, i) => CopiedTo(S, i)

Whole(b, M) == Sound(b) /\ RefsIn(b.meta) \subseteq M /\ OnePerPath(b)

(* All the steps lead to F, or a path is too long for its file. *)
Onward(b, S, F) == Hopeful(b, S) => SameKept(Outcome(b, S), F)

(* And so do those of u, the ones of S that are left. *)
Left(b, u, S, p, M, F) ==
    \E k \in 0..Len(S) : /\ ToCome(S, k, u) /\ SoFar(b, S, k + 1) /\ Guarded(b, S, k) /\ Fits(b, u, p, M)
                         /\ Hopeful(b, S) => SameKept(Outcome(b, u), F)

LEMMA SameKeptSwaps ==
    ASSUME NEW x, NEW y, NEW z, SameKept(x, y)
    PROVE  SameKept(y, x) /\ (SameKept(y, z) => SameKept(x, z)) /\ (SameKept(x, z) => SameKept(y, z))
BY DEF SameKept

LEMMA FitsAll ==
    ASSUME NEW S, NEW p, NEW M, Repeatable(S, p, M), NEW b, Whole(b, M)
    PROVE  Fits(b, S, p, M)
BY DEF Repeatable, Whole, Fits

(* A file that has comments had them before. *)
LEMMA HopefulBack ==
    ASSUME NEW p, NEW S \in Seq(StepSet(p)), NEW b, Sound(b), OnePerPath(b), NEW st \in StepSet(p), st.op # "scaffold",
           st.op = "rule" => st.x.path.plain, NEW e, e = Effect(b, st) \/ (st.op # "rule" /\ HalfMade(b, e, st)), Hopeful(e, S)
    PROVE  Hopeful(b, S)
<1>0. st.op \in StepOps /\ IsBundle(b) /\ b.gmap \in [Places -> FileRec] /\ ClosedFile.commented = FALSE /\ EmptyFile.commented = FALSE
  BY StepFields DEF Sound, SoundScopes, ClosedFile, EmptyFile
<1>1. Untouched(b, e, st.op)
  <2>1. e = Effect(b, st) => Untouched(b, e, st.op)
    BY <1>0, EffectUntouched
  <2> QED
    BY <2>1 DEF HalfMade
<1>a. e = Effect(b, st) => MakesScopes(b, e, st)
  BY <1>0, EffectMakes
<1>2. ASSUME NEW s \in Places, e.gmap[s].commented PROVE b.gmap[s].commented
  <2>1. CASE st.op = "ensure"
    <3>1. \E ss : e.gmap = Created(b, ss)
      <4>1. e = Effect(b, st) => e.gmap = Created(b, {Tenant(st.x), st.x})
        BY <1>a, <2>1 DEF MakesScopes
      <4>2. HalfMade(b, e, st) => e.gmap = Created(b, {Tenant(st.x)})
        BY <2>1 DEF HalfMade
      <4> QED
        BY <4>1, <4>2
    <3>2. e.gmap[s] = ClosedFile \/ e.gmap[s] = b.gmap[s]
      BY <3>1 DEF Created
    <3> QED
      BY <1>0, <1>2, <3>2
  <2>2. CASE st.op = "drop"
    <3>1. e = Effect(b, st) => e.gmap = [x \in Places |-> IF x \in Inside(st.x) THEN EmptyFile ELSE b.gmap[x]]
      BY <1>a, <2>2 DEF MakesScopes
    <3>2. HalfMade(b, e, st) => e.gmap = [x \in Places |-> IF x \in Inside(st.x) THEN EmptyFile ELSE b.gmap[x]]
      BY <2>2 DEF HalfMade
    <3>3. e.gmap[s] = EmptyFile \/ e.gmap[s] = b.gmap[s]
      BY <3>1, <3>2
    <3> QED
      BY <1>0, <1>2, <3>3
  <2>3. CASE st.op = "rule" /\ e = Effect(b, st)
    <3> DEFINE way == st.x.path
               pol == st.x.policy
               f == b.gmap[st.x.scope]
    <3>1. way.names \in Seq(Nat) /\ way.plain /\ pol \in {Public, Forbidden} /\ st.x.scope \in Places
      BY <2>3, RuleIs
    <3>2. f \in FileRec /\ Unique(f.rules)
      BY <1>0, <3>1 DEF OnePerPath
    <3>3. e.gmap = [b.gmap EXCEPT ![st.x.scope] = upsert_policy(f, way, pol)]
      BY <1>a, <2>3 DEF MakesScopes
    <3> HIDE DEF f, way, pol
    <3>4. upsert_policy(f, way, pol).commented = f.commented
      BY <3>1, <3>2, UpsertMakes
    <3> QED
      BY <1>0, <1>2, <3>3, <3>4 DEF f
  <2>5. CASE st.op \notin {"ensure", "drop", "rule"}
    BY <1>1, <1>2, <2>5 DEF Untouched
  <2> QED
    BY <2>1, <2>2, <2>3, <2>5
<1>3. \A q \in Range(S) : q.op = "rule" => q.x.scope \in Places
  BY RangeSeq, RuleIs
<1> QED
  BY <1>2, <1>3 DEF Hopeful

LEMMA FitsMoves ==
    ASSUME NEW u, NEW p, NEW M, NEW b, Fits(b, u, p, M), u # <<>>, NEW e, Moves(b, e, Head(u))
    PROVE  Fits(e, Tail(u), p, M)
<1> DEFINE st == Head(u)
           v == Tail(u)
<1>1. CASE e = Effect(b, st)
  BY <1>1, FitsSteps
<1>2. CASE Optional(st) /\ e = b
  <2>1. /\ RunGood(b, u, p) /\ OnePerPath(b) /\ M \in SUBSET Refs /\ RefsIn(b.meta) \union Range(p.refs) \subseteq M
        /\ \A r \in M : Alone(r, M)
        /\ \A q \in Range(u) : q.op # "scaffold" /\ (q.op = "rule" => q.x.path.plain)
        /\ \A r \in Refs : Do("link", r) \in Range(u) => Do("copy", r) \in Range(u) \/ b.packs[BaseOf[r]] = "whole"
    BY DEF Fits
  <2>2. RunGood(e, v, p) /\ Range(u) = {st} \union Range(v)
    BY <2>1, HeadFits, RunSteps
  <2>3. \A r : st # Do("copy", r)
    BY <1>2 DEF Optional, Do
  <2> HIDE DEF st, v
  <2>4. Fits(e, v, p, M)
    BY <1>2, <2>1, <2>2, <2>3 DEF Fits
  <2> QED
    BY <2>4 DEF st, v
<1> QED
  BY <1>1, <1>2 DEF Moves

(* What need not be done makes no difference but in secrets and webhooks. *)
LEMMA OutcomeMoves ==
    ASSUME NEW u, NEW p, NEW b, RunGood(b, u, p), u # <<>>, NEW e, Moves(b, e, Head(u)), NEW F, SameKept(Outcome(b, u), F)
    PROVE  SameKept(Outcome(e, Tail(u)), F)
<1> DEFINE st == Head(u)
           v == Tail(u)
           d == Effect(b, st)
<1>2. PlanTypes(p) /\ u \in Seq(StepSet(p)) /\ v \in Seq(StepSet(p)) /\ st \in StepSet(p) /\ st.op \in StepOps /\ IsBundle(b)
  BY HeadFits DEF RunGood
<1>3. Outcome(b, u) = Outcome(d, v)
  BY <1>2, OutcomeSteps
<1>4. CASE e = d
  BY <1>3, <1>4
<1>5. CASE Optional(st) /\ e = b
  <2>1. IsBundle(d) /\ Untouched(b, d, st.op) /\ st.op \in {"seed", "webhook"}
    BY <1>2, <1>5, EffectUntouched DEF Optional
  <2> HIDE DEF st, d, v
  <2>2. SameKept(d, e)
    BY <1>2, <1>5, <2>1 DEF SameKept, Untouched
  <2>3. SameKept(Outcome(d, v), Outcome(e, v))
    BY <1>2, <2>2, SameOutcome
  <2>4. SameKept(Outcome(e, v), F)
    BY <1>3, <2>3, SameKeptSwaps
  <2> QED
    BY <2>4 DEF v
<1> QED
  BY <1>4, <1>5 DEF Moves

(* A step that is begun or done before all the steps are makes no difference. *)
LEMMA Absorbed ==
    ASSUME NEW S, NEW p, NEW M, Repeatable(S, p, M), NEW b, Whole(b, M), NEW e, Whole(e, M), NEW F, Onward(b, S, F), Hopeful(b, S),
           NEW u, u # <<>>, Fits(b, u, p, M), NEW k \in 0..Len(S), ToCome(S, k, u), SoFar(b, S, k + 1), SameKept(Outcome(b, u), F),
           Touched(b, e, Head(u)), Head(u).op = "rule" => Head(u).x.scope \in b.files /\ StepOk(b, Head(u))
    PROVE  SameKept(Outcome(e, S), F)
<1> DEFINE st == Head(u)
           W == Outcome(b, S).dirs
<1>1. /\ S \in Seq(StepSet(p)) /\ (\A q \in Range(S) : q.op # "scaffold")
      /\ \A i \in PackIds : Chosen(S, i) /\ Unpacked(S, i) => CopiedTo(S, i)
  BY DEF Repeatable
<1>2. RunGood(b, u, p) /\ Sound(e)
  BY DEF Fits, Whole
<1>3. u \in Seq(StepSet(p)) /\ PlanTypes(p) /\ Ordered(u)
  BY <1>2 DEF RunGood
<1>4. k + 1 \in 1..Len(S) /\ S[k + 1] = st
  BY <1>1, <1>3, RestHead
<1>5. st \in Range(S)
  BY <1>1, <1>4, SeqAt DEF Range
<1>6. Begun(b, e, st, S, u, p, M)
  BY <1>1, <1>2, <1>5 DEF Begun
<1>7. SameKept(Outcome(b, S), F)
  BY DEF Onward
<1>8. st.op = "sync" => b.dirs = W
  <2> SUFFICES ASSUME st.op = "sync" PROVE b.dirs = W
    OBVIOUS
  <2>1. IsBundle(b) /\ Range(u) = {st} \union Range(Tail(u)) /\ \A q \in Range(Tail(u)) : ~Precedes(q.op, st.op)
    BY <1>2, HeadFits
  <2>2. \A q \in Range(Tail(u)) : q.op \notin DirOps
    BY <2>1 DEF Precedes, DirOps
  <2>3. \A q \in Range(u) : q.op \notin DirOps
    BY <2>1, <2>2 DEF DirOps
  <2>4. Outcome(b, u).dirs = b.dirs
    BY <1>3, <2>1, <2>3, DirsStay
  <2>5. Outcome(b, u).dirs = F.dirs /\ Outcome(b, S).dirs = F.dirs
    BY <1>7 DEF SameKept
  <2> QED
    BY <2>4, <2>5
<1>9. Fits(b, S, p, M) /\ Fits(e, S, p, M)
  BY FitsAll
<1> HIDE DEF st
<1>10. Rel(b, e, S, p, W)
  BY <1>1, <1>4, <1>5, <1>6, <1>8, RelBegins DEF st
<1> HIDE DEF W
<1>11. SameKept(Outcome(b, S), Outcome(e, S))
  BY <1>1, <1>9, <1>10, RelOutcome
<1> QED
  BY <1>7, <1>11, SameKeptSwaps

LEMMA LeftBegins ==
    ASSUME NEW S, NEW p, NEW M, Repeatable(S, p, M), NEW b, Whole(b, M), NEW F, Onward(b, S, F)
    PROVE  Left(b, S, S, p, M, F)
<1>1. S \in Seq(StepSet(p)) /\ Led(S)
  BY DEF Repeatable
<1>2. Len(S) \in Nat /\ 0 \in 0..Len(S)
  BY <1>1
<1>3. ToCome(S, 0, S)
  BY <1>2 DEF ToCome
<1>4. SoFar(b, S, 0 + 1)
  BY DEF SoFar
<1>5. Guarded(b, S, 0)
  BY <1>1, GuardedBegins
<1>6. Fits(b, S, p, M)
  BY FitsAll
<1> QED
  BY <1>2, <1>3, <1>4, <1>5, <1>6 DEF Left, Onward

(* A step is done or left out. *)
LEMMA LeftMoves ==
    ASSUME NEW S, NEW p, NEW M, Repeatable(S, p, M), NEW b, Whole(b, M), NEW e, Whole(e, M), NEW F, Onward(b, S, F),
           NEW u, u # <<>>, Left(b, u, S, p, M, F), Moves(b, e, Head(u)), Head(u).op = "rule" => StepOk(b, Head(u))
    PROVE  Left(e, Tail(u), S, p, M, F) /\ Onward(e, S, F)
<1> DEFINE st == Head(u)
           v == Tail(u)
<1>1. PICK k \in 0..Len(S) : /\ ToCome(S, k, u) /\ SoFar(b, S, k + 1) /\ Guarded(b, S, k) /\ Fits(b, u, p, M)
                             /\ Hopeful(b, S) => SameKept(Outcome(b, u), F)
  BY DEF Left
<1>2. /\ S \in Seq(StepSet(p)) /\ Ordered(S) /\ \A q \in Range(S) : q.op # "scaffold" /\ (q.op = "rule" => q.x.path.plain)
  BY DEF Repeatable
<1>3. RunGood(b, u, p) /\ Sound(b) /\ OnePerPath(b)
  BY <1>1 DEF Fits, Whole
<1>4. u \in Seq(StepSet(p)) /\ st \in StepSet(p)
  BY <1>3, HeadFits DEF RunGood
<1>5. k + 1 \in 1..Len(S) /\ S[k + 1] = st /\ ToCome(S, k + 1, v)
  BY <1>1, <1>2, <1>4, RestHead
<1>6. st \in Range(S) /\ st.op # "scaffold" /\ (st.op = "rule" => st.x.path.plain /\ StepOk(b, st))
  <2>1. st \in Range(S)
    BY <1>2, <1>5, SeqAt DEF Range
  <2> QED
    BY <1>2, <2>1
<1> HIDE DEF st, v
<1>7. SoFar(e, S, (k + 1) + 1)
  BY <1>1, <1>2, <1>3, <1>5, <1>6, PastMoves DEF st
<1>8. Guarded(e, S, k + 1)
  BY <1>1, <1>2, <1>3, <1>5, <1>6, GuardedMoves DEF st
<1>9. Fits(e, v, p, M)
  BY <1>1, FitsMoves DEF v
<1>10. st.op = "rule" => st.x.scope \in b.files
  BY <1>1, <1>2, <1>5, GuardedNow
<1>11. Hopeful(e, S) => Hopeful(b, S)
  BY <1>2, <1>3, <1>4, <1>6, HopefulBack DEF Moves, st
<1>12. Hopeful(e, S) => SameKept(Outcome(e, v), F)
  BY <1>1, <1>3, <1>11, OutcomeMoves DEF v
<1>13. k + 1 \in 0..Len(S)
  BY <1>2, <1>5, SeqAt
<1>14. Left(e, v, S, p, M, F)
  BY <1>5, <1>7, <1>8, <1>9, <1>12, <1>13 DEF Left
<1>15. Onward(e, S, F)
  <2>1. CASE e = Effect(b, st)
    <3>1. Touched(b, e, st)
      BY <1>1, <2>1, TouchedDone DEF st
    <3>2. Hopeful(e, S) => SameKept(Outcome(e, S), F)
      BY <1>1, <1>6, <1>10, <1>11, <3>1, Absorbed DEF st
    <3> QED
      BY <3>2 DEF Onward
  <2>2. CASE e = b
    BY <2>2
  <2> QED
    BY <2>1, <2>2 DEF Moves, st
<1> QED
  BY <1>14, <1>15 DEF v

(* A step is cut short. *)
LEMMA LeftHalfway ==
    ASSUME NEW S, NEW p, NEW M, Repeatable(S, p, M), NEW b, Whole(b, M), NEW e, Whole(e, M), NEW F, Onward(b, S, F),
           NEW u, u # <<>>, Left(b, u, S, p, M, F), e \in Halfway(b, Head(u))
    PROVE  Onward(e, S, F)
<1> DEFINE st == Head(u)
<1>1. PICK k \in 0..Len(S) : /\ ToCome(S, k, u) /\ SoFar(b, S, k + 1) /\ Guarded(b, S, k) /\ Fits(b, u, p, M)
                             /\ Hopeful(b, S) => SameKept(Outcome(b, u), F)
  BY DEF Left
<1>2. S \in Seq(StepSet(p)) /\ \A q \in Range(S) : q.op # "scaffold" /\ (q.op = "rule" => q.x.path.plain)
  BY DEF Repeatable
<1>3. RunGood(b, u, p) /\ Sound(b) /\ OnePerPath(b)
  BY <1>1 DEF Fits, Whole
<1>4. u \in Seq(StepSet(p)) /\ st \in StepSet(p) /\ PlanTypes(p)
  BY <1>3, HeadFits DEF RunGood
<1>5. k + 1 \in 1..Len(S) /\ S[k + 1] = st
  BY <1>1, <1>2, <1>4, RestHead
<1>6. st \in Range(S) /\ st.op # "scaffold" /\ (st.op = "rule" => st.x.path.plain)
  <2>1. st \in Range(S)
    BY <1>2, <1>5, SeqAt DEF Range
  <2> QED
    BY <1>2, <2>1
<1>7. HalfMade(b, e, st) /\ st.op # "rule"
  BY <1>3, <1>4, HalfwaySound, HalfwayIs
<1>8. Touched(b, e, st)
  BY <1>1, TouchedHalf
<1> HIDE DEF st
<1>9. Hopeful(e, S) => Hopeful(b, S)
  BY <1>2, <1>3, <1>4, <1>6, <1>7, HopefulBack
<1>10. Hopeful(e, S) => SameKept(Outcome(e, S), F)
  BY <1>1, <1>7, <1>8, <1>9, Absorbed DEF st
<1> QED
  BY <1>10 DEF Onward

(* All the steps are done. *)
LEMMA LeftEnds ==
    ASSUME NEW S, NEW p, NEW M, Repeatable(S, p, M), NEW b, NEW F, Left(b, <<>>, S, p, M, F)
    PROVE  SameKept(b, F)
<1>1. PICK k \in 0..Len(S) : /\ ToCome(S, k, <<>>) /\ SoFar(b, S, k + 1)
                             /\ Hopeful(b, S) => SameKept(Outcome(b, <<>>), F)
  BY DEF Left
<1>2. S \in Seq(StepSet(p))
  BY DEF Repeatable
<1>3. Len(S) \in Nat /\ Len(<<>>) = 0
  BY <1>2
<1>4. (k + 1) - 1 = Len(S)
  BY <1>1, <1>3 DEF ToCome
<1>5. Hopeful(b, S)
  <2> SUFFICES ASSUME NEW q \in Range(S), q.op = "rule", Len(q.x.path.names) > 3 PROVE b.gmap[q.x.scope].commented
    BY DEF Hopeful
  <2>1. PICK j \in 1..Len(S) : S[j] = q
    BY <1>2, SeqAt DEF Range
  <2> QED
    BY <1>1, <1>4, <2>1 DEF SoFar
<1>6. Outcome(b, <<>>) = b
  BY OutcomeSteps, NothingHeld
<1> QED
  BY <1>1, <1>5, <1>6

-----------------------------------------------------------------------------
(* The runs of the wizard *)

(* What the first run is to do, and what it would come to. *)
FirstPlan == build_plan(answers, start.meta)
FirstSteps == execute_plan(FirstPlan)
FirstEnd == Outcome(Base(start), FirstSteps)

Repeats ==
    /\ Namesakes(Mentioned) = {}
    /\ \/ answers.mode = "create"
       \/ Plainly /\ PacksOf("default", FirstSteps) \intersect PacksOf("unpack", FirstSteps) \subseteq Copied(FirstSteps)

(***************************************************************************)
(* Every run has the plan of the first.  What create has left to do leads   *)
(* to what the first run would have made; in the other modes all the steps  *)
(* lead there at any time, whatever part of them has been done already, and *)
(* so do those that are left of a run.                                      *)
(***************************************************************************)
RetryInv ==
    ~lost /\ Repeats =>
      /\ wizard \in {"running", "done"} => plan = FirstPlan
      /\ answers.mode = "create" => (wizard \in {"running", "done"} => SameKept(Outcome(bundle, todo), FirstEnd))
      /\ answers.mode # "create" =>
           /\ Onward(bundle, FirstSteps, FirstEnd)
           /\ wizard \in {"running", "done"} => Left(bundle, todo, FirstSteps, FirstPlan, Mentioned, FirstEnd)

LEMMA FirstStays ==
    ASSUME UNCHANGED <<answers, start>>
    PROVE  /\ FirstPlan' = FirstPlan /\ FirstSteps' = FirstSteps /\ FirstEnd' = FirstEnd /\ Mentioned' = Mentioned
           /\ Repeats' <=> Repeats
<1>1. Mentioned' = Mentioned /\ (Plainly' <=> Plainly)
  BY MentionedStays
<1>2. FirstPlan' = FirstPlan /\ FirstSteps' = FirstSteps
  BY DEF FirstPlan, FirstSteps
<1>3. FirstEnd' = FirstEnd
  BY <1>2 DEF FirstEnd, Base
<1>4. Repeats' <=> Repeats
  BY <1>1, <1>2 DEF Repeats, Namesakes
<1> QED
  BY <1>1, <1>2, <1>3, <1>4

(* The packs that are mentioned are alone with their names, and so each run has one and the same plan. *)
LEMMA FirstIs ==
    ASSUME answers \in Answers, start \in Bundles, Repeats
    PROVE  /\ \A r \in Mentioned : Alone(r, Mentioned)
           /\ PlanTypes(FirstPlan) /\ Range(FirstPlan.refs) \subseteq Mentioned
           /\ FirstPlan.mode = answers.mode /\ FirstPlan.tenants = TenantsOf(answers)
           /\ \A meta : MetaGood(meta) /\ RefsIn(meta) \subseteq Mentioned => build_plan(answers, meta) = FirstPlan
<1>1. /\ AnswerSeqs(answers) /\ Mentioned \in SUBSET Refs
      /\ Sound(start) /\ RefsIn(start.meta) \subseteq Mentioned
  BY AnswersGood
<1>2. MetaGood(start.meta)
  BY <1>1 DEF Sound
<1>3. \A r \in Mentioned : Alone(r, Mentioned)
  BY DEF Repeats, Namesakes, Alone
<1>4. PlanTypes(FirstPlan) /\ (answers.mode # "remove" => Range(FirstPlan.refs) = Range(RefsOf(answers)))
  BY <1>1, <1>2, PlanTyped DEF MetaGood, FirstPlan
<1>5. FirstPlan.mode = answers.mode /\ FirstPlan.tenants = TenantsOf(answers) /\ (answers.mode = "remove" => FirstPlan.refs = <<>>)
  <2>1. PlanFields(FirstPlan, answers, start.meta)
    BY <1>1, PlanIs DEF FirstPlan
  <2> QED
    BY <2>1 DEF PlanFields
<1>6. Range(FirstPlan.refs) \subseteq Mentioned
  BY <1>4, <1>5, NothingHeld DEF Mentioned, RequestOf
<1>7. \A meta : MetaGood(meta) /\ RefsIn(meta) \subseteq Mentioned => build_plan(answers, meta) = FirstPlan
  BY <1>1, <1>2, <1>3, SamePlan DEF FirstPlan
<1> QED
  BY <1>3, <1>4, <1>5, <1>6, <1>7

(* What is made a default and removed is copied. *)
LEMMA ChosenCopied ==
    ASSUME NEW p, NEW S \in Seq(StepSet(p)), Range(p.refs) \subseteq Refs,
           PacksOf("default", S) \intersect PacksOf("unpack", S) \subseteq Copied(S), NEW i \in PackIds, Chosen(S, i), Unpacked(S, i)
    PROVE  CopiedTo(S, i)
<1>0. DOMAIN S = 1..Len(S) /\ \A j \in 1..Len(S) : S[j] \in StepSet(p)
  BY SeqAt
<1>1. i \in PacksOf("default", S) /\ i \in PacksOf("unpack", S)
  BY DEF PacksOf, Chosen, Unpacked, Range
<1>2. PICK j \in DOMAIN S : S[j].op = "copy" /\ i = BaseOf[S[j].x]
  BY <1>1 DEF Copied, derive_pack_id_from_reference
<1>3. S[j] = Do("copy", S[j].x) /\ S[j].x \in Refs
  BY <1>0, <1>2, StepIs, StepFields
<1> QED
  BY <1>2, <1>3 DEF CopiedTo, Range

LEMMA FirstRepeatable ==
    ASSUME answers \in Answers, start \in Bundles, Repeats, answers.mode # "create"
    PROVE  Repeatable(FirstSteps, FirstPlan, Mentioned)
<1> DEFINE S == FirstSteps
           p == FirstPlan
           M == Mentioned
<1>1. /\ \A r \in M : Alone(r, M)
      /\ PlanTypes(p) /\ Range(p.refs) \subseteq M /\ p.mode # "create" /\ p.tenants = TenantsOf(answers)
  BY FirstIs
<1>2. M \in SUBSET Refs
  BY AnswersGood
<1>3. S \in Seq(StepSet(p)) /\ Ordered(S) /\ (AddsNone(S) \/ AddsAll(S, p))
  BY <1>1, PlanShaped DEF PlanShape, FirstSteps
<1>4. Led(S) /\ \A st \in Range(S) : st.op # "scaffold"
  BY <1>1, UpdateLed DEF FirstSteps
<1>5. \A b : Sound(b) => RunGood(b, S, p)
  BY <1>1, RunStarts DEF FirstSteps
<1>6. Plainly /\ PacksOf("default", S) \intersect PacksOf("unpack", S) \subseteq Copied(S)
  BY DEF Repeats
<1> HIDE DEF S, p, M
<1>7. ASSUME NEW st \in Range(S), st.op = "rule" PROVE st.x.path.plain
  <2>1. st \in StepSet(p)
    BY <1>3, RangeSeq
  <2>2. st.x.path.plain \/ \E i \in DOMAIN p.tenants : st.x.path \in Range(p.tenants[i].allow)
    <3>1. st.x \in RuleChange(p)
      BY <1>7, <2>1, StepFields
    <3> QED
      BY <3>1 DEF RuleChange, PlanPath
  <2>3. \A i \in DOMAIN p.tenants : p.tenants[i].allow = answers.allow
    BY <1>1 DEF TenantsOf
  <2>4. \A q \in Range(answers.allow) : q.plain
    BY <1>6 DEF Plainly, Range
  <2> QED
    BY <2>2, <2>3, <2>4
<1>8. \A r \in Refs : Do("link", r) \in Range(S) => Do("copy", r) \in Range(S)
  <2> SUFFICES ASSUME NEW r \in Refs, Do("link", r) \in Range(S) PROVE Do("copy", r) \in Range(S)
    OBVIOUS
  <2>1. Do("link", r) \in StepSet(p)
    BY <1>3, RangeSeq
  <2>2. r \in Range(p.refs)
    BY <2>1, StepFields DEF Do
  <2>3. ~AddsNone(S)
    BY DEF AddsNone, Adding, Do
  <2> QED
    BY <1>3, <2>2, <2>3 DEF AddsAll
<1>9. \A i \in PackIds : Chosen(S, i) /\ Unpacked(S, i) => CopiedTo(S, i)
  BY <1>1, <1>2, <1>3, <1>6, ChosenCopied
<1>10. Repeatable(S, p, M)
  BY <1>1, <1>2, <1>3, <1>4, <1>5, <1>7, <1>8, <1>9 DEF Repeatable
<1> QED
  BY <1>10 DEF S, p, M

(* What create begins with. *)
LEMMA BaseSame ==
    ASSUME answers.mode = "create", NEW x, NEW y
    PROVE  SameKept(Base(x), Base(y))
BY DEF Base, NoBundle, SameKept, IsBundle

LEMMA RetryStarts ==
    ASSUME WizardInit
    PROVE  RetryInv
<1>1. answers \in Answers /\ start \in Bundles /\ bundle = start /\ wizard = "idle"
  BY DEF WizardInit
<1> SUFFICES ASSUME Repeats, answers.mode # "create" PROVE Onward(bundle, FirstSteps, FirstEnd)
  BY <1>1 DEF RetryInv
<1>2. Repeatable(FirstSteps, FirstPlan, Mentioned)
  BY <1>1, FirstRepeatable
<1>3. PlanTypes(FirstPlan) /\ FirstSteps \in Seq(StepSet(FirstPlan))
  BY <1>2 DEF Repeatable
<1>4. SameKept(start, start)
  BY <1>1, AnswersGood DEF Sound, SameKept
<1>5. SameKept(Outcome(start, FirstSteps), Outcome(start, FirstSteps))
  BY <1>3, <1>4, SameOutcome
<1>6. Base(start) = start
  BY DEF Base
<1> QED
  BY <1>1, <1>5, <1>6 DEF Onward, FirstEnd

(* The bundle is whole, and once the wizard runs it has a plan. *)
LEMMA RetryCommand ==
    ASSUME WizardInv, RetryInv, WizardCommand
    PROVE  RetryInv'
<1>1. /\ wizard \in {"idle", "failed"} /\ wizard' = "running" /\ bundle' = Base(bundle) /\ plan' = build_plan(answers, bundle.meta)
      /\ todo' = execute_plan(plan') /\ UNCHANGED <<answers, start, lost>>
  BY DEF WizardCommand
<1>2. /\ FirstPlan' = FirstPlan /\ FirstSteps' = FirstSteps /\ FirstEnd' = FirstEnd /\ Mentioned' = Mentioned
      /\ Repeats' <=> Repeats
  BY <1>1, FirstStays
<1> SUFFICES ASSUME ~lost, Repeats
             PROVE  /\ plan' = FirstPlan
                    /\ answers.mode = "create" => SameKept(Outcome(bundle', todo'), FirstEnd)
                    /\ answers.mode # "create" =>
                         /\ Onward(bundle', FirstSteps, FirstEnd)
                         /\ Left(bundle', todo', FirstSteps, FirstPlan, Mentioned, FirstEnd)
  BY <1>1, <1>2 DEF RetryInv
<1>3. answers \in Answers /\ start \in Bundles /\ BundleSound
  BY DEF WizardInv
<1>4. Sound(bundle) /\ RefsIn(bundle.meta) \subseteq Mentioned /\ (Plainly => OnePerPath(bundle)) /\ MetaGood(bundle.meta)
  BY <1>3 DEF BundleSound, Sound
<1>5. plan' = FirstPlan /\ todo' = FirstSteps
  BY <1>1, <1>3, <1>4, FirstIs DEF FirstSteps
<1>6. ASSUME answers.mode = "create" PROVE SameKept(Outcome(bundle', todo'), FirstEnd)
  <2>1. PlanTypes(FirstPlan)
    BY <1>3, FirstIs
  <2>2. FirstSteps \in Seq(StepSet(FirstPlan))
    BY <2>1, PlanShaped DEF PlanShape, FirstSteps
  <2>3. SameKept(Base(bundle), Base(start))
    BY <1>6, BaseSame
  <2>4. SameKept(Outcome(Base(bundle), FirstSteps), Outcome(Base(start), FirstSteps))
    BY <2>1, <2>2, <2>3, SameOutcome
  <2> QED
    BY <1>1, <1>5, <2>4 DEF FirstEnd
<1>7. ASSUME answers.mode # "create"
      PROVE  /\ Onward(bundle', FirstSteps, FirstEnd)
             /\ Left(bundle', todo', FirstSteps, FirstPlan, Mentioned, FirstEnd)
  <2>1. bundle' = bundle
    BY <1>1, <1>7 DEF Base
  <2>2. Onward(bundle, FirstSteps, FirstEnd)
    BY <1>7 DEF RetryInv
  <2>3. Repeatable(FirstSteps, FirstPlan, Mentioned)
    BY <1>3, <1>7, FirstRepeatable
  <2>4. Whole(bundle, Mentioned)
    BY <1>4, <1>7 DEF Whole, Repeats
  <2>5. Left(bundle, FirstSteps, FirstSteps, FirstPlan, Mentioned, FirstEnd)
    BY <2>2, <2>3, <2>4, LeftBegins
  <2> QED
    BY <1>5, <2>1, <2>2, <2>5
<1> QED
  BY <1>5, <1>6, <1>7

LEMMA RetryGoesOn ==
    ASSUME WizardInv, WizardInv', RetryInv, WizardStep \/ SkipOptional
    PROVE  RetryInv'
<1>1. /\ wizard = "running" /\ todo # <<>> /\ Moves(bundle, bundle', Head(todo)) /\ todo' = Tail(todo)
      /\ Head(todo).op = "rule" => StepOk(bundle, Head(todo))
      /\ UNCHANGED <<answers, start, plan, wizard, lost>>
  BY DEF WizardStep, SkipOptional, Moves, Optional
<1>2. /\ FirstPlan' = FirstPlan /\ FirstSteps' = FirstSteps /\ FirstEnd' = FirstEnd /\ Mentioned' = Mentioned
      /\ Repeats' <=> Repeats
  BY <1>1, FirstStays
<1> SUFFICES ASSUME ~lost, Repeats
             PROVE  /\ plan = FirstPlan
                    /\ answers.mode = "create" => SameKept(Outcome(bundle', todo'), FirstEnd)
                    /\ answers.mode # "create" =>
                         /\ Onward(bundle', FirstSteps, FirstEnd)
                         /\ Left(bundle', todo', FirstSteps, FirstPlan, Mentioned, FirstEnd)
  BY <1>1, <1>2 DEF RetryInv
<1>3. answers \in Answers /\ start \in Bundles /\ BundleSound /\ RunSound /\ BundleSound'
  BY <1>1 DEF WizardInv
<1>4. plan = FirstPlan
  BY <1>1 DEF RetryInv
<1>5. ASSUME answers.mode = "create" PROVE SameKept(Outcome(bundle', todo'), FirstEnd)
  <2>1. RunGood(bundle, todo, plan) /\ SameKept(Outcome(bundle, todo), FirstEnd)
    BY <1>1, <1>3, <1>5 DEF RunSound, RetryInv
  <2> DEFINE e == bundle'
  <2>2. Moves(bundle, e, Head(todo))
    BY <1>1
  <2> HIDE DEF e
  <2>3. SameKept(Outcome(e, Tail(todo)), FirstEnd)
    BY <1>1, <2>1, <2>2, OutcomeMoves
  <2> QED
    BY <1>1, <2>3 DEF e
<1>6. ASSUME answers.mode # "create"
      PROVE  /\ Onward(bundle', FirstSteps, FirstEnd)
             /\ Left(bundle', todo', FirstSteps, FirstPlan, Mentioned, FirstEnd)
  <2> DEFINE e == bundle'
  <2>1. Onward(bundle, FirstSteps, FirstEnd) /\ Left(bundle, todo, FirstSteps, FirstPlan, Mentioned, FirstEnd)
    BY <1>1, <1>6 DEF RetryInv
  <2>2. Repeatable(FirstSteps, FirstPlan, Mentioned)
    BY <1>3, <1>6, FirstRepeatable
  <2>3. Plainly
    BY <1>6 DEF Repeats
  <2>4. Whole(bundle, Mentioned)
    BY <1>3, <2>3 DEF Whole, BundleSound
  <2>5. Whole(e, Mentioned)
    BY <1>1, <1>2, <1>3, <2>3, MentionedStays DEF Whole, BundleSound
  <2>6. Moves(bundle, e, Head(todo))
    BY <1>1
  <2> HIDE DEF e
  <2>7. Left(e, Tail(todo), FirstSteps, FirstPlan, Mentioned, FirstEnd) /\ Onward(e, FirstSteps, FirstEnd)
    BY <1>1, <2>1, <2>2, <2>4, <2>5, <2>6, LeftMoves
  <2> QED
    BY <1>1, <2>7 DEF e
<1> QED
  BY <1>4, <1>5, <1>6

LEMMA RetryStops ==
    ASSUME WizardInv, WizardInv', RetryInv, StepFails
    PROVE  RetryInv'
<1>1. wizard = "running" /\ todo # <<>> /\ wizard' = "failed" /\ UNCHANGED <<answers, start, plan>>
  BY DEF StepFails
<1>2. /\ FirstPlan' = FirstPlan /\ FirstSteps' = FirstSteps /\ FirstEnd' = FirstEnd /\ Mentioned' = Mentioned
      /\ Repeats' <=> Repeats
  BY <1>1, FirstStays
<1> SUFFICES ASSUME ~lost', Repeats, answers.mode # "create" PROVE Onward(bundle', FirstSteps, FirstEnd)
  BY <1>1, <1>2 DEF RetryInv
<1>3. bundle' \in {bundle} \union Halfway(bundle, Head(todo)) /\ lost' = lost
  BY DEF StepFails
<1>4. answers \in Answers /\ start \in Bundles /\ BundleSound /\ BundleSound'
  BY <1>1, <1>3 DEF WizardInv
<1>5. Onward(bundle, FirstSteps, FirstEnd) /\ Left(bundle, todo, FirstSteps, FirstPlan, Mentioned, FirstEnd)
  BY <1>1, <1>3 DEF RetryInv
<1>6. Repeatable(FirstSteps, FirstPlan, Mentioned)
  BY <1>4, FirstRepeatable
<1>7. Plainly
  BY DEF Repeats
<1> DEFINE e == bundle'
<1>8. Whole(bundle, Mentioned) /\ Whole(e, Mentioned)
  BY <1>1, <1>2, <1>4, <1>7, MentionedStays DEF Whole, BundleSound
<1>9. e = bundle \/ e \in Halfway(bundle, Head(todo))
  BY <1>3
<1> HIDE DEF e
<1>10. Onward(e, FirstSteps, FirstEnd)
  BY <1>1, <1>5, <1>6, <1>8, <1>9, LeftHalfway
<1> QED
  BY <1>10 DEF e

LEMMA RetryKept ==
    ASSUME WizardInv, WizardInv', RetryInv, [WizardNext]_wizardVars
    PROVE  RetryInv'
<1>1. CASE Refused
  <2>1. UNCHANGED <<answers, start, bundle, plan, todo, wizard, lost>>
    BY <1>1 DEF Refused
  <2> QED
    BY <2>1, FirstStays DEF RetryInv
<1>2. CASE WizardEnds
  <2>1. wizard = "running" /\ wizard' = "done" /\ UNCHANGED <<answers, start, bundle, plan, todo, lost>>
    BY <1>2 DEF WizardEnds
  <2> QED
    BY <2>1, FirstStays DEF RetryInv
<1>3. CASE UNCHANGED wizardVars
  <2>1. UNCHANGED <<answers, start, bundle, plan, todo, wizard, lost>>
    BY <1>3 DEF wizardVars
  <2> QED
    BY <2>1, FirstStays DEF RetryInv
<1> QED
  BY <1>1, <1>2, <1>3, RetryCommand, RetryGoesOn, RetryStops DEF WizardNext

(* A wizard that is done has made the bundle that a single run would have made. *)
LEMMA RetryMeans ==
    ASSUME WizardInv, RetryInv
    PROVE  RetryConverges
<1>1. /\ FirstSteps = execute_plan(build_plan(answers, start.meta)) /\ KeptOf(bundle) = [bundle EXCEPT !.secrets = {}, !.webhooks = {}]
      /\ KeptOf(FirstEnd) = [Outcome(Base(start), FirstSteps) EXCEPT !.secrets = {}, !.webhooks = {}]
  BY DEF FirstSteps, FirstPlan, KeptOf, FirstEnd
<1> SUFFICES ASSUME wizard = "done", ~lost, Repeats PROVE KeptOf(bundle) = KeptOf(FirstEnd)
  BY <1>1 DEF RetryConverges, Repeats
<1>2. answers \in Answers /\ start \in Bundles /\ todo = <<>>
  BY DEF WizardInv
<1>3. SameKept(bundle, FirstEnd)
  <2>1. CASE answers.mode = "create"
    <3>1. SameKept(Outcome(bundle, <<>>), FirstEnd)
      BY <1>2, <2>1 DEF RetryInv
    <3> QED
      BY <3>1, OutcomeSteps, NothingHeld
  <2>2. CASE answers.mode # "create"
    <3>1. Left(bundle, <<>>, FirstSteps, FirstPlan, Mentioned, FirstEnd)
      BY <1>2, <2>2 DEF RetryInv
    <3>2. Repeatable(FirstSteps, FirstPlan, Mentioned)
      BY <1>2, <2>2, FirstRepeatable
    <3> QED
      BY <3>1, <3>2, LeftEnds
  <2> QED
    BY <2>1, <2>2
<1> QED
  BY <1>3, KeptIs

(***************************************************************************)
(* Whatever fails, wherever the command stops and however often it is run   *)
(* again, when it ends well the bundle is the one a single run would have   *)
(* made, but for secrets and webhooks: for any answers, bundles, packs,     *)
(* tenants and rules, on the terms that RetryConverges names.               *)
(***************************************************************************)
THEOREM RunsConverge == WizardSpec => []RetryConverges
<1>1. WizardInit => RetryInv
  BY RetryStarts
<1>2. WizardInv /\ WizardInv' /\ RetryInv /\ [WizardNext]_wizardVars => RetryInv'
  BY RetryKept
<1>3. WizardInv /\ RetryInv => RetryConverges
  BY RetryMeans
<1> QED
  BY <1>1, <1>2, <1>3, WizardInvariant, PTL DEF WizardSpec

=============================================================================
