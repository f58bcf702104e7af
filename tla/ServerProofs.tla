---------------------------- MODULE ServerProofs ----------------------------
(***************************************************************************)
(* Proofs about the threads of the server: the events timer, for any packs, *)
(* intervals and run times, and the HTTP server with the hooks it asks, for *)
(* any mounts, offers, requests and changes of the packs; and about the     *)
(* interactive demo, for any flow and anything that is typed.               *)
(***************************************************************************)
EXTENDS TimerScheduler, HttpServer, DemoRepl, SequenceLemmas


TimerHandlers == [provider : STRING, op : STRING, interval : Nat \ {0}]

(***************************************************************************)
(* Discovery: whatever a pack declares, the interval of a handler is at     *)
(* least one.                                                               *)
(***************************************************************************)
LEMMA HandlerType ==
    ASSUME NEW provider \in STRING, NEW e, e.op \in STRING, e.interval \in Interval
    PROVE  Handler(provider, e) \in TimerHandlers
BY TimerAssumption DEF Handler, TimerHandlers, IntervalOf, Interval, Greater, NoInterval

LEMMA TimersOfType ==
    ASSUME NEW p \in ProviderPack
    PROVE  TimersOf(p) \in Seq(TimerHandlers)
<1>1. /\ p.id \in STRING /\ p.top \in Seq(TimerEntry) /\ p.nested \in Seq(TimerEntry)
      /\ p.ops \in Seq(TimerOp)
  BY DEF ProviderPack
<1>2. ASSUME NEW provider \in STRING, NEW e \in TimerEntry
      PROVE  parse_timer_handler_entry(e, provider) \in Seq(TimerHandlers)
  <2>1. Handler(provider, e) \in TimerHandlers
    BY HandlerType DEF TimerEntry
  <2> QED
    BY <2>1 DEF parse_timer_handler_entry
<1>3. ASSUME NEW e \in TimerEntry
      PROVE  ProviderOf(e, p.id) \in STRING /\ NestedProviderOf(e, p.id) \in STRING
  BY <1>1 DEF ProviderOf, NestedProviderOf, TimerEntry
<1> DEFINE top == [k \in DOMAIN p.top |->
                     parse_timer_handler_entry(p.top[k], ProviderOf(p.top[k], p.id))]
           nested == [k \in DOMAIN p.nested |->
                     parse_timer_handler_entry(p.nested[k], NestedProviderOf(p.nested[k], p.id))]
<1>4. FlattenSeq(top) \in Seq(TimerHandlers)
  <2>1. DOMAIN p.top = 1..Len(p.top) /\ Len(p.top) \in Nat
    BY <1>1
  <2>2. ASSUME NEW k \in DOMAIN p.top
        PROVE  parse_timer_handler_entry(p.top[k], ProviderOf(p.top[k], p.id)) \in Seq(TimerHandlers)
    <3>1. p.top[k] \in TimerEntry
      BY <1>1
    <3> QED
      BY <1>2, <1>3, <3>1
  <2>3. top \in [1..Len(p.top) -> Seq(TimerHandlers)]
    BY <2>1, <2>2
  <2> HIDE DEF top
  <2> QED
    BY <2>1, <2>3, FlattenSeqType
<1>5. FlattenSeq(nested) \in Seq(TimerHandlers)
  <2>1. DOMAIN p.nested = 1..Len(p.nested) /\ Len(p.nested) \in Nat
    BY <1>1
  <2>2. ASSUME NEW k \in DOMAIN p.nested
        PROVE  parse_timer_handler_entry(p.nested[k], NestedProviderOf(p.nested[k], p.id)) \in Seq(TimerHandlers)
    <3>1. p.nested[k] \in TimerEntry
      BY <1>1
    <3> QED
      BY <1>2, <1>3, <3>1
  <2>3. nested \in [1..Len(p.nested) -> Seq(TimerHandlers)]
    BY <2>1, <2>2
  <2> HIDE DEF nested
  <2> QED
    BY <2>1, <2>3, FlattenSeqType
<1>6. parse_explicit_timer_handlers(p) \in Seq(TimerHandlers)
  BY <1>4, <1>5 DEF parse_explicit_timer_handlers
<1>7. [k \in DOMAIN p.ops |-> Handler(p.id, p.ops[k])] \in Seq(TimerHandlers)
  <2>1. ASSUME NEW k \in 1..Len(p.ops) PROVE Handler(p.id, p.ops[k]) \in TimerHandlers
    <3>1. p.ops[k] \in TimerOp
      BY <1>1
    <3>2. p.ops[k].op \in STRING /\ p.ops[k].interval \in Interval
      BY <3>1 DEF TimerOp
    <3> QED
      BY <1>1, <3>2, HandlerType
  <2> QED
    <3> DEFINE byName == [k \in 1..Len(p.ops) |-> Handler(p.id, p.ops[k])]
    <3>1. byName \in [1..Len(p.ops) -> TimerHandlers] /\ Len(p.ops) \in Nat
      BY <1>1, <2>1
    <3>2. byName \in Seq(TimerHandlers)
      <4> HIDE DEF byName
      <4> QED
        BY <3>1
    <3>3. DOMAIN p.ops = 1..Len(p.ops)
      BY <1>1
    <3> QED
      BY <3>2, <3>3
<1> QED
  BY <1>6, <1>7 DEF TimersOf

LEMMA DiscoveredType ==
    ASSUME NEW ps \in Packs
    PROVE  discover_timer_handlers(ps) \in Seq(TimerHandlers)
<1>1. ps \in Seq(ProviderPack)
  BY TimerAssumption
<1> DEFINE seqs == [k \in DOMAIN ps |-> TimersOf(ps[k])]
<1>2. seqs \in [1..Len(ps) -> Seq(TimerHandlers)]
  BY <1>1, TimersOfType
<1>3. FlattenSeq(seqs) \in Seq(TimerHandlers)
  <2> HIDE DEF seqs
  <2> QED
    BY <1>1, <1>2, FlattenSeqType
<1> QED
  BY <1>3 DEF discover_timer_handlers

-----------------------------------------------------------------------------
(***************************************************************************)
(* The inductive invariant behind NoBursts: what is left of an interval and *)
(* what has gone by since the last run always add up to the interval.       *)
(***************************************************************************)
ClockInv ==
    /\ timers \in Seq(TimerHandlers)
    /\ left \in [Hs -> Nat] /\ since \in [Hs -> Nat]
    /\ \A h \in Hs : left[h] + since[h] = timers[h].interval
    /\ pc \in {"pass", "scan", "sleep", "ended"}
    /\ pc # "ended" => timers # <<>>

(* The thread sleeps for some natural number of units, and at least one. *)
LEMMA SleepForType ==
    ASSUME ClockInv, pc = "sleep"
    PROVE  SleepFor \in Nat \ {0}
<1> DEFINE T == {left[h] : h \in Hs}
<1>1. T \in SUBSET Nat /\ T # {}
  <2>1. 1 \in Hs
    BY DEF ClockInv, Hs
  <2> QED
    BY <2>1 DEF ClockInv
<1>2. \E m \in T : \A h \in Hs : m <= left[h]
  <2>1. PICK m \in T : \A k \in T : m <= k
    <3> HIDE DEF T
    <3> QED
      BY <1>1, LeastNumber
  <2> QED
    BY <2>1
<1> DEFINE least == CHOOSE m \in T : \A h \in Hs : m <= left[h]
<1>3. least \in T
  BY <1>2
<1>4. SleepFor = Greater(least, 1)
  BY DEF SleepFor
<1> HIDE DEF least, T
<1> QED
  BY <1>1, <1>3, <1>4 DEF Greater

(* Every handler has an interval, and its clocks are naturals. *)
LEMMA HandlerClocks ==
    ASSUME ClockInv, NEW h \in Hs
    PROVE  /\ timers[h].interval \in Nat \ {0} /\ left[h] \in Nat /\ since[h] \in Nat
           /\ left[h] + since[h] = timers[h].interval
<1>1. timers[h] \in TimerHandlers
  BY DEF ClockInv, Hs
<1> QED
  BY <1>1 DEF ClockInv, TimerHandlers

(* Time that goes by keeps the sums. *)
LEMMA ElapseKeeps ==
    ASSUME ClockInv, NEW d \in Nat, Elapse(d), UNCHANGED timers
    PROVE  /\ left' \in [Hs -> Nat] /\ since' \in [Hs -> Nat]
           /\ \A h \in Hs : left'[h] + since'[h] = timers[h].interval
<1>1. ASSUME NEW h \in Hs
      PROVE  left'[h] \in Nat /\ since'[h] \in Nat /\ left'[h] + since'[h] = timers[h].interval
  <2>1. /\ left'[h] = Less(left[h], d)
        /\ since'[h] = IF since[h] + d < timers[h].interval THEN since[h] + d ELSE timers[h].interval
    BY DEF Elapse
  <2>2. /\ timers[h].interval \in Nat /\ left[h] \in Nat /\ since[h] \in Nat
        /\ left[h] + since[h] = timers[h].interval
    BY HandlerClocks
  <2> QED
    BY <2>1, <2>2 DEF Less, Greater
<1>2. left' = [h \in Hs |-> left'[h]] /\ since' = [h \in Hs |-> since'[h]]
  BY DEF Elapse
<1> QED
  BY <1>1, <1>2

(* Every step keeps it. *)
LEMMA ClockStep == ClockInv /\ [Next]_vars => ClockInv'
<1> SUFFICES ASSUME ClockInv, [Next]_vars PROVE ClockInv'
  OBVIOUS
<1>1. CASE BeginPass \/ Skip \/ EndPass \/ Stopped \/ Stop
  BY <1>1 DEF BeginPass, Skip, EndPass, Stopped, Stop, ClockInv, Hs
<1>2. CASE RunHandler
  <2>1. PICK d \in Durations :
          /\ left' = [h \in Hs |-> IF h = cur THEN NextTick(h, d) ELSE Less(left[h], d)]
          /\ since' = [h \in Hs |-> CASE h = cur -> 0
                                      [] h # cur /\ since[h] + d < timers[h].interval -> since[h] + d
                                      [] OTHER -> timers[h].interval]
    BY <1>2 DEF RunHandler
  <2>2. d \in Nat
    BY TimerAssumption
  <2>3. ASSUME NEW h \in Hs
        PROVE  /\ left'[h] \in Nat /\ since'[h] \in Nat
               /\ left'[h] + since'[h] = timers[h].interval
    <3>1. CASE h = cur
      BY <2>1, <3>1, HandlerClocks DEF NextTick
    <3>2. CASE h # cur
      <4>1. /\ left'[h] = Less(left[h], d)
            /\ since'[h] = IF since[h] + d < timers[h].interval THEN since[h] + d ELSE timers[h].interval
        BY <2>1, <3>2
      <4>2. /\ timers[h].interval \in Nat /\ left[h] \in Nat /\ since[h] \in Nat
            /\ left[h] + since[h] = timers[h].interval
        BY HandlerClocks
      <4> QED
        BY <2>2, <4>1, <4>2 DEF Less, Greater
    <3> QED
      BY <3>1, <3>2
  <2>4. left' = [h \in Hs |-> left'[h]] /\ since' = [h \in Hs |-> since'[h]]
    BY <2>1
  <2>5. left' \in [Hs -> Nat] /\ since' \in [Hs -> Nat]
    BY <2>3, <2>4
  <2>6. UNCHANGED <<timers, pc>>
    BY <1>2 DEF RunHandler
  <2> QED
    BY <2>3, <2>5, <2>6 DEF ClockInv, Hs
<1>3. CASE Wake \/ Spin
  <2>1. PICK d \in Nat : Elapse(d)
    BY <1>3, SleepForType DEF Wake, Spin
  <2>2. UNCHANGED timers /\ pc' = "pass" /\ timers # <<>>
    BY <1>3 DEF Wake, Spin, ClockInv
  <2> QED
    BY <2>1, <2>2, ElapseKeeps DEF ClockInv, Hs
<1>4. CASE UNCHANGED vars
  BY <1>4 DEF vars, ClockInv, Hs
<1> QED
  BY <1>1, <1>2, <1>3, <1>4 DEF Next, Thread

LEMMA ClockInit == Init => ClockInv
<1> SUFFICES ASSUME Init PROVE ClockInv
  OBVIOUS
<1>1. timers \in Seq(TimerHandlers)
  BY DiscoveredType DEF Init
<1>2. \A h \in DOMAIN timers : timers[h].interval \in Nat \ {0}
  <2>1. \A h \in DOMAIN timers : timers[h] \in TimerHandlers
    BY <1>1
  <2> QED
    BY <2>1 DEF TimerHandlers
<1>3. \A h \in DOMAIN timers : Greater(timers[h].interval, 1) = timers[h].interval
  BY <1>2 DEF Greater
<1> QED
  BY <1>1, <1>2, <1>3 DEF Init, ClockInv, Hs

(***************************************************************************)
(* Runs of a handler never pile up: a whole interval, of at least one unit, *)
(* has gone by when it is due again.                                        *)
(***************************************************************************)
THEOREM RunsDoNotPileUp == Spec => []NoBursts
<1>1. ClockInv => NoBursts
  BY HandlerClocks DEF NoBursts
<1> QED
  BY <1>1, ClockInit, ClockStep, PTL DEF Spec

-----------------------------------------------------------------------------
(***************************************************************************)
(* The inductive invariant behind FairTurns.  A handler that is not due has *)
(* not waited for anyone.  In a pass, another can have run once in this     *)
(* pass (if the scan is past it), and once in the pass before, if the one   *)
(* that waits is still to be run in this one.                               *)
(***************************************************************************)
ToCome(g) == IF g \in due /\ g >= cur THEN 1 ELSE 0
Past(h) == IF h < cur THEN 1 ELSE 0

TurnInv ==
    /\ turns \in [Hs -> [Hs -> Nat]]
    /\ cur \in Nat
    /\ \A g, h \in Hs :
         /\ left[g] > 0 => turns[g][h] = 0
         /\ pc # "scan" => turns[g][h] <= 1
         /\ pc = "scan" => turns[g][h] <= ToCome(g) + Past(h)

(* The handlers are numbered. *)
LEMMA HandlersNumbered ==
    ASSUME ClockInv
    PROVE  Hs = 1..Len(timers) /\ Len(timers) \in Nat
BY DEF ClockInv, Hs

(* A run of the current handler counts for those that are due. *)
LEMMA RunTurns ==
    ASSUME ClockInv, TurnInv, RunHandler, NEW g \in Hs, NEW h \in Hs
    PROVE  /\ turns'[g][h] \in Nat
           /\ left'[g] > 0 => turns'[g][h] = 0
           /\ turns'[g][h] <= ToCome(g)' + Past(h)'
<1>1. /\ pc = "scan" /\ cur \in due /\ cur' = cur + 1 /\ UNCHANGED <<timers, due>>
      /\ turns'[g][h] = IF g = cur \/ left'[g] > 0 THEN 0
                        ELSE IF h = cur /\ left[g] = 0 /\ turns[g][h] < 3 THEN turns[g][h] + 1
                        ELSE turns[g][h]
  BY DEF RunHandler, AfterRun
<1>2. /\ turns[g][h] \in Nat /\ cur \in Nat /\ left[g] \in Nat
      /\ turns[g][h] <= ToCome(g) + Past(h)
      /\ left[g] > 0 => turns[g][h] = 0
  BY <1>1 DEF TurnInv, ClockInv
<1>3. g \in Nat /\ h \in Nat
  BY HandlersNumbered
<1>4. CASE g = cur \/ left'[g] > 0
  BY <1>1, <1>3, <1>4 DEF ToCome, Past
<1>5. CASE ~(g = cur \/ left'[g] > 0)
  <2>1. ToCome(g)' = ToCome(g)
    BY <1>1, <1>2, <1>3, <1>5 DEF ToCome
  <2>2. CASE h = cur
    BY <1>1, <1>2, <1>3, <1>5, <2>1, <2>2 DEF Past, ToCome
  <2>3. CASE h # cur
    BY <1>1, <1>2, <1>3, <1>5, <2>1, <2>3 DEF Past, ToCome
  <2> QED
    BY <2>2, <2>3
<1> QED
  BY <1>4, <1>5

(* Every step keeps it. *)
LEMMA TurnStep == ClockInv /\ TurnInv /\ [Next]_vars => TurnInv'
<1> SUFFICES ASSUME ClockInv, TurnInv, [Next]_vars PROVE TurnInv'
  OBVIOUS
<1>0. /\ Hs = 1..Len(timers) /\ Len(timers) \in Nat /\ cur \in Nat
      /\ \A g, h \in Hs : turns[g][h] \in Nat /\ left[g] \in Nat
  BY HandlersNumbered DEF TurnInv, ClockInv
<1>1. CASE BeginPass
  <2>1. /\ cur' = 1 /\ pc' = "scan" /\ due' = {h \in Hs : left[h] = 0} /\ pc = "pass"
        /\ UNCHANGED <<timers, turns, left>>
    BY <1>1 DEF BeginPass
  <2>2. ASSUME NEW g \in Hs, NEW h \in Hs PROVE turns[g][h] <= ToCome(g)' + Past(h)'
    BY <1>0, <2>1 DEF ToCome, Past, TurnInv
  <2> QED
    BY <2>1, <2>2 DEF TurnInv, Hs
<1>2. CASE Skip
  <2>1. /\ cur \notin due /\ cur' = cur + 1 /\ pc = "scan" /\ UNCHANGED <<timers, turns, left, due, pc>>
    BY <1>2 DEF Skip
  <2>2. ASSUME NEW g \in Hs, NEW h \in Hs PROVE turns[g][h] <= ToCome(g)' + Past(h)'
    <3>1. turns[g][h] <= ToCome(g) + Past(h)
      BY <2>1 DEF TurnInv
    <3> QED
      BY <1>0, <2>1, <3>1 DEF ToCome, Past
  <2> QED
    BY <1>0, <2>1, <2>2 DEF TurnInv, Hs
<1>3. CASE RunHandler
  <2>1. /\ cur' = cur + 1 /\ pc' = "scan" /\ UNCHANGED timers
        /\ turns' = [g \in Hs |-> [h \in Hs |-> turns'[g][h]]]
    BY <1>3 DEF RunHandler, AfterRun
  <2>2. turns' \in [Hs -> [Hs -> Nat]]
    BY <1>3, <2>1, RunTurns
  <2> QED
    BY <1>0, <1>3, <2>1, <2>2, RunTurns DEF TurnInv, Hs
<1>4. CASE EndPass
  <2>1. /\ cur > Len(timers) /\ pc = "scan" /\ pc' = "sleep" /\ UNCHANGED <<timers, turns, left, cur>>
    BY <1>4 DEF EndPass
  <2>2. ASSUME NEW g \in Hs, NEW h \in Hs PROVE turns[g][h] <= 1
    <3>1. turns[g][h] <= ToCome(g) + Past(h)
      BY <2>1 DEF TurnInv
    <3> QED
      BY <1>0, <2>1, <3>1 DEF ToCome, Past
  <2> QED
    BY <2>1, <2>2 DEF TurnInv, Hs
<1>5. CASE Stopped
  BY <1>5 DEF Stopped, TurnInv, Hs
<1>6. CASE Stop
  BY <1>6 DEF Stop, TurnInv, Hs, ToCome, Past
<1>7. CASE Wake \/ Spin
  <2>1. PICK d \in Nat : Elapse(d)
    BY <1>7, SleepForType DEF Wake, Spin
  <2>2. pc = "sleep" /\ pc' = "pass" /\ UNCHANGED <<timers, turns, cur>>
    BY <1>7 DEF Wake, Spin
  <2>3. ASSUME NEW g \in Hs PROVE left'[g] > 0 => left[g] > 0
    BY <1>0, <2>1 DEF Elapse, Less, Greater
  <2> QED
    BY <2>2, <2>3 DEF TurnInv, Hs
<1>8. CASE UNCHANGED vars
  BY <1>8 DEF vars, TurnInv, Hs, ToCome, Past
<1> QED
  BY <1>1, <1>2, <1>3, <1>4, <1>5, <1>6, <1>7, <1>8 DEF Next, Thread

(***************************************************************************)
(* While a handler is due no other runs more than twice, however long the   *)
(* runs take and however many handlers are due all the time.                *)
(***************************************************************************)
THEOREM TurnsAreFair == Spec => []FairTurns
<1>1. Init => TurnInv
  BY DEF Init, TurnInv, Hs
<1>2. TurnInv => FairTurns
  <2> SUFFICES ASSUME TurnInv, NEW g \in Hs, NEW h \in Hs PROVE turns[g][h] <= 2
    BY DEF FairTurns
  <2>1. turns[g][h] \in Nat /\ (turns[g][h] <= 1 \/ turns[g][h] <= ToCome(g) + Past(h))
    BY DEF TurnInv
  <2> QED
    BY <2>1 DEF ToCome, Past
<1> QED
  BY <1>1, <1>2, ClockInit, ClockStep, TurnStep, PTL DEF Spec

-----------------------------------------------------------------------------
(***************************************************************************)
(* The variables of the scheduler always have their types: the scan stays   *)
(* within the handlers and no clock runs past its interval.                 *)
(***************************************************************************)
THEOREM TypeCorrect == Spec => []TypeOK
<1> DEFINE ScanInv == /\ cur \in 1..(Len(timers) + 1) /\ due \subseteq Hs /\ lastRun \subseteq Hs
                      /\ msg \in {"none", "stop", "dropped"}
<1>1. Init => ScanInv
  <2> SUFFICES ASSUME Init PROVE ScanInv
    OBVIOUS
  <2>1. Len(timers) \in Nat
    BY ClockInit, HandlersNumbered
  <2> QED
    BY <2>1 DEF Init
<1>2. ClockInv /\ ScanInv /\ [Next]_vars => ScanInv'
  <2> SUFFICES ASSUME ClockInv, ScanInv, [Next]_vars PROVE ScanInv'
    OBVIOUS
  <2>1. Hs = 1..Len(timers) /\ Len(timers) \in Nat
    BY HandlersNumbered
  <2>2. CASE BeginPass \/ Skip \/ RunHandler
    BY <2>1, <2>2 DEF BeginPass, Skip, RunHandler, AfterRun, Hs
  <2>3. CASE EndPass \/ Stopped \/ Wake \/ Spin \/ Stop
    BY <2>3 DEF EndPass, Stopped, Wake, Spin, Stop, Hs
  <2>4. CASE UNCHANGED vars
    BY <2>4 DEF vars, Hs
  <2> QED
    BY <2>2, <2>3, <2>4 DEF Next, Thread
<1>3. ClockInv /\ ScanInv => TypeOK
  <2> SUFFICES ASSUME ClockInv, ScanInv PROVE TypeOK
    OBVIOUS
  <2>1. ASSUME NEW h \in Hs
        PROVE  /\ timers[h].interval \in Nat /\ left[h] \in 0..Greater(timers[h].interval, 1)
               /\ since[h] \in 0..timers[h].interval
    BY HandlerClocks DEF Greater
  <2> QED
    BY <2>1 DEF ClockInv, TypeOK
<1> QED
  BY <1>1, <1>2, <1>3, ClockInit, ClockStep, PTL DEF Spec

-----------------------------------------------------------------------------
(***************************************************************************)
(* Post-ingress hooks.  The offers of packs that can be read have numbers   *)
(* to be ordered by, and no two of a registry have the same.                *)
(***************************************************************************)
AllOffers == UNION {Offers(f) : f \in Refs}

LEMMA OfferType ==
    ASSUME NEW f \in Refs, NEW o \in Offers(f)
    PROVE  /\ o.priority \in Int /\ o.pack = f /\ o.pack \in Nat /\ o.id \in Int
           /\ \E k \in Candidates(f) : o = OfferOf(f, Manifest[f].offers[k])
<1>1. PICK k \in Candidates(f) : o = OfferOf(f, Manifest[f].offers[k])
  BY DEF Offers
<1>2. Manifest[f].offers[k] \in RawOffer
  <2> DEFINE offers == Manifest[f].offers
  <2>1. offers \in Seq(RawOffer)
    BY PostIngressAssumption
  <2>2. k \in DOMAIN offers
    BY DEF Candidates
  <2> HIDE DEF offers
  <2>3. offers[k] \in RawOffer
    BY <2>1, <2>2
  <2> QED
    BY <2>3 DEF offers
<1>3. /\ Manifest[f].offers[k].id \in Int
      /\ (IF Manifest[f].offers[k].priority = NoCode THEN DefaultPriority ELSE Manifest[f].offers[k].priority) \in Int
  BY <1>2 DEF RawOffer, NoCode, DefaultPriority
<1>4. f \in Nat
  BY PostIngressAssumption
<1> QED
  BY <1>1, <1>3, <1>4 DEF OfferOf

LEMMA AllOffersType ==
    ASSUME NEW o \in AllOffers
    PROVE  o.priority \in Int /\ o.pack \in Nat /\ o.id \in Int
BY OfferType DEF AllOffers

(* Whatever is before an offer is before all that the offer is before. *)
LEMMA BeforeOrders ==
    ASSUME NEW a \in AllOffers, NEW b \in AllOffers, NEW c \in AllOffers
    PROVE  /\ ~Before(a, a)
           /\ Before(a, b) /\ Before(b, c) => Before(a, c)
           /\ (a.pack # b.pack \/ a.id # b.id) => Before(a, b) \/ Before(b, a)
BY AllOffersType DEF Before

GoodRegistry(reg) == \E fs \in SUBSET Refs : (\A f \in fs : PackOk(f)) /\ reg = Registry(fs)

LEMMA RegistryFinite ==
    ASSUME NEW fs \in SUBSET Refs
    PROVE  IsFiniteSet(Registry(fs)) /\ Registry(fs) \subseteq AllOffers
<1>1. IsFiniteSet(fs)
  BY PostIngressAssumption, FS_Subset
<1>2. ASSUME NEW f \in fs PROVE IsFiniteSet(Offers(f))
  <2>1. Manifest[f].offers \in Seq(RawOffer)
    BY PostIngressAssumption
  <2>2. Len(Manifest[f].offers) \in Nat /\ Candidates(f) \subseteq 1..Len(Manifest[f].offers)
    BY <2>1 DEF Candidates
  <2>a. IsFiniteSet(1..Len(Manifest[f].offers))
    BY <2>2, FS_Interval
  <2>3. IsFiniteSet(Candidates(f))
    BY <2>2, <2>a, FS_Subset
  <2> DEFINE g == [k \in Candidates(f) |-> OfferOf(f, Manifest[f].offers[k])]
  <2>4. g \in Surjection(Candidates(f), Offers(f))
    <3>1. g \in [Candidates(f) -> Offers(f)]
      BY DEF Offers
    <3>2. \A t \in Offers(f) : \E k \in Candidates(f) : g[k] = t
      BY DEF Offers
    <3> QED
      BY <3>1, <3>2 DEF Surjection
  <2> QED
    BY <2>3, <2>4, FS_Surjection
<1> DEFINE g == [f \in fs |-> Offers(f)]
           U == {Offers(f) : f \in fs}
<1>3. g \in Surjection(fs, U)
  <2>1. g \in [fs -> U]
    OBVIOUS
  <2>2. \A t \in U : \E f \in fs : g[f] = t
    OBVIOUS
  <2> QED
    BY <2>1, <2>2 DEF Surjection
<1>4. IsFiniteSet(U)
  BY <1>1, <1>3, FS_Surjection
<1>5. \A T \in U : IsFiniteSet(T)
  BY <1>2
<1>6. IsFiniteSet(Registry(fs))
  <2> HIDE DEF U
  <2>1. IsFiniteSet(UNION U)
    BY <1>4, <1>5, FS_UNION
  <2> QED
    BY <2>1 DEF U, Registry
<1> QED
  BY <1>6 DEF Registry, AllOffers

LEMMA RegistryDistinct ==
    ASSUME NEW fs \in SUBSET Refs, \A f \in fs : PackOk(f),
           NEW a \in Registry(fs), NEW b \in Registry(fs), a.pack = b.pack, a.id = b.id
    PROVE  a = b
<1>1. PICK f \in fs : a \in Offers(f)
  BY DEF Registry
<1>2. PICK g \in fs : b \in Offers(g)
  BY DEF Registry
<1>3. a.pack = f /\ b.pack = g
  BY <1>1, <1>2, OfferType
<1>4. f = g
  BY <1>3
<1>5. PICK j \in Candidates(f) : a = OfferOf(f, Manifest[f].offers[j])
  BY <1>1, OfferType
<1>6. PICK k \in Candidates(f) : b = OfferOf(f, Manifest[f].offers[k])
  BY <1>2, <1>4, OfferType
<1>7. Manifest[f].offers[j].id = Manifest[f].offers[k].id
  BY <1>5, <1>6 DEF OfferOf
<1>8. j = k
  BY <1>7 DEF PackOk
<1> QED
  BY <1>5, <1>6, <1>8

Ascending(s) == \A j, k \in 1..Len(s) : j < k => Before(s[j], s[k])

(* select_hooks sorts. *)
LEMMA HooksSorted ==
    ASSUME NEW reg, GoodRegistry(reg)
    PROVE  select_hooks(reg) \in Seq(AllOffers) /\ Ascending(select_hooks(reg))
<1>1. PICK fs \in SUBSET Refs : (\A f \in fs : PackOk(f)) /\ reg = Registry(fs)
  BY DEF GoodRegistry
<1> DEFINE S == Hooks(reg)
           A == [x \in S |-> {y \in S : Before(y, x)}]
           s == select_hooks(reg)
<1>2. IsFiniteSet(S) /\ S \subseteq AllOffers /\ S \subseteq reg
  BY <1>1, RegistryFinite, FS_Subset DEF Hooks
<1>3. ASSUME NEW x \in S, NEW y \in S, x # y PROVE x.pack # y.pack \/ x.id # y.id
  BY <1>1, <1>2, <1>3, RegistryDistinct
<1>4. /\ s = [n \in 1..Cardinality(S) |-> s[n]]
      /\ \A n \in 1..Cardinality(S) :
           (\E x \in S : Cardinality(A[x]) = n - 1) => s[n] \in S /\ Cardinality(A[s[n]]) = n - 1
  <2>1. \A x \in S : A[x] = {y \in S : Before(y, x)}
    OBVIOUS
  <2>2. s = [n \in 1..Cardinality(S) |-> CHOOSE x \in S : Cardinality({y \in S : Before(y, x)}) = n - 1]
    BY Zenon DEF select_hooks, Sorted
  <2> HIDE DEF S, A, s
  <2>3. ASSUME NEW n \in 1..Cardinality(S), NEW x \in S, Cardinality(A[x]) = n - 1
        PROVE  s[n] \in S /\ Cardinality(A[s[n]]) = n - 1
    <3>1. Cardinality({y \in S : Before(y, x)}) = n - 1
      BY <2>1, <2>3
    <3>2. s[n] = CHOOSE z \in S : Cardinality({y \in S : Before(y, z)}) = n - 1
      BY <2>2
    <3>3. s[n] \in S /\ Cardinality({y \in S : Before(y, s[n])}) = n - 1
      BY <3>1, <3>2, Zenon
    <3> QED
      BY <2>1, <3>3
  <2> DEFINE E(n) == CHOOSE x \in S : Cardinality({y \in S : Before(y, x)}) = n - 1
  <2>4. s = [n \in 1..Cardinality(S) |-> E(n)]
    BY <2>2
  <2> HIDE DEF E
  <2>5. s = [n \in 1..Cardinality(S) |-> s[n]]
    BY <2>4
  <2> QED
    BY <2>3, <2>5
<1>5. A \in [S -> SUBSET S] /\ \A x, y \in S : y \in A[x] <=> Before(y, x)
  OBVIOUS
<1> HIDE DEF S, A, s
<1>6. \A x \in S : x \notin A[x]
  BY <1>2, <1>5, BeforeOrders
<1>7. ASSUME NEW x \in S, NEW y \in S, Before(y, x) PROVE y \in A[x] /\ A[y] \subseteq A[x]
  <2>1. ASSUME NEW z \in A[y] PROVE z \in A[x]
    <3>1. z \in S /\ Before(z, y)
      BY <1>5, <2>1
    <3>2. Before(z, x)
      BY <1>2, <1>7, <3>1, BeforeOrders
    <3> QED
      BY <1>5, <3>1, <3>2
  <2> QED
    BY <1>5, <1>7, <2>1
<1>8. \A x, y \in S : x # y => (y \in A[x] /\ A[y] \subseteq A[x]) \/ (x \in A[y] /\ A[x] \subseteq A[y])
  <2>1. ASSUME NEW x \in S, NEW y \in S, x # y PROVE Before(x, y) \/ Before(y, x)
    BY <1>2, <1>3, <2>1, BeforeOrders
  <2> QED
    BY <1>7, <2>1
<1>9. s \in Seq(S) /\ \A j, k \in 1..Len(s) : j < k => s[j] \in A[s[k]]
  BY <1>2, <1>4, <1>5, <1>6, <1>8, SortedAscends
<1>10. s \in Seq(AllOffers)
  BY <1>2, <1>9
<1>11. \A k \in 1..Len(s) : s[k] \in S
  BY <1>9
<1> QED
  BY <1>5, <1>9, <1>10, <1>11 DEF Ascending, s

(* Asking the first of the hooks that are left keeps everything in order. *)
LEMMA AskingAscends ==
    ASSUME NEW asked \in Seq(AllOffers), NEW todo \in Seq(AllOffers), todo # <<>>,
           Ascending(asked), Ascending(todo),
           \A j \in 1..Len(asked), k \in 1..Len(todo) : Before(asked[j], todo[k])
    PROVE  /\ Append(asked, Head(todo)) \in Seq(AllOffers) /\ Tail(todo) \in Seq(AllOffers)
           /\ Append(asked, Head(todo))[Len(Append(asked, Head(todo)))] = Head(todo)
           /\ Ascending(Append(asked, Head(todo))) /\ Ascending(Tail(todo))
           /\ \A j \in 1..Len(Append(asked, Head(todo))), k \in 1..Len(Tail(todo)) :
                Before(Append(asked, Head(todo))[j], Tail(todo)[k])
<1> DEFINE a == Append(asked, Head(todo))
           t == Tail(todo)
           n == Len(asked)
<1>1. Len(todo) \in Nat /\ Len(todo) >= 1 /\ Head(todo) = todo[1] /\ Head(todo) \in AllOffers /\ n \in Nat
  OBVIOUS
<1>2. t \in Seq(AllOffers) /\ Len(t) = Len(todo) - 1 /\ \A k \in 1..Len(t) : t[k] = todo[k + 1]
  OBVIOUS
<1>3. a \in Seq(AllOffers) /\ Len(a) = n + 1 /\ a[n + 1] = todo[1] /\ \A j \in 1..n : a[j] = asked[j]
  BY <1>1
<1> HIDE DEF a, t
<1>4. ASSUME NEW j \in 1..Len(a), NEW k \in 1..Len(a), j < k PROVE Before(a[j], a[k])
  <2>1. j \in 1..n /\ a[j] = asked[j]
    BY <1>1, <1>3, <1>4
  <2>2. CASE k = n + 1
    BY <1>1, <1>3, <2>1, <2>2
  <2>3. CASE k # n + 1
    <3>1. k \in 1..n /\ a[k] = asked[k]
      BY <1>1, <1>3, <2>3
    <3> QED
      BY <1>4, <2>1, <3>1 DEF Ascending
  <2> QED
    BY <2>2, <2>3
<1>5. ASSUME NEW j \in 1..Len(t), NEW k \in 1..Len(t), j < k PROVE Before(t[j], t[k])
  <2>1. j + 1 \in 1..Len(todo) /\ k + 1 \in 1..Len(todo) /\ j + 1 < k + 1
    BY <1>1, <1>2, <1>5
  <2> QED
    BY <1>2, <2>1 DEF Ascending
<1>6. ASSUME NEW j \in 1..Len(a), NEW k \in 1..Len(t) PROVE Before(a[j], t[k])
  <2>1. k + 1 \in 1..Len(todo) /\ 1 \in 1..Len(todo) /\ 1 < k + 1 /\ t[k] = todo[k + 1]
    BY <1>1, <1>2
  <2>2. CASE j = n + 1
    BY <1>3, <2>1, <2>2 DEF Ascending
  <2>3. CASE j # n + 1
    <3>1. j \in 1..n /\ a[j] = asked[j]
      BY <1>1, <1>3, <2>3
    <3> QED
      BY <2>1, <3>1
  <2> QED
    BY <2>2, <2>3
<1>7. Ascending(a) /\ Ascending(t)
  BY <1>4, <1>5 DEF Ascending
<1>8. a[Len(a)] = Head(todo)
  BY <1>1, <1>3
<1> QED
  BY <1>2, <1>3, <1>6, <1>7, <1>8 DEF a, t

(***************************************************************************)
(* By the step a request is at: what it has asked is in order and before    *)
(* what it has to ask, and nothing was applied while it is still asking.    *)
(***************************************************************************)
Places == {"idle", "discover", "load", "hooks", "route", "done"}

PostTypes ==
    /\ cast \in Casts /\ disk \in SUBSET Refs /\ refs \in [Reqs -> SUBSET Refs]
    /\ step \in [Reqs -> Places]
    /\ hooks \in [Reqs -> Seq(AllOffers)] /\ invoked \in [Reqs -> Seq(AllOffers)]
    /\ applied \in [Reqs -> Seq(AllOffers)]
    /\ cache = <<>> \/ (\E reg : GoodRegistry(reg) /\ cache = <<reg>>)

AskedInv(r) ==
    /\ Ascending(invoked[r]) /\ Ascending(hooks[r])
    /\ step[r] = "hooks" =>
         \A j \in 1..Len(invoked[r]), k \in 1..Len(hooks[r]) : Before(invoked[r][j], hooks[r][k])
    /\ step[r] \in {"idle", "discover", "load"} => invoked[r] = <<>>
    /\ step[r] \in {"idle", "discover", "load", "hooks"} => applied[r] = <<>>
    /\ applied[r] # <<>> => applied[r] = <<invoked[r][Len(invoked[r])]>>

PostInv == PostTypes /\ \A r \in Reqs : AskedInv(r)

LEMMA AskedKept ==
    ASSUME PostInv, PostTypes', NEW r \in Reqs, AskedInv(r)',
           \A q \in Reqs \ {r} : /\ step'[q] = step[q] /\ hooks'[q] = hooks[q]
                                 /\ invoked'[q] = invoked[q] /\ applied'[q] = applied[q]
    PROVE  PostInv'
<1>1. ASSUME NEW q \in Reqs, q # r PROVE AskedInv(q)'
  BY <1>1 DEF PostInv, AskedInv, Ascending
<1> QED
  BY <1>1 DEF PostInv

LEMMA IngestAsks ==
    ASSUME PostInv, NEW r \in Reqs, Ingest(r), UNCHANGED cast
    PROVE  PostInv'
<1>1. /\ step[r] = "idle" /\ UNCHANGED <<disk, cache, refs, hooks, invoked, applied>>
      /\ \E l \in Places \ {"hooks"} : step' = [step EXCEPT ![r] = l]
  BY DEF Ingest, Goto, Places
<1>2. PICK l \in Places \ {"hooks"} : step' = [step EXCEPT ![r] = l]
  BY <1>1
<1>3. PostTypes'
  BY <1>1, <1>2 DEF PostInv, PostTypes, Places
<1>4. step'[r] = l /\ \A q \in Reqs \ {r} : step'[q] = step[q]
  BY <1>2 DEF PostInv, PostTypes
<1>5. AskedInv(r)'
  BY <1>1, <1>4 DEF PostInv, AskedInv, Ascending
<1> QED
  BY <1>1, <1>3, <1>4, <1>5, AskedKept

LEMMA HandleAsks ==
    ASSUME PostInv, NEW r \in Reqs, Handle(r), UNCHANGED cast
    PROVE  PostInv'
<1> USE DEF Goto
<1>0. PostTypes /\ AskedInv(r) /\ \A l : step[r] = l => l \in Places
  BY DEF PostInv, PostTypes
<1>1. CASE Discover(r)
  <2>1. /\ step[r] = "discover" /\ UNCHANGED <<disk, cache, hooks, invoked, applied>>
        /\ refs' = [refs EXCEPT ![r] = disk]
        /\ step' = [step EXCEPT ![r] = IF disk = {} THEN "route" ELSE "load"]
    BY <1>1 DEF Discover
  <2>2. PostTypes'
    BY <1>0, <2>1 DEF PostTypes, Places
  <2>3. step'[r] \in {"route", "load"} /\ \A q \in Reqs \ {r} : step'[q] = step[q]
    BY <1>0, <2>1 DEF PostTypes
  <2>4. AskedInv(r)'
    BY <1>0, <2>1, <2>3 DEF AskedInv, Ascending
  <2> QED
    BY <2>1, <2>2, <2>3, <2>4, AskedKept
<1>2. CASE Load(r)
  <2>1. /\ step[r] = "load" /\ UNCHANGED <<disk, refs, invoked, applied>>
        /\ hooks' = [hooks EXCEPT ![r] = select_hooks(cache'[1])]
        /\ step' = [step EXCEPT ![r] = "hooks"]
    BY <1>2 DEF Load
  <2>2. \E reg : GoodRegistry(reg) /\ cache' = <<reg>>
    <3>1. CASE Cached /\ UNCHANGED cache
      BY <1>0, <3>1 DEF PostTypes, Cached
    <3>2. CASE (\A f \in refs[r] : PackOk(f)) /\ cache' = <<Registry(refs[r])>>
      <4>1. refs[r] \in SUBSET Refs
        BY <1>0 DEF PostTypes
      <4>2. GoodRegistry(Registry(refs[r]))
        BY <3>2, <4>1 DEF GoodRegistry
      <4> QED
        BY <3>2, <4>2
    <3> QED
      BY <1>2, <3>1, <3>2 DEF Load
  <2>3. PICK reg : GoodRegistry(reg) /\ cache' = <<reg>>
    BY <2>2
  <2>4. cache'[1] = reg
    BY <2>3
  <2>5. select_hooks(reg) \in Seq(AllOffers) /\ Ascending(select_hooks(reg))
    BY <2>3, HooksSorted
  <2>6. hooks'[r] = select_hooks(reg) /\ hooks' \in [Reqs -> Seq(AllOffers)] /\ \A q \in Reqs \ {r} : hooks'[q] = hooks[q]
    BY <1>0, <2>1, <2>4, <2>5 DEF PostTypes
  <2>7. PostTypes'
    <3>1. step' \in [Reqs -> Places]
      BY <1>0, <2>1 DEF PostTypes, Places
    <3> QED
      BY <1>0, <2>1, <2>2, <2>6, <3>1 DEF PostTypes
  <2>8. step'[r] = "hooks" /\ \A q \in Reqs \ {r} : step'[q] = step[q]
    BY <1>0, <2>1 DEF PostTypes
  <2>9. AskedInv(r)'
    <3>1. invoked'[r] = <<>> /\ applied'[r] = <<>>
      BY <1>0, <2>1 DEF AskedInv
    <3>2. Ascending(hooks'[r])
      BY <2>5, <2>6
    <3> QED
      BY <2>8, <3>1, <3>2 DEF AskedInv, Ascending
  <2> QED
    BY <2>1, <2>6, <2>7, <2>8, <2>9, AskedKept
<1>3. CASE LoadFails(r) \/ HooksDone(r) \/ RouteEvents(r) \/ RouteMessages(r) \/ RouteCli(r)
  <2>1. /\ UNCHANGED <<disk, cache, refs, hooks, invoked, applied>>
        /\ \E l \in {"route", "done"} : step' = [step EXCEPT ![r] = l]
    BY <1>3 DEF LoadFails, HooksDone, RouteEvents, RouteMessages, RouteCli
  <2>2. PostTypes'
    BY <1>0, <2>1 DEF PostTypes, Places
  <2>3. step'[r] \in {"route", "done"} /\ \A q \in Reqs \ {r} : step'[q] = step[q]
    BY <1>0, <2>1 DEF PostTypes
  <2>4. AskedInv(r)'
    BY <1>0, <2>1, <2>3 DEF AskedInv, Ascending
  <2> QED
    BY <2>1, <2>2, <2>3, <2>4, AskedKept
<1>4. ASSUME Invoke(r)
      PROVE  /\ step[r] = "hooks" /\ UNCHANGED <<disk, cache, refs>>
             /\ hooks[r] # <<>> /\ hooks[r] \in Seq(AllOffers) /\ Head(hooks[r]) \in AllOffers
             /\ invoked' \in [Reqs -> Seq(AllOffers)] /\ invoked'[r] = Append(invoked[r], Head(hooks[r]))
             /\ invoked'[r][Len(invoked'[r])] = Head(hooks[r])
             /\ \A q \in Reqs \ {r} : invoked'[q] = invoked[q]
             /\ Ascending(invoked'[r]) /\ Tail(hooks[r]) \in Seq(AllOffers) /\ Ascending(Tail(hooks[r]))
             /\ \A j \in 1..Len(invoked'[r]), k \in 1..Len(Tail(hooks[r])) : Before(invoked'[r][j], Tail(hooks[r])[k])
  <2>1. /\ step[r] = "hooks" /\ hooks[r] # <<>> /\ UNCHANGED <<disk, cache, refs>>
        /\ invoked' = [invoked EXCEPT ![r] = Append(invoked[r], Head(hooks[r]))]
    BY <1>4 DEF Invoke
  <2>2. hooks[r] \in Seq(AllOffers) /\ invoked[r] \in Seq(AllOffers) /\ Head(hooks[r]) \in AllOffers
    BY <1>0, <2>1 DEF PostTypes
  <2>3. invoked'[r] = Append(invoked[r], Head(hooks[r])) /\ \A q \in Reqs \ {r} : invoked'[q] = invoked[q]
    BY <1>0, <2>1 DEF PostTypes
  <2>4. /\ Append(invoked[r], Head(hooks[r])) \in Seq(AllOffers) /\ Tail(hooks[r]) \in Seq(AllOffers)
        /\ Append(invoked[r], Head(hooks[r]))[Len(Append(invoked[r], Head(hooks[r])))] = Head(hooks[r])
        /\ Ascending(Append(invoked[r], Head(hooks[r]))) /\ Ascending(Tail(hooks[r]))
        /\ \A j \in 1..Len(Append(invoked[r], Head(hooks[r]))), k \in 1..Len(Tail(hooks[r])) :
             Before(Append(invoked[r], Head(hooks[r]))[j], Tail(hooks[r])[k])
    <3>1. /\ Ascending(invoked[r]) /\ Ascending(hooks[r])
          /\ \A j \in 1..Len(invoked[r]), k \in 1..Len(hooks[r]) : Before(invoked[r][j], hooks[r][k])
      BY <1>0, <2>1 DEF AskedInv
    <3> QED
      BY <2>1, <2>2, <3>1, AskingAscends
  <2>5. invoked' \in [Reqs -> Seq(AllOffers)]
    BY <1>0, <2>1, <2>4 DEF PostTypes
  <2> QED
    BY <2>1, <2>2, <2>3, <2>4, <2>5
<1>5. CASE HookCannotRun(r)
  <2>1. Invoke(r) /\ step' = [step EXCEPT ![r] = "done"] /\ UNCHANGED <<hooks, applied>>
    BY <1>5 DEF HookCannotRun
  <2>2. PostTypes'
    BY <1>0, <1>4, <2>1 DEF PostTypes, Places
  <2>3. step'[r] = "done" /\ \A q \in Reqs \ {r} : step'[q] = step[q]
    BY <1>0, <2>1 DEF PostTypes
  <2>4. AskedInv(r)'
    <3>1. applied'[r] = <<>> /\ Ascending(invoked'[r]) /\ Ascending(hooks'[r])
      BY <1>0, <1>4, <2>1 DEF AskedInv
    <3> QED
      BY <2>3, <3>1 DEF AskedInv, Ascending
  <2> QED
    BY <1>4, <2>1, <2>2, <2>3, <2>4, AskedKept
<1>6. CASE HookPasses(r) \/ DispatchFails(r)
  <2>1. Invoke(r) /\ hooks' = [hooks EXCEPT ![r] = Tail(hooks[r])] /\ UNCHANGED <<step, applied>>
    BY <1>6 DEF HookPasses, DispatchFails
  <2>2. hooks'[r] = Tail(hooks[r]) /\ hooks' \in [Reqs -> Seq(AllOffers)] /\ \A q \in Reqs \ {r} : hooks'[q] = hooks[q]
    BY <1>0, <1>4, <2>1 DEF PostTypes
  <2>3. PostTypes'
    BY <1>0, <1>4, <2>1, <2>2 DEF PostTypes
  <2>4. AskedInv(r)'
    <3>1. /\ step'[r] = "hooks" /\ applied'[r] = <<>> /\ Ascending(invoked'[r]) /\ Ascending(hooks'[r])
          /\ \A j \in 1..Len(invoked'[r]), k \in 1..Len(hooks'[r]) : Before(invoked'[r][j], hooks'[r][k])
      BY <1>0, <1>4, <2>1, <2>2 DEF AskedInv
    <3> QED
      BY <3>1 DEF AskedInv, Ascending
  <2> QED
    BY <1>4, <2>1, <2>2, <2>3, <2>4, AskedKept
<1>7. CASE Reply(r) \/ Dispatch(r)
  <2>1. /\ Invoke(r) /\ hooks' = [hooks EXCEPT ![r] = Tail(hooks[r])]
        /\ applied' = [applied EXCEPT ![r] = Append(applied[r], Head(hooks[r]))]
        /\ step' = [step EXCEPT ![r] = "route"]
    BY <1>7 DEF Reply, Dispatch, Apply, AfterApplied
  <2>2. hooks'[r] = Tail(hooks[r]) /\ hooks' \in [Reqs -> Seq(AllOffers)] /\ \A q \in Reqs \ {r} : hooks'[q] = hooks[q]
    BY <1>0, <1>4, <2>1 DEF PostTypes
  <2>3. applied[r] = <<>>
    BY <1>0, <1>4, <2>1 DEF AskedInv
  <2>4. Append(applied[r], Head(hooks[r])) = <<Head(hooks[r])>> /\ <<Head(hooks[r])>> \in Seq(AllOffers)
    BY <1>4, <2>1, <2>3
  <2>5. /\ applied'[r] = <<Head(hooks[r])>> /\ applied' \in [Reqs -> Seq(AllOffers)]
        /\ \A q \in Reqs \ {r} : applied'[q] = applied[q]
    BY <1>0, <2>1, <2>4 DEF PostTypes
  <2>6. step'[r] = "route" /\ step' \in [Reqs -> Places] /\ \A q \in Reqs \ {r} : step'[q] = step[q]
    BY <1>0, <2>1 DEF PostTypes, Places
  <2>7. PostTypes'
    BY <1>0, <1>4, <2>1, <2>2, <2>5, <2>6 DEF PostTypes
  <2>8. AskedInv(r)'
    <3>1. Ascending(invoked'[r]) /\ Ascending(hooks'[r]) /\ applied'[r] = <<invoked'[r][Len(invoked'[r])]>>
      BY <1>4, <2>1, <2>2, <2>5
    <3> QED
      BY <2>6, <3>1 DEF AskedInv, Ascending
  <2> QED
    BY <1>4, <2>1, <2>2, <2>5, <2>6, <2>7, <2>8, AskedKept
<1> QED
  BY <1>1, <1>2, <1>3, <1>5, <1>6, <1>7 DEF Handle

LEMMA PostKept ==
    ASSUME PostInv, UNCHANGED <<cast, cache, step, refs, hooks, invoked, applied>>, disk' \in SUBSET Refs
    PROVE  PostInv'
BY DEF PostInv, PostTypes, AskedInv, Ascending

LEMMA PostStart == HttpInit => PostInv
<1> SUFFICES ASSUME HttpInit PROVE PostInv
  OBVIOUS
<1>1. cast \in Casts /\ disk \in SUBSET cast.refs /\ cast.refs \subseteq Refs
  BY PostIngressAssumption DEF HttpInit, PostInit
<1>2. PostTypes
  BY <1>1 DEF HttpInit, PostInit, PostTypes, Places
<1>3. ASSUME NEW r \in Reqs PROVE AskedInv(r)
  BY DEF HttpInit, PostInit, AskedInv, Ascending
<1> QED
  BY <1>2, <1>3 DEF PostInv

LEMMA PostStep == PostInv /\ [HttpNext]_<<post_vars, http>> => PostInv'
<1> SUFFICES ASSUME PostInv, [HttpNext]_<<post_vars, http>> PROVE PostInv'
  OBVIOUS
<1>0. cast \in Casts /\ disk \in SUBSET Refs
  BY DEF PostInv, PostTypes
<1>1. CASE UNCHANGED post_vars
  BY <1>0, <1>1, PostKept DEF post_vars
<1>2. ASSUME NEW r \in Reqs, ToProvider(r) PROVE PostInv'
  BY <1>2, IngestAsks DEF ToProvider
<1>3. ASSUME NEW r \in Reqs, (Ingest(r) /\ post'[r].via = "cli") \/ Handle(r), UNCHANGED cast PROVE PostInv'
  BY <1>3, IngestAsks, HandleAsks
<1>4. ASSUME NEW f \in cast.refs, Install(f), UNCHANGED cast PROVE PostInv'
  <2>1. f \in Refs
    BY <1>0, PostIngressAssumption
  <2>2. disk' \in SUBSET Refs
    BY <1>0, <1>4, <2>1 DEF Install
  <2> QED
    BY <1>4, <2>2, PostKept DEF Install
<1>5. ASSUME NEW r \in Reqs, Receive(r) \/ HandleDeployments(r) \/ ServeFile(r) PROVE UNCHANGED post_vars
  BY <1>5 DEF Receive, HandleDeployments, ServeFile
<1>6. StartServer \/ StopServer => UNCHANGED post_vars
  BY DEF StartServer, StopServer
<1> QED
  BY <1>1, <1>2, <1>3, <1>4, <1>5, <1>6 DEF HttpNext

(***************************************************************************)
(* FirstDirectiveWins for any packs, offers, priorities and requests: the   *)
(* hooks a request asks are asked in the order of select_hooks, whichever   *)
(* request filled the cached registry, and the one whose directive was      *)
(* applied is the last.                                                     *)
(***************************************************************************)
THEOREM FirstDirectiveIsLast == HttpSpec => []FirstDirectiveWins
<1>1. PostInv => FirstDirectiveWins
  <2> SUFFICES ASSUME PostInv, NEW r \in Reqs
               PROVE  /\ \A j, k \in DOMAIN invoked[r] : j < k => Before(invoked[r][j], invoked[r][k])
                      /\ applied[r] # <<>> => applied[r] = <<invoked[r][Len(invoked[r])]>>
    BY DEF FirstDirectiveWins
  <2>1. invoked[r] \in Seq(AllOffers)
    BY DEF PostInv, PostTypes
  <2>2. DOMAIN invoked[r] = 1..Len(invoked[r])
    BY <2>1
  <2> QED
    BY <2>2 DEF PostInv, AskedInv, Ascending
<1> QED
  BY <1>1, PostStart, PostStep, PTL DEF HttpSpec

-----------------------------------------------------------------------------
(***************************************************************************)
(* The HTTP server.  A request that a mount was chosen for, or that ran a   *)
(* deployment operation, has been looked at and is not looked at again.     *)
(***************************************************************************)
Stages == {"idle", "files", "fallback", "deployments", "ingress", "done"}

Looked(r) ==
    /\ at[r] = "idle" => mount[r] = NoMount /\ r \notin deployed
    /\ at[r] # "idle" => request[r] \in Request
    /\ mount[r] # NoMount => ~IsOnboard(request[r].path) /\ ~IsDeployments(request[r].path)
    /\ r \in deployed => request[r].client = "local" /\ at[r] = "done"

HttpInv ==
    /\ at \in [Reqs -> Stages] /\ deployed \subseteq Reqs
    /\ DOMAIN request = Reqs /\ DOMAIN mount = Reqs
    /\ \A r \in Reqs : Looked(r)

LEMMA HttpDoneKeeps ==
    ASSUME HttpInv, NEW r \in Reqs, NEW a, HttpDone(r, a), at[r] # "idle", at[r] # "done",
           deployed' = deployed \/ (deployed' = deployed \cup {r} /\ request[r].client = "local")
    PROVE  HttpInv'
<1>1. /\ at' = [at EXCEPT ![r] = "done"] /\ request' = request /\ mount' = mount
  BY DEF HttpDone
<1>2. at' \in [Reqs -> Stages] /\ at'[r] = "done" /\ \A q \in Reqs \ {r} : at'[q] = at[q]
  BY <1>1 DEF HttpInv, Stages
<1>3. ASSUME NEW q \in Reqs PROVE Looked(q)'
  BY <1>1, <1>2 DEF HttpInv, Looked
<1> QED
  BY <1>1, <1>2, <1>3 DEF HttpInv

LEMMA HttpKept == ASSUME HttpInv, UNCHANGED <<at, request, mount, deployed>> PROVE HttpInv'
BY DEF HttpInv, Looked

LEMMA HttpStart == HttpInit => HttpInv
BY DEF HttpInit, HttpInv, Looked, Stages

LEMMA ReceiveKeeps ==
    ASSUME PostInv, HttpInv, NEW r \in Reqs, Receive(r)
    PROVE  HttpInv'
<1>1. PICK q \in cast.https[r] :
        LET a == Answerer(q) IN
        /\ request' = [request EXCEPT ![r] = q]
        /\ at' = [at EXCEPT ![r] = IF a \in {"files", "deployments", "ingress"} THEN a ELSE "done"]
        /\ answer' = [answer EXCEPT ![r] = a]
        /\ mount' = IF a = "files" THEN [mount EXCEPT ![r] = FirstMatch(Segments(q.path))] ELSE mount
  BY DEF Receive
<1>2. q \in Request
  BY <1>1, HttpAssumption DEF PostInv, PostTypes
<1>3. at[r] = "idle" /\ deployed' = deployed
  BY DEF Receive
<1>4. /\ request'[r] = q /\ DOMAIN request' = Reqs /\ \A s \in Reqs \ {r} : request'[s] = request[s]
      /\ at' \in [Reqs -> Stages] /\ at'[r] \in Stages \ {"idle"} /\ \A s \in Reqs \ {r} : at'[s] = at[s]
      /\ DOMAIN mount' = Reqs /\ \A s \in Reqs \ {r} : mount'[s] = mount[s]
  BY <1>1 DEF HttpInv, Stages
<1>5. ASSUME mount'[r] # NoMount PROVE ~IsOnboard(q.path) /\ ~IsDeployments(q.path)
  <2>1. mount[r] = NoMount
    BY <1>3 DEF HttpInv, Looked
  <2>2. Answerer(q) = "files"
    BY <1>1, <1>5, <2>1
  <2>3. q.method \in {"GET", "POST"}
    BY <1>2, <2>2 DEF Answerer, Request
  <2> QED
    BY <2>2, <2>3 DEF Answerer
<1>6. ASSUME NEW s \in Reqs PROVE Looked(s)'
  <2>1. CASE s = r
    BY <1>2, <1>3, <1>4, <1>5, <2>1 DEF HttpInv, Looked
  <2>2. CASE s # r
    BY <1>3, <1>4, <2>2 DEF HttpInv, Looked
  <2> QED
    BY <2>1, <2>2
<1> QED
  BY <1>3, <1>4, <1>6 DEF HttpInv

LEMMA HttpStep == PostInv /\ HttpInv /\ [HttpNext]_<<post_vars, http>> => HttpInv'
<1> SUFFICES ASSUME PostInv, HttpInv, [HttpNext]_<<post_vars, http>> PROVE HttpInv'
  OBVIOUS
<1>1. CASE UNCHANGED http
  BY <1>1, HttpKept DEF http
<1>2. CASE StartServer \/ StopServer
  BY <1>2, HttpKept DEF StartServer, StopServer
<1>3. ASSUME NEW r \in Reqs, Receive(r) PROVE HttpInv'
  BY <1>3, ReceiveKeeps
<1>4. ASSUME NEW r \in Reqs, HandleDeployments(r) PROVE HttpInv'
  <2>1. at[r] = "deployments"
    BY <1>4 DEF HandleDeployments
  <2>2. request[r] \in Request
    BY <2>1 DEF HttpInv, Looked
  <2>3. check_trust_boundary(request[r].client) => request[r].client = "local"
    BY <2>2 DEF check_trust_boundary, Loopback, Marked, ForeignOrigin, Request, Clients
  <2>4. /\ \E a : HttpDone(r, a)
        /\ deployed' = deployed \/ (deployed' = deployed \cup {r} /\ request[r].client = "local")
    BY <1>4, <2>3 DEF HandleDeployments
  <2> QED
    BY <2>1, <2>4, HttpDoneKeeps
<1>5. ASSUME NEW r \in Reqs, ServeFile(r) PROVE HttpInv'
  <2>1. at[r] \in {"files", "fallback"} /\ deployed' = deployed
    BY <1>5 DEF ServeFile
  <2>2. CASE \E a : HttpDone(r, a)
    BY <2>1, <2>2, HttpDoneKeeps
  <2>3. CASE at' = [at EXCEPT ![r] = "fallback"] /\ UNCHANGED <<request, mount>>
    <3>1. at' \in [Reqs -> Stages] /\ at'[r] = "fallback" /\ \A q \in Reqs \ {r} : at'[q] = at[q]
      BY <2>3 DEF HttpInv, Stages
    <3>2. ASSUME NEW q \in Reqs PROVE Looked(q)'
      BY <2>1, <2>3, <3>1 DEF HttpInv, Looked
    <3> QED
      BY <2>1, <2>3, <3>1, <3>2 DEF HttpInv
  <2> QED
    BY <1>5, <2>2, <2>3 DEF ServeFile
<1>6. ASSUME NEW r \in Reqs, ToProvider(r) PROVE HttpInv'
  BY <1>6, HttpDoneKeeps DEF ToProvider
<1> QED
  BY <1>1, <1>2, <1>3, <1>4, <1>5, <1>6 DEF HttpNext

(***************************************************************************)
(* OperatorSpaceKept for any mounts and requests: handle_request_inner asks *)
(* for a mount only after the operator's own endpoints, and                 *)
(* check_trust_boundary lets only direct local callers run an operation.    *)
(***************************************************************************)
THEOREM OperatorSpaceIsKept == HttpSpec => []OperatorSpaceKept
<1>1. HttpInv => OperatorSpaceKept
  BY DEF HttpInv, Looked, OperatorSpaceKept
<1> QED
  BY <1>1, PostStart, PostStep, HttpStart, HttpStep, PTL DEF HttpSpec

-----------------------------------------------------------------------------
(***************************************************************************)
(* Mounts.  The texts of paths are ordered, and so are the mounts of a plan *)
(* that is not blocked.                                                     *)
(***************************************************************************)
Names == DOMAIN Rank

LEMMA RankOrders ==
    /\ \A s \in Names : Rank[s] \in Nat
    /\ \A s, t \in Names : s # t => Rank[s] < Rank[t] \/ Rank[t] < Rank[s]
<1>1. \A s, t \in Names : Rank[s] \in Nat /\ (Rank[s] = Rank[t] => s = t)
  BY HttpAssumption DEF Names
<1> QED
  BY <1>1

(* Where two texts part: all is equal before it, and one ends or is less. *)
Parts(a, b, k) ==
    /\ k \in 1..(Len(a) + 1) /\ k <= Len(b) /\ \A j \in 1..(k - 1) : a[j] = b[j]
    /\ k > Len(a) \/ Rank[a[k]] < Rank[b[k]]

LEMMA TextParts ==
    ASSUME NEW a \in Seq(Names), NEW b \in Seq(Names)
    PROVE  TextBefore(a, b) <=> \E k \in Nat : Parts(a, b, k)
<1>1. Len(a) \in Nat /\ Len(b) \in Nat
  OBVIOUS
<1>2. ASSUME TextBefore(a, b) PROVE \E k \in Nat : Parts(a, b, k)
  BY <1>1, <1>2 DEF TextBefore, Parts
<1>3. ASSUME NEW k \in Nat, Parts(a, b, k) PROVE TextBefore(a, b)
  BY <1>1, <1>3 DEF TextBefore, Parts
<1> QED
  BY <1>2, <1>3

LEMMA TextIrreflexive == ASSUME NEW a \in Seq(Names) PROVE ~TextBefore(a, a)
<1>1. ASSUME NEW k \in Nat, Parts(a, a, k) PROVE FALSE
  <2>1. Len(a) \in Nat /\ k \in 1..Len(a) /\ Rank[a[k]] < Rank[a[k]]
    BY <1>1 DEF Parts
  <2>2. a[k] \in Names
    BY <2>1
  <2> QED
    BY <2>1, <2>2, RankOrders
<1> QED
  BY <1>1, TextParts

LEMMA TextTransitive ==
    ASSUME NEW a \in Seq(Names), NEW b \in Seq(Names), NEW c \in Seq(Names), TextBefore(a, b), TextBefore(b, c)
    PROVE  TextBefore(a, c)
<1>1. PICK j \in Nat : Parts(a, b, j)
  BY TextParts
<1>2. PICK k \in Nat : Parts(b, c, k)
  BY TextParts
<1>3. Len(a) \in Nat /\ Len(b) \in Nat /\ Len(c) \in Nat
  OBVIOUS
<1>4. CASE j < k
  <2>1. j <= Len(b) /\ b[j] = c[j] /\ j <= Len(c)
    BY <1>1, <1>2, <1>3, <1>4 DEF Parts
  <2>2. Parts(a, c, j)
    BY <1>1, <1>2, <1>3, <1>4, <2>1 DEF Parts
  <2> QED
    BY <2>2, TextParts
<1>5. CASE k < j
  <2>1. k <= Len(a) /\ a[k] = b[k] /\ k <= Len(b)
    BY <1>1, <1>2, <1>3, <1>5 DEF Parts
  <2>2. Parts(a, c, k)
    BY <1>1, <1>2, <1>3, <1>5, <2>1 DEF Parts
  <2> QED
    BY <2>2, TextParts
<1>6. CASE j = k
  <2>1. k <= Len(b) /\ k <= Len(c) /\ Rank[b[k]] < Rank[c[k]] /\ b[k] \in Names /\ c[k] \in Names
    BY <1>1, <1>2, <1>3, <1>6 DEF Parts
  <2>2. CASE k > Len(a)
    <3>1. Parts(a, c, k)
      BY <1>1, <1>2, <1>3, <1>6, <2>1, <2>2 DEF Parts
    <3> QED
      BY <3>1, TextParts
  <2>3. CASE ~(k > Len(a))
    <3>1. k \in 1..Len(a) /\ a[k] \in Names /\ Rank[a[k]] < Rank[b[k]]
      BY <1>1, <1>3, <1>6, <2>3 DEF Parts
    <3>2. Rank[a[k]] < Rank[c[k]]
      BY <2>1, <3>1, RankOrders
    <3>3. Parts(a, c, k)
      BY <1>1, <1>2, <1>3, <1>6, <2>1, <3>1, <3>2 DEF Parts
    <3> QED
      BY <3>3, TextParts
  <2> QED
    BY <2>2, <2>3
<1> QED
  BY <1>4, <1>5, <1>6

LEMMA TextTotal ==
    ASSUME NEW a \in Seq(Names), NEW b \in Seq(Names), a # b
    PROVE  TextBefore(a, b) \/ TextBefore(b, a)
<1> DEFINE D == {k \in Nat : k >= 1 /\ (k > Len(a) \/ k > Len(b) \/ a[k] # b[k])}
<1>1. Len(a) \in Nat /\ Len(b) \in Nat
  OBVIOUS
<1>2. Len(a) + 1 \in D
  BY <1>1
<1>3. D \subseteq Nat
  OBVIOUS
<1> HIDE DEF D
<1>4. PICK k \in D : \A j \in D : k <= j
  BY <1>2, <1>3, LeastNumber
<1>5. /\ k \in Nat /\ k >= 1 /\ (k > Len(a) \/ k > Len(b) \/ a[k] # b[k])
      /\ k <= Len(a) + 1
  BY <1>2, <1>4 DEF D
<1>6. ASSUME NEW j \in 1..(k - 1) PROVE j <= Len(a) /\ j <= Len(b) /\ a[j] = b[j]
  <2>1. j \in Nat /\ j >= 1 /\ j < k
    BY <1>5
  <2>2. j \notin D
    BY <1>3, <1>4, <1>5, <2>1
  <2> QED
    BY <1>1, <2>1, <2>2 DEF D
<1>7. ~(k > Len(a) /\ k > Len(b))
  <2>1. ASSUME k > Len(a), k > Len(b) PROVE FALSE
    <3>1. Len(a) = Len(b) /\ Len(a) = k - 1
      <4>1. k = 1 \/ k - 1 \in 1..(k - 1)
        BY <1>5
      <4> QED
        BY <1>1, <1>5, <1>6, <2>1, <4>1
    <3>2. \A j \in 1..Len(a) : a[j] = b[j]
      BY <1>6, <3>1
    <3>3. a = b
      <4>1. a = [j \in 1..Len(a) |-> a[j]] /\ b = [j \in 1..Len(b) |-> b[j]]
        OBVIOUS
      <4> QED
        BY <3>1, <3>2, <4>1
    <3> QED
      BY <3>3
  <2> QED
    BY <2>1
<1>8. CASE k > Len(a)
  <2>1. Parts(a, b, k)
    BY <1>1, <1>5, <1>6, <1>7, <1>8 DEF Parts
  <2> QED
    BY <1>5, <2>1, TextParts
<1>9. CASE k > Len(b)
  <2>1. k <= Len(a) /\ k <= Len(b) + 1
    <3>1. k = 1 \/ k - 1 \in 1..(k - 1)
      BY <1>5
    <3> QED
      BY <1>1, <1>5, <1>6, <1>7, <1>9, <3>1
  <2>2. Parts(b, a, k)
    BY <1>1, <1>5, <1>6, <1>9, <2>1 DEF Parts
  <2> QED
    BY <1>5, <2>2, TextParts
<1>10. CASE ~(k > Len(a)) /\ ~(k > Len(b))
  <2>1. k \in 1..Len(a) /\ k \in 1..Len(b) /\ a[k] # b[k]
    BY <1>1, <1>5, <1>10
  <2>2. a[k] \in Names /\ b[k] \in Names
    BY <2>1
  <2>3. Rank[a[k]] < Rank[b[k]] \/ Rank[b[k]] < Rank[a[k]]
    BY <2>1, <2>2, RankOrders
  <2>4. Parts(a, b, k) \/ Parts(b, a, k)
    BY <1>1, <1>5, <1>6, <2>1, <2>3 DEF Parts
  <2> QED
    BY <1>5, <2>4, TextParts
<1> QED
  BY <1>8, <1>9, <1>10

LEMMA SegmentsType == ASSUME NEW S, NEW path \in Seq(S) PROVE Segments(path) \in Seq(S)
<1> DEFINE seqs == [k \in DOMAIN path |-> IF path[k] = "" THEN <<>> ELSE <<path[k]>>]
<1>1. Len(path) \in Nat /\ DOMAIN path = 1..Len(path) /\ \A k \in 1..Len(path) : path[k] \in S
  OBVIOUS
<1>2. \A x \in S : <<x>> \in Seq(S) /\ <<>> \in Seq(S)
  OBVIOUS
<1>3. seqs \in [1..Len(path) -> Seq(S)]
  BY <1>1, <1>2
<1> HIDE DEF seqs
<1>4. FlattenSeq(seqs) \in Seq(S)
  BY <1>1, <1>3, FlattenSeqType
<1> QED
  BY <1>4 DEF Segments, seqs

MountOf(f, o) == [pack |-> f, path |-> o.path, segs |-> Segments(o.path), index |-> o.index, fallback |-> o.fallback]

LEMMA MountType ==
    ASSUME NEW fs \in SUBSET Refs, NEW m \in Mounts(fs)
    PROVE  /\ \E f \in fs : \E k \in DOMAIN Statics[f].routes : m = MountOf(f, Statics[f].routes[k])
           /\ m.path \in Seq(STRING) /\ m.path \in Seq(Names) /\ m.segs = Segments(m.path) /\ m.segs \in Seq(STRING)
<1>1. PICK f \in fs : m \in {MountOf(f, o) : o \in ToSet(Statics[f].routes)}
  BY DEF Mounts, MountOf
<1>2. PICK o \in ToSet(Statics[f].routes) : m = MountOf(f, o)
  BY <1>1
<1>3. Statics[f].routes \in Seq(Route)
  BY HttpAssumption
<1>4. PICK k \in DOMAIN Statics[f].routes : o = Statics[f].routes[k]
  BY <1>2 DEF ToSet
<1>5. o \in Route
  BY <1>3, <1>4
<1>6. o.path \in Seq(STRING)
  BY <1>5 DEF Route
<1>7. ToSet(o.path) \subseteq Names
  BY <1>4, HttpAssumption DEF Names
<1>8. o.path \in Seq(Names)
  <2>1. Len(o.path) \in Nat /\ DOMAIN o.path = 1..Len(o.path)
    BY <1>6
  <2>2. \A j \in 1..Len(o.path) : o.path[j] \in Names
    BY <1>7, <2>1 DEF ToSet
  <2>3. o.path = [j \in 1..Len(o.path) |-> o.path[j]]
    BY <1>6
  <2> QED
    BY <2>1, <2>2, <2>3
<1>9. m.path = o.path /\ m.segs = Segments(o.path)
  BY <1>2 DEF MountOf
<1> QED
  BY <1>2, <1>4, <1>6, <1>8, <1>9, SegmentsType

LEMMA MountsFinite == ASSUME NEW fs \in SUBSET Refs PROVE IsFiniteSet(Mounts(fs))
<1>1. IsFiniteSet(fs)
  BY PostIngressAssumption, FS_Subset
<1> DEFINE Of(f) == {MountOf(f, o) : o \in ToSet(Statics[f].routes)}
           U == {Of(f) : f \in fs}
<1>2. ASSUME NEW f \in fs PROVE IsFiniteSet(Of(f))
  <2>1. Statics[f].routes \in Seq(Route)
    BY HttpAssumption
  <2> DEFINE D == 1..Len(Statics[f].routes)
             g == [k \in D |-> MountOf(f, Statics[f].routes[k])]
  <2>2. IsFiniteSet(D)
    <3>1. Len(Statics[f].routes) \in Nat
      BY <2>1
    <3> QED
      BY <3>1, FS_Interval
  <2>3. \A o : o \in ToSet(Statics[f].routes) <=> \E k \in D : o = Statics[f].routes[k]
    BY <2>1 DEF ToSet
  <2>4. g \in Surjection(D, Of(f))
    <3>1. g \in [D -> Of(f)]
      BY <2>3
    <3>2. \A t \in Of(f) : \E k \in D : g[k] = t
      BY <2>3
    <3> QED
      BY <3>1, <3>2 DEF Surjection
  <2> HIDE DEF D, g, Of
  <2> QED
    BY <2>2, <2>4, FS_Surjection
<1> DEFINE g == [f \in fs |-> Of(f)]
<1>3. g \in Surjection(fs, U)
  <2>1. g \in [fs -> U]
    OBVIOUS
  <2>2. \A t \in U : \E f \in fs : g[f] = t
    OBVIOUS
  <2> QED
    BY <2>1, <2>2 DEF Surjection
<1>4. IsFiniteSet(U)
  BY <1>1, <1>3, FS_Surjection
<1>5. \A T \in U : IsFiniteSet(T)
  BY <1>2
<1>6. Mounts(fs) = UNION U
  BY DEF Mounts, MountOf
<1> HIDE DEF U
<1> QED
  BY <1>4, <1>5, <1>6, FS_UNION

(* In a plan that is not blocked, mounts with the same path are the same. *)
LEMMA MountsApart ==
    ASSUME NEW fs \in SUBSET Refs, PlanOk(fs), NEW m \in Mounts(fs), NEW n \in Mounts(fs), m.path = n.path
    PROVE  m = n
<1>1. m.path \in Seq(STRING)
  BY MountType
<1>2. IsPrefix(m.path, n.path)
  BY <1>1 DEF IsPrefix
<1> QED
  BY <1>2 DEF PlanOk, paths_overlap

LEMMA MountsOrdered ==
    ASSUME NEW fs \in SUBSET Refs, PlanOk(fs)
    PROVE  /\ \A m \in Mounts(fs) : ~MountBefore(m, m)
           /\ \A m, n, p \in Mounts(fs) : MountBefore(m, n) /\ MountBefore(n, p) => MountBefore(m, p)
           /\ \A m, n \in Mounts(fs) : m # n => MountBefore(m, n) \/ MountBefore(n, m)
<1>1. \A m \in Mounts(fs) : m.path \in Seq(Names) /\ Len(m.segs) \in Nat
  <2>1. ASSUME NEW m \in Mounts(fs) PROVE m.path \in Seq(Names) /\ Len(m.segs) \in Nat
    <3>1. m.path \in Seq(Names) /\ m.segs \in Seq(STRING)
      BY MountType
    <3> QED
      BY <3>1
  <2> QED
    BY <2>1
<1>2. ASSUME NEW m \in Mounts(fs) PROVE ~MountBefore(m, m)
  BY <1>1, TextIrreflexive DEF MountBefore
<1>3. ASSUME NEW m \in Mounts(fs), NEW n \in Mounts(fs), NEW p \in Mounts(fs), MountBefore(m, n), MountBefore(n, p)
      PROVE  MountBefore(m, p)
  <2>1. TextBefore(m.path, n.path) /\ TextBefore(n.path, p.path) => TextBefore(m.path, p.path)
    BY <1>1, TextTransitive
  <2> QED
    BY <1>1, <1>3, <2>1 DEF MountBefore
<1>4. ASSUME NEW m \in Mounts(fs), NEW n \in Mounts(fs), m # n PROVE MountBefore(m, n) \/ MountBefore(n, m)
  <2>1. m.path # n.path
    BY <1>4, MountsApart
  <2>2. TextBefore(m.path, n.path) \/ TextBefore(n.path, m.path)
    BY <1>1, <2>1, TextTotal
  <2> QED
    BY <1>1, <2>2 DEF MountBefore
<1> QED
  BY <1>2, <1>3, <1>4

SortedTable(t, fs) ==
    t \in Seq(Mounts(fs)) /\ \A j, k \in 1..Len(t) : j < k => MountBefore(t[j], t[k])

(* ActiveRouteTable::from_plan sorts. *)
LEMMA TableSorted ==
    ASSUME NEW fs \in SUBSET Refs, PlanOk(fs)
    PROVE  SortedTable(Sorted(Mounts(fs), MountBefore), fs)
<1> DEFINE S == Mounts(fs)
           A == [x \in S |-> {y \in S : MountBefore(y, x)}]
           s == Sorted(Mounts(fs), MountBefore)
<1>1. IsFiniteSet(S)
  BY MountsFinite
<1>2. /\ \A m \in S : ~MountBefore(m, m)
      /\ \A m, n, p \in S : MountBefore(m, n) /\ MountBefore(n, p) => MountBefore(m, p)
      /\ \A m, n \in S : m # n => MountBefore(m, n) \/ MountBefore(n, m)
  BY MountsOrdered
<1>3. A \in [S -> SUBSET S] /\ \A x, y \in S : y \in A[x] <=> MountBefore(y, x)
  OBVIOUS
<1>4. /\ s = [n \in 1..Cardinality(S) |-> s[n]]
      /\ \A n \in 1..Cardinality(S) :
           (\E x \in S : Cardinality(A[x]) = n - 1) => s[n] \in S /\ Cardinality(A[s[n]]) = n - 1
  <2>1. \A x \in S : A[x] = {y \in S : MountBefore(y, x)}
    OBVIOUS
  <2>2. s = [n \in 1..Cardinality(S) |-> CHOOSE x \in S : Cardinality({y \in S : MountBefore(y, x)}) = n - 1]
    BY Zenon DEF Sorted
  <2> HIDE DEF S, A, s
  <2>3. ASSUME NEW n \in 1..Cardinality(S), NEW x \in S, Cardinality(A[x]) = n - 1
        PROVE  s[n] \in S /\ Cardinality(A[s[n]]) = n - 1
    <3>1. Cardinality({y \in S : MountBefore(y, x)}) = n - 1
      BY <2>1, <2>3
    <3>2. s[n] = CHOOSE z \in S : Cardinality({y \in S : MountBefore(y, z)}) = n - 1
      BY <2>2
    <3>3. s[n] \in S /\ Cardinality({y \in S : MountBefore(y, s[n])}) = n - 1
      BY <3>1, <3>2, Zenon
    <3> QED
      BY <2>1, <3>3
  <2> DEFINE E(n) == CHOOSE x \in S : Cardinality({y \in S : MountBefore(y, x)}) = n - 1
  <2>4. s = [n \in 1..Cardinality(S) |-> E(n)]
    BY <2>2
  <2> HIDE DEF E
  <2>5. s = [n \in 1..Cardinality(S) |-> s[n]]
    BY <2>4
  <2> QED
    BY <2>3, <2>5
<1> HIDE DEF S, A, s
<1>5. \A x \in S : x \notin A[x]
  BY <1>2, <1>3
<1>6. ASSUME NEW x \in S, NEW y \in S, MountBefore(y, x) PROVE y \in A[x] /\ A[y] \subseteq A[x]
  <2>1. ASSUME NEW z \in A[y] PROVE z \in A[x]
    <3>1. z \in S /\ MountBefore(z, y)
      BY <1>3, <2>1
    <3> QED
      BY <1>2, <1>3, <1>6, <3>1
  <2> QED
    BY <1>3, <1>6, <2>1
<1>7. \A x, y \in S : x # y => (y \in A[x] /\ A[y] \subseteq A[x]) \/ (x \in A[y] /\ A[x] \subseteq A[y])
  BY <1>2, <1>6
<1>8. s \in Seq(S) /\ \A j, k \in 1..Len(s) : j < k => s[j] \in A[s[k]]
  BY <1>1, <1>3, <1>4, <1>5, <1>7, SortedAscends
<1>9. \A k \in 1..Len(s) : s[k] \in S
  BY <1>8
<1> QED
  BY <1>3, <1>8, <1>9 DEF SortedTable, s, S

(***************************************************************************)
(* Of two plain mounts the one that is first in the table is not the wider  *)
(* one: where they part, the wider one has a template, which sorts last, or *)
(* it has a team where the other has a tenant, and a team comes after its   *)
(* tenant.                                                                  *)
(***************************************************************************)
LEMMA FirstIsNarrow ==
    ASSUME NEW fs \in SUBSET Refs, PlanOk(fs), NEW m \in Mounts(fs), NEW n \in Mounts(fs),
           Plain(m), Plain(n), MountBefore(m, n)
    PROVE  ~Narrower(n, m)
<1> SUFFICES ASSUME Covers(m, n), ~Covers(n, m) PROVE FALSE
  BY DEF Narrower
<1> DEFINE a == m.segs
           b == n.segs
<1>1. a = m.path /\ b = n.path /\ a \in Seq(Names) /\ b \in Seq(Names) /\ a \in Seq(STRING)
  BY MountType DEF Plain
<1>2. Len(a) \in Nat /\ Len(b) \in Nat /\ DOMAIN a = 1..Len(a) /\ DOMAIN b = 1..Len(b)
  BY <1>1
<1>3. Len(a) <= Len(b) /\ \A k \in 1..Len(a) : a[k] \in Templates \/ a[k] = b[k]
  BY <1>2 DEF Covers
<1>4. Len(a) = Len(b) /\ TextBefore(a, b)
  BY <1>1, <1>2, <1>3 DEF MountBefore
<1> HIDE DEF a, b
<1>5. PICK k \in Nat : Parts(a, b, k)
  BY <1>1, <1>4, TextParts
<1>6. /\ k \in 1..Len(a) /\ k \in 1..Len(b) /\ Rank[a[k]] < Rank[b[k]] /\ \A j \in 1..(k - 1) : a[j] = b[j]
  BY <1>2, <1>4, <1>5 DEF Parts
<1>7. a[k] \in Names /\ b[k] \in Names /\ Rank[a[k]] \in Nat /\ Rank[b[k]] \in Nat
  BY <1>1, <1>6, RankOrders
<1>8. a[k] # b[k] /\ a[k] \in Templates
  BY <1>3, <1>6, <1>7
<1>9. Rank[Team] \in Nat /\ Rank[Tenant] \in Nat /\ Rank[Team] < Rank[Tenant]
  BY HttpAssumption, RankOrders DEF Templates, Names
<1>10. b[k] \in Templates
  <2>1. b[k] \in Templates \/ Rank[b[k]] < Rank[Team]
    BY <1>2, <1>6 DEF Plain, b
  <2>2. a[k] = Team \/ a[k] = Tenant
    BY <1>8 DEF Templates
  <2>3. ~(Rank[b[k]] < Rank[Team])
    <3>1. CASE a[k] = Team
      <4>1. Rank[Team] < Rank[b[k]]
        BY <1>6, <3>1
      <4> QED
        BY <1>7, <1>9, <4>1
    <3>2. CASE a[k] = Tenant
      <4>1. Rank[Tenant] < Rank[b[k]]
        BY <1>6, <3>2
      <4> QED
        BY <1>7, <1>9, <4>1
    <3> QED
      BY <2>2, <3>1, <3>2
  <2> QED
    BY <2>1, <2>3
<1>11. a[k] = Team /\ b[k] = Tenant
  <2>1. (a[k] = Team \/ a[k] = Tenant) /\ (b[k] = Team \/ b[k] = Tenant)
    BY <1>8, <1>10 DEF Templates
  <2>2. ~(a[k] = Tenant /\ b[k] = Team)
    <3>1. ASSUME a[k] = Tenant, b[k] = Team PROVE FALSE
      <4>1. Rank[Tenant] < Rank[Team]
        BY <1>6, <3>1
      <4> QED
        BY <1>9, <4>1
    <3> QED
      BY <3>1
  <2> QED
    BY <1>8, <2>1, <2>2
<1>12. \E j \in 1..(k - 1) : a[j] = Tenant
  <2>1. PICK f \in fs : \E i \in DOMAIN Statics[f].routes : m = MountOf(f, Statics[f].routes[i])
    BY MountType
  <2>2. PICK i \in DOMAIN Statics[f].routes : m = MountOf(f, Statics[f].routes[i])
    BY <2>1
  <2> DEFINE o == Statics[f].routes[i]
  <2>3. RouteOk(o)
    BY <2>2 DEF PlanOk, StaticsOk
  <2>4. Segments(o.path) = a
    BY <2>2 DEF MountOf, a
  <2>5. Team \in ToSet(a)
    BY <1>2, <1>6, <1>11 DEF ToSet
  <2>6. Tenant \in ToSet(a) /\ \A j \in First(a, Tenant), l \in First(a, Team) : j < l
    <3>1. o.team = (Team \in ToSet(a)) /\ o.tenant = (Tenant \in ToSet(a))
      BY <2>3, <2>4 DEF RouteOk
    <3>2. o.team => o.tenant /\ \A j \in First(a, Tenant), l \in First(a, Team) : j < l
      BY <2>3, <2>4 DEF RouteOk
    <3> QED
      BY <2>5, <3>1, <3>2
  <2>7. PICK j \in 1..Len(a) : a[j] = Tenant
    BY <1>2, <2>6 DEF ToSet
  <2>8. \A i1, i2 \in 1..Len(a) : a[i1] \in Templates /\ a[i1] = a[i2] => i1 = i2
    BY <1>2 DEF Plain, a
  <2>9. j \in First(a, Tenant) /\ k \in First(a, Team)
    <3>1. ASSUME NEW l \in 1..(j - 1) PROVE a[l] # Tenant
      <4>1. l \in 1..Len(a) /\ l # j
        BY <1>2
      <4> QED
        BY <2>7, <2>8, <4>1 DEF Templates
    <3>2. ASSUME NEW l \in 1..(k - 1) PROVE a[l] # Team
      <4>1. l \in 1..Len(a) /\ l # k
        BY <1>2, <1>6
      <4> QED
        BY <1>6, <1>11, <2>8, <4>1 DEF Templates
    <3> QED
      BY <1>2, <1>6, <1>11, <2>7, <3>1, <3>2 DEF First
  <2>10. j < k
    BY <2>6, <2>9
  <2>11. j \in 1..(k - 1)
    BY <1>2, <1>6, <2>10
  <2> QED
    BY <2>7, <2>11
<1>13. PICK j \in 1..(k - 1) : a[j] = Tenant
  BY <1>12
<1>14. b[j] = Tenant /\ j \in 1..Len(b) /\ j # k
  <2>1. k \in Nat /\ k <= Len(b) /\ j \in Nat /\ j >= 1 /\ j <= k - 1
    BY <1>2, <1>6
  <2>2. b[j] = a[j]
    BY <1>6
  <2> QED
    BY <1>2, <1>13, <2>1, <2>2
<1>15. \A i1, i2 \in 1..Len(b) : b[i1] \in Templates /\ b[i1] = b[i2] => i1 = i2
  BY <1>2 DEF Plain, b
<1> QED
  BY <1>6, <1>11, <1>14, <1>15 DEF Templates

(***************************************************************************)
(* The table is made once, before any request, and what was chosen for a    *)
(* request is the first of it that fits.                                    *)
(***************************************************************************)
Chosen(r) ==
    mount[r] # NoMount =>
      \E k \in 1..Len(table) : /\ mount[r] = table[k]
                               /\ \A j \in Matching(Segments(request[r].path)) : k <= j

TableInv ==
    /\ server = "down" => \A r \in Reqs : at[r] = "idle"
    /\ \E fs \in SUBSET Refs : (table # <<>> => PlanOk(fs)) /\ SortedTable(table, fs)
    /\ \A r \in Reqs : Chosen(r)

LEMMA TableKept ==
    ASSUME TableInv, UNCHANGED <<table, mount, request>>, server' # "down" \/ (server = "down" /\ UNCHANGED at)
    PROVE  TableInv'
<1>1. server' = "down" => \A r \in Reqs : at'[r] = "idle"
  BY DEF TableInv
<1> QED
  BY <1>1 DEF TableInv, Chosen, Matching, SortedTable

LEMMA TableStart == HttpInit => TableInv
<1> SUFFICES ASSUME HttpInit PROVE TableInv
  OBVIOUS
<1>1. table = <<>> /\ \A r \in Reqs : at[r] = "idle" /\ mount[r] = NoMount
  BY DEF HttpInit
<1>2. SortedTable(table, {})
  BY <1>1 DEF SortedTable
<1> QED
  BY <1>1, <1>2 DEF TableInv, Chosen

LEMMA ReceiveChooses ==
    ASSUME HttpInv, TableInv, NEW r \in Reqs, Receive(r)
    PROVE  TableInv'
<1>1. server = "up" /\ server' = "up" /\ table' = table /\ at[r] = "idle"
  BY DEF Receive
<1>2. PICK q \in cast.https[r] :
        LET a == Answerer(q) IN
        /\ request' = [request EXCEPT ![r] = q]
        /\ at' = [at EXCEPT ![r] = IF a \in {"files", "deployments", "ingress"} THEN a ELSE "done"]
        /\ answer' = [answer EXCEPT ![r] = a]
        /\ mount' = IF a = "files" THEN [mount EXCEPT ![r] = FirstMatch(Segments(q.path))] ELSE mount
  BY DEF Receive
<1>3. /\ request'[r] = q /\ \A s \in Reqs \ {r} : request'[s] = request[s] /\ mount'[s] = mount[s]
  BY <1>2 DEF HttpInv
<1>4. Chosen(r)'
  <2> DEFINE segs == Segments(q.path)
             M == Matching(segs)
  <2>1. CASE Answerer(q) # "files"
    <3>1. mount'[r] = NoMount
      BY <1>1, <1>2, <2>1 DEF HttpInv, Looked
    <3> QED
      BY <3>1 DEF Chosen
  <2>2. CASE Answerer(q) = "files"
    <3>1. M # {}
      BY <2>2 DEF Answerer
    <3>2. DOMAIN table = 1..Len(table) /\ Len(table) \in Nat
      BY DEF TableInv, SortedTable
    <3>3. M \subseteq 1..Len(table) /\ M \subseteq Nat
      BY <3>2 DEF Matching
    <3>4. \E k \in M : \A j \in M : k <= j
      <4> HIDE DEF M
      <4> QED
        BY <3>1, <3>3, LeastNumber
    <3> DEFINE c == CHOOSE k \in M : \A j \in M : k <= j
    <3>5. c \in M /\ \A j \in M : c <= j
      <4> HIDE DEF M
      <4> QED
        BY <3>4
    <3>6. mount'[r] = table[c]
      BY <1>2, <2>2 DEF FirstMatch, HttpInv
    <3> HIDE DEF c
    <3>7. c \in 1..Len(table) /\ M = {k \in DOMAIN table' : Fits(table'[k], Segments(request'[r].path))}
      BY <1>1, <1>3, <3>3, <3>5 DEF Matching
    <3> QED
      BY <1>1, <1>3, <3>5, <3>6, <3>7 DEF Chosen, Matching
  <2> QED
    BY <2>1, <2>2
<1>5. ASSUME NEW s \in Reqs, s # r PROVE Chosen(s)'
  <2>1. Chosen(s)
    BY DEF TableInv
  <2> QED
    BY <1>1, <1>3, <1>5, <2>1 DEF Chosen, Matching
<1> QED
  BY <1>1, <1>4, <1>5 DEF TableInv, SortedTable

LEMMA TableStep == PostInv /\ HttpInv /\ TableInv /\ [HttpNext]_<<post_vars, http>> => TableInv'
<1> SUFFICES ASSUME PostInv, HttpInv, TableInv, [HttpNext]_<<post_vars, http>> PROVE TableInv'
  OBVIOUS
<1>0. ASSUME NEW r \in Reqs, at[r] # "idle" PROVE server # "down"
  BY <1>0 DEF TableInv
<1>1. CASE UNCHANGED http
  BY <1>1, TableKept DEF http
<1>2. CASE StopServer
  BY <1>2, TableKept DEF StopServer
<1>3. CASE StartServer
  <2>1. server = "down" /\ UNCHANGED <<at, request, mount>>
    BY <1>3 DEF StartServer
  <2>2. CASE server' = "failed" /\ UNCHANGED table
    BY <2>1, <2>2, TableKept
  <2>3. CASE PlanOk(disk) /\ server' = "up" /\ table' = Sorted(Mounts(disk), MountBefore)
    <3>1. disk \in SUBSET Refs
      BY DEF PostInv, PostTypes
    <3>2. SortedTable(table', disk)
      BY <2>3, <3>1, TableSorted
    <3>3. \A r \in Reqs : mount'[r] = NoMount
      BY <2>1 DEF TableInv, HttpInv, Looked
    <3>4. \A r \in Reqs : Chosen(r)'
      BY <3>3 DEF Chosen
    <3>5. \E fs \in SUBSET Refs : (table' # <<>> => PlanOk(fs)) /\ SortedTable(table', fs)
      BY <2>3, <3>1, <3>2
    <3> QED
      BY <2>3, <3>4, <3>5 DEF TableInv
  <2> QED
    BY <1>3, <2>2, <2>3 DEF StartServer
<1>4. ASSUME NEW r \in Reqs, Receive(r) PROVE TableInv'
  BY <1>4, ReceiveChooses
<1>5. ASSUME NEW r \in Reqs, HandleDeployments(r) \/ ServeFile(r) \/ ToProvider(r) PROVE TableInv'
  <2>1. at[r] # "idle" /\ UNCHANGED <<server, table, request, mount>>
    BY <1>5 DEF HandleDeployments, ServeFile, ToProvider, HttpDone
  <2> QED
    BY <1>0, <2>1, TableKept
<1> QED
  BY <1>1, <1>2, <1>3, <1>4, <1>5 DEF HttpNext

(***************************************************************************)
(* MostSpecificMount for any packs, mounts and requests: the order of       *)
(* ActiveRouteTable::from_plan, by length and then by text, puts of two     *)
(* plain mounts that fit a request the narrower one first.                  *)
(***************************************************************************)
THEOREM NarrowestMountAnswers == HttpSpec => []MostSpecificMount
<1>1. TableInv => MostSpecificMount
  <2> SUFFICES ASSUME TableInv, NEW r \in Reqs, mount[r] # NoMount, Plain(mount[r]),
                      NEW n \in ToSet(table), Plain(n), Fits(n, Segments(request[r].path))
               PROVE  ~Narrower(n, mount[r])
    BY DEF MostSpecificMount
  <2>1. PICK fs \in SUBSET Refs : (table # <<>> => PlanOk(fs)) /\ SortedTable(table, fs)
    BY DEF TableInv
  <2>2. Len(table) \in Nat /\ DOMAIN table = 1..Len(table) /\ \A k \in 1..Len(table) : table[k] \in Mounts(fs)
    BY <2>1 DEF SortedTable
  <2>3. PICK k \in 1..Len(table) :
          mount[r] = table[k] /\ \A j \in Matching(Segments(request[r].path)) : k <= j
    BY DEF TableInv, Chosen
  <2>4. PICK j \in 1..Len(table) : n = table[j]
    BY <2>2 DEF ToSet
  <2>5. k <= j
    BY <2>2, <2>3, <2>4 DEF Matching
  <2>6. CASE j = k
    BY <2>3, <2>4, <2>6 DEF Narrower
  <2>7. CASE j # k
    <3>1. MountBefore(mount[r], n)
      BY <2>1, <2>2, <2>3, <2>4, <2>5, <2>7 DEF SortedTable
    <3>2. PlanOk(fs)
      BY <2>1, <2>2, <2>3
    <3>3. mount[r] \in Mounts(fs) /\ n \in Mounts(fs)
      BY <2>2, <2>3, <2>4
    <3> QED
      BY <3>1, <3>2, <3>3, FirstIsNarrow
  <2> QED
    BY <2>6, <2>7
<1> QED
  BY <1>1, PostStart, PostStep, HttpStart, HttpStep, TableStart, TableStep, PTL DEF HttpSpec

-----------------------------------------------------------------------------
(* The interactive demo *)

Live == repl \notin {"finished", "failed", "quit"}

AllAt(fields, n) == \A f \in DOMAIN fields : fields[f] = n

(* While the command runs, each point but the last was answered; what is     *)
(* typed, or is the event to resume with, was typed at the last, and a       *)
(* snapshot was taken before anything was typed.                             *)
LiveInv ==
    /\ blocks \in Nat /\ Len(sent) = IF blocks = 0 THEN 0 ELSE blocks - 1
    /\ AllAt(typed, blocks) /\ AllAt(event, blocks)
    /\ repl \in {"start", "run"} => typed = Nil
    /\ IsSeq(history) /\ \A i \in DOMAIN history : history[i].typed = Nil

ReplInv == IsSeq(sent) /\ AnswersLastBlock /\ (Live => LiveInv)

LEMMA NilAt == \A n : AllAt(Nil, n)
<1>1. DOMAIN <<>> = {}
  OBVIOUS
<1> QED
  BY <1>1, Zenon DEF AllAt, Nil

(* The flow is resumed at the point it blocked at last. *)
LEMMA ResumesLast ==
    ASSUME ReplInv, Live, Resumes
    PROVE  IsSeq(sent') /\ AnswersLastBlock' /\ Len(sent') = blocks
<1>0. LiveInv /\ IsSeq(sent) /\ AnswersLastBlock
  BY DEF ReplInv
<1>1. CASE blocks = 0
  BY <1>0, <1>1 DEF Resumes, LiveInv, AnswersLastBlock
<1>2. CASE blocks # 0
  <2> DEFINE x == [point |-> blocks, fields |-> event]
  <2>1. sent' = Append(sent, x) /\ x.point = blocks /\ x.fields = event
    BY <1>2 DEF Resumes
  <2> HIDE DEF x
  <2>2. /\ IsSeq(sent') /\ Len(sent) \in Nat /\ Len(sent') = Len(sent) + 1 /\ DOMAIN sent = 1..Len(sent)
        /\ DOMAIN sent' = 1..(Len(sent) + 1)
        /\ sent'[Len(sent) + 1] = x /\ \A i \in 1..Len(sent) : sent'[i] = sent[i]
    BY <1>0, <2>1, SeqAppended
  <2>3. Len(sent) + 1 = blocks
    BY <1>0, <1>2 DEF LiveInv
  <2>4. ASSUME NEW i \in DOMAIN sent' PROVE sent'[i].point = i /\ AllAt(sent'[i].fields, i)
    <3>1. CASE i \in 1..Len(sent)
      BY <1>0, <2>2, <3>1 DEF AnswersLastBlock, AllAt
    <3>2. CASE i = blocks
      BY <1>0, <2>1, <2>2, <2>3, <3>2 DEF LiveInv
    <3> QED
      BY <2>2, <2>3, <3>1, <3>2
  <2> QED
    BY <2>2, <2>3, <2>4 DEF AnswersLastBlock, AllAt
<1> QED
  BY <1>1, <1>2

LEMMA BlocksKeep ==
    ASSUME ReplInv, NEW o \in Outputs, FlowBlocks(o)
    PROVE  ReplInv'
<1> DEFINE x == Snapshot(blocks + 1, detect_adaptive_card_view(o))
<1>0. Live /\ LiveInv /\ repl = "run" /\ typed = Nil
  BY DEF FlowBlocks, ReplInv, Live, LiveInv
<1>1. IsSeq(sent') /\ AnswersLastBlock' /\ Len(sent') = blocks /\ blocks \in Nat
  BY <1>0, ResumesLast DEF FlowBlocks, LiveInv
<1>2. event' = Nil /\ blocks' = blocks + 1 /\ history' = Append(history, x) /\ repl' = "command" /\ typed' = typed
  BY DEF FlowBlocks
<1>3. x.typed = Nil
  BY <1>0 DEF Snapshot
<1> HIDE DEF x
<1>4. IsSeq(history') /\ \A i \in DOMAIN history' : history'[i].typed = Nil
  <2>1. /\ IsSeq(history') /\ Len(history) \in Nat /\ DOMAIN history = 1..Len(history)
        /\ DOMAIN history' = 1..(Len(history) + 1)
        /\ history'[Len(history) + 1] = x /\ \A i \in 1..Len(history) : history'[i] = history[i]
    BY <1>0, <1>2, SeqAppended DEF LiveInv
  <2>2. ASSUME NEW i \in DOMAIN history' PROVE history'[i].typed = Nil
    <3>1. i \in 1..Len(history) \/ i = Len(history) + 1
      BY <2>1
    <3> QED
      BY <1>0, <1>3, <2>1, <3>1 DEF LiveInv
  <2> QED
    BY <2>1, <2>2
<1>5. LiveInv'
  BY <1>0, <1>1, <1>2, <1>4, NilAt DEF LiveInv
<1> QED
  BY <1>1, <1>5 DEF ReplInv

LEMMA BackKeeps ==
    ASSUME ReplInv, Back
    PROVE  ReplInv'
<1> DEFINE past == go_back(history)
<1>0. LiveInv /\ Live /\ repl = "command"
  BY DEF Back, ReplInv, Live
<1>1. /\ past # history /\ history' = past /\ typed' = Last(past).typed
      /\ UNCHANGED <<repl, blocks, event, sent>>
  BY DEF Back
<1>2. past = Front(history) /\ ~(Len(history) <= 1)
  BY <1>1 DEF go_back
<1>3. PICK S : history \in Seq(S)
  BY <1>0 DEF LiveInv, IsSeq
<1>4. /\ past \in Seq(S) /\ Len(past) \in 1..Len(history)
      /\ DOMAIN past = 1..Len(past) /\ \A i \in DOMAIN past : i \in DOMAIN history /\ past[i] = history[i]
  BY <1>2, <1>3 DEF Front
<1> HIDE DEF past
<1>5. \A i \in DOMAIN past : past[i].typed = Nil
  BY <1>0, <1>4 DEF LiveInv
<1>6. typed' = Nil
  BY <1>1, <1>4, <1>5 DEF Last
<1>7. LiveInv'
  BY <1>0, <1>1, <1>4, <1>5, <1>6, NilAt DEF LiveInv, IsSeq
<1> QED
  BY <1>1, <1>7 DEF ReplInv, AnswersLastBlock

(***************************************************************************)
(* Whatever was shown again with @back or filled in with @setup, each point *)
(* at which the flow blocked is answered once, in order, and only with what *)
(* was typed since (repl.rs, DemoRunner::run_until_blocked).                *)
(***************************************************************************)
THEOREM EachBlockAnsweredOnce == ReplSpec => []AnswersLastBlock
<1>1. ASSUME ReplInit(Sessions) PROVE ReplInv
  <2>1. <<>> \in Seq({}) /\ DOMAIN <<>> = {} /\ Len(<<>>) = 0
    OBVIOUS
  <2>2. sent = <<>> /\ history = <<>> /\ blocks = 0 /\ typed = Nil /\ event = Nil
    BY <1>1 DEF ReplInit
  <2>3. IsSeq(sent) /\ IsSeq(history)
    BY <2>1, <2>2, Zenon DEF IsSeq
  <2>4. AnswersLastBlock /\ \A i \in DOMAIN history : history[i].typed = Nil
    BY <2>1, <2>2, Zenon DEF AnswersLastBlock
  <2> QED
    BY <2>1, <2>2, <2>3, <2>4, NilAt DEF ReplInv, LiveInv
<1>2. ASSUME ReplInv, [ReplNext]_replVars PROVE ReplInv'
  <2>1. ASSUME UNCHANGED <<sent, history, blocks, event>>, Live' => Live,
               typed' = Nil \/ (typed' = typed /\ (repl' \in {"start", "run"} => repl \in {"start", "run"}))
        PROVE  ReplInv'
    <3>1. AnswersLastBlock' /\ IsSeq(sent')
      BY <1>2, <2>1 DEF ReplInv, AnswersLastBlock
    <3>2. LiveInv => LiveInv'
      BY <2>1, NilAt DEF LiveInv
    <3> QED
      BY <1>2, <2>1, <3>1, <3>2 DEF ReplInv
  <2>2. CASE StartRun \/ Quit \/ ReadFails \/ LeaveSetup
    BY <2>1, <2>2 DEF StartRun, Quit, ReadFails, LeaveSetup, Live
  <2>3. CASE StartWizardForm
    BY <2>1, <2>3 DEF StartWizardForm, Ask, Live
  <2>4. CASE StartSetup
    BY <2>1, <2>4 DEF StartSetup, Ask, Live
  <2>5. CASE SubmitAnswers
    BY <2>1, <2>5 DEF SubmitAnswers, Ask, FormDone, Live
  <2>6. CASE RunWizardFlow
    BY <1>2, <2>6 DEF RunWizardFlow, ReplInv, Live, AnswersLastBlock
  <2>7. CASE FlowEnds
    <3>1. Live /\ Resumes /\ ~Live'
      BY <2>7 DEF FlowEnds, Live
    <3> QED
      BY <1>2, <3>1, ResumesLast DEF ReplInv
  <2>8. ASSUME NEW f \in Fields, Type(f) PROVE ReplInv'
    <3>1. /\ Live /\ repl \notin {"start", "run"} /\ UNCHANGED <<repl, blocks, event, history, sent>>
          /\ typed' = [g \in DOMAIN typed \union {f} |-> IF g = f THEN blocks ELSE typed[g]]
      BY <2>8 DEF Type, Live
    <3>2. AllAt(typed', blocks)
      BY <1>2, <3>1 DEF AllAt, ReplInv, LiveInv
    <3>3. LiveInv'
      BY <1>2, <3>1, <3>2 DEF ReplInv, LiveInv
    <3> QED
      BY <1>2, <3>1, <3>3 DEF ReplInv, AnswersLastBlock
  <2>9. ASSUME NEW a \in Actions, Click(a) PROVE ReplInv'
    <3>1. Live /\ UNCHANGED <<blocks, history, sent>> /\ event' = typed /\ typed' = Nil
      BY <2>9 DEF Click, Live, Leftover
    <3>2. LiveInv'
      BY <1>2, <3>1, NilAt DEF ReplInv, LiveInv
    <3> QED
      BY <1>2, <3>1, <3>2 DEF ReplInv, AnswersLastBlock
  <2>10. CASE UNCHANGED replVars
    BY <2>1, <2>10 DEF replVars, Live
  <2> QED
    BY <1>2, <2>2, <2>3, <2>4, <2>5, <2>6, <2>7, <2>8, <2>9, <2>10, BlocksKeep, BackKeeps DEF ReplNext
<1>3. ReplInv => AnswersLastBlock
  BY DEF ReplInv
<1> QED
  BY <1>1, <1>2, <1>3, PTL DEF ReplSpec

=============================================================================
