--------------------------- MODULE TimerScheduler ---------------------------
(***************************************************************************)
(* The events timer, src/demo/timer_scheduler.rs: the timer handlers that   *)
(* provider packs declare, and the thread that runs each of them at its     *)
(* interval until it is told to stop.  Time is kept as what is left until   *)
(* each timer is due; the unit stands for the shortest sleep.               *)
(***************************************************************************)
EXTENDS Integers, Sequences, FiniteSets, SequencesExt

CONSTANTS Packs,            \* the provider packs that may have been discovered
          DefaultInterval,  \* given by the caller
          Durations         \* how long a run of a handler may take

Absent == "none"
NoInterval == -1
Greater(a, b) == IF a >= b THEN a ELSE b

(***************************************************************************)
(* A pack: its domain, whether it has the provider extension, the timer     *)
(* entries at the top of the extension, those of the providers in it, and   *)
(* the timer operations of the provider itself.  An entry that is a string  *)
(* has an operation only; of is the provider_type an entry is nested in, if *)
(* it is in one; an operation may carry an interval in its name.            *)
(***************************************************************************)
Interval == Nat \union {NoInterval}
TimerEntry == [op : STRING, provider : STRING, of : STRING, interval : Interval]
TimerOp == [op : STRING, interval : Interval]
ProviderPack == [id : STRING, domain : STRING, inline : BOOLEAN,
                 top : Seq(TimerEntry), nested : Seq(TimerEntry), ops : Seq(TimerOp)]

ASSUME TimerAssumption ==
    /\ Durations # {} /\ Durations \subseteq Nat
    /\ DefaultInterval \in Nat
    /\ Packs \subseteq Seq(ProviderPack)

VARIABLES timers,    \* the handlers: [provider, op, interval]
          left,      \* left[h]: until timer h is due
          pc, cur,   \* the step, and the handler it is at
          due,       \* the handlers that were due when the pass began
          lastRun,   \* the handlers that have a last_run, to be given with their next tick
          msg,       \* the shutdown channel
          since,     \* history: time since the last run of h ended, up to its interval
          turns      \* history: runs of h while g has been due, up to 3

vars == <<timers, left, pc, cur, due, lastRun, msg, since, turns>>

-----------------------------------------------------------------------------
(* discover_timer_handlers *)

IntervalOf(i) == IF i = NoInterval THEN Greater(DefaultInterval, 1) ELSE Greater(i, 1)

Handler(provider, e) == [provider |-> provider, op |-> e.op, interval |-> IntervalOf(e.interval)]

(* An entry without an operation is skipped. *)
parse_timer_handler_entry(e, provider) == IF e.op = Absent THEN <<>> ELSE <<Handler(provider, e)>>

ProviderOf(e, provider) == IF e.provider = Absent THEN provider ELSE e.provider

(* An entry that does not name another provider is its enclosing provider's. *)
NestedProviderOf(e, provider) ==
    IF ProviderOf(e, provider) # provider \/ e.of = Absent THEN ProviderOf(e, provider) ELSE e.of

(* Entries at the top; only if there is none, those of the providers. *)
parse_explicit_timer_handlers(p) ==
    LET top == FlattenSeq([k \in DOMAIN p.top |->
                   parse_timer_handler_entry(p.top[k], ProviderOf(p.top[k], p.id))])
        nested == FlattenSeq([k \in DOMAIN p.nested |->
                   parse_timer_handler_entry(p.nested[k], NestedProviderOf(p.nested[k], p.id))])
    IN IF top # <<>> THEN top ELSE nested

TimersOf(p) ==
    LET explicit == parse_explicit_timer_handlers(p)
    IN CASE p.domain # "events" -> <<>>
         [] p.domain = "events" /\ explicit # <<>> -> explicit
         [] OTHER -> [k \in DOMAIN p.ops |-> Handler(p.id, p.ops[k])]

(* A pack without the extension is an error for all. *)
DiscoveryOk(ps) == \A k \in DOMAIN ps : ps[k].domain = "events" => ps[k].inline

discover_timer_handlers(ps) == FlattenSeq([k \in DOMAIN ps |-> TimersOf(ps[k])])

-----------------------------------------------------------------------------
Hs == DOMAIN timers

(* start: with no handlers the thread ends at once. *)
Init ==
    /\ \E ps \in Packs : DiscoveryOk(ps) /\ timers = discover_timer_handlers(ps)
    /\ left = [h \in DOMAIN timers |-> Greater(timers[h].interval, 1)]
    /\ pc = (IF timers = <<>> THEN "ended" ELSE "pass")
    /\ cur = 1 /\ due = {} /\ lastRun = {} /\ msg = "none"
    /\ since = [h \in DOMAIN timers |-> 0]
    /\ turns = [g \in DOMAIN timers |-> [h \in DOMAIN timers |-> 0]]

Less(a, d) == Greater(a - d, 0)

(* Time d goes by. *)
Elapse(d) ==
    /\ left' = [h \in Hs |-> Less(left[h], d)]
    /\ since' = [h \in Hs |-> IF since[h] + d < timers[h].interval THEN since[h] + d ELSE timers[h].interval]

(* now is read once for the whole pass. *)
BeginPass ==
    /\ pc = "pass"
    /\ due' = {h \in Hs : left[h] = 0}
    /\ pc' = "scan" /\ cur' = 1
    /\ UNCHANGED <<timers, left, lastRun, msg, since, turns>>

Skip ==
    /\ pc = "scan" /\ cur \in Hs \ due
    /\ cur' = cur + 1
    /\ UNCHANGED <<timers, left, pc, due, lastRun, msg, since, turns>>

(* Mutant: the next run is counted from when this one was due. *)
Bug_NextTick(h, d) == Less(timers[h].interval, d)

(* From the end of this run, whether or not it failed. *)
NextTick(h, d) == timers[h].interval

(* Mutant: the pass ends with the first handler that was run. *)
Bug_AfterRun == Len(timers) + 1

AfterRun == cur + 1

(***************************************************************************)
(* A run takes some time, and succeeds, or fails: when the operation is     *)
(* invoked, when its events are decoded, or when one of them is routed.     *)
(* Only a run that succeeds leaves its last_run, nothing else differs.      *)
(***************************************************************************)
RunHandler ==
    /\ pc = "scan" /\ cur \in due
    /\ \E d \in Durations :
         /\ left' = [h \in Hs |-> IF h = cur THEN NextTick(h, d) ELSE Less(left[h], d)]
         /\ since' = [h \in Hs |-> CASE h = cur -> 0
                                     [] h # cur /\ since[h] + d < timers[h].interval -> since[h] + d
                                     [] OTHER -> timers[h].interval]
         /\ turns' = [g \in Hs |-> [h \in Hs |->
              IF g = cur \/ left'[g] > 0 THEN 0
              ELSE IF h = cur /\ left[g] = 0 /\ turns[g][h] < 3 THEN turns[g][h] + 1 ELSE turns[g][h]]]
    /\ lastRun' \in {lastRun, lastRun \union {cur}}
    /\ cur' = AfterRun
    /\ UNCHANGED <<timers, pc, due, msg>>

EndPass ==
    /\ pc = "scan" /\ cur > Len(timers)
    /\ pc' = "sleep"
    /\ UNCHANGED <<timers, left, cur, due, lastRun, msg, since, turns>>

-----------------------------------------------------------------------------
(* Until the next timer is due, and never less than the shortest sleep. *)
SleepFor == Greater(CHOOSE m \in {left[h] : h \in Hs} : \A h \in Hs : m <= left[h], 1)

(* recv_timeout: a message ends the thread; the time is up; or the sender   *)
(* is gone, which is found out at once and every time.                      *)
(* Mutant: a stop is ignored after a pass that had work to do. *)
Bug_Stopped ==
    /\ pc = "sleep" /\ msg = "stop"
    /\ pc' = (IF due = {} THEN "ended" ELSE "pass")
    /\ UNCHANGED <<timers, left, cur, due, lastRun, msg, since, turns>>

Stopped ==
    /\ pc = "sleep" /\ msg = "stop"
    /\ pc' = "ended"
    /\ UNCHANGED <<timers, left, cur, due, lastRun, msg, since, turns>>

Wake ==
    /\ pc = "sleep" /\ msg = "none"
    /\ Elapse(SleepFor)
    /\ pc' = "pass"
    /\ UNCHANGED <<timers, cur, due, lastRun, msg, turns>>

Spin ==
    /\ pc = "sleep" /\ msg = "dropped"
    /\ \E d \in {0, 1} : Elapse(d)
    /\ pc' = "pass"
    /\ UNCHANGED <<timers, cur, due, lastRun, msg, turns>>

(* stop sends the message and joins the thread; the owner may also just let *)
(* go of the scheduler.                                                     *)
Stop ==
    /\ msg = "none" /\ msg' \in {"stop", "dropped"}
    /\ UNCHANGED <<timers, left, pc, cur, due, lastRun, since, turns>>

Thread == BeginPass \/ Skip \/ RunHandler \/ EndPass \/ Stopped \/ Wake \/ Spin

Next == Thread \/ Stop

(* The thread is scheduled, and its handlers return. *)
Spec == Init /\ [][Next]_vars /\ WF_vars(Thread)

-----------------------------------------------------------------------------
(* Every variable has its type. *)
TypeOK ==
    /\ \A h \in Hs : timers[h].interval \in Nat /\ left[h] \in 0..Greater(timers[h].interval, 1)
    /\ pc \in {"pass", "scan", "sleep", "ended"}
    /\ cur \in 1..(Len(timers) + 1) /\ due \subseteq Hs /\ lastRun \subseteq Hs
    /\ msg \in {"none", "stop", "dropped"}
    /\ \A h \in Hs : since[h] \in 0..timers[h].interval

(***************************************************************************)
(* Runs do not pile up: however long handlers take, and even when nobody    *)
(* waits for the thread any more, a whole interval lies between two runs of *)
(* a handler, and that is never nothing, whatever its pack declares.        *)
(***************************************************************************)
NoBursts == \A h \in Hs : left[h] = 0 => since[h] = timers[h].interval /\ since[h] > 0

(***************************************************************************)
(* Turns are fair: while a handler is due, no other runs more than twice,   *)
(* once in the pass that had begun and once in the next.                    *)
(***************************************************************************)
FairTurns == \A g, h \in Hs : turns[g][h] <= 2

(* A scheduler that is told to stop ends, even if handlers are always due.  *)
StopEnds == (msg = "stop") ~> (pc = "ended")
=============================================================================
