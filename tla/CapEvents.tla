----------------------------- MODULE CapEvents -----------------------------
(***************************************************************************)
(* Capability events: publish and replay of src/capability_events.rs.       *)
(* Each command is a CLI process; the processes share the scope's three     *)
(* append-only logs events.jsonl, deliveries.jsonl and dlq.jsonl and take   *)
(* no lock.  A log is a sequence of lines, a line what was written to it:   *)
(* append_jsonl writes the record and then the newline, so that records of  *)
(* two processes can end up on one line, and a process that dies can leave  *)
(* a part of a record.  (The unbuffered file lets records mix in smaller    *)
(* pieces, too: such lines are as unreadable as the ones modelled.)         *)
(***************************************************************************)
EXTENDS Integers, Sequences, FiniteSets, SequencesExt

CONSTANTS Procs,         \* the CLI processes; each runs one command
          Payloads,
          TopicSchema,   \* TopicSchema[t]: the payloads topic t accepts
          SubIds,        \* subscription ids
          Subscriptions, \* sequence of [id, topic, filter, schema, max_attempts]
          Casts,         \* who may run what: [commands, limit], where limit bounds
                         \* how many commands run at the same time
          MaxCrashes     \* bound: commands that die

Topics == DOMAIN TopicSchema
SubIx == DOMAIN Subscriptions

(* The id a pack gives its subscription; those of two packs may be alike.   *)
SubId(s) == Subscriptions[s].id

(* Uuids: a process delivers at most once to a subscription. *)
DeliveryIds == Procs \X SubIx

(* "replay-<delivery id>" for the replay of a dead letter, else a new Uuid. *)
EventIds == ({"new"} \X Procs) \cup ({"replay"} \X DeliveryIds)

EventRec == [id : EventIds, topic : Topics, payload : Payloads]
DeliveryRec == [id : DeliveryIds, event : EventIds, sub : SubIds, status : {"ok", "err"},
                attempts : Nat]
DeadRec == [id : DeliveryIds, event : EventRec, sub : SubIds]

Command == [kind : {"publish"}, topic : Topics, payload : Payloads]
           \cup [kind : {"replay_delivery"}, delivery : DeliveryIds]
           \cup [kind : {"replay_event"}, event : EventIds]

ASSUME EventsAssumption ==
    /\ TopicSchema \in [Topics -> SUBSET Payloads]
    /\ Subscriptions \in Seq([id : SubIds, topic : Topics, filter : SUBSET Payloads,
                              schema : SUBSET Payloads, max_attempts : Nat])
    /\ \A c \in Casts : c.commands \in [Procs -> SUBSET Command] /\ c.limit \in Nat \ {0}
    /\ MaxCrashes \in Nat

Files == {"events", "deliveries", "dlq"}

VARIABLES cast,      \* the commands of this behaviour
          pc,        \* where each command is
          stage,     \* how far its current append_jsonl has got
          cmd,       \* the command it runs
          event,     \* its envelope
          matched,   \* matched subscriptions still to be served, in order
          log,       \* the three files
          result,    \* what it returned, and its PublishReport
          all,       \* history: every subscription it matched
          calls      \* history: outcomes of its calls, per subscription

vars == <<cast, pc, stage, cmd, event, matched, log, result, all, calls>>

Stages == {"record", "newline"}
PCs == {"idle", "log_event", "deliver", "log_ok", "log_err", "log_dlq", "done", "crashed"}

NoCommand == [kind |-> "none"]
NoEvent == [id |-> "none"]
NoReport == [status |-> "none", ok |-> 0, failed |-> 0]

Init ==
    /\ cast \in Casts
    /\ pc = [p \in Procs |-> "idle"]
    /\ stage = [p \in Procs |-> "record"]
    /\ cmd = [p \in Procs |-> NoCommand]
    /\ event = [p \in Procs |-> NoEvent]
    /\ matched = [p \in Procs |-> <<>>]
    /\ log = [f \in Files |-> << <<>> >>]
    /\ result = [p \in Procs |-> NoReport]
    /\ all = [p \in Procs |-> {}]
    /\ calls = [p \in Procs |-> [s \in SubIx |-> <<>>]]

-----------------------------------------------------------------------------
(* The log files. *)

WellFormed(line) ==
    line = <<>> \/ (Len(line) = 1 /\ line[1][1] = "whole")

(* read_jsonl gives the records in order, or an error for the whole file.   *)
Readable(f) == \A n \in DOMAIN log[f] : WellFormed(log[f][n])

Full(f) == {n \in DOMAIN log[f] : log[f][n] # <<>>}
Record(f, n) == log[f][n][1][2]

(* The first record with this id. *)
Find(f, n, id) ==
    /\ n \in Full(f) /\ Record(f, n).id = id
    /\ \A m \in Full(f) : m < n => Record(f, m).id # id

(* Everything ever written to a log, whatever became of the line. *)
Written(f) ==
    UNION {{log[f][n][k][2] : k \in DOMAIN log[f][n]} : n \in DOMAIN log[f]}

Put(f, kind, r) == [log EXCEPT ![f][Len(log[f])] = Append(@, <<kind, r>>)]

(* The subscription being served. *)
Current(p) == Head(matched[p])
MaxAttempts(s) == IF Subscriptions[s].max_attempts = 0 THEN 1 ELSE Subscriptions[s].max_attempts
Attempts(p) == Len(calls[p][Current(p)])

(* Mutant: the dead letter is written before the delivery record. *)
Bug_Target(at) ==
    CASE at = "log_event" -> "events" [] at = "log_err" -> "dlq" [] OTHER -> "deliveries"

(* The log a command at this point appends to, and what it appends. *)
Target(at) ==
    CASE at = "log_event" -> "events" [] at = "log_dlq" -> "dlq" [] OTHER -> "deliveries"

Logging == {"log_event", "log_ok", "log_err", "log_dlq"}

Entry(p) ==
    CASE Target(pc[p]) = "events" -> event[p]
      [] Target(pc[p]) = "deliveries" ->
           [id |-> <<p, Current(p)>>, event |-> event[p].id, sub |-> SubId(Current(p)),
            status |-> IF pc[p] = "log_ok" THEN "ok" ELSE "err", attempts |-> Attempts(p)]
      [] OTHER -> [id |-> <<p, Current(p)>>, event |-> event[p], sub |-> SubId(Current(p))]

(***************************************************************************)
(* One write of append_jsonl by p; Done is what p does after the last.      *)
(***************************************************************************)
Appending(p, Done) ==
    \/ /\ stage[p] = "record"
       /\ log' = Put(Target(pc[p]), "whole", Entry(p))
       /\ stage' = [stage EXCEPT ![p] = "newline"]
       /\ UNCHANGED <<pc, matched, result>>
    \/ /\ stage[p] = "newline"
       /\ log' = [log EXCEPT ![Target(pc[p])] = Append(@, <<>>)]
       /\ stage' = [stage EXCEPT ![p] = "record"]
       /\ Done

-----------------------------------------------------------------------------
(* publish_event_internal *)

Fail(p) == /\ pc' = [pc EXCEPT ![p] = "done"]
           /\ result' = [result EXCEPT ![p].status = "err"]

Rejected(p, c) ==
    /\ cmd' = [cmd EXCEPT ![p] = c]
    /\ Fail(p)
    /\ UNCHANGED <<stage, event, matched, log, all, calls>>

(* The envelope of a request, after the topic's schema has accepted it.     *)
Accept(p, c, id, t, v) ==
    \/ v \notin TopicSchema[t] /\ Rejected(p, c)
    \/ /\ v \in TopicSchema[t]
       /\ cmd' = [cmd EXCEPT ![p] = c]
       /\ event' = [event EXCEPT ![p] = [id |-> id, topic |-> t, payload |-> v]]
       /\ pc' = [pc EXCEPT ![p] = "log_event"]
       /\ UNCHANGED <<stage, matched, log, result, all, calls>>

PublishEvent(p, c) ==
    /\ pc[p] = "idle" /\ c.kind = "publish"
    /\ Accept(p, c, <<"new", p>>, c.topic, c.payload)

ReplayId(d) == <<"replay", d>>

ReplayDelivery(p, c) ==
    /\ pc[p] = "idle" /\ c.kind = "replay_delivery"
    /\ \/ (~Readable("dlq") \/ \A n \in Full("dlq") : Record("dlq", n).id # c.delivery) /\ Rejected(p, c)
       \/ /\ Readable("dlq")
          /\ \E n \in Full("dlq") :
               /\ Find("dlq", n, c.delivery)
               /\ LET e == Record("dlq", n).event
                  IN  Accept(p, c, ReplayId(c.delivery), e.topic, e.payload)

ReplayEvent(p, c) ==
    /\ pc[p] = "idle" /\ c.kind = "replay_event"
    /\ \/ (~Readable("events") \/ \A n \in Full("events") : Record("events", n).id # c.event) /\ Rejected(p, c)
       \/ /\ Readable("events")
          /\ \E n \in Full("events") :
               /\ Find("events", n, c.event)
               /\ LET e == Record("events", n)
                  IN  Accept(p, c, <<"new", p>>, e.topic, e.payload)

(* Mutant: replaying a dead letter forgets the subscription filter. *)
Bug_Selected(p, s) == TRUE

(***************************************************************************)
(* A replay goes by the subscription_id of the dead letter, which is that   *)
(* of the subscription whose delivery it was: every subscription of that id *)
(* is selected, those of other packs included.                              *)
(***************************************************************************)
Selected(p, s) == cmd[p].kind = "replay_delivery" => SubId(s) = SubId(cmd[p].delivery[2])

Matches(p, s) ==
    /\ Subscriptions[s].topic = event[p].topic
    /\ Selected(p, s)
    /\ event[p].payload \in Subscriptions[s].filter

(* The subscriptions that match, in their order. *)
Matching(p) == FlattenSeq([s \in SubIx |-> IF Matches(p, s) THEN <<s>> ELSE <<>>])

LogEvent(p) ==
    /\ pc[p] = "log_event"
    /\ Appending(p, /\ pc' = [pc EXCEPT ![p] = "deliver"]
         /\ matched' = [matched EXCEPT ![p] = Matching(p)]
         /\ UNCHANGED result)
    /\ all' = IF stage[p] = "newline" THEN [all EXCEPT ![p] = {s \in SubIx : Matches(p, s)}] ELSE all
    /\ UNCHANGED <<cmd, event, calls>>

(* Mutant: the subscription is tried again instead. *)
Bug_SubscriptionSchema(p) ==
    /\ pc[p] = "deliver" /\ matched[p] # <<>> /\ Attempts(p) = 0
    /\ event[p].payload \notin Subscriptions[Current(p)].schema
    /\ UNCHANGED vars

(* A payload the subscription's schema refuses ends the whole publish. *)
SubscriptionSchema(p) ==
    /\ pc[p] = "deliver" /\ matched[p] # <<>> /\ Attempts(p) = 0
    /\ event[p].payload \notin Subscriptions[Current(p)].schema
    /\ Fail(p)
    /\ UNCHANGED <<stage, cmd, event, matched, log, all, calls>>

AfterFailure(p) == IF Attempts(p) + 1 >= MaxAttempts(Current(p)) THEN "log_err" ELSE "deliver"

(* The call succeeds, fails (and is retried), or is an Err, which ends the  *)
(* whole publish.                                                           *)
Deliver(p) ==
    /\ pc[p] = "deliver" /\ matched[p] # <<>>
    /\ event[p].payload \in Subscriptions[Current(p)].schema
    /\ \/ /\ calls' = [calls EXCEPT ![p][Current(p)] = Append(@, "ok")]
          /\ pc' = [pc EXCEPT ![p] = "log_ok"]
          /\ UNCHANGED result
       \/ /\ calls' = [calls EXCEPT ![p][Current(p)] = Append(@, "fail")]
          /\ pc' = [pc EXCEPT ![p] = AfterFailure(p)]
          /\ UNCHANGED result
       \/ Fail(p) /\ UNCHANGED calls
    /\ UNCHANGED <<stage, cmd, event, matched, log, all>>

Served(p) ==
    /\ pc' = [pc EXCEPT ![p] = "deliver"]
    /\ matched' = [matched EXCEPT ![p] = Tail(@)]

LogOk(p) ==
    /\ pc[p] = "log_ok"
    /\ Appending(p, Served(p) /\ result' = [result EXCEPT ![p].ok = @ + 1])
    /\ UNCHANGED <<cmd, event, all, calls>>

LogErr(p) ==
    /\ pc[p] = "log_err"
    /\ Appending(p, pc' = [pc EXCEPT ![p] = "log_dlq"] /\ UNCHANGED <<matched, result>>)
    /\ UNCHANGED <<cmd, event, all, calls>>

(* Mutant: the failed delivery is not counted. *)
Bug_CountFailed(p) == result

CountFailed(p) == [result EXCEPT ![p].failed = @ + 1]

LogDlq(p) ==
    /\ pc[p] = "log_dlq"
    /\ Appending(p, Served(p) /\ result' = CountFailed(p))
    /\ UNCHANGED <<cmd, event, all, calls>>

Report(p) ==
    /\ pc[p] = "deliver" /\ matched[p] = <<>>
    /\ pc' = [pc EXCEPT ![p] = "done"]
    /\ result' = [result EXCEPT ![p].status = "ok"]
    /\ UNCHANGED <<stage, cmd, event, matched, log, all, calls>>

-----------------------------------------------------------------------------
(***************************************************************************)
(* The process dies, or an append fails and the command ends with its       *)
(* error: the record being written may be cut short.                        *)
(***************************************************************************)
Crash(p) ==
    /\ pc[p] \notin {"idle", "done", "crashed"}
    /\ Cardinality({q \in Procs : pc[q] = "crashed"}) < MaxCrashes
    /\ pc' = [pc EXCEPT ![p] = "crashed"]
    /\ \/ UNCHANGED log
       \/ /\ pc[p] \in Logging /\ stage[p] = "record"
          /\ log' = Put(Target(pc[p]), "part", Entry(p))
    /\ UNCHANGED <<stage, cmd, event, matched, result, all, calls>>

Running == {p \in Procs : pc[p] \notin {"idle", "done", "crashed"}}

Start(p) ==
    /\ Cardinality(Running) < cast.limit
    /\ \E c \in cast.commands[p] : PublishEvent(p, c) \/ ReplayDelivery(p, c) \/ ReplayEvent(p, c)

Work(p) == LogEvent(p) \/ SubscriptionSchema(p) \/ Deliver(p) \/ LogOk(p) \/ LogErr(p) \/ LogDlq(p)
           \/ Report(p)

Next == (\E p \in Procs : Start(p) \/ Work(p) \/ Crash(p)) /\ UNCHANGED cast

(* A command that is not killed goes on. *)
Fairness == \A p \in Procs : WF_vars(Work(p) /\ UNCHANGED cast)

Spec == Init /\ [][Next]_vars /\ Fairness

-----------------------------------------------------------------------------
RecordsIn(f) == CASE f = "events" -> EventRec [] f = "deliveries" -> DeliveryRec [] f = "dlq" -> DeadRec

(* Every variable has its type; the logs hold records of their own kind.    *)
TypeOK ==
    /\ cast \in Casts
    /\ pc \in [Procs -> PCs] /\ stage \in [Procs -> Stages]
    /\ \A p \in Procs :
         /\ cmd[p] \in Command \cup {NoCommand}
         /\ event[p] \in EventRec \cup {NoEvent}
         /\ all[p] \subseteq SubIx
         /\ \A k \in DOMAIN matched[p] : matched[p][k] \in all[p]
         /\ result[p].status \in {"none", "ok", "err"}
    /\ \A f \in Files : \A n \in DOMAIN log[f] : \A k \in DOMAIN log[f][n] :
         log[f][n][k] \in {"whole", "part"} \X RecordsIn(f)

(***************************************************************************)
(* A publish that reports success has accounted for every matching          *)
(* subscription: it was delivered to, or all its attempts failed and a dead *)
(* letter with this event was written; nobody was called again after taking *)
(* the event or beyond max_attempts (at least one); and the two counts of    *)
(* the PublishReport say how many of each there are.                        *)
(***************************************************************************)
Delivered(p) == {s \in all[p] : calls[p][s] # <<>> /\ calls[p][s][Len(calls[p][s])] = "ok"}
Dead(p) == {s \in all[p] : [id |-> <<p, s>>, event |-> event[p], sub |-> SubId(s)] \in Written("dlq")}

ReportAccountsForAll ==
    \A p \in Procs : result[p].status = "ok" =>
      /\ Delivered(p) \cap Dead(p) = {} /\ Delivered(p) \cup Dead(p) = all[p]
      /\ \A s \in Dead(p) : Len(calls[p][s]) = MaxAttempts(s)
      /\ \A s \in Delivered(p) : /\ \A k \in 1..(Len(calls[p][s]) - 1) : calls[p][s][k] = "fail"
                                 /\ Len(calls[p][s]) <= MaxAttempts(s)
      /\ result[p].ok = Cardinality(Delivered(p)) /\ result[p].failed = Cardinality(Dead(p))

(***************************************************************************)
(* A dead letter is only written for a delivery that was recorded as failed *)
(* before, so an id found in dlq.jsonl can be looked up in                  *)
(* deliveries.jsonl even if the process died right after writing it.        *)
(***************************************************************************)
DeadLetterWasRecorded ==
    \A d \in Written("dlq") :
      \E r \in Written("deliveries") : r.id = d.id /\ r.status = "err" /\ r.sub = d.sub

(***************************************************************************)
(* Replaying a dead letter calls only subscriptions with the id the dead    *)
(* letter records, with the topic and payload that failed, and a replay     *)
(* that reports success has called the very subscription that failed.  Ids  *)
(* may repeat across packs: another pack's subscription of the same id is   *)
(* called too if it matches the event, even if its own delivery succeeded.  *)
(***************************************************************************)
ReplaysOnlyTheFailed ==
    \A p \in Procs : cmd[p].kind = "replay_delivery" =>
      /\ \A s \in SubIx : calls[p][s] # <<>> =>
           \E d \in Written("dlq") : /\ d.id = cmd[p].delivery /\ d.sub = SubId(s)
                                   /\ d.event.topic = event[p].topic
                                   /\ d.event.payload = event[p].payload
      /\ result[p].status = "ok" => calls[p][cmd[p].delivery[2]] # <<>>

(* Every command that is not killed returns: retries cannot go on forever.  *)
CommandsReturn ==
    \A p \in Procs : (pc[p] # "idle") ~> (pc[p] \in {"done", "crashed"})
=============================================================================
