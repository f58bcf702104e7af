-------------------------- MODULE CapEventsProofs --------------------------
(***************************************************************************)
(* Proofs about publish and replay of capability events, for any number of  *)
(* commands running at the same time on the three logs, any of which may    *)
(* die at any point, and any topics, payloads and subscriptions.            *)
(***************************************************************************)
EXTENDS CapEvents, SequenceLemmas

-----------------------------------------------------------------------------
(* The log files. *)

(* Everything written to the lines l of a file. *)
WrittenIn(l) == UNION {{l[n][k][2] : k \in DOMAIN l[n]} : n \in DOMAIN l}

LEMMA WrittenIs == \A f \in Files : Written(f) = WrittenIn(log[f])
BY DEF Written, WrittenIn

LEMMA InWritten ==
    ASSUME NEW l, NEW x
    PROVE  x \in WrittenIn(l) <=> \E n \in DOMAIN l : \E k \in DOMAIN l[n] : x = l[n][k][2]
<1>1. x \in WrittenIn(l) <=> \E n \in DOMAIN l : x \in {l[n][k][2] : k \in DOMAIN l[n]}
  BY DEF WrittenIn
<1> QED
  BY <1>1

(* Replacing the last of n values. *)
LEMMA LastReplaced ==
    ASSUME NEW n \in Nat \ {0}, NEW Q, NEW l \in [1..n -> Q], NEW v \in Q
    PROVE  LET m == [l EXCEPT ![n] = v]
           IN  m \in [1..n -> Q] /\ m[n] = v /\ \A i \in 1..n : i # n => m[i] = l[i]
OBVIOUS

(* A function on an initial segment of the naturals is a sequence. *)
LEMMA SeqIsFunction ==
    ASSUME NEW Q
    PROVE  /\ \A n \in Nat : \A m \in [1..n -> Q] : m \in Seq(Q) /\ Len(m) = n
           /\ \A l \in Seq(Q) : Len(l) \in Nat /\ l \in [1..Len(l) -> Q] /\ (l # <<>> <=> Len(l) # 0)
OBVIOUS

(* Writing to the last line keeps what was written and adds what is written. *)
LEMMA PutAdds ==
    ASSUME NEW K, NEW l \in Seq(Seq(K)), l # <<>>, NEW x \in K
    PROVE  LET m == [l EXCEPT ![Len(l)] = Append(@, x)]
           IN  m \in Seq(Seq(K)) /\ m # <<>> /\ WrittenIn(m) = WrittenIn(l) \cup {x[2]}
<1> DEFINE n == Len(l)
           v == Append(l[n], x)
           m == [l EXCEPT ![n] = v]
<1>1. n \in Nat \ {0} /\ l \in [1..n -> Seq(K)]
  BY SeqIsFunction
<1>a. l[n] \in Seq(K)
  BY <1>1
<1>3. v \in Seq(K) /\ DOMAIN v = 1..(Len(l[n]) + 1) /\ DOMAIN l[n] = 1..Len(l[n]) /\ Len(l[n]) \in Nat
      /\ v[Len(l[n]) + 1] = x /\ \A k \in 1..Len(l[n]) : v[k] = l[n][k]
  BY <1>a
<1> HIDE DEF v, n
<1>2. m \in [1..n -> Seq(K)] /\ m[n] = v /\ \A i \in 1..n : i # n => m[i] = l[i]
  BY <1>1, <1>3, LastReplaced
<1> HIDE DEF m
<1>4. m \in Seq(Seq(K)) /\ m # <<>> /\ DOMAIN m = 1..n /\ DOMAIN l = 1..n
  <2>1. m \in Seq(Seq(K)) /\ Len(m) = n
    BY <1>1, <1>2, SeqIsFunction
  <2> QED
    BY <1>1, <1>2, <2>1, SeqIsFunction
<1>5. ASSUME NEW i \in 1..n, NEW k \in DOMAIN l[i]
      PROVE  k \in DOMAIN m[i] /\ m[i][k] = l[i][k]
  <2>1. CASE i = n
    <3>1. k \in 1..Len(l[n])
      BY <1>3, <1>5, <2>1, Zenon
    <3>2. k \in 1..(Len(l[n]) + 1)
      BY <1>3, <3>1
    <3> QED
      BY <1>2, <1>3, <2>1, <3>1, <3>2, Zenon
  <2>2. CASE i # n
    BY <1>2, <1>5, <2>2, Zenon
  <2> QED
    BY <2>1, <2>2
<1>6. ASSUME NEW i \in 1..n, NEW k \in DOMAIN m[i]
      PROVE  m[i][k] = x \/ (k \in DOMAIN l[i] /\ m[i][k] = l[i][k])
  <2>1. CASE i = n
    <3>1. k \in 1..(Len(l[n]) + 1)
      BY <1>2, <1>3, <1>6, <2>1, Zenon
    <3>2. k \in 1..Len(l[n]) \/ k = Len(l[n]) + 1
      BY <1>3, <3>1
    <3> QED
      BY <1>2, <1>3, <2>1, <3>2, Zenon
  <2>2. CASE i # n
    BY <1>2, <1>6, <2>2, Zenon
  <2> QED
    BY <2>1, <2>2
<1>7. n \in DOMAIN m /\ \E k \in DOMAIN m[n] : m[n][k] = x
  BY <1>1, <1>2, <1>3
<1>8. ASSUME NEW y PROVE y \in WrittenIn(m) <=> y \in WrittenIn(l) \cup {x[2]}
  <2>1. y \in WrittenIn(m) => y \in WrittenIn(l) \cup {x[2]}
    <3> SUFFICES ASSUME y \in WrittenIn(m) PROVE y \in WrittenIn(l) \cup {x[2]}
      OBVIOUS
    <3>1. PICK i \in DOMAIN m : \E k \in DOMAIN m[i] : y = m[i][k][2]
      BY InWritten
    <3>2. PICK k \in DOMAIN m[i] : y = m[i][k][2]
      BY <3>1
    <3>3. m[i][k] = x \/ (k \in DOMAIN l[i] /\ m[i][k] = l[i][k])
      BY <1>4, <1>6, Zenon
    <3> QED
      BY <1>4, <3>2, <3>3, InWritten, Zenon
  <2>2. y \in WrittenIn(l) => y \in WrittenIn(m)
    <3> SUFFICES ASSUME y \in WrittenIn(l) PROVE y \in WrittenIn(m)
      OBVIOUS
    <3>1. PICK i \in DOMAIN l : \E k \in DOMAIN l[i] : y = l[i][k][2]
      BY InWritten
    <3>2. PICK k \in DOMAIN l[i] : y = l[i][k][2]
      BY <3>1
    <3>3. k \in DOMAIN m[i] /\ m[i][k] = l[i][k]
      BY <1>4, <1>5, Zenon
    <3> QED
      BY <1>4, <3>2, <3>3, InWritten, Zenon
  <2>3. x[2] \in WrittenIn(m)
    BY <1>7, InWritten, Zenon
  <2> QED
    BY <2>1, <2>2, <2>3
<1>9. WrittenIn(m) = WrittenIn(l) \cup {x[2]}
  BY <1>8
<1> QED
  BY <1>4, <1>9 DEF m, v, n

(* A new line adds nothing. *)
LEMMA NewlineAdds ==
    ASSUME NEW K, NEW l \in Seq(Seq(K))
    PROVE  Append(l, <<>>) \in Seq(Seq(K)) /\ Append(l, <<>>) # <<>> /\ WrittenIn(Append(l, <<>>)) = WrittenIn(l)
<1> DEFINE m == Append(l, <<>>)
<1>1. /\ m \in Seq(Seq(K)) /\ DOMAIN m = 1..(Len(l) + 1) /\ DOMAIN l = 1..Len(l) /\ Len(l) \in Nat
      /\ m[Len(l) + 1] = <<>> /\ \A i \in 1..Len(l) : m[i] = l[i]
  <2>1. <<>> \in Seq(K)
    OBVIOUS
  <2> QED
    BY <2>1
<1>2. m # <<>>
  BY <1>1
<1> HIDE DEF m
<1>3. ASSUME NEW y PROVE y \in WrittenIn(m) <=> y \in WrittenIn(l)
  <2>1. ASSUME NEW i \in DOMAIN m, NEW k \in DOMAIN m[i] PROVE i \in DOMAIN l /\ m[i] = l[i]
    <3>0. DOMAIN <<>> = {}
      OBVIOUS
    <3>1. DOMAIN m[Len(l) + 1] = {}
      BY <1>1, <3>0, Zenon
    <3>2. ASSUME i = Len(l) + 1 PROVE FALSE
      <4>1. DOMAIN m[i] = {}
        BY <3>1, <3>2, Zenon
      <4> QED
        BY <2>1, <4>1, Zenon
    <3>3. i \in 1..(Len(l) + 1)
      BY <1>1, Zenon
    <3>4. Len(l) \in Nat
      BY <1>1
    <3>5. i \in 1..Len(l)
      BY <3>2, <3>3, <3>4
    <3> QED
      BY <1>1, <3>5, Zenon
  <2>2. \A i \in DOMAIN l : i \in DOMAIN m /\ m[i] = l[i]
    BY <1>1
  <2>3. y \in WrittenIn(m) => y \in WrittenIn(l)
    <3> SUFFICES ASSUME y \in WrittenIn(m) PROVE y \in WrittenIn(l)
      OBVIOUS
    <3>1. PICK i \in DOMAIN m : \E k \in DOMAIN m[i] : y = m[i][k][2]
      BY InWritten
    <3>2. PICK k \in DOMAIN m[i] : y = m[i][k][2]
      BY <3>1
    <3>3. i \in DOMAIN l /\ m[i] = l[i]
      BY <2>1, Zenon
    <3> QED
      BY <3>2, <3>3, InWritten, Zenon
  <2>4. y \in WrittenIn(l) => y \in WrittenIn(m)
    <3> SUFFICES ASSUME y \in WrittenIn(l) PROVE y \in WrittenIn(m)
      OBVIOUS
    <3>1. PICK i \in DOMAIN l : \E k \in DOMAIN l[i] : y = l[i][k][2]
      BY InWritten
    <3> QED
      BY <2>2, <3>1, InWritten, Zenon
  <2> QED
    BY <2>3, <2>4
<1>4. WrittenIn(m) = WrittenIn(l)
  BY <1>3
<1> QED
  BY <1>1, <1>2, <1>4 DEF m

-----------------------------------------------------------------------------
(* Types, and what a command at some point has in hand. *)

Lines(f) == Seq({"whole", "part"} \X RecordsIn(f))
Results == [status : {"none", "ok", "err"}, ok : Nat, failed : Nat]

LogType ==
    /\ DOMAIN log = Files
    /\ \A f \in Files : log[f] \in Seq(Lines(f)) /\ log[f] # <<>>

(* The types of TypeOK with the domains and the variables it leaves out. *)
TypeInv ==
    /\ cast \in Casts
    /\ pc \in [Procs -> PCs] /\ stage \in [Procs -> Stages]
    /\ cmd \in [Procs -> Command \cup {NoCommand}]
    /\ event \in [Procs -> EventRec \cup {NoEvent}]
    /\ matched \in [Procs -> Seq(SubIx)]
    /\ result \in [Procs -> Results]
    /\ all \in [Procs -> SUBSET SubIx]
    /\ calls \in [Procs -> [SubIx -> Seq({"ok", "fail"})]]

(* A command that logs a delivery is serving a subscription, one that has    *)
(* begun has its envelope, and an append always starts with the record.      *)
WhereInv ==
    \A p \in Procs :
      /\ pc[p] \in {"log_ok", "log_err", "log_dlq"} => matched[p] # <<>>
      /\ pc[p] \in Logging \cup {"deliver"} => event[p] \in EventRec
      /\ pc[p] \notin Logging \cup {"crashed"} => stage[p] = "record"

Base == LogType /\ TypeInv /\ WhereInv

(* The records a log is for. *)
LEMMA RecordKinds ==
    RecordsIn("events") = EventRec /\ RecordsIn("deliveries") = DeliveryRec /\ RecordsIn("dlq") = DeadRec
BY DEF RecordsIn

(* A record that is put into a file is written to it and to no other. *)
LEMMA PutLog ==
    ASSUME LogType, NEW f \in Files, NEW kind \in {"whole", "part"}, NEW r \in RecordsIn(f), log' = Put(f, kind, r)
    PROVE  /\ LogType'
           /\ Written(f)' = Written(f) \cup {r}
           /\ \A g \in Files : g # f => Written(g)' = Written(g)
<1> DEFINE K == {"whole", "part"} \X RecordsIn(f)
           x == <<kind, r>>
           l == log[f]
           m == [l EXCEPT ![Len(l)] = Append(@, x)]
<1>1. x \in K /\ x[2] = r /\ l \in Seq(Seq(K)) /\ l # <<>>
  BY DEF LogType, Lines
<1>2. log' = [log EXCEPT ![f] = m]
  BY DEF Put, LogType
<1>3. DOMAIN log' = Files /\ log'[f] = m /\ \A g \in Files : g # f => log'[g] = log[g]
  <2> HIDE DEF m
  <2> QED
    BY <1>2 DEF LogType
<1> HIDE DEF x, l
<1>4. m \in Seq(Seq(K)) /\ m # <<>> /\ WrittenIn(m) = WrittenIn(l) \cup {r}
  <2> HIDE DEF K
  <2>1. m \in Seq(Seq(K)) /\ m # <<>> /\ WrittenIn(m) = WrittenIn(l) \cup {x[2]}
    BY <1>1, PutAdds, Zenon DEF m
  <2> QED
    BY <1>1, <2>1, Zenon
<1> HIDE DEF m
<1>5. log'[f] \in Seq(Lines(f)) /\ log'[f] # <<>>
  BY <1>3, <1>4 DEF Lines
<1>6. LogType'
  BY <1>3, <1>5 DEF LogType
<1>7. \A g \in Files : Written(g)' = WrittenIn(log'[g]) /\ Written(g) = WrittenIn(log[g])
  BY DEF Written, WrittenIn
<1> QED
  BY <1>3, <1>4, <1>6, <1>7 DEF l

(* A new line in a file writes nothing. *)
LEMMA NewlineLog ==
    ASSUME LogType, NEW f \in Files, log' = [log EXCEPT ![f] = Append(@, <<>>)]
    PROVE  LogType' /\ \A g \in Files : Written(g)' = Written(g)
<1> DEFINE K == {"whole", "part"} \X RecordsIn(f)
           l == log[f]
           m == Append(l, <<>>)
<1>1. l \in Seq(Seq(K))
  BY DEF LogType, Lines
<1>2. DOMAIN log' = Files /\ log'[f] = m /\ \A g \in Files : g # f => log'[g] = log[g]
  BY DEF LogType
<1>3. m \in Seq(Seq(K)) /\ m # <<>> /\ WrittenIn(m) = WrittenIn(l)
  BY <1>1, NewlineAdds
<1> HIDE DEF m
<1>5. log'[f] \in Seq(Lines(f)) /\ log'[f] # <<>>
  BY <1>2, <1>3 DEF Lines
<1>6. LogType'
  BY <1>2, <1>5 DEF LogType
<1>7. \A g \in Files : Written(g)' = WrittenIn(log'[g]) /\ Written(g) = WrittenIn(log[g])
  BY DEF Written, WrittenIn
<1> QED
  BY <1>2, <1>3, <1>6, <1>7

(* A subscription has an id. *)
LEMMA SubIdType == \A s \in SubIx : SubId(s) \in SubIds
<1> SUFFICES ASSUME NEW s \in SubIx PROVE SubId(s) \in SubIds
  OBVIOUS
<1> DEFINE R == [id : SubIds, topic : Topics, filter : SUBSET Payloads, schema : SUBSET Payloads, max_attempts : Nat]
<1>1. Subscriptions \in Seq(R) /\ s \in DOMAIN Subscriptions
  BY EventsAssumption DEF SubIx
<1>2. Subscriptions[s] \in R
  <2> HIDE DEF R
  <2> QED
    BY <1>1
<1> QED
  BY <1>2 DEF SubId

(* What a command is about to log is a record of that log. *)
LEMMA EntryType ==
    ASSUME Base, NEW p \in Procs, pc[p] \in Logging
    PROVE  Target(pc[p]) \in Files /\ Entry(p) \in RecordsIn(Target(pc[p]))
<1>1. event[p] \in EventRec /\ event[p].id \in EventIds
  BY DEF Base, WhereInv, EventRec
<1>2. CASE pc[p] = "log_event"
  BY <1>1, <1>2, RecordKinds DEF Target, Entry, Files
<1>3. ASSUME pc[p] # "log_event" PROVE Current(p) \in SubIx /\ SubId(Current(p)) \in SubIds /\ Attempts(p) \in Nat
  <2>1. matched[p] \in Seq(SubIx) /\ matched[p] # <<>> /\ calls[p] \in [SubIx -> Seq({"ok", "fail"})]
    BY <1>3 DEF Base, WhereInv, TypeInv, Logging
  <2>2. Current(p) \in SubIx
    BY <2>1 DEF Current
  <2> QED
    BY <2>1, <2>2, SubIdType DEF Attempts
<1>4. CASE pc[p] \in {"log_ok", "log_err"}
  <2>1. Target(pc[p]) = "deliveries"
    BY <1>4 DEF Target
  <2>2. Entry(p) = [id |-> <<p, Current(p)>>, event |-> event[p].id, sub |-> SubId(Current(p)),
                    status |-> IF pc[p] = "log_ok" THEN "ok" ELSE "err", attempts |-> Attempts(p)]
    BY <2>1 DEF Entry
  <2>3. Entry(p) \in DeliveryRec
    BY <1>1, <1>3, <1>4, <2>2 DEF DeliveryRec, DeliveryIds
  <2> QED
    BY <2>1, <2>3, RecordKinds DEF Files
<1>5. CASE pc[p] = "log_dlq"
  <2>1. Target(pc[p]) = "dlq"
    BY <1>5 DEF Target
  <2>2. Entry(p) = [id |-> <<p, Current(p)>>, event |-> event[p], sub |-> SubId(Current(p))]
    BY <2>1 DEF Entry
  <2>3. Entry(p) \in DeadRec
    BY <1>1, <1>3, <1>5, <2>2 DEF DeadRec, DeliveryIds
  <2> QED
    BY <2>1, <2>3, RecordKinds DEF Files
<1> QED
  BY <1>2, <1>4, <1>5 DEF Logging

-----------------------------------------------------------------------------
(* The steps a command can take, whichever action takes them. *)

RejectStep(p) ==
    /\ pc[p] = "idle"
    /\ \E c \in Command : cmd' = [cmd EXCEPT ![p] = c]
    /\ Fail(p)
    /\ UNCHANGED <<stage, event, matched, log, all, calls>>

(* A replay of a dead letter takes its topic and payload from one that is written. *)
BeginStep(p) ==
    /\ pc[p] = "idle"
    /\ \E c \in Command, e \in EventRec :
         /\ cmd' = [cmd EXCEPT ![p] = c] /\ event' = [event EXCEPT ![p] = e]
         /\ c.kind = "replay_delivery" =>
              \E d \in Written("dlq") : d.id = c.delivery /\ d.event.topic = e.topic /\ d.event.payload = e.payload
    /\ pc' = [pc EXCEPT ![p] = "log_event"]
    /\ UNCHANGED <<stage, matched, log, result, all, calls>>

RecordStep(p) ==
    /\ pc[p] \in Logging /\ stage[p] = "record"
    /\ log' = Put(Target(pc[p]), "whole", Entry(p))
    /\ stage' = [stage EXCEPT ![p] = "newline"]
    /\ UNCHANGED <<pc, cmd, event, matched, result, all, calls>>

NewlineStep(p, at, f) ==
    /\ pc[p] = at /\ stage[p] = "newline"
    /\ log' = [log EXCEPT ![f] = Append(@, <<>>)]
    /\ stage' = [stage EXCEPT ![p] = "record"]
    /\ UNCHANGED <<cmd, event, calls>>

MatchStep(p) ==
    /\ NewlineStep(p, "log_event", "events")
    /\ pc' = [pc EXCEPT ![p] = "deliver"]
    /\ matched' = [matched EXCEPT ![p] = Matching(p)]
    /\ all' = [all EXCEPT ![p] = {s \in SubIx : Matches(p, s)}]
    /\ UNCHANGED result

OkStep(p) ==
    /\ NewlineStep(p, "log_ok", "deliveries") /\ Served(p)
    /\ result' = [result EXCEPT ![p].ok = @ + 1] /\ UNCHANGED all

ErrStep(p) ==
    /\ NewlineStep(p, "log_err", "deliveries")
    /\ pc' = [pc EXCEPT ![p] = "log_dlq"] /\ UNCHANGED <<matched, result, all>>

DeadStep(p) ==
    /\ NewlineStep(p, "log_dlq", "dlq") /\ Served(p)
    /\ result' = CountFailed(p) /\ UNCHANGED all

FailStep(p) ==
    /\ pc[p] = "deliver" /\ Fail(p)
    /\ UNCHANGED <<stage, cmd, event, matched, log, all, calls>>

CallStep(p) ==
    /\ pc[p] = "deliver" /\ matched[p] # <<>>
    /\ \E o \in {"ok", "fail"} :
         /\ calls' = [calls EXCEPT ![p][Current(p)] = Append(@, o)]
         /\ pc' = [pc EXCEPT ![p] = IF o = "ok" THEN "log_ok" ELSE AfterFailure(p)]
    /\ UNCHANGED <<stage, cmd, event, matched, log, result, all>>

ProcStep(p) ==
    \/ RejectStep(p) \/ BeginStep(p) \/ RecordStep(p) \/ MatchStep(p) \/ OkStep(p) \/ ErrStep(p)
    \/ DeadStep(p) \/ FailStep(p) \/ CallStep(p) \/ Report(p) \/ Crash(p)

(* The fields of a command. *)
LEMMA CommandFields ==
    ASSUME NEW c \in Command
    PROVE  /\ c.kind = "publish" => c.topic \in Topics /\ c.payload \in Payloads
           /\ c.kind = "replay_delivery" => c.delivery \in DeliveryIds
           /\ c.kind = "replay_event" => c.event \in EventIds
BY DEF Command

(* A record found in a log that can be read is written there. *)
LEMMA FoundIsWritten ==
    ASSUME LogType, NEW f \in Files, NEW n \in Full(f)
    PROVE  Record(f, n) \in Written(f) /\ Record(f, n) \in RecordsIn(f)
<1>1. n \in DOMAIN log[f] /\ log[f][n] # <<>> /\ log[f][n] \in Lines(f)
  BY DEF Full, LogType
<1>2. 1 \in DOMAIN log[f][n] /\ log[f][n][1] \in {"whole", "part"} \X RecordsIn(f)
  BY <1>1 DEF Lines
<1>3. Record(f, n) \in Written(f)
  BY <1>1, <1>2, InWritten, WrittenIs DEF Record
<1> QED
  BY <1>2, <1>3 DEF Record

(* Starting a command is one of the first two. *)
LEMMA StartSteps ==
    ASSUME Base, NEW p \in Procs, Start(p)
    PROVE  RejectStep(p) \/ BeginStep(p)
<1>0. LogType /\ TypeInv
  BY DEF Base
<1>1. PICK c \in cast.commands[p] : PublishEvent(p, c) \/ ReplayDelivery(p, c) \/ ReplayEvent(p, c)
  BY DEF Start
<1>2. c \in Command
  BY <1>0, EventsAssumption DEF TypeInv
<1>3. pc[p] = "idle"
  BY <1>1 DEF PublishEvent, ReplayDelivery, ReplayEvent
<1>4. Rejected(p, c) => RejectStep(p)
  BY <1>2, <1>3 DEF Rejected, RejectStep
<1>5. ASSUME NEW id \in EventIds, NEW t \in Topics, NEW v \in Payloads, Accept(p, c, id, t, v),
             c.kind = "replay_delivery" =>
               \E d \in Written("dlq") : d.id = c.delivery /\ d.event.topic = t /\ d.event.payload = v
      PROVE  RejectStep(p) \/ BeginStep(p)
  <2> DEFINE e == [id |-> id, topic |-> t, payload |-> v]
  <2>1. e \in EventRec /\ e.topic = t /\ e.payload = v
    BY DEF EventRec
  <2> HIDE DEF e
  <2>2. CASE Rejected(p, c)
    BY <1>4, <2>2
  <2>3. CASE /\ cmd' = [cmd EXCEPT ![p] = c] /\ event' = [event EXCEPT ![p] = e]
             /\ pc' = [pc EXCEPT ![p] = "log_event"]
             /\ UNCHANGED <<stage, matched, log, result, all, calls>>
    BY <1>2, <1>3, <1>5, <2>1, <2>3 DEF BeginStep
  <2> QED
    BY <1>5, <2>2, <2>3 DEF Accept, e
<1>6. CASE PublishEvent(p, c)
  <2>1. <<"new", p>> \in EventIds /\ c.topic \in Topics /\ c.payload \in Payloads /\ c.kind = "publish"
    BY <1>2, <1>6, CommandFields DEF PublishEvent, EventIds
  <2> QED
    BY <1>5, <1>6, <2>1 DEF PublishEvent
<1>7. CASE ReplayDelivery(p, c)
  <2>1. ReplayId(c.delivery) \in EventIds
    BY <1>2, <1>7, CommandFields DEF ReplayDelivery, EventIds, ReplayId
  <2>2. ASSUME NEW n \in Full("dlq"), Find("dlq", n, c.delivery),
               Accept(p, c, ReplayId(c.delivery), Record("dlq", n).event.topic, Record("dlq", n).event.payload)
        PROVE  RejectStep(p) \/ BeginStep(p)
    <3> DEFINE d == Record("dlq", n)
    <3>1. d \in Written("dlq") /\ d \in DeadRec /\ d.id = c.delivery
      BY <1>0, <2>2, FoundIsWritten, RecordKinds DEF Find, Files
    <3> HIDE DEF d
    <3>2. d.event.topic \in Topics /\ d.event.payload \in Payloads
      BY <3>1 DEF DeadRec, EventRec
    <3>3. Accept(p, c, ReplayId(c.delivery), d.event.topic, d.event.payload)
      BY <2>2 DEF d
    <3> QED
      BY <1>5, <2>1, <3>1, <3>2, <3>3
  <2> QED
    BY <1>4, <1>7, <2>2 DEF ReplayDelivery
<1>8. CASE ReplayEvent(p, c)
  <2>1. ASSUME NEW n \in Full("events"),
               Accept(p, c, <<"new", p>>, Record("events", n).topic, Record("events", n).payload)
        PROVE  RejectStep(p) \/ BeginStep(p)
    <3> DEFINE e == Record("events", n)
    <3>1. e \in EventRec
      BY <1>0, FoundIsWritten, RecordKinds DEF Files
    <3> HIDE DEF e
    <3>2. e.topic \in Topics /\ e.payload \in Payloads /\ <<"new", p>> \in EventIds /\ c.kind # "replay_delivery"
      BY <1>8, <3>1 DEF EventRec, EventIds, ReplayEvent
    <3>3. Accept(p, c, <<"new", p>>, e.topic, e.payload)
      BY <2>1 DEF e
    <3> QED
      BY <1>5, <3>2, <3>3
  <2> QED
    BY <1>4, <1>8, <2>1 DEF ReplayEvent
<1> QED
  BY <1>1, <1>6, <1>7, <1>8

LEMMA Steps ==
    ASSUME Base, [Next]_vars
    PROVE  (\E p \in Procs : ProcStep(p) /\ cast' = cast) \/ UNCHANGED vars
<1>1. ASSUME NEW p \in Procs, Work(p)
      PROVE  ProcStep(p)
  <2> USE DEF Logging
  <2>1. CASE LogEvent(p)
    <3>1. Target("log_event") = "events"
      BY DEF Target
    <3> QED
      BY <2>1, <3>1 DEF LogEvent, Appending, ProcStep, RecordStep, MatchStep, NewlineStep
  <2>2. CASE LogOk(p)
    <3>1. Target("log_ok") = "deliveries"
      BY DEF Target
    <3> QED
      BY <2>2, <3>1 DEF LogOk, Appending, ProcStep, RecordStep, OkStep, NewlineStep
  <2>3. CASE LogErr(p)
    <3>1. Target("log_err") = "deliveries"
      BY DEF Target
    <3> QED
      BY <2>3, <3>1 DEF LogErr, Appending, ProcStep, RecordStep, ErrStep, NewlineStep
  <2>4. CASE LogDlq(p)
    <3>1. Target("log_dlq") = "dlq"
      BY DEF Target
    <3> QED
      BY <2>4, <3>1 DEF LogDlq, Appending, ProcStep, RecordStep, DeadStep, NewlineStep
  <2>5. CASE SubscriptionSchema(p)
    BY <2>5 DEF SubscriptionSchema, ProcStep, FailStep
  <2>6. CASE Deliver(p)
    BY <2>6 DEF Deliver, ProcStep, FailStep, CallStep
  <2> QED
    BY <1>1, <2>1, <2>2, <2>3, <2>4, <2>5, <2>6 DEF Work, ProcStep
<1>2. ASSUME NEW p \in Procs, Start(p)
      PROVE  ProcStep(p)
  BY <1>2, StartSteps DEF ProcStep
<1>3. ASSUME NEW p \in Procs, Crash(p)
      PROVE  ProcStep(p)
  BY <1>3 DEF ProcStep
<1> QED
  BY <1>1, <1>2, <1>3 DEF Next

(* A log only grows, by what a command that is logging is about to write. *)
LEMMA LogGrows ==
    ASSUME Base, NEW p \in Procs, ProcStep(p)
    PROVE  /\ LogType'
           /\ \A f \in Files :
                /\ Written(f) \subseteq Written(f)'
                /\ \A x \in Written(f)' : x \in Written(f) \/ (/\ pc[p] \in Logging /\ stage[p] = "record"
                                                               /\ Target(pc[p]) = f /\ x = Entry(p))
<1>0. LogType
  BY DEF Base
<1>1. ASSUME NEW kind \in {"whole", "part"}, pc[p] \in Logging, stage[p] = "record",
             log' = Put(Target(pc[p]), kind, Entry(p))
      PROVE  /\ LogType'
             /\ \A f \in Files :
                  /\ Written(f) \subseteq Written(f)'
                  /\ \A x \in Written(f)' : x \in Written(f) \/ (/\ pc[p] \in Logging /\ stage[p] = "record"
                                                                 /\ Target(pc[p]) = f /\ x = Entry(p))
  <2>1. PICK f \in Files : f = Target(pc[p])
    BY <1>1, EntryType
  <2>2. PICK r \in RecordsIn(f) : r = Entry(p)
    BY <1>1, <2>1, EntryType
  <2>3. LogType' /\ Written(f)' = Written(f) \cup {r} /\ \A g \in Files : g # f => Written(g)' = Written(g)
    BY <1>0, <1>1, <2>1, <2>2, PutLog
  <2> QED
    BY <1>1, <2>1, <2>2, <2>3
<1>2. CASE log' = log
  BY <1>0, <1>2 DEF LogType, Written
<1>3. ASSUME NEW f \in Files, log' = [log EXCEPT ![f] = Append(@, <<>>)]
      PROVE  LogType' /\ \A g \in Files : Written(g)' = Written(g)
  BY <1>0, <1>3, NewlineLog
<1>4. \/ log' = log
      \/ \E f \in Files : log' = [log EXCEPT ![f] = Append(@, <<>>)]
      \/ \E kind \in {"whole", "part"} : /\ pc[p] \in Logging /\ stage[p] = "record"
                                         /\ log' = Put(Target(pc[p]), kind, Entry(p))
  BY DEF ProcStep, RejectStep, BeginStep, RecordStep, MatchStep, OkStep, ErrStep, DeadStep, NewlineStep,
         FailStep, CallStep, Report, Crash, Files
<1> QED
  BY <1>1, <1>2, <1>3, <1>4

(* The record that is written whole is there afterwards. *)
LEMMA RecordIsWritten ==
    ASSUME Base, NEW p \in Procs, RecordStep(p), NEW f \in Files, Target(pc[p]) = f
    PROVE  Entry(p) \in Written(f)'
<1>1. PICK r \in RecordsIn(f) : r = Entry(p)
  BY EntryType DEF RecordStep
<1>2. log' = Put(f, "whole", r)
  BY <1>1 DEF RecordStep
<1>3. r \in Written(f)'
  BY <1>2, PutLog DEF Base
<1> QED
  BY <1>1, <1>3

(* Filtering the subscriptions gives subscriptions. *)
LEMMA MatchingType ==
    ASSUME NEW p
    PROVE  Matching(p) \in Seq(SubIx)
<1> DEFINE n == Len(Subscriptions)
           seqs == [s \in 1..n |-> IF Matches(p, s) THEN <<s>> ELSE <<>>]
<1>1. n \in Nat /\ SubIx = 1..n
  BY EventsAssumption DEF SubIx
<1>2. Matching(p) = FlattenSeq(seqs)
  BY <1>1 DEF Matching
<1>a. \A S : <<>> \in Seq(S) /\ \A x \in S : <<x>> \in Seq(S)
  OBVIOUS
<1>b. \A s \in 1..n : <<s>> \in Seq(SubIx) /\ <<>> \in Seq(SubIx)
  BY <1>1, <1>a, Zenon
<1>3. seqs \in [1..n -> Seq(SubIx)]
  BY <1>b, Zenon
<1> HIDE DEF seqs, n
<1> QED
  BY <1>1, <1>2, <1>3, FlattenSeqType

LEMMA BaseInit == Init => Base
<1> SUFFICES ASSUME Init PROVE Base
  OBVIOUS
<1>1. \A S : <<>> \in Seq(S) /\ << <<>> >> \in Seq(Seq(S)) /\ << <<>> >> # <<>>
  OBVIOUS
<1>2. LogType
  BY <1>1 DEF Init, LogType, Lines
<1>3. NoReport \in Results
  BY DEF NoReport, Results
<1>4. TypeInv
  BY <1>1, <1>3 DEF Init, TypeInv, PCs, Stages
<1>5. WhereInv
  BY DEF Init, WhereInv, Logging
<1> QED
  BY <1>2, <1>4, <1>5 DEF Base

(* Every step keeps the types and what a command has in hand. *)
LEMMA BaseStep ==
    ASSUME Base, [Next]_vars
    PROVE  Base'
<1>0. LogType /\ TypeInv /\ WhereInv
  BY DEF Base
<1>1. CASE UNCHANGED vars
  BY <1>0, <1>1 DEF vars, Base, LogType, TypeInv, WhereInv
<1>2. ASSUME NEW p \in Procs, ProcStep(p), cast' = cast
      PROVE  Base'
  <2>0. LogType'
    BY <1>2, LogGrows
  <2>a. result[p] \in Results /\ matched[p] \in Seq(SubIx)
    BY <1>0 DEF TypeInv
  <2>b. /\ [result[p] EXCEPT !.status = "err"] \in Results /\ [result[p] EXCEPT !.status = "ok"] \in Results
        /\ [result[p] EXCEPT !.ok = @ + 1] \in Results /\ [result[p] EXCEPT !.failed = @ + 1] \in Results
    BY <2>a DEF Results
  <2>1. CASE RejectStep(p)
    <3>1. result' \in [Procs -> Results]
      BY <1>0, <2>1, <2>b DEF RejectStep, Fail, TypeInv
    <3>2. TypeInv'
      BY <1>0, <1>2, <2>1, <3>1 DEF RejectStep, Fail, TypeInv, PCs
    <3>3. WhereInv'
      BY <1>0, <2>1 DEF RejectStep, Fail, TypeInv, WhereInv, Logging
    <3> QED
      BY <2>0, <3>2, <3>3 DEF Base
  <2>2. CASE BeginStep(p)
    <3>1. TypeInv'
      BY <1>0, <1>2, <2>2 DEF BeginStep, TypeInv, PCs
    <3>2. WhereInv'
      BY <1>0, <2>2 DEF BeginStep, TypeInv, WhereInv, Logging
    <3> QED
      BY <2>0, <3>1, <3>2 DEF Base
  <2>3. CASE RecordStep(p)
    <3>1. TypeInv'
      BY <1>0, <1>2, <2>3 DEF RecordStep, TypeInv, Stages
    <3>2. WhereInv'
      BY <1>0, <2>3 DEF RecordStep, TypeInv, WhereInv, Logging
    <3> QED
      BY <2>0, <3>1, <3>2 DEF Base
  <2>4. CASE MatchStep(p)
    <3>0. Matching(p) \in Seq(SubIx) /\ {s \in SubIx : Matches(p, s)} \in SUBSET SubIx
      BY MatchingType
    <3>1. all' \in [Procs -> SUBSET SubIx]
      BY <1>0, <2>4, <3>0 DEF MatchStep, TypeInv
    <3>2. matched' \in [Procs -> Seq(SubIx)]
      BY <1>0, <2>4, <3>0 DEF MatchStep, TypeInv
    <3>3. TypeInv'
      BY <1>0, <1>2, <2>4, <3>1, <3>2 DEF MatchStep, NewlineStep, TypeInv, PCs, Stages
    <3>4. WhereInv'
      BY <1>0, <2>4 DEF MatchStep, NewlineStep, TypeInv, WhereInv, Logging
    <3> QED
      BY <2>0, <3>3, <3>4 DEF Base
  <2>5. CASE OkStep(p) \/ DeadStep(p)
    <3>1. matched[p] # <<>> /\ pc[p] \in {"log_ok", "log_dlq"}
      BY <1>0, <2>5 DEF OkStep, DeadStep, NewlineStep, WhereInv
    <3>2. Tail(matched[p]) \in Seq(SubIx)
      BY <2>a, <3>1, SeqFacts
    <3>3. result' \in [Procs -> Results]
      BY <1>0, <2>5, <2>b DEF OkStep, DeadStep, CountFailed, TypeInv
    <3>a. matched' \in [Procs -> Seq(SubIx)] /\ pc' \in [Procs -> PCs]
      <4>1. \/ UNCHANGED <<matched, pc>>
            \/ matched' = [matched EXCEPT ![p] = Tail(@)] /\ pc' = [pc EXCEPT ![p] = "deliver"]
        BY <2>5 DEF OkStep, DeadStep, Served
      <4>2. matched \in [Procs -> Seq(SubIx)] /\ pc \in [Procs -> PCs] /\ "deliver" \in PCs
        BY <1>0 DEF TypeInv, PCs
      <4> QED
        BY <3>2, <4>1, <4>2
    <3>b. stage' \in [Procs -> Stages]
      BY <1>0, <2>5 DEF OkStep, DeadStep, NewlineStep, TypeInv, Stages
    <3>c. UNCHANGED <<cmd, event, calls, all>>
      BY <2>5 DEF OkStep, DeadStep, NewlineStep
    <3>4. TypeInv'
      BY <1>0, <1>2, <3>3, <3>a, <3>b, <3>c DEF TypeInv
    <3>5. WhereInv'
      BY <1>0, <2>5, <3>1 DEF OkStep, DeadStep, NewlineStep, Served, TypeInv, WhereInv, Logging
    <3> QED
      BY <2>0, <3>4, <3>5 DEF Base
  <2>6. CASE ErrStep(p)
    <3>1. TypeInv'
      BY <1>0, <1>2, <2>6 DEF ErrStep, NewlineStep, TypeInv, PCs, Stages
    <3>2. WhereInv'
      BY <1>0, <2>6 DEF ErrStep, NewlineStep, TypeInv, WhereInv, Logging
    <3> QED
      BY <2>0, <3>1, <3>2 DEF Base
  <2>7. CASE FailStep(p) \/ Report(p)
    <3>1. result' \in [Procs -> Results]
      BY <1>0, <2>7, <2>b DEF FailStep, Fail, Report, TypeInv
    <3>2. TypeInv'
      BY <1>0, <1>2, <2>7, <3>1 DEF FailStep, Fail, Report, TypeInv, PCs
    <3>3. WhereInv'
      BY <1>0, <2>7 DEF FailStep, Fail, Report, TypeInv, WhereInv, Logging
    <3> QED
      BY <2>0, <3>2, <3>3 DEF Base
  <2>8. CASE CallStep(p)
    <3>1. PICK o \in {"ok", "fail"} :
            /\ calls' = [calls EXCEPT ![p][Current(p)] = Append(@, o)]
            /\ pc' = [pc EXCEPT ![p] = IF o = "ok" THEN "log_ok" ELSE AfterFailure(p)]
      BY <2>8 DEF CallStep
    <3>2. Append(calls[p][Current(p)], o) \in Seq({"ok", "fail"}) /\ Current(p) \in SubIx
      <4>1. Current(p) \in SubIx
        BY <2>8, <2>a, SeqFacts DEF CallStep, Current
      <4>2. calls[p][Current(p)] \in Seq({"ok", "fail"})
        BY <1>0, <4>1 DEF TypeInv
      <4> QED
        BY <4>1, <4>2
    <3>3. calls' \in [Procs -> [SubIx -> Seq({"ok", "fail"})]]
      BY <1>0, <3>1, <3>2 DEF TypeInv
    <3>4. TypeInv'
      BY <1>0, <1>2, <2>8, <3>1, <3>3 DEF CallStep, AfterFailure, TypeInv, PCs
    <3>5. WhereInv'
      BY <1>0, <2>8, <3>1 DEF CallStep, AfterFailure, TypeInv, WhereInv, Logging
    <3> QED
      BY <2>0, <3>4, <3>5 DEF Base
  <2>9. CASE Crash(p)
    <3>1. TypeInv'
      BY <1>0, <1>2, <2>9 DEF Crash, TypeInv, PCs
    <3>2. WhereInv'
      BY <1>0, <2>9 DEF Crash, TypeInv, WhereInv, Logging
    <3> QED
      BY <2>0, <3>1, <3>2 DEF Base
  <2> QED
    BY <1>2, <2>1, <2>2, <2>3, <2>4, <2>5, <2>6, <2>7, <2>8, <2>9 DEF ProcStep
<1> QED
  BY <1>1, <1>2, Steps

(* A step of one command leaves what the others have in hand. *)
LEMMA Others ==
    ASSUME Base, NEW p \in Procs, ProcStep(p), NEW q \in Procs, q # p
    PROVE  /\ pc'[q] = pc[q] /\ stage'[q] = stage[q] /\ cmd'[q] = cmd[q] /\ event'[q] = event[q]
           /\ matched'[q] = matched[q] /\ result'[q] = result[q] /\ all'[q] = all[q] /\ calls'[q] = calls[q]
<1>0. TypeInv
  BY DEF Base
<1>1. CASE RejectStep(p) \/ BeginStep(p) \/ RecordStep(p) \/ FailStep(p) \/ Report(p) \/ Crash(p)
  BY <1>0, <1>1 DEF RejectStep, BeginStep, RecordStep, FailStep, Report, Crash, Fail, TypeInv
<1>2. CASE MatchStep(p) \/ ErrStep(p)
  BY <1>0, <1>2 DEF MatchStep, ErrStep, NewlineStep, TypeInv
<1>3. CASE OkStep(p) \/ DeadStep(p)
  BY <1>0, <1>3 DEF OkStep, DeadStep, NewlineStep, Served, CountFailed, TypeInv
<1>4. CASE CallStep(p)
  BY <1>0, <1>4 DEF CallStep, TypeInv
<1> QED
  BY <1>1, <1>2, <1>3, <1>4 DEF ProcStep

(* What is new in the log of dead letters was about to be logged as one. *)
LEMMA NewDeadLetter ==
    ASSUME Base, NEW p \in Procs, ProcStep(p), NEW d \in Written("dlq")', d \notin Written("dlq")
    PROVE  /\ pc[p] = "log_dlq" /\ stage[p] = "record"
           /\ d = [id |-> <<p, Current(p)>>, event |-> event[p], sub |-> SubId(Current(p))]
<1>1. "dlq" \in Files
  BY DEF Files
<1>2. pc[p] \in Logging /\ stage[p] = "record" /\ Target(pc[p]) = "dlq" /\ d = Entry(p)
  BY <1>1, LogGrows
<1>3. pc[p] = "log_dlq"
  BY <1>2 DEF Target, Logging
<1> QED
  BY <1>2, <1>3 DEF Entry

-----------------------------------------------------------------------------
(* A dead letter can be looked up. *)

(* The delivery being served is recorded as failed. *)
FailureRecorded(p) ==
    \E r \in Written("deliveries") : r.id = <<p, Current(p)>> /\ r.status = "err" /\ r.sub = SubId(Current(p))

(* This is so from the moment the record is written on: before its newline, *)
(* and all the time the dead letter is about to be written.                 *)
RecordedInv ==
    /\ DeadLetterWasRecorded
    /\ \A p \in Procs : pc[p] = "log_dlq" \/ (pc[p] = "log_err" /\ stage[p] = "newline") => FailureRecorded(p)

LEMMA RecordedStep ==
    ASSUME Base, RecordedInv, [Next]_vars
    PROVE  RecordedInv'
<1>0. TypeInv /\ WhereInv
  BY DEF Base
<1>1. CASE UNCHANGED vars
  <2>1. Written("dlq")' = Written("dlq") /\ Written("deliveries")' = Written("deliveries")
    BY <1>1 DEF vars, Written
  <2>2. \A p \in Procs : Current(p)' = Current(p)
    BY <1>1 DEF vars, Current
  <2>3. \A p \in Procs : FailureRecorded(p) => FailureRecorded(p)'
    BY <2>1, <2>2 DEF FailureRecorded
  <2> QED
    BY <1>1, <2>1, <2>3 DEF vars, RecordedInv, DeadLetterWasRecorded
<1>2. ASSUME NEW p \in Procs, ProcStep(p)
      PROVE  RecordedInv'
  <2>1. Written("deliveries") \subseteq Written("deliveries")'
    BY <1>2, LogGrows DEF Files
  <2>2. ASSUME NEW q \in Procs, FailureRecorded(q), matched'[q] = matched[q]
        PROVE  FailureRecorded(q)'
    BY <2>1, <2>2 DEF FailureRecorded, Current
  <2>3. ASSUME NEW q \in Procs, q # p, pc'[q] = "log_dlq" \/ (pc'[q] = "log_err" /\ stage'[q] = "newline")
        PROVE  FailureRecorded(q)'
    <3>1. pc'[q] = pc[q] /\ stage'[q] = stage[q] /\ matched'[q] = matched[q]
      BY <1>2, <2>3, Others
    <3> QED
      BY <2>2, <2>3, <3>1 DEF RecordedInv
  <2>4. ASSUME pc'[p] = "log_dlq" \/ (pc'[p] = "log_err" /\ stage'[p] = "newline")
        PROVE  FailureRecorded(p)'
    <3>1. CASE RecordStep(p)
      <4>1. pc'[p] = pc[p] /\ matched'[p] = matched[p] /\ pc[p] \in {"log_dlq", "log_err"}
        BY <2>4, <3>1 DEF RecordStep
      <4>2. CASE pc[p] = "log_dlq"
        BY <2>2, <4>1, <4>2 DEF RecordedInv
      <4>3. CASE pc[p] = "log_err"
        <5>1. Target(pc[p]) = "deliveries"
          BY <4>3 DEF Target
        <5>2. Entry(p) = [id |-> <<p, Current(p)>>, event |-> event[p].id, sub |-> SubId(Current(p)),
                          status |-> "err", attempts |-> Attempts(p)]
          BY <4>3, <5>1 DEF Entry
        <5>3. Entry(p) \in Written("deliveries")'
          BY <3>1, <5>1, RecordIsWritten DEF Files
        <5>4. PICK r : r = Entry(p)
          OBVIOUS
        <5>5. r \in Written("deliveries")' /\ r.id = <<p, Current(p)>> /\ r.status = "err" /\ r.sub = SubId(Current(p))
          BY <5>2, <5>3, <5>4
        <5>6. Current(p)' = Current(p)
          BY <4>1 DEF Current
        <5> QED
          BY <5>5, <5>6 DEF FailureRecorded
      <4> QED
        BY <4>1, <4>2, <4>3
    <3>2. CASE ErrStep(p)
      <4>1. pc[p] = "log_err" /\ stage[p] = "newline" /\ matched'[p] = matched[p]
        BY <3>2 DEF ErrStep, NewlineStep
      <4> QED
        BY <2>2, <4>1 DEF RecordedInv
    <3>3. CASE CallStep(p)
      <4>1. pc'[p] \in {"log_ok", "log_err", "deliver"} /\ stage'[p] = stage[p]
        BY <1>0, <3>3 DEF CallStep, AfterFailure, TypeInv
      <4>2. stage[p] = "record"
        BY <1>0, <3>3 DEF CallStep, WhereInv, Logging
      <4> QED
        BY <2>4, <4>1, <4>2
    <3>4. CASE RejectStep(p) \/ BeginStep(p) \/ FailStep(p) \/ Report(p) \/ Crash(p)
      BY <1>0, <2>4, <3>4 DEF RejectStep, BeginStep, FailStep, Report, Crash, Fail, TypeInv
    <3>5. CASE MatchStep(p) \/ OkStep(p) \/ DeadStep(p)
      BY <1>0, <2>4, <3>5 DEF MatchStep, OkStep, DeadStep, Served, TypeInv
    <3> QED
      BY <1>2, <3>1, <3>2, <3>3, <3>4, <3>5 DEF ProcStep
  <2>5. ASSUME NEW d \in Written("dlq")'
        PROVE  \E r \in Written("deliveries")' : r.id = d.id /\ r.status = "err" /\ r.sub = d.sub
    <3>1. CASE d \in Written("dlq")
      BY <2>1, <3>1 DEF RecordedInv, DeadLetterWasRecorded
    <3>2. CASE d \notin Written("dlq")
      <4>1. pc[p] = "log_dlq" /\ d = [id |-> <<p, Current(p)>>, event |-> event[p], sub |-> SubId(Current(p))]
        BY <1>2, <3>2, NewDeadLetter
      <4>2. d.id = <<p, Current(p)>> /\ d.sub = SubId(Current(p)) /\ FailureRecorded(p)
        BY <4>1 DEF RecordedInv
      <4> QED
        BY <2>1, <4>2 DEF FailureRecorded
    <3> QED
      BY <3>1, <3>2
  <2>6. DeadLetterWasRecorded'
    BY <2>5 DEF DeadLetterWasRecorded
  <2> QED
    BY <2>3, <2>4, <2>6 DEF RecordedInv
<1> QED
  BY <1>1, <1>2, Steps

(***************************************************************************)
(* Every dead letter, even one cut short by a crash, has its failed         *)
(* delivery in deliveries.jsonl: the record is written first.               *)
(***************************************************************************)
THEOREM DeadLettersRecorded == Spec => []DeadLetterWasRecorded
<1>1. ASSUME Init PROVE RecordedInv
  <2>1. Written("dlq") = {}
    BY <1>1 DEF Init, Written, Files
  <2> QED
    BY <1>1, <2>1 DEF Init, RecordedInv, DeadLetterWasRecorded
<1>2. RecordedInv => DeadLetterWasRecorded
  BY DEF RecordedInv
<1> QED
  BY BaseInit, BaseStep, RecordedStep, <1>1, <1>2, PTL DEF Spec

-----------------------------------------------------------------------------
(* What a replay works on. *)

(* A command that has not yet matched subscriptions has called nobody and    *)
(* written no dead letter.                                                   *)
FreshInv ==
    \A p \in Procs :
      /\ pc[p] = "idle" => cmd[p] = NoCommand
      /\ pc[p] \in {"idle", "log_event"} =>
           /\ matched[p] = <<>> /\ all[p] = {} /\ result[p] = NoReport
           /\ \A s \in SubIx : calls[p][s] = <<>>
           /\ \A d \in Written("dlq") : d.id[1] # p

(* What is matched are the subscriptions that match, each once. *)
LEMMA MatchingEnumerates == \A p : Enumerates(Matching(p), {s \in SubIx : Matches(p, s)})
<1> SUFFICES ASSUME NEW p PROVE Enumerates(Matching(p), {s \in SubIx : Matches(p, s)})
  OBVIOUS
<1> DEFINE n == Len(Subscriptions)
           A == {s \in SubIx : Matches(p, s)}
<1>1. n \in Nat /\ SubIx = 1..n
  BY EventsAssumption DEF SubIx
<1>2. \A s \in SubIx : s \in A <=> Matches(p, s)
  OBVIOUS
<1>3. A \in SUBSET (1..n)
  BY <1>1
<1> HIDE DEF A, n
<1>4. [s \in SubIx |-> IF Matches(p, s) THEN <<s>> ELSE <<>>] = [s \in 1..n |-> IF s \in A THEN <<s>> ELSE <<>>]
  BY <1>1, <1>2
<1>5. Matching(p) = FlattenSeq([s \in 1..n |-> IF s \in A THEN <<s>> ELSE <<>>])
  BY <1>4, Zenon DEF Matching
<1>6. Enumerates(FlattenSeq([s \in 1..n |-> IF s \in A THEN <<s>> ELSE <<>>]), A)
  BY <1>1, <1>3, FilterEnumerates
<1> QED
  BY <1>5, <1>6 DEF A

LEMMA FreshStep ==
    ASSUME Base, FreshInv, [Next]_vars
    PROVE  FreshInv'
<1>0. TypeInv /\ WhereInv
  BY DEF Base
<1>1. CASE UNCHANGED vars
  <2>1. Written("dlq")' = Written("dlq")
    BY <1>1 DEF vars, Written
  <2> QED
    BY <1>1, <2>1 DEF vars, FreshInv
<1>2. ASSUME NEW p \in Procs, ProcStep(p)
      PROVE  FreshInv'
  <2>1. ASSUME NEW q \in Procs, pc[q] \in {"idle", "log_event"}, NEW d \in Written("dlq")'
        PROVE  d.id[1] # q
    <3>1. CASE d \in Written("dlq")
      BY <2>1, <3>1 DEF FreshInv
    <3>2. CASE d \notin Written("dlq")
      <4>1. pc[p] = "log_dlq" /\ d = [id |-> <<p, Current(p)>>, event |-> event[p], sub |-> SubId(Current(p))]
        BY <1>2, <3>2, NewDeadLetter
      <4>2. d.id = <<p, Current(p)>>
        BY <4>1
      <4> QED
        BY <2>1, <4>1, <4>2
    <3> QED
      BY <3>1, <3>2
  <2>2. ASSUME NEW q \in Procs, pc'[q] \in {"idle", "log_event"}
        PROVE  /\ pc[q] \in {"idle", "log_event"} /\ matched'[q] = matched[q] /\ all'[q] = all[q]
               /\ result'[q] = result[q] /\ calls'[q] = calls[q]
               /\ pc'[q] = "idle" => pc[q] = "idle" /\ cmd'[q] = cmd[q]
    <3>1. CASE q # p
      BY <1>2, <2>2, <3>1, Others
    <3>2. CASE q = p /\ (RecordStep(p) \/ BeginStep(p))
      BY <1>0, <2>2, <3>2 DEF RecordStep, BeginStep, TypeInv
    <3>3. CASE q = p /\ (RejectStep(p) \/ FailStep(p) \/ Report(p) \/ Crash(p) \/ MatchStep(p) \/ ErrStep(p))
      BY <1>0, <2>2, <3>3 DEF RejectStep, FailStep, Fail, Report, Crash, MatchStep, ErrStep, TypeInv
    <3>4. CASE q = p /\ (OkStep(p) \/ DeadStep(p) \/ CallStep(p))
      BY <1>0, <2>2, <3>4 DEF OkStep, DeadStep, Served, CallStep, AfterFailure, TypeInv
    <3> QED
      BY <1>2, <3>1, <3>2, <3>3, <3>4 DEF ProcStep
  <2> QED
    BY <2>1, <2>2 DEF FreshInv
<1> QED
  BY <1>1, <1>2, Steps

LEMMA FreshInit == Init => FreshInv
<1> SUFFICES ASSUME Init PROVE FreshInv
  OBVIOUS
<1>1. Written("dlq") = {}
  BY DEF Init, Written, Files
<1> QED
  BY <1>1 DEF Init, FreshInv

(* A dead letter has the topic and the payload of p's envelope. *)
SameEvent(p, d) == d.event.topic = event[p].topic /\ d.event.payload = event[p].payload

(* The subscription of a dead letter matches its event. *)
LetterFits(d) ==
    /\ d.id[2] \in SubIx /\ d.sub = SubId(d.id[2])
    /\ Subscriptions[d.id[2]].topic = d.event.topic /\ d.event.payload \in Subscriptions[d.id[2]].filter

(* What p replays is written as a dead letter. *)
ReplaysLetter(p) == \E d \in Written("dlq") : d.id = cmd[p].delivery /\ SameEvent(p, d)

Delivering == {"deliver", "log_ok", "log_err", "log_dlq"}

(***************************************************************************)
(* A replay that has begun works on a dead letter it has read; it has       *)
(* matched the subscription that failed and called only ones with its id.   *)
(***************************************************************************)
ReplayFacts(p) ==
    /\ \A s \in SubIx : calls[p][s] # <<>> => SubId(s) = SubId(cmd[p].delivery[2])
    /\ pc[p] \in Logging \cup {"deliver"} \/ (\E s \in SubIx : calls[p][s] # <<>>) => ReplaysLetter(p)
    /\ pc[p] \in Delivering \/ result[p].status = "ok" => cmd[p].delivery[2] \in all[p]

ReplayInv ==
    /\ \A d \in Written("dlq") : LetterFits(d)
    /\ \A p \in Procs : \A k \in DOMAIN matched[p] : Matches(p, matched[p][k])
    /\ \A p \in Procs : cmd[p].kind = "replay_delivery" => ReplayFacts(p)

LEMMA ReplayStep ==
    ASSUME Base, FreshInv, ReplayInv, [Next]_vars
    PROVE  ReplayInv'
<1>0. TypeInv /\ WhereInv
  BY DEF Base
<1>1. CASE UNCHANGED vars
  <2>1. Written("dlq")' = Written("dlq")
    BY <1>1 DEF vars, Written
  <2> QED
    BY <1>1, <2>1 DEF vars, ReplayInv, ReplayFacts, ReplaysLetter, SameEvent, LetterFits, Matches, Selected
<1>2. ASSUME NEW p \in Procs, ProcStep(p)
      PROVE  ReplayInv'
  <2>1. Written("dlq") \subseteq Written("dlq")'
    BY <1>2, LogGrows DEF Files
  <2>2. ASSUME NEW d \in Written("dlq")'
        PROVE  LetterFits(d)
    <3>1. CASE d \notin Written("dlq")
      <4>1. d = [id |-> <<p, Current(p)>>, event |-> event[p], sub |-> SubId(Current(p))] /\ pc[p] = "log_dlq"
        BY <1>2, <3>1, NewDeadLetter
      <4>2. matched[p] \in Seq(SubIx) /\ matched[p] # <<>>
        BY <1>0, <4>1 DEF TypeInv, WhereInv
      <4>3. 1 \in DOMAIN matched[p] /\ Current(p) = matched[p][1] /\ Current(p) \in SubIx
        BY <4>2 DEF Current
      <4>4. Matches(p, Current(p))
        BY <4>3 DEF ReplayInv
      <4> QED
        BY <4>1, <4>3, <4>4 DEF LetterFits, Matches
    <3> QED
      BY <3>1 DEF ReplayInv
  <2> DEFINE M(q) == \A k \in DOMAIN matched[q] : Matches(q, matched[q][k])
             R(q) == cmd[q].kind = "replay_delivery" => ReplayFacts(q)
  <2>a. ASSUME NEW q \in Procs, event'[q] = event[q]
        PROVE  \A d : SameEvent(q, d)' <=> SameEvent(q, d)
    BY <2>a DEF SameEvent
  <2>b. ASSUME NEW q \in Procs, cmd'[q] = cmd[q], event'[q] = event[q]
        PROVE  \A s : Matches(q, s)' <=> Matches(q, s)
    BY <2>b DEF Matches, Selected
  <2>c. ASSUME NEW q \in Procs, cmd'[q] = cmd[q], event'[q] = event[q], ReplaysLetter(q)
        PROVE  ReplaysLetter(q)'
    BY <2>1, <2>a, <2>c DEF ReplaysLetter
  <2>3. ASSUME NEW q \in Procs, cmd'[q] = cmd[q], event'[q] = event[q], matched'[q] = matched[q],
               calls'[q] = calls[q], all'[q] = all[q],
               pc'[q] \in Logging \cup {"deliver"} => pc[q] \in Logging \cup {"deliver"},
               pc'[q] \in Delivering \/ result'[q].status = "ok" =>
                 pc[q] \in Delivering \/ result[q].status = "ok"
        PROVE  M(q)' /\ R(q)'
    <3>1. M(q)'
      BY <2>3, <2>b DEF ReplayInv
    <3>2. R(q)'
      BY <2>3, <2>c DEF ReplayInv, ReplayFacts
    <3> QED
      BY <3>1, <3>2
  <2>4. ASSUME NEW q \in Procs, q # p PROVE M(q)' /\ R(q)'
    BY <1>2, <2>3, <2>4, Others
  <2>5. ASSUME RecordStep(p) \/ ErrStep(p) \/ FailStep(p) \/ Report(p) \/ Crash(p) PROVE M(p)' /\ R(p)'
    <3>1. /\ cmd'[p] = cmd[p] /\ event'[p] = event[p] /\ matched'[p] = matched[p] /\ calls'[p] = calls[p]
          /\ all'[p] = all[p]
      BY <2>5 DEF RecordStep, ErrStep, NewlineStep, FailStep, Report, Crash
    <3>2. pc'[p] \in Logging \cup {"deliver"} => pc[p] \in Logging \cup {"deliver"}
      BY <1>0, <2>5 DEF RecordStep, ErrStep, NewlineStep, FailStep, Fail, Report, Crash, Logging, TypeInv
    <3>3. pc'[p] \in Delivering \/ result'[p].status = "ok" => pc[p] \in Delivering \/ result[p].status = "ok"
      BY <1>0, <2>5 DEF RecordStep, ErrStep, NewlineStep, FailStep, Fail, Report, Crash, Delivering, TypeInv, Results
    <3> QED
      BY <2>3, <3>1, <3>2, <3>3
  <2>6. ASSUME RejectStep(p) PROVE M(p)' /\ R(p)'
    <3>1. /\ matched'[p] = <<>> /\ pc'[p] = "done" /\ \A s \in SubIx : calls'[p][s] = <<>>
          /\ result'[p].status = "err"
      BY <1>0, <2>6 DEF RejectStep, Fail, FreshInv, TypeInv, Results
    <3>2. DOMAIN matched'[p] = {} /\ pc'[p] \notin Logging \cup {"deliver"} /\ pc'[p] \notin Delivering
      BY <3>1 DEF Logging, Delivering
    <3> QED
      BY <3>1, <3>2 DEF ReplayFacts
  <2>7. ASSUME BeginStep(p) PROVE M(p)' /\ R(p)'
    <3>1. /\ matched'[p] = <<>> /\ \A s \in SubIx : calls'[p][s] = <<>>
          /\ pc'[p] = "log_event" /\ result'[p] = NoReport
      BY <1>0, <2>7 DEF BeginStep, FreshInv, TypeInv
    <3>2. DOMAIN matched'[p] = {} /\ pc'[p] \notin Delivering /\ result'[p].status # "ok"
      BY <3>1 DEF Delivering, NoReport
    <3>3. PICK c \in Command, e \in EventRec :
         /\ cmd' = [cmd EXCEPT ![p] = c] /\ event' = [event EXCEPT ![p] = e]
         /\ c.kind = "replay_delivery" =>
              \E d \in Written("dlq") : d.id = c.delivery /\ d.event.topic = e.topic /\ d.event.payload = e.payload
      BY <2>7 DEF BeginStep
    <3>4. cmd'[p] = c /\ event'[p] = e
      BY <1>0, <3>3 DEF TypeInv
    <3>5. c.kind = "replay_delivery" => ReplaysLetter(p)'
      BY <2>1, <3>3, <3>4 DEF ReplaysLetter, SameEvent
    <3> QED
      BY <3>1, <3>2, <3>4, <3>5 DEF ReplayFacts
  <2>8. ASSUME MatchStep(p) PROVE M(p)' /\ R(p)'
    <3>0. /\ cmd'[p] = cmd[p] /\ event'[p] = event[p] /\ calls'[p] = calls[p] /\ matched'[p] = Matching(p)
          /\ pc[p] = "log_event" /\ all'[p] = {s \in SubIx : Matches(p, s)}
      BY <1>0, <2>8 DEF MatchStep, NewlineStep, TypeInv
    <3>1. Matching(p) \in Seq(SubIx) /\ Enumerates(Matching(p), {s \in SubIx : Matches(p, s)})
      BY MatchingType, MatchingEnumerates
    <3>2. DOMAIN Matching(p) = 1..Len(Matching(p))
      BY <3>1
    <3>3. \A k \in DOMAIN Matching(p) : Matches(p, Matching(p)[k])
      BY <3>1, <3>2 DEF Enumerates
    <3>4. M(p)'
      BY <2>b, <3>0, <3>3
    <3>5. ASSUME cmd[p].kind = "replay_delivery"
          PROVE  ReplaysLetter(p)' /\ cmd[p].delivery[2] \in all'[p]
      <4>1. ReplaysLetter(p)
        BY <3>0, <3>5 DEF ReplayInv, ReplayFacts, Logging
      <4>2. PICK d \in Written("dlq") : d.id = cmd[p].delivery /\ SameEvent(p, d)
        BY <4>1 DEF ReplaysLetter
      <4>3. LetterFits(d)
        BY <4>2 DEF ReplayInv
      <4>4. cmd[p].delivery[2] \in SubIx /\ Matches(p, cmd[p].delivery[2])
        BY <4>2, <4>3 DEF LetterFits, SameEvent, Matches, Selected
      <4> QED
        BY <2>c, <3>0, <4>1, <4>4
    <3>6. \A s \in SubIx : calls'[p][s] = <<>>
      BY <3>0 DEF FreshInv
    <3> QED
      BY <3>0, <3>4, <3>5, <3>6 DEF ReplayFacts
  <2>9. ASSUME OkStep(p) \/ DeadStep(p) PROVE M(p)' /\ R(p)'
    <3>0. /\ cmd'[p] = cmd[p] /\ event'[p] = event[p] /\ calls'[p] = calls[p] /\ matched'[p] = Tail(matched[p])
          /\ pc[p] \in Logging /\ pc[p] \in Delivering /\ all'[p] = all[p]
      BY <1>0, <2>9 DEF OkStep, DeadStep, NewlineStep, Served, TypeInv, Logging, Delivering
    <3>1. matched[p] \in Seq(SubIx) /\ matched[p] # <<>>
      BY <1>0, <2>9 DEF OkStep, DeadStep, NewlineStep, TypeInv, WhereInv
    <3>2. \A k \in DOMAIN Tail(matched[p]) : k + 1 \in DOMAIN matched[p] /\ Tail(matched[p])[k] = matched[p][k + 1]
      BY <3>1
    <3>3. M(p)'
      BY <2>b, <3>0, <3>2 DEF ReplayInv
    <3> QED
      BY <2>c, <3>0, <3>3 DEF ReplayInv, ReplayFacts
  <2>10. ASSUME CallStep(p) PROVE M(p)' /\ R(p)'
    <3>0. /\ cmd'[p] = cmd[p] /\ event'[p] = event[p] /\ matched'[p] = matched[p] /\ pc[p] = "deliver"
          /\ all'[p] = all[p]
      BY <1>0, <2>10 DEF CallStep
    <3>1. matched[p] \in Seq(SubIx) /\ matched[p] # <<>>
      BY <1>0, <2>10 DEF CallStep, TypeInv
    <3>2. 1 \in DOMAIN matched[p] /\ Current(p) = matched[p][1]
      BY <3>1 DEF Current
    <3>3. \A s \in SubIx : s # Current(p) => calls'[p][s] = calls[p][s]
      BY <1>0, <2>10 DEF CallStep, TypeInv
    <3>4. cmd[p].kind = "replay_delivery" => SubId(Current(p)) = SubId(cmd[p].delivery[2])
      BY <3>2 DEF ReplayInv, Matches, Selected
    <3>5. M(p)'
      BY <2>b, <3>0 DEF ReplayInv
    <3>6. cmd[p].kind = "replay_delivery" => ReplaysLetter(p)' /\ cmd[p].delivery[2] \in all[p]
      BY <2>c, <3>0 DEF ReplayInv, ReplayFacts, Delivering
    <3> QED
      BY <3>0, <3>3, <3>4, <3>5, <3>6 DEF ReplayInv, ReplayFacts
  <2>11. M(p)' /\ R(p)'
    <3> HIDE DEF M, R
    <3> QED
      BY <1>2, <2>5, <2>6, <2>7, <2>8, <2>9, <2>10 DEF ProcStep
  <2>12. \A q \in Procs : M(q)' /\ R(q)'
    <3> HIDE DEF M, R
    <3> QED
      BY <2>4, <2>11
  <2> QED
    BY <2>2, <2>12 DEF ReplayInv, LetterFits
<1> QED
  BY <1>1, <1>2, Steps

-----------------------------------------------------------------------------
(* The report. *)

(* The subscriptions still to be served. *)
Left(p) == {matched[p][k] : k \in 1..Len(matched[p])}

NotDead(p, s) == \A d \in Written("dlq") : d.id # <<p, s>>
IsDead(p, s) == [id |-> <<p, s>>, event |-> event[p], sub |-> SubId(s)] \in Written("dlq")

(* How a subscription stands: every call failed so far, it took the event,   *)
(* its attempts are used up, or it has also got its dead letter.             *)
OnlyFailed(p, s) == \A k \in 1..Len(calls[p][s]) : calls[p][s][k] = "fail"
TookIt(p, s) ==
    /\ calls[p][s] # <<>> /\ calls[p][s][Len(calls[p][s])] = "ok"
    /\ \A k \in 1..(Len(calls[p][s]) - 1) : calls[p][s][k] = "fail"
    /\ Len(calls[p][s]) <= MaxAttempts(s) /\ NotDead(p, s)
UsedUp(p, s) == OnlyFailed(p, s) /\ Len(calls[p][s]) = MaxAttempts(s)
GaveUp(p, s) == UsedUp(p, s) /\ IsDead(p, s)

(* The subscription being served, wherever the command is with it. *)
InHand(p, s) ==
    /\ pc[p] = "deliver" => OnlyFailed(p, s) /\ Len(calls[p][s]) < MaxAttempts(s) /\ NotDead(p, s)
    /\ pc[p] = "log_ok" => TookIt(p, s)
    /\ pc[p] = "log_err" \/ (pc[p] = "log_dlq" /\ stage[p] = "record") => UsedUp(p, s) /\ NotDead(p, s)
    /\ pc[p] = "log_dlq" /\ stage[p] = "newline" => GaveUp(p, s)

(* The subscriptions that are done with, and how they ended. *)
Over(p) == all[p] \ Left(p)
Taken(p) == {s \in Over(p) : TookIt(p, s)}
GivenUp(p) == {s \in Over(p) : GaveUp(p, s)}

(***************************************************************************)
(* While a command delivers, each subscription it matched is untouched, in  *)
(* hand or done with, and the counts are those of the ones done with.       *)
(***************************************************************************)
Ledger(p) ==
    /\ Enumerates(matched[p], Left(p)) /\ Left(p) \subseteq all[p]
    /\ Over(p) \subseteq Taken(p) \cup GivenUp(p)
    /\ \A s \in Left(p) : s # Current(p) => calls[p][s] = <<>> /\ NotDead(p, s)
    /\ matched[p] # <<>> => InHand(p, Current(p))
    /\ result[p].ok = Cardinality(Taken(p)) /\ result[p].failed = Cardinality(GivenUp(p))

LedgerInv ==
    \A p \in Procs :
      /\ result[p].status = "ok" => pc[p] = "done" /\ matched[p] = <<>>
      /\ pc[p] \in Delivering \/ result[p].status = "ok" => Ledger(p)

(* Attempts are at least one. *)
LEMMA MaxAttemptsType == \A s \in SubIx : MaxAttempts(s) \in Nat \ {0}
<1> SUFFICES ASSUME NEW s \in SubIx PROVE MaxAttempts(s) \in Nat \ {0}
  OBVIOUS
<1> DEFINE R == [id : SubIds, topic : Topics, filter : SUBSET Payloads, schema : SUBSET Payloads, max_attempts : Nat]
<1>1. Subscriptions[s].max_attempts \in Nat
  <2>1. Subscriptions \in Seq(R) /\ s \in DOMAIN Subscriptions
    BY EventsAssumption DEF SubIx
  <2>2. Subscriptions[s] \in R
    <3> HIDE DEF R
    <3> QED
      BY <2>1
  <2> QED
    BY <2>2
<1> QED
  BY <1>1 DEF MaxAttempts

(* What a step that neither calls a subscription nor writes its dead letter leaves. *)
LEMMA StandKept ==
    ASSUME Base, NEW p \in Procs, ProcStep(p), NEW q \in Procs, NEW s \in SubIx,
           event'[q] = event[q], calls'[q][s] = calls[q][s],
           q # p \/ s # Current(p) \/ ~(pc[p] = "log_dlq" /\ stage[p] = "record")
    PROVE  /\ (NotDead(q, s)' <=> NotDead(q, s)) /\ (OnlyFailed(q, s)' <=> OnlyFailed(q, s))
           /\ (TookIt(q, s)' <=> TookIt(q, s)) /\ (UsedUp(q, s)' <=> UsedUp(q, s))
           /\ (GaveUp(q, s)' <=> GaveUp(q, s))
<1>1. Written("dlq") \subseteq Written("dlq")'
  BY LogGrows DEF Files
<1>2. ASSUME NEW d \in Written("dlq")', d.id = <<q, s>>
      PROVE  d \in Written("dlq")
  <2> SUFFICES ASSUME d \notin Written("dlq") PROVE FALSE
    OBVIOUS
  <2>1. /\ pc[p] = "log_dlq" /\ stage[p] = "record"
        /\ d = [id |-> <<p, Current(p)>>, event |-> event[p], sub |-> SubId(Current(p))]
    BY NewDeadLetter
  <2>2. d.id = <<p, Current(p)>>
    BY <2>1
  <2> QED
    BY <1>2, <2>1, <2>2
<1>3. NotDead(q, s)' <=> NotDead(q, s)
  BY <1>1, <1>2 DEF NotDead
<1>4. IsDead(q, s)' <=> IsDead(q, s)
  <2> DEFINE d == [id |-> <<q, s>>, event |-> event[q], sub |-> SubId(s)]
  <2>1. d.id = <<q, s>>
    OBVIOUS
  <2>2. (IsDead(q, s)' <=> d \in Written("dlq")') /\ (IsDead(q, s) <=> d \in Written("dlq"))
    BY DEF IsDead
  <2> HIDE DEF d
  <2> QED
    BY <1>1, <1>2, <2>1, <2>2
<1>5. OnlyFailed(q, s)' <=> OnlyFailed(q, s)
  BY DEF OnlyFailed
<1>6. UsedUp(q, s)' <=> UsedUp(q, s)
  BY <1>5 DEF UsedUp, MaxAttempts
<1>7. TookIt(q, s)' <=> TookIt(q, s)
  BY <1>3 DEF TookIt, MaxAttempts
<1>8. GaveUp(q, s)' <=> GaveUp(q, s)
  BY <1>4, <1>6 DEF GaveUp
<1> QED
  BY <1>3, <1>5, <1>6, <1>7, <1>8

(* What is left is what the list enumerates. *)
LEMMA LeftIs ==
    ASSUME NEW p, NEW T, Enumerates(matched[p], T)
    PROVE  Left(p) = T
BY EnumeratesOne DEF Left

(* The subscription in hand is one of those left. *)
LEMMA CurrentLeft ==
    ASSUME TypeInv, NEW p \in Procs, matched[p] # <<>>
    PROVE  Current(p) \in Left(p) /\ Current(p) \in SubIx
<1>1. matched[p] \in Seq(SubIx)
  BY DEF TypeInv
<1>2. Len(matched[p]) \in Nat \ {0} /\ Head(matched[p]) = matched[p][1] /\ matched[p][1] \in SubIx
  BY <1>1
<1>3. 1 \in 1..Len(matched[p])
  BY <1>2
<1> QED
  BY <1>2, <1>3 DEF Current, Left

(* The ledger of a command that has the same in hand afterwards. *)
LEMMA LedgerKept ==
    ASSUME Base, NEW p \in Procs, ProcStep(p), NEW q \in Procs, Ledger(q),
           event'[q] = event[q], calls'[q] = calls[q], matched'[q] = matched[q], all'[q] = all[q],
           result'[q].ok = result[q].ok, result'[q].failed = result[q].failed,
           q # p \/ ~(pc[p] = "log_dlq" /\ stage[p] = "record"),
           matched[q] # <<>> => \/ pc'[q] = pc[q] /\ (stage'[q] = stage[q] \/ pc[q] # "log_dlq")
                                \/ pc[q] = "log_err" /\ pc'[q] = "log_dlq" /\ stage'[q] = "record"
    PROVE  Ledger(q)'
<1>0. TypeInv
  BY DEF Base
<1>1. \A s \in SubIx : /\ (NotDead(q, s)' <=> NotDead(q, s)) /\ (OnlyFailed(q, s)' <=> OnlyFailed(q, s))
                       /\ (TookIt(q, s)' <=> TookIt(q, s)) /\ (UsedUp(q, s)' <=> UsedUp(q, s))
                       /\ (GaveUp(q, s)' <=> GaveUp(q, s))
  BY StandKept
<1>2. Left(q)' = Left(q) /\ Over(q)' = Over(q) /\ Current(q)' = Current(q)
  BY DEF Left, Over, Current
<1>3. Over(q) \subseteq SubIx /\ Left(q) \subseteq SubIx
  BY <1>0 DEF Ledger, Over, TypeInv
<1>4. Taken(q)' = Taken(q) /\ GivenUp(q)' = GivenUp(q)
  BY <1>1, <1>2, <1>3 DEF Taken, GivenUp
<1>5. Enumerates(matched[q], Left(q))' 
  BY <1>2 DEF Ledger, Enumerates
<1>6. \A s \in Left(q) : s # Current(q) => calls'[q][s] = <<>> /\ NotDead(q, s)'
  BY <1>1, <1>3 DEF Ledger
<1>7. matched[q] # <<>> => InHand(q, Current(q))'
  <2> SUFFICES ASSUME matched[q] # <<>> PROVE InHand(q, Current(q))'
    OBVIOUS
  <2> DEFINE s == Current(q)
  <2>1. s \in SubIx /\ s' = s
    BY <1>0, <1>2, CurrentLeft
  <2>2. InHand(q, s)
    BY DEF Ledger
  <2> HIDE DEF s
  <2>3. InHand(q, s)'
    BY <1>0, <1>1, <2>1, <2>2 DEF InHand, TypeInv, MaxAttempts, Stages
  <2> QED
    BY <2>3 DEF s
<1> QED
  BY <1>2, <1>4, <1>5, <1>6, <1>7 DEF Ledger

(* What is matched is untouched at first. *)
LEMMA MatchLedger ==
    ASSUME Base, FreshInv, NEW p \in Procs, ProcStep(p), MatchStep(p)
    PROVE  Ledger(p)'
<1> DEFINE A == {s \in SubIx : Matches(p, s)}
<1>0. TypeInv
  BY DEF Base
<1>1. /\ matched'[p] = Matching(p) /\ all'[p] = A /\ result'[p] = NoReport /\ pc'[p] = "deliver"
      /\ calls'[p] = calls[p] /\ event'[p] = event[p] /\ pc[p] = "log_event"
  BY <1>0 DEF MatchStep, NewlineStep, TypeInv, FreshInv
<1>2. Enumerates(matched'[p], A) /\ Matching(p) \in Seq(SubIx)
  BY <1>1, MatchingEnumerates, MatchingType
<1>3. Left(p)' = A
  <2> HIDE DEF A
  <2> QED
    BY <1>2 DEF Enumerates, Left
<1>4. \A s \in SubIx : NotDead(p, s)
  BY <1>1 DEF FreshInv, NotDead
<1>5. \A s \in SubIx : calls'[p][s] = <<>> /\ NotDead(p, s)'
  BY <1>1, <1>4, StandKept DEF FreshInv
<1>6. Over(p)' = {}
  BY <1>1, <1>3 DEF Over
<1>7. Taken(p)' = {} /\ GivenUp(p)' = {} /\ Cardinality({}) = 0
  BY <1>6, FS_EmptySet DEF Taken, GivenUp
<1>8. matched'[p] # <<>> => InHand(p, Current(p))'
  <2> SUFFICES ASSUME matched'[p] # <<>> PROVE InHand(p, Current(p))'
    OBVIOUS
  <2>1. PICK s \in SubIx : s = Current(p)'
    BY <1>1, <1>2 DEF Current
  <2>2. calls'[p][s] = <<>> /\ Len(calls'[p][s]) = 0 /\ NotDead(p, s)' /\ MaxAttempts(s) \in Nat \ {0}
    BY <1>5, MaxAttemptsType
  <2>3. OnlyFailed(p, s)' /\ (Len(calls[p][s]) < MaxAttempts(s))'
    BY <2>2 DEF OnlyFailed, MaxAttempts
  <2> QED
    BY <1>1, <2>1, <2>2, <2>3 DEF InHand
<1> HIDE DEF A
<1>9. Enumerates(matched[p], Left(p))'
  BY <1>2, <1>3 DEF Enumerates
<1>10. A \subseteq SubIx /\ result'[p].ok = 0 /\ result'[p].failed = 0
  BY <1>1 DEF A, NoReport
<1> QED
  BY <1>1, <1>3, <1>5, <1>6, <1>7, <1>8, <1>9, <1>10 DEF Ledger

(* A subscription that is done with is counted, and the next one is untouched. *)
LEMMA ServedLedger ==
    ASSUME Base, NEW p \in Procs, ProcStep(p), OkStep(p) \/ DeadStep(p), Ledger(p)
    PROVE  Ledger(p)'
<1> DEFINE c == Current(p)
<1>0. TypeInv /\ matched[p] \in Seq(SubIx) /\ matched[p] # <<>>
  BY DEF Base, TypeInv, WhereInv, OkStep, DeadStep, NewlineStep
<1>1. /\ matched'[p] = Tail(matched[p]) /\ all'[p] = all[p] /\ pc'[p] = "deliver"
      /\ calls'[p] = calls[p] /\ event'[p] = event[p] /\ stage[p] = "newline"
  BY <1>0 DEF OkStep, DeadStep, NewlineStep, Served, TypeInv
<1>2. c \in Left(p) /\ c \in SubIx
  BY <1>0, CurrentLeft
<1>3. Enumerates(Tail(matched[p]), Left(p) \ {c})
  BY <1>0, EnumeratesTail DEF Ledger, Current
<1>4. Left(p)' = Left(p) \ {c}
  <2>1. {Tail(matched[p])[k] : k \in 1..Len(Tail(matched[p]))} = Left(p) \ {c}
    BY <1>3, EnumeratesOne
  <2>2. Left(p)' = {matched'[p][k] : k \in 1..Len(matched'[p])}
    BY DEF Left
  <2> QED
    BY <1>1, <2>1, <2>2
<1>5. Over(p)' = Over(p) \cup {c} /\ c \notin Over(p)
  BY <1>1, <1>2, <1>4 DEF Over, Ledger
<1>6. \A s \in SubIx : /\ (NotDead(p, s)' <=> NotDead(p, s))
                       /\ (TookIt(p, s)' <=> TookIt(p, s)) /\ (GaveUp(p, s)' <=> GaveUp(p, s))
  BY <1>1, StandKept
<1>7. Over(p) \subseteq SubIx /\ all[p] \subseteq SubIx /\ Left(p) \subseteq SubIx
  BY <1>0 DEF Over, TypeInv, Ledger
<1>8. IsFiniteSet(Taken(p)) /\ IsFiniteSet(GivenUp(p)) /\ c \notin Taken(p) /\ c \notin GivenUp(p)
  <2>1. PICK n \in Nat : SubIx = 1..n
    BY EventsAssumption DEF SubIx
  <2>2. IsFiniteSet(SubIx)
    BY <2>1, FS_Interval
  <2>3. Taken(p) \subseteq SubIx /\ GivenUp(p) \subseteq SubIx
    BY <1>7 DEF Taken, GivenUp
  <2> QED
    BY <1>5, <2>2, <2>3, FS_Subset DEF Taken, GivenUp
<1>9. ~(TookIt(p, c) /\ GaveUp(p, c))
  <2> SUFFICES ASSUME NotDead(p, c), IsDead(p, c) PROVE FALSE
    BY DEF TookIt, GaveUp
  <2> QED
    BY DEF NotDead, IsDead
<1>10. InHand(p, c)
  BY <1>0 DEF Ledger
<1>11. \A s \in Left(p) : s # c => calls[p][s] = <<>> /\ NotDead(p, s)
  BY DEF Ledger
<1> HIDE DEF c
<1>12. \A s \in Left(p) \ {c} : calls'[p][s] = <<>> /\ NotDead(p, s)'
  BY <1>1, <1>6, <1>7, <1>11
<1>13. matched'[p] # <<>> => InHand(p, Current(p))'
  <2> SUFFICES ASSUME matched'[p] # <<>> PROVE InHand(p, Current(p))'
    OBVIOUS
  <2>1. PICK s \in Left(p) \ {c} : s = Current(p)'
    <3>1. Tail(matched[p]) \in Seq(SubIx) /\ Tail(matched[p]) # <<>>
      BY <1>0, <1>1
    <3>2. Head(Tail(matched[p])) \in Left(p) \ {c}
      BY <1>3, <3>1, EnumeratesTail
    <3> QED
      BY <1>1, <3>2 DEF Current
  <2>2. Len(calls'[p][s]) = 0 /\ NotDead(p, s)' /\ MaxAttempts(s) \in Nat \ {0}
    BY <1>7, <1>12, MaxAttemptsType
  <2>3. OnlyFailed(p, s)' /\ (Len(calls[p][s]) < MaxAttempts(s))'
    BY <2>2 DEF OnlyFailed, MaxAttempts
  <2> QED
    BY <1>1, <2>1, <2>2, <2>3 DEF InHand
<1>14. Enumerates(matched[p], Left(p))'
  <2>1. matched'[p] = Tail(matched[p]) /\ Left(p)' = Left(p) \ {c}
    BY <1>1, <1>4
  <2>2. Enumerates(matched'[p], Left(p)')
    BY <1>3, <2>1, Zenon
  <2> QED
    BY <2>2, Zenon DEF Enumerates
<1>15. CASE OkStep(p)
  <2>1. TookIt(p, c) /\ ~GaveUp(p, c)
    BY <1>9, <1>10, <1>15 DEF InHand, OkStep, NewlineStep
  <2>2. Taken(p)' = Taken(p) \cup {c} /\ GivenUp(p)' = GivenUp(p)
    BY <1>2, <1>5, <1>6, <1>7, <2>1 DEF Taken, GivenUp
  <2>3. Cardinality(Taken(p) \cup {c}) = Cardinality(Taken(p)) + 1
    BY <1>8, FS_AddElement
  <2>4. result'[p].ok = result[p].ok + 1 /\ result'[p].failed = result[p].failed
    BY <1>0, <1>15 DEF OkStep, TypeInv, Results
  <2> QED
    BY <1>1, <1>4, <1>5, <1>7, <1>12, <1>13, <1>14, <2>2, <2>3, <2>4 DEF Ledger
<1>16. CASE DeadStep(p)
  <2>1. GaveUp(p, c) /\ ~TookIt(p, c)
    BY <1>9, <1>10, <1>16 DEF InHand, DeadStep, NewlineStep
  <2>2. Taken(p)' = Taken(p) /\ GivenUp(p)' = GivenUp(p) \cup {c}
    BY <1>2, <1>5, <1>6, <1>7, <2>1 DEF Taken, GivenUp
  <2>3. Cardinality(GivenUp(p) \cup {c}) = Cardinality(GivenUp(p)) + 1
    BY <1>8, FS_AddElement
  <2>4. result'[p].ok = result[p].ok /\ result'[p].failed = result[p].failed + 1
    BY <1>0, <1>16 DEF DeadStep, CountFailed, TypeInv, Results
  <2> QED
    BY <1>1, <1>4, <1>5, <1>7, <1>12, <1>13, <1>14, <2>2, <2>3, <2>4 DEF Ledger
<1> QED
  BY <1>15, <1>16

(* A call that fails is one more failure, one that succeeds is the last. *)
LEMMA CallLedger ==
    ASSUME Base, NEW p \in Procs, ProcStep(p), CallStep(p), Ledger(p)
    PROVE  Ledger(p)'
<1>0. TypeInv /\ matched[p] \in Seq(SubIx) /\ matched[p] # <<>> /\ pc[p] = "deliver"
  BY DEF Base, TypeInv, CallStep
<1>c. PICK c \in SubIx : c = Current(p)
  BY <1>0, CurrentLeft
<1> DEFINE n == Len(calls[p][c])
<1>1. /\ matched'[p] = matched[p] /\ all'[p] = all[p] /\ result'[p] = result[p] /\ event'[p] = event[p]
  BY <1>0 DEF CallStep
<1>2. c \in Left(p) /\ c \in SubIx
  BY <1>c, <1>0, CurrentLeft
<1>3. PICK o \in {"ok", "fail"} :
        /\ calls'[p] = [calls[p] EXCEPT ![c] = Append(@, o)]
        /\ pc'[p] = IF o = "ok" THEN "log_ok" ELSE AfterFailure(p)
  BY <1>c, <1>0 DEF CallStep, TypeInv
<1>4. \A s \in SubIx : s # c => calls'[p][s] = calls[p][s]
  BY <1>0, <1>3 DEF TypeInv
<1>5. calls'[p][c] = Append(calls[p][c], o) /\ calls[p][c] \in Seq({"ok", "fail"})
  BY <1>0, <1>2, <1>3 DEF TypeInv
<1>6. \A s \in SubIx : s # c => /\ (NotDead(p, s)' <=> NotDead(p, s))
                                /\ (TookIt(p, s)' <=> TookIt(p, s)) /\ (GaveUp(p, s)' <=> GaveUp(p, s))
  BY <1>c, <1>1, <1>4, StandKept
<1>7. NotDead(p, c)
  BY <1>c, <1>0 DEF Ledger, InHand
<1>8. NotDead(p, c)'
  <2>1. ASSUME NEW d \in Written("dlq")' PROVE d \in Written("dlq")
    BY <1>0, NewDeadLetter
  <2> QED
    BY <1>7, <2>1 DEF NotDead
<1>9. OnlyFailed(p, c) /\ n < MaxAttempts(c) /\ MaxAttempts(c) \in Nat /\ n \in Nat
  BY <1>c, <1>0, <1>2, <1>5, MaxAttemptsType DEF Ledger, InHand
<1>10. Left(p)' = Left(p) /\ Over(p)' = Over(p) /\ Current(p)' = c
  BY <1>c, <1>1 DEF Left, Over, Current
<1>11. Over(p) \subseteq SubIx /\ Left(p) \subseteq SubIx /\ c \notin Over(p)
  BY <1>0, <1>2 DEF Over, TypeInv, Ledger
<1>12. Taken(p)' = Taken(p) /\ GivenUp(p)' = GivenUp(p)
  BY <1>6, <1>10, <1>11 DEF Taken, GivenUp
<1>13. \A s \in Left(p) : s # c => calls'[p][s] = <<>> /\ NotDead(p, s)'
  BY <1>c, <1>4, <1>6, <1>11 DEF Ledger
<1>14. /\ Len(calls'[p][c]) = n + 1 /\ calls'[p][c][n + 1] = o /\ calls'[p][c] # <<>>
       /\ \A k \in 1..n : calls'[p][c][k] = "fail"
  <2> DEFINE l == calls[p][c]
             m == calls'[p][c]
  <2>1. l \in Seq({"ok", "fail"}) /\ m = Append(l, o) /\ n = Len(l)
    BY <1>5
  <2>2. \A k \in 1..n : l[k] = "fail"
    BY <1>9 DEF OnlyFailed
  <2> HIDE DEF l, m, n
  <2>3. Len(m) = n + 1 /\ m[n + 1] = o /\ m # <<>> /\ \A k \in 1..n : m[k] = l[k]
    BY <2>1
  <2> QED
    BY <2>2, <2>3 DEF m, l
<1>15. Attempts(p) = n
  BY <1>c DEF Attempts
<1> HIDE DEF n
<1>16. InHand(p, c)'
  <2>1. CASE o = "ok"
    <3>1. \A k \in 1..((n + 1) - 1) : calls'[p][c][k] = "fail"
      BY <1>9, <1>14
    <3>2. TookIt(p, c)'
      BY <1>8, <1>9, <1>14, <2>1, <3>1 DEF TookIt, MaxAttempts
    <3> QED
      BY <1>3, <2>1, <3>2 DEF InHand
  <2>2. CASE o = "fail"
    <3>1. \A k \in 1..(n + 1) : calls'[p][c][k] = "fail"
      BY <1>9, <1>14, <2>2
    <3>2. OnlyFailed(p, c)'
      BY <1>14, <3>1 DEF OnlyFailed
    <3>3. CASE n + 1 >= MaxAttempts(c)
      <4>1. pc'[p] = "log_err" /\ n + 1 = MaxAttempts(c)
        BY <1>c, <1>3, <1>9, <1>15, <2>2, <3>3 DEF AfterFailure
      <4>2. UsedUp(p, c)'
        BY <1>14, <3>2, <4>1 DEF UsedUp, MaxAttempts
      <4> QED
        BY <1>8, <4>1, <4>2 DEF InHand
    <3>4. CASE ~(n + 1 >= MaxAttempts(c))
      <4>1. pc'[p] = "deliver" /\ n + 1 < MaxAttempts(c)
        BY <1>c, <1>3, <1>9, <1>15, <2>2, <3>4 DEF AfterFailure
      <4>2. (Len(calls[p][c]) < MaxAttempts(c))'
        BY <1>14, <4>1 DEF MaxAttempts
      <4> QED
        BY <1>8, <3>2, <4>1, <4>2 DEF InHand
    <3> QED
      BY <3>3, <3>4
  <2> QED
    BY <2>1, <2>2
<1>17. Enumerates(matched[p], Left(p))'
  BY <1>1, <1>10 DEF Ledger, Enumerates
<1> QED
  BY <1>c, <1>1, <1>10, <1>12, <1>13, <1>16, <1>17 DEF Ledger

(* Writing the dead letter of a subscription whose attempts are used up. *)
LEMMA LetterLedger ==
    ASSUME Base, NEW p \in Procs, ProcStep(p), RecordStep(p), pc[p] = "log_dlq", Ledger(p)
    PROVE  Ledger(p)'
<1>0. TypeInv /\ matched[p] # <<>>
  BY DEF Base, WhereInv
<1>c. PICK c \in SubIx : c = Current(p)
  BY <1>0, CurrentLeft
<1>1. /\ matched'[p] = matched[p] /\ all'[p] = all[p] /\ result'[p] = result[p] /\ event'[p] = event[p]
      /\ calls'[p] = calls[p] /\ pc'[p] = "log_dlq" /\ stage'[p] = "newline" /\ stage[p] = "record"
  BY <1>0 DEF RecordStep, TypeInv
<1>2. c \in Left(p) /\ c \in SubIx
  BY <1>c, <1>0, CurrentLeft
<1>3. \A s \in SubIx : s # c => /\ (NotDead(p, s)' <=> NotDead(p, s))
                                /\ (TookIt(p, s)' <=> TookIt(p, s)) /\ (GaveUp(p, s)' <=> GaveUp(p, s))
  BY <1>c, <1>1, StandKept
<1>4. Left(p)' = Left(p) /\ Over(p)' = Over(p) /\ Current(p)' = c
  BY <1>c, <1>1 DEF Left, Over, Current
<1>5. Over(p) \subseteq SubIx /\ Left(p) \subseteq SubIx /\ c \notin Over(p)
  BY <1>0, <1>2 DEF Over, TypeInv, Ledger
<1>6. Taken(p)' = Taken(p) /\ GivenUp(p)' = GivenUp(p)
  BY <1>3, <1>4, <1>5 DEF Taken, GivenUp
<1>7. \A s \in Left(p) : s # c => calls'[p][s] = <<>> /\ NotDead(p, s)'
  BY <1>c, <1>1, <1>3, <1>5 DEF Ledger
<1>8. IsDead(p, c)'
  <2>1. Target(pc[p]) = "dlq" /\ "dlq" \in Files
    BY DEF Target, Files
  <2>2. Entry(p) = [id |-> <<p, c>>, event |-> event[p], sub |-> SubId(c)]
    BY <1>c, <2>1 DEF Entry
  <2> QED
    BY <1>1, <2>1, <2>2, RecordIsWritten DEF IsDead
<1>9. UsedUp(p, c)'
  <2>1. UsedUp(p, c)
    BY <1>c, <1>0, <1>1 DEF Ledger, InHand
  <2> QED
    BY <1>1, <2>1 DEF UsedUp, OnlyFailed, MaxAttempts
<1>10. Enumerates(matched[p], Left(p))'
  BY <1>1, <1>4 DEF Ledger, Enumerates
<1>11. InHand(p, c)'
  BY <1>1, <1>8, <1>9 DEF InHand, GaveUp
<1> QED
  BY <1>c, <1>1, <1>4, <1>6, <1>7, <1>10, <1>11 DEF Ledger

LEMMA LedgerStep ==
    ASSUME Base, FreshInv, LedgerInv, [Next]_vars
    PROVE  LedgerInv'
<1>0. TypeInv /\ WhereInv
  BY DEF Base
<1>1. CASE UNCHANGED vars
  <2>1. Written("dlq")' = Written("dlq")
    BY <1>1 DEF vars, Written
  <2>2. ASSUME NEW p \in Procs PROVE Ledger(p)' <=> Ledger(p)
    <3>1. Left(p)' = Left(p) /\ Over(p)' = Over(p) /\ Current(p)' = Current(p)
      BY <1>1 DEF vars, Left, Over, Current
    <3>2. \A s : /\ (NotDead(p, s)' <=> NotDead(p, s)) /\ (TookIt(p, s)' <=> TookIt(p, s))
                 /\ (GaveUp(p, s)' <=> GaveUp(p, s)) /\ (InHand(p, s)' <=> InHand(p, s))
      BY <1>1, <2>1 DEF vars, NotDead, TookIt, GaveUp, UsedUp, OnlyFailed, IsDead, InHand, MaxAttempts
    <3>3. Taken(p)' = Taken(p) /\ GivenUp(p)' = GivenUp(p)
      BY <3>1, <3>2 DEF Taken, GivenUp
    <3>4. Enumerates(matched[p], Left(p))' <=> Enumerates(matched[p], Left(p))
      BY <1>1, <3>1 DEF vars, Enumerates
    <3> QED
      BY <1>1, <3>1, <3>2, <3>3, <3>4 DEF vars, Ledger
  <2> QED
    BY <1>1, <2>2 DEF vars, LedgerInv
<1>2. ASSUME NEW p \in Procs, ProcStep(p)
      PROVE  LedgerInv'
  <2> DEFINE L(q) == /\ result[q].status = "ok" => pc[q] = "done" /\ matched[q] = <<>>
                     /\ pc[q] \in Delivering \/ result[q].status = "ok" => Ledger(q)
  <2>0. L(p)
    BY DEF LedgerInv
  <2>1. ASSUME NEW q \in Procs, q # p PROVE L(q)'
    <3>1. L(q)
      BY DEF LedgerInv
    <3>2. /\ pc'[q] = pc[q] /\ stage'[q] = stage[q] /\ event'[q] = event[q] /\ calls'[q] = calls[q]
          /\ matched'[q] = matched[q] /\ all'[q] = all[q] /\ result'[q] = result[q]
      BY <1>2, <2>1, Others
    <3>3. ASSUME Ledger(q) PROVE Ledger(q)'
      <4> HIDE DEF L
      <4> QED
        BY <1>2, <2>1, <3>2, <3>3, LedgerKept
    <3> QED
      BY <3>1, <3>2, <3>3
  <2>2. ASSUME result'[p].status # "ok", pc'[p] \notin Delivering PROVE L(p)'
    BY <2>2
  <2>3. pc[p] \in Delivering => result[p].status # "ok" /\ Ledger(p)
    BY <2>0 DEF Delivering
  <2>4. ASSUME RejectStep(p) \/ FailStep(p) PROVE L(p)'
    BY <1>0, <2>2, <2>4 DEF RejectStep, FailStep, Fail, TypeInv, Results, Delivering
  <2>5. ASSUME BeginStep(p) PROVE L(p)'
    BY <1>0, <2>2, <2>5 DEF BeginStep, TypeInv, FreshInv, NoReport, Delivering
  <2>6. ASSUME Crash(p) PROVE L(p)'
    BY <1>0, <2>0, <2>2, <2>6 DEF Crash, TypeInv, Delivering
  <2>7. ASSUME RecordStep(p) PROVE L(p)'
    <3>1. /\ pc'[p] = pc[p] /\ event'[p] = event[p] /\ calls'[p] = calls[p]
          /\ matched'[p] = matched[p] /\ all'[p] = all[p] /\ result'[p] = result[p]
      BY <2>7 DEF RecordStep
    <3>2. CASE pc[p] = "log_event"
      BY <2>2, <3>1, <3>2 DEF FreshInv, NoReport, Delivering
    <3>3. CASE pc[p] \in {"log_ok", "log_err"}
      <4>1. Ledger(p)'
        BY <1>2, <2>3, <3>1, <3>3, LedgerKept DEF Delivering
      <4> QED
        BY <2>3, <3>1, <3>3, <4>1 DEF Delivering
    <3>4. CASE pc[p] = "log_dlq"
      <4>1. Ledger(p)'
        BY <1>2, <2>3, <2>7, <3>4, LetterLedger DEF Delivering
      <4> QED
        BY <2>3, <3>1, <3>4, <4>1 DEF Delivering
    <3> QED
      BY <2>7, <3>2, <3>3, <3>4 DEF RecordStep, Logging
  <2>8. ASSUME MatchStep(p) PROVE L(p)'
    <3>1. Ledger(p)'
      BY <1>2, <2>8, MatchLedger
    <3>2. pc[p] = "log_event" /\ result'[p] = result[p]
      BY <2>8 DEF MatchStep, NewlineStep
    <3>3. result'[p].status # "ok"
      BY <3>2 DEF FreshInv, NoReport
    <3> QED
      BY <3>1, <3>3
  <2>9. ASSUME OkStep(p) \/ DeadStep(p) PROVE L(p)'
    <3>1. pc[p] \in Delivering
      BY <2>9 DEF OkStep, DeadStep, NewlineStep, Delivering
    <3>2. Ledger(p)'
      BY <1>2, <2>3, <2>9, <3>1, ServedLedger
    <3>3. result'[p].status = result[p].status
      BY <1>0, <2>9 DEF OkStep, DeadStep, CountFailed, TypeInv, Results
    <3> QED
      BY <2>3, <3>1, <3>2, <3>3
  <2>10. ASSUME ErrStep(p) PROVE L(p)'
    <3>1. /\ pc[p] = "log_err" /\ pc'[p] = "log_dlq" /\ stage'[p] = "record" /\ event'[p] = event[p]
          /\ calls'[p] = calls[p] /\ matched'[p] = matched[p] /\ all'[p] = all[p] /\ result'[p] = result[p]
      BY <1>0, <2>10 DEF ErrStep, NewlineStep, TypeInv
    <3>2. Ledger(p)'
      BY <1>2, <2>3, <3>1, LedgerKept DEF Delivering
    <3> QED
      BY <2>3, <3>1, <3>2 DEF Delivering
  <2>11. ASSUME CallStep(p) PROVE L(p)'
    <3>1. pc[p] \in Delivering /\ result' = result
      BY <2>11 DEF CallStep, Delivering
    <3>2. Ledger(p)'
      BY <1>2, <2>3, <2>11, <3>1, CallLedger
    <3> QED
      BY <2>3, <3>1, <3>2
  <2>12. ASSUME Report(p) PROVE L(p)'
    <3>1. /\ pc[p] = "deliver" /\ pc'[p] = "done" /\ matched[p] = <<>> /\ event'[p] = event[p]
          /\ calls'[p] = calls[p] /\ matched'[p] = matched[p] /\ all'[p] = all[p]
      BY <1>0, <2>12 DEF Report, TypeInv
    <3>2. result'[p].ok = result[p].ok /\ result'[p].failed = result[p].failed
      BY <1>0, <2>12 DEF Report, TypeInv, Results
    <3>3. Ledger(p)'
      BY <1>2, <2>3, <3>1, <3>2, LedgerKept DEF Delivering
    <3> QED
      BY <3>1, <3>3
  <2>13. L(p)'
    <3> HIDE DEF L
    <3> QED
      BY <1>2, <2>4, <2>5, <2>6, <2>7, <2>8, <2>9, <2>10, <2>11, <2>12 DEF ProcStep
  <2>14. \A q \in Procs : L(q)'
    <3> HIDE DEF L
    <3> QED
      BY <2>1, <2>13
  <2> QED
    BY <2>14 DEF LedgerInv
<1> QED
  BY <1>1, <1>2, Steps

(***************************************************************************)
(* A publish that reports success has accounted for every subscription it   *)
(* matched, delivered or dead-lettered and never both, within max_attempts, *)
(* and its two counts are right (the loop of publish_event_internal),       *)
(* whatever other commands write to the same logs and whichever die.        *)
(***************************************************************************)
THEOREM ReportsAccountForAll == Spec => []ReportAccountsForAll
<1>1. ASSUME Init PROVE LedgerInv
  BY <1>1 DEF Init, LedgerInv, Delivering, NoReport
<1>2. ASSUME Base, LedgerInv PROVE ReportAccountsForAll
  <2> SUFFICES ASSUME NEW p \in Procs, result[p].status = "ok"
               PROVE  /\ Delivered(p) \cap Dead(p) = {} /\ Delivered(p) \cup Dead(p) = all[p]
                      /\ \A s \in Dead(p) : Len(calls[p][s]) = MaxAttempts(s)
                      /\ \A s \in Delivered(p) :
                           /\ \A k \in 1..(Len(calls[p][s]) - 1) : calls[p][s][k] = "fail"
                           /\ Len(calls[p][s]) <= MaxAttempts(s)
                      /\ result[p].ok = Cardinality(Delivered(p)) /\ result[p].failed = Cardinality(Dead(p))
    BY DEF ReportAccountsForAll
  <2>1. Ledger(p) /\ matched[p] = <<>>
    BY <1>2 DEF LedgerInv
  <2>2. Over(p) = all[p]
    BY <2>1 DEF Over, Left
  <2>3. \A s \in all[p] : TookIt(p, s) \/ GaveUp(p, s)
    BY <2>1, <2>2 DEF Ledger, Taken, GivenUp
  <2>4. ASSUME NEW s \in all[p], TookIt(p, s) PROVE s \in Delivered(p) /\ s \notin Dead(p) /\ ~GaveUp(p, s)
    <3>1. ~IsDead(p, s)
      BY <2>4 DEF TookIt, NotDead, IsDead
    <3> QED
      BY <2>4, <3>1 DEF TookIt, Delivered, Dead, IsDead, GaveUp
  <2>5. ASSUME NEW s \in all[p], GaveUp(p, s) PROVE s \in Dead(p) /\ s \notin Delivered(p)
    <3>1. s \in Dead(p)
      BY <2>5 DEF GaveUp, IsDead, Dead
    <3>2. s \in SubIx /\ calls[p][s] \in Seq({"ok", "fail"}) /\ Len(calls[p][s]) \in Nat \ {0}
      BY <1>2, <2>5, MaxAttemptsType DEF Base, TypeInv, GaveUp, UsedUp
    <3>3. calls[p][s][Len(calls[p][s])] = "fail"
      BY <2>5, <3>2 DEF GaveUp, UsedUp, OnlyFailed
    <3> QED
      BY <3>1, <3>3 DEF Delivered
  <2>6. Delivered(p) = Taken(p) /\ Dead(p) = GivenUp(p)
    <3>1. Delivered(p) \subseteq all[p] /\ Dead(p) \subseteq all[p]
      BY DEF Delivered, Dead
    <3> QED
      BY <2>2, <2>3, <2>4, <2>5, <3>1 DEF Taken, GivenUp
  <2>7. Delivered(p) \cap Dead(p) = {} /\ Delivered(p) \cup Dead(p) = all[p]
    BY <2>2, <2>3, <2>4, <2>6 DEF Taken, GivenUp
  <2>8. /\ \A s \in Dead(p) : Len(calls[p][s]) = MaxAttempts(s)
        /\ \A s \in Delivered(p) : /\ \A k \in 1..(Len(calls[p][s]) - 1) : calls[p][s][k] = "fail"
                                   /\ Len(calls[p][s]) <= MaxAttempts(s)
    BY <2>6 DEF Taken, GivenUp, TookIt, GaveUp, UsedUp
  <2>9. result[p].ok = Cardinality(Delivered(p)) /\ result[p].failed = Cardinality(Dead(p))
    BY <2>1, <2>6 DEF Ledger
  <2> QED
    BY <2>7, <2>8, <2>9, Zenon
<1> QED
  BY BaseInit, BaseStep, FreshInit, FreshStep, LedgerStep, <1>1, <1>2, PTL DEF Spec

-----------------------------------------------------------------------------
(***************************************************************************)
(* Replaying a dead letter calls only subscriptions of the id it records,   *)
(* with the topic and the payload that failed (only_subscription_id of      *)
(* publish_event_internal), and one that reports success has called the     *)
(* subscription that failed, whatever is written to the logs meanwhile.     *)
(***************************************************************************)
THEOREM ReplayGoesToTheFailed == Spec => []ReplaysOnlyTheFailed
<1>1. ASSUME Init PROVE ReplayInv
  <2>1. Written("dlq") = {}
    BY <1>1 DEF Init, Written, Files
  <2>2. \A p \in Procs : DOMAIN matched[p] = {} /\ cmd[p].kind # "replay_delivery"
    BY <1>1 DEF Init, NoCommand
  <2> QED
    BY <2>1, <2>2 DEF ReplayInv
<1>2. ASSUME Base, ReplayInv, ReportAccountsForAll PROVE ReplaysOnlyTheFailed
  <2>1. ASSUME NEW p \in Procs, cmd[p].kind = "replay_delivery", NEW s \in SubIx, calls[p][s] # <<>>
        PROVE  \E d \in Written("dlq") : /\ d.id = cmd[p].delivery /\ d.sub = SubId(s)
                                         /\ d.event.topic = event[p].topic
                                         /\ d.event.payload = event[p].payload
    <3>1. SubId(s) = SubId(cmd[p].delivery[2]) /\ ReplaysLetter(p)
      BY <1>2, <2>1 DEF ReplayInv, ReplayFacts
    <3>2. PICK d \in Written("dlq") : d.id = cmd[p].delivery /\ SameEvent(p, d)
      BY <3>1 DEF ReplaysLetter
    <3>3. d.sub = SubId(cmd[p].delivery[2])
      BY <1>2, <3>2 DEF ReplayInv, LetterFits
    <3> QED
      BY <3>1, <3>2, <3>3 DEF SameEvent
  <2>2. ASSUME NEW p \in Procs, cmd[p].kind = "replay_delivery", result[p].status = "ok"
        PROVE  calls[p][cmd[p].delivery[2]] # <<>>
    <3> DEFINE s == cmd[p].delivery[2]
    <3>1. s \in all[p] /\ s \in SubIx
      BY <1>2, <2>2 DEF ReplayInv, ReplayFacts, Base, TypeInv
    <3> HIDE DEF s
    <3>2. s \in Delivered(p) \/ s \in Dead(p)
      BY <1>2, <2>2, <3>1 DEF ReportAccountsForAll
    <3>3. CASE s \in Delivered(p)
      BY <3>3 DEF Delivered, s
    <3>4. CASE s \in Dead(p)
      <4>1. Len(calls[p][s]) = MaxAttempts(s) /\ MaxAttempts(s) \in Nat \ {0}
        BY <1>2, <2>2, <3>1, <3>4, MaxAttemptsType DEF ReportAccountsForAll
      <4>2. calls[p][s] # <<>>
        BY <4>1
      <4> QED
        BY <4>2 DEF s
    <3> QED
      BY <3>2, <3>3, <3>4
  <2> QED
    BY <2>1, <2>2 DEF ReplaysOnlyTheFailed
<1> QED
  BY BaseInit, BaseStep, FreshInit, FreshStep, ReplayStep, ReportsAccountForAll, <1>1, <1>2, PTL DEF Spec

=============================================================================
