---------------------------- MODULE MCCapEvents ----------------------------
EXTENDS CapEvents, TLC

MCPayloads == {"a", "b", "bad"}
MCTopicSchema == [t \in {"t", "u"} |-> {"a", "b"}]

(* Topic t has two subscriptions of different ids, of which one has a       *)
(* schema and one filters; topic u has two plain ones of two packs that     *)
(* gave them the same id.                                                   *)
FourSubscriptions ==
    << [id |-> "one", topic |-> "t", filter |-> MCPayloads, schema |-> {"a"}, max_attempts |-> 2],
       [id |-> "two", topic |-> "t", filter |-> {"a"}, schema |-> MCPayloads, max_attempts |-> 0],
       [id |-> "same", topic |-> "u", filter |-> MCPayloads, schema |-> MCPayloads, max_attempts |-> 1],
       [id |-> "same", topic |-> "u", filter |-> {"a"}, schema |-> MCPayloads, max_attempts |-> 1] >>

Publish(t, payloads) == [kind : {"publish"}, topic : {t}, payload : payloads]
ReplayOf(deliveries) == [kind : {"replay_delivery"}, delivery : deliveries]
ReplayEventOf(events) == [kind : {"replay_event"}, event : events]

None == [p \in Procs |-> {}]

(* Two commands at once, the second perhaps a replay of the first. *)
Overlapping ==
    [limit |-> 2,
     commands |-> [None EXCEPT
       !["p1"] = Publish("t", {"a"}),
       !["p2"] = Publish("t", {"b", "bad"}) \cup ReplayOf({<<"p1", 1>>}) \cup ReplayEventOf({<<"new", "p1">>})]]

(* Three commands one after the other: replays of replays, and the same     *)
(* dead letter replayed twice.                                              *)
Successive ==
    [limit |-> 1,
     commands |-> [None EXCEPT
       !["p1"] = Publish("u", {"a"}),
       !["p3"] = ReplayOf({<<"p1", 3>>}),
       !["p4"] = ReplayOf({"p1", "p3"} \X {3, 4}) \cup ReplayEventOf({<<"replay", <<"p1", 3>> >>})]]

AllCasts == {Overlapping, Successive}
=============================================================================
