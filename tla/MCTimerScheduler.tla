--------------------------- MODULE MCTimerScheduler ---------------------------
EXTENDS TimerScheduler

Nested(op, provider, of, interval) == [op |-> op, provider |-> provider, of |-> of, interval |-> interval]
Entry(op, provider, interval) == Nested(op, provider, Absent, interval)
Op(op, interval) == [op |-> op, interval |-> interval]

Pack(id, domain, top, nested, ops) ==
    [id |-> id, domain |-> domain, inline |-> domain = "events", top |-> top, nested |-> nested, ops |-> ops]

(* Explicit timers, nested ones, ones by name, a pack of another domain, and *)
(* intervals that are missing or zero.                                       *)
P1 == Pack("p", "events", <<Entry("poll", Absent, 2), Entry(Absent, Absent, 1), Entry("sync", "q", NoInterval)>>,
           <<>>, <<Op("timer_tick", NoInterval)>>)
P2 == Pack("q", "events", <<>>, <<Nested("poll", "q", "z", 0)>>, <<>>)
P3 == Pack("r", "events", <<>>, <<>>, <<Op("timer_tick", NoInterval), Op("timer_x_3", 3)>>)
P4 == Pack("m", "messaging", <<Entry("poll", Absent, 1)>>, <<>>, <<>>)
Broken == [P3 EXCEPT !.inline = FALSE]

SomePacks == {<<P1, P2>>, <<P2, P3, P4>>, <<P4>>, <<P1, Broken>>}
=============================================================================
