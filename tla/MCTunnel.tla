------------------------------ MODULE MCTunnel ------------------------------
EXTENDS Tunnel

All == {"start", "restart", "stop"}
Three == [o \in Operators |-> IF o = 1 THEN {"start"} ELSE All]
Two == [Three EXCEPT ![3] = {}]
Plain == [o \in Operators |-> IF o = 1 THEN {"start"} ELSE {"start", "stop"}]

Cast(service, commands, limit) == [service |-> service, commands |-> commands, limit |-> limit]

(* A start, and then starts, restarts and stops in any order: three one     *)
(* after the other, or two that overlap.                                    *)
AllCasts ==
    {Cast("cloudflared", Three, 1), Cast("cloudflared", Two, 2), Cast("ngrok", Two, 1),
     Cast("process", Plain, 1), Cast("process", [Plain EXCEPT ![3] = {}], 2)}
=============================================================================
