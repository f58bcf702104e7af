---------------------------- MODULE GuardedCall ----------------------------
(***************************************************************************)
(* What the operator promises of every call it accepts, whatever guards     *)
(* (admission, token validation, hooks) stand before the target: the guards *)
(* are asked first, the target is executed at most once and only after all  *)
(* of them have let the call through, a denial or refusal can only come     *)
(* from a guard, and "ok" or "fail" is only reported of a target that ran.  *)
(***************************************************************************)
CONSTANT Calls

VARIABLES phase,     \* how far each call has got
          answer     \* what the caller was told

Phases == {"asking", "cleared", "executed", "returned"}
Answers == {"none", "ok", "fail", "denied", "refused", "err"}

Init ==
    /\ phase = [c \in Calls |-> "asking"]
    /\ answer = [c \in Calls |-> "none"]

Move(c, from, to) == phase[c] = from /\ phase' = [phase EXCEPT ![c] = to]

Clear(c) == Move(c, "asking", "cleared") /\ UNCHANGED answer

Execute(c) == Move(c, "cleared", "executed") /\ UNCHANGED answer

(* A guard says no, or cannot be consulted. *)
Refuse(c) ==
    /\ Move(c, "asking", "returned")
    /\ \E a \in {"denied", "refused", "err"} : answer' = [answer EXCEPT ![c] = a]

(* The target could not be run to an outcome. *)
Break(c) ==
    /\ Move(c, "cleared", "returned")
    /\ answer' = [answer EXCEPT ![c] = "err"]

Finish(c) ==
    /\ Move(c, "executed", "returned")
    /\ \E a \in {"ok", "fail", "err"} : answer' = [answer EXCEPT ![c] = a]

Next == \E c \in Calls : Clear(c) \/ Execute(c) \/ Refuse(c) \/ Break(c) \/ Finish(c)

Spec == Init /\ [][Next]_<<phase, answer>>
=============================================================================
