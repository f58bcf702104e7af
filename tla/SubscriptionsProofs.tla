------------------------ MODULE SubscriptionsProofs ------------------------
(***************************************************************************)
(* Proofs about what commands keep in files for the commands after them:    *)
(* the universal subscriptions, for any number of concurrent commands,      *)
(* tenants, bindings, users and subscription ids, and the cache of provider *)
(* catalogues, for any references, catalogues and writes cut short.         *)
(***************************************************************************)
EXTENDS Subscriptions, RegistryCache, TLAPS

NoCommand == [op |-> None]

(* The types of TypeOK with the domains and the variables it leaves out. *)
TypeInv ==
    /\ store \in [Files -> State \cup {NoFile}]
    /\ pc \in [Procs -> PCs]
    /\ cmd \in [Procs -> Command \cup {NoCommand}]
    /\ todo \in [Procs -> SUBSET Listed]
    /\ cur \in [Procs -> Listed \cup {NoEntry}]
    /\ pending \in [Procs -> State \cup {NoFile}]
    /\ nextSid \in 1..(MaxSid + 1)
    /\ DOMAIN owner = Sids
    /\ DOMAIN listed = Procs /\ DOMAIN tried = Procs

(***************************************************************************)
(* Where a command is tells what it was asked: each command only takes its  *)
(* own steps, and what it has read is there when it needs it.               *)
(***************************************************************************)
WhereInv ==
    \A p \in Procs :
      /\ pc[p] = "idle" <=> cmd[p] = NoCommand
      /\ pc[p] = "ensure_write" => cmd[p].op = "ensure" /\ pending[p] # NoFile
      /\ pc[p] = "visit" => cmd[p].op = "renew_due"
      /\ pc[p] = "renew_write" => cmd[p].op \in {"renew_due", "renew_one"} /\ pending[p] # NoFile
                                  /\ cur[p] # NoEntry
      /\ pc[p] = "call" => cmd[p].op \in {"renew_one", "delete"} /\ cur[p] # NoEntry
      /\ pc[p] = "remove" => cmd[p].op = "delete" /\ cur[p] # NoEntry

Base == TypeInv /\ WhereInv

(* States, files and entries are told apart from there being none. *)
LEMMA Distinct ==
    /\ NoFile \notin State /\ NoEntry \notin Listed /\ NoCommand \notin Command
    /\ \A c \in Command : c.op \in Ops /\ c.tenant \in Tenants /\ c.binding \in Bindings
                          /\ c.user \in Users \cup {None}
    /\ NoCommand.op = "none"
    /\ \A e \in Listed : e.file \in Files /\ e.state \in State
BY DEF NoFile, State, Expirations, NoEntry, Listed, NoCommand, Command, Ops, None

LEMMA BaseInit == Init => Base
<1> SUFFICES ASSUME Init PROVE Base
  OBVIOUS
<1>1. TypeInv
  BY SubscriptionsAssumption DEF Init, TypeInv, PCs, NoCommand
<1>2. WhereInv
  BY DEF Init, WhereInv, NoCommand
<1> QED
  BY <1>1, <1>2 DEF Base

(* A state that a file can hold, as the provider's answer fills it. *)
LEMMA AnswerType ==
    ASSUME NEW u \in Users \cup {None}, NEW s \in Sids \cup {NoSid}, NEW x \in {None, "later"}
    PROVE  [user |-> u, sid |-> s, exp |-> x] \in State
BY DEF State, Expirations

(* The states and entries of the store, as a pass or a command reads them. *)
LEMMA ReadType ==
    ASSUME TypeInv
    PROVE  /\ Stored \subseteq Listed
           /\ \A f \in Files : store[f] # NoFile => [file |-> f, state |-> store[f]] \in Listed
BY DEF TypeInv, Stored, Listed

(* Ensure and what it answers keep the types and the places. *)
LEMMA EnsureBase ==
    ASSUME Base, NEW p \in Procs, NEW c \in Command, Ensure(p, c)
    PROVE  Base'
<1> USE Distinct, SubscriptionsAssumption
<1>1. c.user \in Users \cup {None} /\ c # NoCommand /\ c.op = "ensure"
  BY DEF Ensure
<1>2. /\ cmd' = [cmd EXCEPT ![p] = c]
      /\ UNCHANGED <<store, todo, cur, listed, tried>>
  BY DEF Ensure
<1>3. TypeInv /\ WhereInv
  BY DEF Base
<1>4. CASE Goto(p, "done") /\ UNCHANGED <<pending, nextSid, owner>>
  <2>1. TypeInv'
    BY <1>1, <1>2, <1>3, <1>4 DEF TypeInv, Goto, PCs
  <2>2. WhereInv'
    BY <1>1, <1>2, <1>3, <1>4 DEF TypeInv, WhereInv, Goto, NoCommand
  <2> QED
    BY <2>1, <2>2 DEF Base
<1>5. ASSUME NEW s \in Sids \cup {NoSid}, NEW exp \in {None, "later"},
             pending' = [pending EXCEPT ![p] = [user |-> c.user, sid |-> s, exp |-> exp]],
             Goto(p, "ensure_write"), nextSid' \in 1..(MaxSid + 1), DOMAIN owner' = Sids
      PROVE  Base'
  <2>1. [user |-> c.user, sid |-> s, exp |-> exp] \in State
    BY <1>1, AnswerType
  <2>2. TypeInv'
    BY <1>1, <1>2, <1>3, <1>5, <2>1 DEF TypeInv, Goto, PCs
  <2>3. WhereInv'
    BY <1>1, <1>2, <1>3, <1>5, <2>1 DEF TypeInv, WhereInv, Goto, NoCommand
  <2> QED
    BY <2>2, <2>3 DEF Base
<1>6. CASE \E exp \in {None, "later"} :
            /\ pending' = [pending EXCEPT ![p] = [user |-> c.user, sid |-> NoSid, exp |-> exp]]
            /\ Goto(p, "ensure_write")
            /\ UNCHANGED <<nextSid, owner>>
  BY <1>3, <1>5, <1>6 DEF TypeInv
<1>7. CASE \E exp \in {None, "later"} :
            /\ nextSid <= MaxSid
            /\ pending' = [pending EXCEPT ![p] = [user |-> c.user, sid |-> nextSid, exp |-> exp]]
            /\ owner' = [owner EXCEPT ![nextSid] = UserOf(c.tenant, c.user)]
            /\ nextSid' = nextSid + 1
            /\ Goto(p, "ensure_write")
  <2>1. nextSid \in Sids /\ nextSid' \in 1..(MaxSid + 1)
    BY <1>3, <1>7 DEF TypeInv, Sids
  <2>2. DOMAIN owner' = Sids
    BY <1>3, <1>7 DEF TypeInv
  <2> QED
    BY <1>5, <1>7, <2>1, <2>2
<1> QED
  BY <1>4, <1>6, <1>7 DEF Ensure

(* A call to renew keeps the types and the places, wherever it goes next. *)
LEMMA RenewCallBase ==
    ASSUME Base, NEW p \in Procs, NEW e \in Listed, NEW l \in {"visit", "done"},
           RenewCall(p, e, l), cmd[p].op \in {"renew_due", "renew_one"},
           l = "visit" => cmd[p].op = "renew_due",
           todo' \in [Procs -> SUBSET Listed], DOMAIN tried' = Procs,
           UNCHANGED <<store, cmd, nextSid, owner, listed>>
    PROVE  Base'
<1> USE Distinct, SubscriptionsAssumption
<1>1. TypeInv /\ WhereInv /\ cmd[p] # NoCommand
  BY DEF Base, NoCommand, None
<1>2. e.state.user \in Users \cup {None} /\ e.state.sid \in Sids \cup {NoSid} /\ NoSid \in Sids \cup {NoSid}
  BY DEF Listed, State
<1>3. CASE \E sid \in {e.state.sid, NoSid}, exp \in {None, "later"} :
             /\ pending' = [pending EXCEPT ![p] = Renewed(e, sid, exp)]
             /\ cur' = [cur EXCEPT ![p] = e]
             /\ Goto(p, "renew_write")
  <2>1. PICK sid \in {e.state.sid, NoSid}, exp \in {None, "later"} :
             /\ pending' = [pending EXCEPT ![p] = Renewed(e, sid, exp)]
             /\ cur' = [cur EXCEPT ![p] = e]
             /\ Goto(p, "renew_write")
    BY <1>3
  <2>2. Renewed(e, sid, exp) \in State
    BY <1>2, AnswerType DEF Renewed
  <2>3. TypeInv'
    BY <1>1, <2>1, <2>2 DEF TypeInv, Goto, PCs
  <2>4. WhereInv'
    BY <1>1, <2>1, <2>2 DEF TypeInv, WhereInv, Goto, NoCommand
  <2> QED
    BY <2>3, <2>4 DEF Base
<1>4. CASE Goto(p, l) /\ UNCHANGED <<pending, cur>>
  <2>1. TypeInv'
    BY <1>1, <1>4 DEF TypeInv, Goto, PCs
  <2>2. WhereInv'
    BY <1>1, <1>4 DEF TypeInv, WhereInv, Goto, NoCommand
  <2> QED
    BY <2>1, <2>2 DEF Base
<1> QED
  BY <1>3, <1>4 DEF RenewCall

(* Every step keeps the types and the places. *)
LEMMA BaseStep ==
    ASSUME Base, [Next]_vars
    PROVE  Base'
<1> USE Distinct, SubscriptionsAssumption
<1>0. TypeInv /\ WhereInv
  BY DEF Base
<1>1. ASSUME NEW p \in Procs, NEW c \in Commands[p], Ensure(p, c)
      PROVE  Base'
  BY <1>1, EnsureBase
<1>2. ASSUME NEW p \in Procs, NEW c \in Commands[p], RenewDue(p, c)
      PROVE  Base'
  <2>1. c \in Command /\ c.op = "renew_due" /\ c # NoCommand /\ Stored \in SUBSET Listed
    BY <1>0, <1>2, ReadType DEF RenewDue
  <2>2. TypeInv'
    BY <1>0, <1>2, <2>1 DEF RenewDue, TypeInv, Goto, PCs
  <2>3. WhereInv'
    BY <1>0, <1>2, <2>1 DEF RenewDue, TypeInv, WhereInv, Goto, NoCommand
  <2> QED
    BY <2>2, <2>3 DEF Base
<1>3. ASSUME NEW p \in Procs, NEW c \in Commands[p], NEW f \in Files,
             cmd' = [cmd EXCEPT ![p] = c], c.op \in {"renew_one", "delete"},
             \/ Goto(p, "done") /\ UNCHANGED cur
             \/ /\ store[f] # NoFile
                /\ cur' = [cur EXCEPT ![p] = [file |-> f, state |-> store[f]]]
                /\ Goto(p, "call"),
             UNCHANGED <<store, todo, pending, nextSid, history>>
      PROVE  Base'
  <2>1. c \in Command /\ c # NoCommand
    BY <1>3
  <2>2. store[f] # NoFile => [file |-> f, state |-> store[f]] \in Listed
    BY <1>0, <1>3, ReadType
  <2>3. TypeInv'
    BY <1>0, <1>3, <2>1, <2>2 DEF TypeInv, Goto, PCs, history
  <2>4. WhereInv'
    BY <1>0, <1>3, <2>1, <2>2 DEF TypeInv, WhereInv, Goto, NoCommand, history
  <2> QED
    BY <2>3, <2>4 DEF Base
<1>4. ASSUME NEW p \in Procs, NEW c \in Commands[p], RenewOne(p, c)
      PROVE  Base'
  <2>1. <<c.tenant, c.binding>> \in Files
    BY DEF Files
  <2> QED
    BY <1>3, <1>4, <2>1 DEF RenewOne
<1>5. ASSUME NEW p \in Procs, NEW c \in Commands[p], Delete(p, c)
      PROVE  Base'
  <2>1. <<c.tenant, c.binding>> \in Files
    BY DEF Files
  <2> QED
    BY <1>3, <1>5, <2>1 DEF Delete
<1>6. ASSUME NEW p \in Procs, EnsureWrite(p)
      PROVE  Base'
  <2>1. TypeInv'
    BY <1>0, <1>6 DEF EnsureWrite, TypeInv, Goto, PCs
  <2>2. WhereInv'
    BY <1>0, <1>6 DEF EnsureWrite, TypeInv, WhereInv, Goto, NoCommand
  <2> QED
    BY <2>1, <2>2 DEF Base
<1>7. ASSUME NEW p \in Procs, Finish(p)
      PROVE  Base'
  <2>1. TypeInv'
    BY <1>0, <1>7 DEF Finish, TypeInv, Goto, PCs, history
  <2>2. WhereInv'
    BY <1>0, <1>7 DEF Finish, TypeInv, WhereInv, Goto, NoCommand
  <2> QED
    BY <2>1, <2>2 DEF Base
<1>8. ASSUME NEW p \in Procs, RenewOneCall(p)
      PROVE  Base'
  <2>1. cur[p] \in Listed
    BY <1>0, <1>8 DEF RenewOneCall, TypeInv, WhereInv
  <2> QED
    BY <1>0, <1>8, <2>1, RenewCallBase DEF RenewOneCall, TypeInv
<1>9. ASSUME NEW p \in Procs, RenewWrite(p)
      PROVE  Base'
  <2>1. TypeInv'
    BY <1>0, <1>9 DEF RenewWrite, TypeInv, Goto, PCs, history
  <2>2. WhereInv'
    BY <1>0, <1>9 DEF RenewWrite, TypeInv, WhereInv, Goto, NoCommand
  <2> QED
    BY <2>1, <2>2 DEF Base
<1>10. ASSUME NEW p \in Procs, DeleteCall(p)
       PROVE  Base'
  <2>1. TypeInv'
    BY <1>0, <1>10 DEF DeleteCall, DeleteFailed, TypeInv, Goto, PCs
  <2>2. WhereInv'
    BY <1>0, <1>10 DEF DeleteCall, DeleteFailed, TypeInv, WhereInv, Goto, NoCommand
  <2> QED
    BY <2>1, <2>2 DEF Base
<1>11. ASSUME NEW p \in Procs, DeleteRemove(p)
       PROVE  Base'
  <2>1. TypeInv'
    BY <1>0, <1>11 DEF DeleteRemove, TypeInv, Goto, PCs
  <2>2. WhereInv'
    BY <1>0, <1>11 DEF DeleteRemove, TypeInv, WhereInv, Goto, NoCommand
  <2> QED
    BY <2>1, <2>2 DEF Base
<1>12. ASSUME NEW p \in Procs, NEW e \in todo[p], Skip(p, e)
       PROVE  Base'
  <2>1. TypeInv'
    BY <1>0, <1>12 DEF Skip, TypeInv, history
  <2>2. WhereInv'
    BY <1>0, <1>12 DEF Skip, TypeInv, WhereInv
  <2> QED
    BY <2>1, <2>2 DEF Base
<1>13. ASSUME NEW p \in Procs, NEW e \in todo[p], Visit(p, e)
       PROVE  Base'
  <2>1. e \in Listed /\ cmd[p].op = "renew_due"
    BY <1>0, <1>13 DEF Visit, TypeInv, WhereInv
  <2>2. todo' \in [Procs -> SUBSET Listed] /\ DOMAIN tried' = Procs
    BY <1>0, <1>13 DEF Visit, TypeInv
  <2> QED
    BY <1>13, <2>1, <2>2, RenewCallBase DEF Visit, AfterRenewError
<1>14. ASSUME NEW f \in Files, BecomeDue(f)
       PROVE  Base'
  <2>1. [store[f] EXCEPT !.exp = "due"] \in State
    BY <1>0, <1>14 DEF BecomeDue, TypeInv, State, Expirations, NoFile
  <2>2. store' \in [Files -> State \cup {NoFile}]
    BY <1>0, <1>14, <2>1 DEF BecomeDue, TypeInv
  <2>3. TypeInv'
    BY <1>0, <1>14, <2>2 DEF BecomeDue, TypeInv, history
  <2>4. WhereInv'
    BY <1>0, <1>14 DEF BecomeDue, WhereInv
  <2> QED
    BY <2>3, <2>4 DEF Base
<1>15. CASE UNCHANGED vars
  BY <1>0, <1>15 DEF vars, Base, TypeInv, WhereInv
<1> QED
  BY <1>1, <1>2, <1>4, <1>5, <1>6, <1>7, <1>8, <1>9, <1>10, <1>11, <1>12, <1>13, <1>14, <1>15
     DEF Next, Start, Step

(* Every variable keeps its type, whatever the commands do to each other's files. *)
THEOREM TypeCorrect == Spec => []TypeOK
<1>1. Base => TypeOK
  BY DEF Base, TypeInv, TypeOK
<1> QED
  BY BaseInit, BaseStep, <1>1, PTL DEF Spec

-----------------------------------------------------------------------------
(* Nothing due is lost by a pass. *)

(* What was due when the pass began is attempted or still to be visited, and *)
(* the pass ends only when nothing is left to visit.                         *)
PassInv ==
    \A p \in Procs : cmd[p].op = "renew_due" =>
      /\ \A e \in listed[p] : Due(e) => e \in tried[p] \/ e \in todo[p]
      /\ pc[p] = "done" => todo[p] = {}

(* A command that has begun keeps what it was asked. *)
LEMMA AskedOnce ==
    ASSUME Base, [Next]_vars, NEW p \in Procs
    PROVE  cmd'[p] = cmd[p] \/ (pc[p] = "idle" /\ cmd[p] = NoCommand)
<1>1. TypeInv /\ WhereInv
  BY DEF Base
<1>2. ASSUME NEW q \in Procs, NEW c, pc[q] = "idle", cmd' = [cmd EXCEPT ![q] = c]
      PROVE  cmd'[p] = cmd[p] \/ (pc[p] = "idle" /\ cmd[p] = NoCommand)
  BY <1>1, <1>2 DEF TypeInv, WhereInv
<1>3. ASSUME NEW q \in Procs, Start(q)
      PROVE  cmd'[p] = cmd[p] \/ (pc[p] = "idle" /\ cmd[p] = NoCommand)
  BY <1>2, <1>3 DEF Start, Ensure, RenewDue, RenewOne, Delete
<1>4. ASSUME NEW q \in Procs, Step(q)
      PROVE  cmd'[p] = cmd[p]
  BY <1>4 DEF Step, EnsureWrite, Finish, RenewOneCall, RenewWrite, DeleteCall, DeleteRemove, Skip, Visit
<1>5. ASSUME NEW f \in Files, BecomeDue(f)
      PROVE  cmd'[p] = cmd[p]
  BY <1>5 DEF BecomeDue
<1> QED
  BY <1>3, <1>4, <1>5 DEF Next, vars

LEMMA PassStep ==
    ASSUME Base, PassInv, [Next]_vars
    PROVE  PassInv'
<1> USE SubscriptionsAssumption
<1> SUFFICES ASSUME NEW p \in Procs, (cmd[p].op = "renew_due")'
             PROVE  /\ \A e \in listed'[p] : Due(e) => e \in tried'[p] \/ e \in todo'[p]
                    /\ pc'[p] = "done" => todo'[p] = {}
  BY DEF PassInv, Due
<1>0. TypeInv /\ WhereInv
  BY DEF Base
<1>1. ASSUME NEW q \in Procs, NEW c \in Commands[q], RenewDue(q, c)
      PROVE  /\ \A e \in listed'[p] : Due(e) => e \in tried'[p] \/ e \in todo'[p]
             /\ pc'[p] = "done" => todo'[p] = {}
  BY <1>0, <1>1 DEF RenewDue, Goto, TypeInv, WhereInv, PassInv
<1>2. ASSUME NEW q \in Procs, NEW c \in Commands[q],
             \/ Ensure(q, c) /\ c.op = "ensure"
             \/ RenewOne(q, c) /\ c.op = "renew_one"
             \/ Delete(q, c) /\ c.op = "delete"
      PROVE  /\ \A e \in listed'[p] : Due(e) => e \in tried'[p] \/ e \in todo'[p]
             /\ pc'[p] = "done" => todo'[p] = {}
  <2>1. cmd' = [cmd EXCEPT ![q] = c] /\ UNCHANGED <<listed, tried, todo>>
    BY <1>2 DEF Ensure, RenewOne, Delete, history
  <2>2. q # p
    BY <1>0, <1>2, <2>1 DEF TypeInv
  <2>3. cmd'[p] = cmd[p] /\ pc'[p] = pc[p]
    BY <1>0, <1>2, <2>1, <2>2 DEF TypeInv, Ensure, RenewOne, Delete, Goto
  <2> QED
    BY <2>1, <2>3 DEF PassInv
<1>3. ASSUME NEW q \in Procs, Finish(q)
      PROVE  /\ \A e \in listed'[p] : Due(e) => e \in tried'[p] \/ e \in todo'[p]
             /\ pc'[p] = "done" => todo'[p] = {}
  BY <1>0, <1>3 DEF Finish, Goto, TypeInv, PassInv, history
<1>4. ASSUME NEW q \in Procs, RenewWrite(q)
      PROVE  /\ \A e \in listed'[p] : Due(e) => e \in tried'[p] \/ e \in todo'[p]
             /\ pc'[p] = "done" => todo'[p] = {}
  BY <1>0, <1>4 DEF RenewWrite, Goto, TypeInv, PassInv, history
<1>5. ASSUME NEW q \in Procs, NEW e \in todo[q], Skip(q, e)
      PROVE  /\ \A d \in listed'[p] : Due(d) => d \in tried'[p] \/ d \in todo'[p]
             /\ pc'[p] = "done" => todo'[p] = {}
  BY <1>0, <1>5 DEF Skip, TypeInv, PassInv, history
<1>6. ASSUME NEW q \in Procs, NEW e \in todo[q], Visit(q, e)
      PROVE  /\ \A d \in listed'[p] : Due(d) => d \in tried'[p] \/ d \in todo'[p]
             /\ pc'[p] = "done" => todo'[p] = {}
  <2>1. Goto(q, "renew_write") \/ Goto(q, "visit")
    BY <1>6 DEF Visit, RenewCall, AfterRenewError
  <2> QED
    BY <1>0, <1>6, <2>1 DEF Visit, Goto, TypeInv, PassInv
<1>7. ASSUME NEW q \in Procs, EnsureWrite(q) \/ RenewOneCall(q) \/ DeleteCall(q) \/ DeleteRemove(q)
      PROVE  /\ \A e \in listed'[p] : Due(e) => e \in tried'[p] \/ e \in todo'[p]
             /\ pc'[p] = "done" => todo'[p] = {}
  <2>1. UNCHANGED <<cmd, listed, tried, todo>>
    BY <1>7 DEF EnsureWrite, RenewOneCall, DeleteCall, DeleteRemove
  <2>2. q # p
    BY <1>0, <1>7, <2>1 DEF WhereInv, EnsureWrite, RenewOneCall, DeleteCall, DeleteRemove
  <2>3. pc'[p] = pc[p]
    BY <1>0, <1>7, <2>2 DEF TypeInv, EnsureWrite, RenewOneCall, RenewCall, DeleteCall, DeleteFailed, DeleteRemove, Goto
  <2> QED
    BY <2>1, <2>3 DEF PassInv
<1>8. CASE (\E f \in Files : BecomeDue(f)) \/ UNCHANGED vars
  BY <1>8 DEF BecomeDue, vars, history, PassInv
<1>9. ASSUME NEW q \in Procs, NEW c \in Commands[q], Ensure(q, c) \/ RenewOne(q, c) \/ Delete(q, c)
      PROVE  /\ \A e \in listed'[p] : Due(e) => e \in tried'[p] \/ e \in todo'[p]
             /\ pc'[p] = "done" => todo'[p] = {}
  BY <1>2, <1>9 DEF Ensure, RenewOne, Delete
<1> QED
  BY <1>1, <1>3, <1>4, <1>5, <1>6, <1>7, <1>8, <1>9 DEF Next, Start, Step

(***************************************************************************)
(* A renew pass that is over has tried every binding that was due when it   *)
(* began (renew_due of the scheduler), for any number of commands running   *)
(* beside it and whichever renewals fail.                                   *)
(***************************************************************************)
THEOREM PassTriesAll == Spec => []RenewPassComplete
<1>1. Init => PassInv
  BY DEF Init, PassInv, None
<1>2. PassInv => RenewPassComplete
  BY DEF PassInv, RenewPassComplete
<1> QED
  BY BaseInit, BaseStep, PassStep, <1>1, <1>2, PTL DEF Spec

-----------------------------------------------------------------------------
(* A file is removed only after the provider's answer. *)

(* Every removed file was read by a delete whose subscription the provider   *)
(* has deleted, and a delete is about to remove only after that answer.      *)
RemovedInv ==
    /\ \A f \in deleted : \E q \in Procs :
         cmd[q].op = "delete" /\ cur[q].file = f /\ cur[q].state.sid \in accepted
    /\ \A p \in Procs : pc[p] = "remove" => cur[p].state.sid \in accepted

(* What a delete command has read stays as it is. *)
LEMMA DeleteReadsOnce ==
    ASSUME Base, [Next]_vars, NEW p \in Procs, cmd[p].op = "delete"
    PROVE  cmd'[p] = cmd[p] /\ cur'[p] = cur[p] /\ accepted \subseteq accepted'
<1>1. TypeInv /\ WhereInv
  BY DEF Base
<1>2. cmd[p] # NoCommand /\ pc[p] # "idle" /\ cmd'[p] = cmd[p]
  BY <1>1, AskedOnce DEF NoCommand, None, WhereInv
<1>3. ASSUME NEW q \in Procs, Start(q)
      PROVE  cur'[p] = cur[p] /\ accepted \subseteq accepted'
  BY <1>1, <1>2, <1>3 DEF Start, Ensure, RenewDue, RenewOne, Delete, TypeInv, history
<1>4. ASSUME NEW q \in Procs, Step(q)
      PROVE  cur'[p] = cur[p] /\ accepted \subseteq accepted'
  <2>1. CASE RenewOneCall(q)
    BY <1>1, <2>1 DEF RenewOneCall, RenewCall, TypeInv
  <2>2. CASE \E e \in todo[q] : Visit(q, e)
    BY <1>1, <2>2 DEF Visit, RenewCall, TypeInv, WhereInv
  <2>3. CASE DeleteCall(q)
    BY <2>3 DEF DeleteCall
  <2> QED
    BY <1>4, <2>1, <2>2, <2>3 DEF Step, EnsureWrite, Finish, RenewWrite, DeleteRemove, Skip, history
<1>5. ASSUME NEW f \in Files, BecomeDue(f)
      PROVE  cur'[p] = cur[p] /\ accepted \subseteq accepted'
  BY <1>5 DEF BecomeDue, history
<1> QED
  BY <1>2, <1>3, <1>4, <1>5 DEF Next, vars

LEMMA RemovedStep ==
    ASSUME Base, RemovedInv, [Next]_vars
    PROVE  RemovedInv'
<1>0. TypeInv /\ WhereInv
  BY DEF Base
<1>1. ASSUME NEW f \in deleted
      PROVE  \E q \in Procs : cmd'[q].op = "delete" /\ cur'[q].file = f /\ cur'[q].state.sid \in accepted'
  <2>1. PICK q \in Procs : cmd[q].op = "delete" /\ cur[q].file = f /\ cur[q].state.sid \in accepted
    BY DEF RemovedInv
  <2> QED
    BY <2>1, DeleteReadsOnce
<1>2. ASSUME NEW p \in Procs, pc[p] = "remove"
      PROVE  cur'[p].state.sid \in accepted'
  <2>1. cmd[p].op = "delete" /\ cur[p].state.sid \in accepted
    BY <1>0, <1>2 DEF WhereInv, RemovedInv
  <2> QED
    BY <2>1, DeleteReadsOnce
<1>3. ASSUME NEW q \in Procs, NEW l, Goto(q, l), l # "remove", deleted' \subseteq deleted
      PROVE  RemovedInv'
  <2>1. \A p \in Procs : pc'[p] = "remove" => pc[p] = "remove"
    BY <1>0, <1>3 DEF Goto, TypeInv
  <2> QED
    BY <1>1, <1>2, <1>3, <2>1 DEF RemovedInv
<1>4. ASSUME NEW q \in Procs, Start(q)
      PROVE  RemovedInv'
  <2>1. \E l \in {"done", "ensure_write", "visit", "call"} : Goto(q, l)
    BY <1>4 DEF Start, Ensure, RenewDue, RenewOne, Delete
  <2>2. deleted' = deleted
    BY <1>4 DEF Start, Ensure, RenewDue, RenewOne, Delete, history
  <2> QED
    BY <1>3, <2>1, <2>2
<1>5. ASSUME NEW q \in Procs, DeleteCall(q)
      PROVE  RemovedInv'
  <2>1. CASE Goto(q, "remove") /\ accepted' = accepted \cup {cur[q].state.sid}
    <3>1. \A p \in Procs : pc'[p] = "remove" => p = q \/ pc[p] = "remove"
      BY <1>0, <2>1 DEF Goto, TypeInv
    <3>2. cur'[q].state.sid \in accepted'
      BY <1>5, <2>1 DEF DeleteCall
    <3> QED
      BY <1>1, <1>2, <1>5, <3>1, <3>2 DEF RemovedInv, DeleteCall
  <2>2. CASE Goto(q, "done")
    BY <1>3, <1>5, <2>2 DEF DeleteCall
  <2> QED
    BY <1>5, <2>1, <2>2 DEF DeleteCall, DeleteFailed
<1>6. ASSUME NEW q \in Procs, DeleteRemove(q)
      PROVE  RemovedInv'
  <2>1. cmd[q].op = "delete" /\ cur[q].state.sid \in accepted
    BY <1>0, <1>6 DEF DeleteRemove, WhereInv, RemovedInv
  <2>2. \E r \in Procs : cmd'[r].op = "delete" /\ cur'[r].file = cur[q].file /\ cur'[r].state.sid \in accepted'
    BY <1>6, <2>1 DEF DeleteRemove
  <2>3. \A p \in Procs : pc'[p] = "remove" => pc[p] = "remove"
    BY <1>0, <1>6 DEF DeleteRemove, Goto, TypeInv
  <2> QED
    BY <1>1, <1>2, <1>6, <2>2, <2>3 DEF RemovedInv, DeleteRemove
<1>7. ASSUME NEW q \in Procs, EnsureWrite(q) \/ Finish(q) \/ RenewOneCall(q) \/ RenewWrite(q)
      PROVE  RemovedInv'
  <2>1. \E l \in {"done", "visit", "renew_write"} : Goto(q, l)
    BY <1>7 DEF EnsureWrite, Finish, RenewOneCall, RenewCall, RenewWrite
  <2>2. deleted' \subseteq deleted
    BY <1>7 DEF EnsureWrite, Finish, RenewOneCall, RenewWrite, history
  <2> QED
    BY <1>3, <2>1, <2>2
<1>8. ASSUME NEW q \in Procs, NEW e \in todo[q], Visit(q, e)
      PROVE  RemovedInv'
  <2>1. \E l \in {"visit", "renew_write"} : Goto(q, l)
    BY <1>8 DEF Visit, RenewCall, AfterRenewError
  <2> QED
    BY <1>3, <1>8, <2>1 DEF Visit
<1>9. CASE UNCHANGED pc /\ deleted' = deleted
  BY <1>1, <1>2, <1>9 DEF RemovedInv
<1>10. (\E q \in Procs : \E e \in todo[q] : Skip(q, e)) \/ (\E f \in Files : BecomeDue(f)) \/ UNCHANGED vars
       => UNCHANGED pc /\ deleted' = deleted
  BY DEF Skip, BecomeDue, vars, history
<1> QED
  BY <1>4, <1>5, <1>6, <1>7, <1>8, <1>9, <1>10 DEF Next, Step

(***************************************************************************)
(* A state file is removed only after the provider has accepted the         *)
(* deletion of the subscription that was read from it.                      *)
(***************************************************************************)
THEOREM RemovalFollowsAnswer == Spec => []RemovedAfterAccepted
<1>1. Init => RemovedInv
  BY DEF Init, RemovedInv
<1>2. RemovedInv => RemovedAfterAccepted
  BY DEF RemovedInv, RemovedAfterAccepted
<1> QED
  BY BaseInit, BaseStep, RemovedStep, <1>1, <1>2, PTL DEF Spec

-----------------------------------------------------------------------------
(* A delegated subscription keeps its user. *)

(* A state names the user its subscription was ensured for, when that was an *)
(* explicit one; n is the next id to be handed out and o the users so far.   *)
NamesUser(st, n, o) ==
    st.sid # NoSid =>
      /\ st.sid \in 1..(n - 1)
      /\ o[st.sid][1] = "user" => o[st.sid] = <<"user", st.user>> /\ st.user # None

(* A call is made as that user. *)
CallsAsUser(c, n, o) ==
    /\ c[1] \in 1..(n - 1)
    /\ o[c[1]][1] = "user" => c[2] = o[c[1]]

(* This holds wherever a state is kept between the answer and its next use. *)
UserInv ==
    /\ \A f \in Files : NamesUser(store[f], nextSid, owner)
    /\ \A p \in Procs : NamesUser(pending[p], nextSid, owner)
    /\ \A p \in Procs : NamesUser(cur[p].state, nextSid, owner)
    /\ \A p \in Procs : \A e \in todo[p] : NamesUser(e.state, nextSid, owner)
    /\ \A c \in calls : CallsAsUser(c, nextSid, owner)

(* Handing out a new id says nothing new of the earlier ones. *)
LEMMA EarlierIdsKeep ==
    ASSUME Base, NEW u, nextSid <= MaxSid,
           owner' = [owner EXCEPT ![nextSid] = u], nextSid' = nextSid + 1
    PROVE  /\ \A st : NamesUser(st, nextSid, owner) => NamesUser(st, nextSid', owner')
           /\ \A c : CallsAsUser(c, nextSid, owner) => CallsAsUser(c, nextSid', owner')
<1>1. \A s \in 1..(nextSid - 1) : s \in 1..(nextSid' - 1) /\ owner'[s] = owner[s]
  BY SubscriptionsAssumption DEF Base, TypeInv, Sids
<1>2. \A st : NamesUser(st, nextSid, owner) => NamesUser(st, nextSid', owner')
  BY <1>1 DEF NamesUser
<1>3. \A c : CallsAsUser(c, nextSid, owner) => CallsAsUser(c, nextSid', owner')
  BY <1>1 DEF CallsAsUser
<1> QED
  BY <1>2, <1>3

(* The state that is written after ensure names the command's user. *)
LEMMA NewIdNamesUser ==
    ASSUME Base, NEW c \in Command, NEW exp, nextSid <= MaxSid,
           owner' = [owner EXCEPT ![nextSid] = UserOf(c.tenant, c.user)], nextSid' = nextSid + 1
    PROVE  NamesUser([user |-> c.user, sid |-> nextSid, exp |-> exp], nextSid', owner')
<1>1. nextSid \in 1..(nextSid' - 1) /\ owner'[nextSid] = UserOf(c.tenant, c.user)
  BY SubscriptionsAssumption DEF Base, TypeInv, Sids
<1>2. UserOf(c.tenant, c.user)[1] = "user" =>
        UserOf(c.tenant, c.user) = <<"user", c.user>> /\ c.user # None
  BY DEF UserOf, DefaultUser
<1> QED
  BY <1>1, <1>2 DEF NamesUser

(* A state that is renewed or becomes due still names its user, and a call   *)
(* made from it is made as that user.                                        *)
LEMMA StatesKeepUser ==
    ASSUME NEW n, NEW o, NEW e, NamesUser(e.state, n, o), NEW t
    PROVE  /\ e.state.sid # NoSid => CallsAsUser(<<e.state.sid, UserOf(t, e.state.user)>>, n, o)
           /\ \A exp : \A sid \in {e.state.sid, NoSid} : NamesUser(Renewed(e, sid, exp), n, o)
<1>1. e.state.sid # NoSid => CallsAsUser(<<e.state.sid, UserOf(t, e.state.user)>>, n, o)
  BY DEF NamesUser, CallsAsUser, UserOf
<1>2. ASSUME NEW sid \in {e.state.sid, NoSid}, NEW exp
      PROVE  NamesUser(Renewed(e, sid, exp), n, o)
  BY <1>2 DEF NamesUser, Renewed
<1> QED
  BY <1>1, <1>2

(* No file and no entry name no subscription. *)
LEMMA NothingHeld == \A n, o : NamesUser(NoFile, n, o) /\ NamesUser(NoEntry.state, n, o)
BY DEF NamesUser, NoFile, NoEntry

(* A renewal of a state that names its user keeps the invariant. *)
LEMMA RenewCallUser ==
    ASSUME Base, UserInv, NEW p \in Procs, NEW e, NamesUser(e.state, nextSid, owner), NEW l,
           RenewCall(p, e, l), \A q \in Procs : todo'[q] \subseteq todo[q],
           UNCHANGED <<store, nextSid, owner>>
    PROVE  UserInv'
<1>a. e.state.sid # NoSid => CallsAsUser(<<e.state.sid, UserOf(cmd[p].tenant, e.state.user)>>, nextSid, owner)
  BY StatesKeepUser
<1>b. \A exp : \A sid \in {e.state.sid, NoSid} : NamesUser(Renewed(e, sid, exp), nextSid, owner)
  BY StatesKeepUser
<1>1. \A c \in calls' : CallsAsUser(c, nextSid, owner)
  BY <1>a DEF RenewCall, UserInv
<1>2. \A q \in Procs : NamesUser(pending'[q], nextSid, owner)
  BY <1>b DEF RenewCall, UserInv, Base, TypeInv
<1>3. \A q \in Procs : NamesUser(cur'[q].state, nextSid, owner)
  BY DEF RenewCall, UserInv, Base, TypeInv
<1> QED
  BY <1>1, <1>2, <1>3 DEF UserInv

LEMMA UserStep ==
    ASSUME Base, UserInv, [Next]_vars
    PROVE  UserInv'
<1> USE SubscriptionsAssumption
<1>0. TypeInv /\ WhereInv
  BY DEF Base
<1>1. ASSUME NEW p \in Procs, NEW c \in Commands[p], Ensure(p, c)
      PROVE  UserInv'
  <2>0. c \in Command /\ UNCHANGED <<store, todo, cur, calls>>
    BY <1>1 DEF Ensure
  <2>1. CASE Goto(p, "done") /\ UNCHANGED <<pending, nextSid, owner>>
    BY <2>0, <2>1 DEF UserInv
  <2>2. ASSUME NEW exp, pending' = [pending EXCEPT ![p] = [user |-> c.user, sid |-> NoSid, exp |-> exp]],
               UNCHANGED <<nextSid, owner>>
        PROVE  UserInv'
    <3>1. NamesUser([user |-> c.user, sid |-> NoSid, exp |-> exp], nextSid, owner)
      BY DEF NamesUser
    <3>2. \A q \in Procs : NamesUser(pending'[q], nextSid', owner')
      BY <1>0, <2>2, <3>1 DEF TypeInv, UserInv
    <3> QED
      BY <2>0, <2>2, <3>2 DEF UserInv
  <2>3. ASSUME NEW exp, nextSid <= MaxSid,
               pending' = [pending EXCEPT ![p] = [user |-> c.user, sid |-> nextSid, exp |-> exp]],
               owner' = [owner EXCEPT ![nextSid] = UserOf(c.tenant, c.user)], nextSid' = nextSid + 1
        PROVE  UserInv'
    <3>1. /\ \A st : NamesUser(st, nextSid, owner) => NamesUser(st, nextSid', owner')
          /\ \A d : CallsAsUser(d, nextSid, owner) => CallsAsUser(d, nextSid', owner')
      BY <2>3, EarlierIdsKeep
    <3>2. NamesUser([user |-> c.user, sid |-> nextSid, exp |-> exp], nextSid', owner')
      BY <2>0, <2>3, NewIdNamesUser
    <3>3. \A q \in Procs : NamesUser(pending'[q], nextSid', owner')
      BY <1>0, <2>3, <3>1, <3>2 DEF TypeInv, UserInv
    <3> QED
      BY <2>0, <3>1, <3>3 DEF UserInv
  <2> QED
    BY <1>1, <2>1, <2>2, <2>3 DEF Ensure
<1>2. ASSUME NEW p \in Procs, EnsureWrite(p) \/ RenewWrite(p)
      PROVE  UserInv'
  <2>1. \E f : store' = [store EXCEPT ![f] = pending[p]]
    BY <1>2 DEF EnsureWrite, RenewWrite
  <2>2. \A f \in Files : NamesUser(store'[f], nextSid, owner)
    BY <1>0, <2>1 DEF TypeInv, UserInv
  <2> QED
    BY <1>2, <2>2 DEF UserInv, EnsureWrite, RenewWrite, history
<1>3. ASSUME NEW p \in Procs, NEW c \in Commands[p], RenewDue(p, c)
      PROVE  UserInv'
  <2>1. \A e \in Stored : NamesUser(e.state, nextSid, owner)
    BY DEF Stored, UserInv
  <2>2. \A q \in Procs : \A e \in todo'[q] : NamesUser(e.state, nextSid, owner)
    BY <1>0, <1>3, <2>1 DEF RenewDue, TypeInv, UserInv
  <2> QED
    BY <1>3, <2>2 DEF RenewDue, UserInv
<1>4. ASSUME NEW p \in Procs, NEW c \in Commands[p], RenewOne(p, c) \/ Delete(p, c)
      PROVE  UserInv'
  <2>1. <<c.tenant, c.binding>> \in Files
    BY Distinct DEF Files
  <2>2. \A q \in Procs : NamesUser(cur'[q].state, nextSid, owner)
    BY <1>0, <1>4, <2>1 DEF RenewOne, Delete, TypeInv, UserInv
  <2> QED
    BY <1>4, <2>2 DEF RenewOne, Delete, UserInv, history
<1>5. ASSUME NEW p \in Procs, RenewOneCall(p)
      PROVE  UserInv'
  BY <1>5, RenewCallUser DEF RenewOneCall, UserInv
<1>6. ASSUME NEW p \in Procs, NEW e \in todo[p], Visit(p, e)
      PROVE  UserInv'
  <2>1. \A q \in Procs : todo'[q] \subseteq todo[q]
    BY <1>0, <1>6 DEF Visit, TypeInv
  <2>2. NamesUser(e.state, nextSid, owner)
    BY DEF UserInv
  <2>3. RenewCall(p, e, AfterRenewError) /\ UNCHANGED <<store, nextSid, owner>>
    BY <1>6 DEF Visit
  <2> QED
    BY <2>1, <2>2, <2>3, RenewCallUser
<1>7. ASSUME NEW p \in Procs, DeleteCall(p)
      PROVE  UserInv'
  <2>1. NamesUser(cur[p].state, nextSid, owner)
    BY DEF UserInv
  <2>a. cur[p].state.sid # NoSid =>
          CallsAsUser(<<cur[p].state.sid, UserOf(cmd[p].tenant, cur[p].state.user)>>, nextSid, owner)
    BY <2>1, StatesKeepUser
  <2>2. \A c \in calls' : CallsAsUser(c, nextSid, owner)
    BY <1>7, <2>a DEF DeleteCall, UserInv
  <2> QED
    BY <1>7, <2>2 DEF DeleteCall, UserInv
<1>8. ASSUME NEW p \in Procs, DeleteRemove(p)
      PROVE  UserInv'
  <2>1. \A f \in Files : NamesUser(store'[f], nextSid, owner)
    BY <1>0, <1>8, NothingHeld DEF DeleteRemove, TypeInv, UserInv
  <2> QED
    BY <1>8, <2>1 DEF DeleteRemove, UserInv
<1>9. ASSUME NEW p \in Procs, Finish(p) \/ \E e \in todo[p] : Skip(p, e)
      PROVE  UserInv'
  BY <1>0, <1>9 DEF Finish, Skip, TypeInv, UserInv, history
<1>10. ASSUME NEW f \in Files, BecomeDue(f)
       PROVE  UserInv'
  <2>1. NamesUser([store[f] EXCEPT !.exp = "due"], nextSid, owner)
    BY <1>0 DEF TypeInv, UserInv, NamesUser, State, NoFile
  <2>2. \A g \in Files : NamesUser(store'[g], nextSid, owner)
    BY <1>0, <1>10, <2>1 DEF BecomeDue, TypeInv, UserInv
  <2> QED
    BY <1>10, <2>2 DEF BecomeDue, UserInv, history
<1>11. CASE UNCHANGED vars
  BY <1>11 DEF vars, UserInv
<1> QED
  BY <1>1, <1>2, <1>3, <1>4, <1>5, <1>6, <1>7, <1>8, <1>9, <1>10, <1>11 DEF Next, Start, Step

(***************************************************************************)
(* A subscription ensured for an explicit user is renewed and deleted as    *)
(* that user (user_ref of the stored state), after any number of renewals   *)
(* by any commands, whatever files they overwrite.                          *)
(***************************************************************************)
THEOREM DelegationKept == Spec => []DelegatedUserKept
<1>1. Init => UserInv
  BY NothingHeld DEF Init, UserInv
<1>2. UserInv => DelegatedUserKept
  BY DEF UserInv, DelegatedUserKept, CallsAsUser
<1> QED
  BY BaseInit, BaseStep, UserStep, <1>1, <1>2, PTL DEF Spec

-----------------------------------------------------------------------------
(* The cache of provider catalogues *)

Slugs == {slug[r] : r \in RegistryRefs \union {LocalRef}}

CacheFields == {"made", "byRef", "byDigest", "index", "indexCut"}

(* The fields of a cache directory. *)
CacheTyped(c) ==
    /\ DOMAIN c = CacheFields
    /\ DOMAIN c.byRef = Slugs /\ DOMAIN c.byDigest = Catalogs /\ DOMAIN c.index = RegistryRefs

LEMMA RefWritten ==
    ASSUME NEW c, CacheTyped(c), NEW r, NEW n
    PROVE  LET d == WithContent(c, cache_path_for_ref(r), n)
           IN /\ CacheTyped(d) /\ d.byDigest = c.byDigest /\ d.index = c.index
              /\ r \in RegistryRefs => d.byRef[slug[r]] = n
<1> DEFINE s == slug[r]
           d == WithContent(c, <<"ref", s>>, n)
<1>1. r \in RegistryRefs => s \in Slugs
  BY DEF Slugs
<1>2. DOMAIN d = CacheFields /\ d.byRef = [c.byRef EXCEPT ![s] = n] /\ d.byDigest = c.byDigest /\ d.index = c.index
  BY DEF WithContent, CacheTyped, CacheFields
<1> HIDE DEF d
<1>3. CacheTyped(d) /\ (r \in RegistryRefs => d.byRef[s] = n)
  BY <1>1, <1>2 DEF CacheTyped
<1> QED
  BY <1>2, <1>3 DEF d, cache_path_for_ref

LEMMA DigestWritten ==
    ASSUME NEW c, CacheTyped(c), NEW m \in Catalogs, NEW n
    PROVE  LET d == WithContent(c, cache_path_for_digest(m), n)
           IN CacheTyped(d) /\ d.byDigest = [c.byDigest EXCEPT ![m] = n] /\ d.index = c.index
<1> DEFINE d == WithContent(c, <<"digest", m>>, n)
<1>1. DOMAIN d = CacheFields /\ d.byRef = c.byRef /\ d.byDigest = [c.byDigest EXCEPT ![m] = n] /\ d.index = c.index
  BY DEF WithContent, CacheTyped, CacheFields
<1> HIDE DEF d
<1>2. CacheTyped(d)
  BY <1>1 DEF CacheTyped
<1> QED
  BY <1>1, <1>2 DEF d, cache_path_for_digest

LEMMA IndexWritten ==
    ASSUME NEW c, CacheTyped(c), NEW r \in RegistryRefs, NEW n
    PROVE  LET d == WithIndex(c, r, n)
           IN CacheTyped(d) /\ d.byDigest = c.byDigest /\ d.index = [c.index EXCEPT ![r] = n] /\ d.byRef = c.byRef
<1> DEFINE d == WithIndex(c, r, n)
<1>1. DOMAIN d = CacheFields /\ d.byRef = c.byRef /\ d.byDigest = c.byDigest /\ d.index = [c.index EXCEPT ![r] = n]
  BY DEF WithIndex, CacheTyped, CacheFields
<1> HIDE DEF d
<1>2. CacheTyped(d)
  BY <1>1 DEF CacheTyped
<1> QED
  BY <1>1, <1>2 DEF d

LEMMA DirectoryMade ==
    ASSUME NEW c, CacheTyped(c)
    PROVE  LET d == [c EXCEPT !.made = TRUE]
           IN CacheTyped(d) /\ d.byRef = c.byRef /\ d.byDigest = c.byDigest /\ d.index = c.index
<1> DEFINE d == [c EXCEPT !.made = TRUE]
<1>1. DOMAIN d = CacheFields /\ d.byRef = c.byRef /\ d.byDigest = c.byDigest /\ d.index = c.index
  BY DEF CacheTyped, CacheFields
<1> HIDE DEF d
<1>2. CacheTyped(d)
  BY <1>1 DEF CacheTyped
<1> QED
  BY <1>1, <1>2 DEF d

(* After k cuts, no write of the file of a digest was cut short for another reference. *)
Unspoilt(k, n) == k = 0 \/ ~Shared(n)

(* A digest that the index names is one the reference was served, and whole. *)
IndexGood(k, c) ==
    \A r \in RegistryRefs :
       /\ c.index[r] \in Serves[r] \union {Absent, Cut}
       /\ c.index[r] \in Serves[r] /\ Unspoilt(k, c.index[r]) => c.byDigest[c.index[r]] = c.index[r]

CacheDirs == {"here", "bundle"}

(* A command that writes has the files before the index, which names another *)
(* digest until then.                                                        *)
WritingGood ==
    /\ args.ref \in RegistryRefs /\ served \in Serves[args.ref] /\ located = cache_path_for_ref(args.ref)
    /\ Here.index[args.ref] # served \/ ~Unspoilt(cuts, served)
    /\ \/ writes = <<"digest", "ref", "index">>
       \/ writes = <<"ref", "index">> /\ Here.byDigest[served] = served
       \/ writes = <<"index">> /\ Here.byDigest[served] = served /\ Here.byRef[slug[args.ref]] = served

CacheInv ==
    /\ DOMAIN cache = CacheDirs /\ \A d \in CacheDirs : CacheTyped(cache[d]) /\ IndexGood(cuts, cache[d])
    /\ DOMAIN registry = RegistryRefs /\ \A r \in RegistryRefs : registry[r] \in Serves[r]
    /\ cuts \in Nat
    /\ look = "write" => WritingGood
    /\ look = "load" /\ served # Absent /\ Len(writes) <= 1 /\ Unspoilt(cuts, served) => Content(Here, located) = served
    /\ RefreshedIsCurrent

LEMMA ServedAreCatalogs ==
    ASSUME NEW r \in RegistryRefs, NEW n \in Serves[r]
    PROVE  n \in Catalogs /\ n \in Nat /\ n # Absent /\ n # Cut
<1>1. n \in Catalogs
  BY DEF Catalogs
<1> QED
  BY <1>1, CacheAssumption DEF Absent, Cut

(* A step that leaves the cache, the registry and the faults alone. *)
LEMMA CacheAside ==
    ASSUME CacheInv, UNCHANGED <<cache, registry, cuts>>,
           (look = "write" => WritingGood) => (look' = "write" => WritingGood'),
           look' = "load" /\ served' # Absent /\ Len(writes') <= 1 /\ Unspoilt(cuts, served')
              => Content(Here, located)' = served',
           RefreshedIsCurrent'
    PROVE  CacheInv'
<1>1. \A n : Unspoilt(cuts', n) <=> Unspoilt(cuts, n)
  BY DEF Unspoilt, Shared
<1>2. \A d \in CacheDirs : IndexGood(cuts, cache[d])'
  BY <1>1 DEF CacheInv, IndexGood
<1>3. \A d \in CacheDirs : CacheTyped(cache[d])'
  BY DEF CacheInv, CacheTyped
<1>4. look' = "load" /\ served' # Absent /\ Len(writes') <= 1 /\ Unspoilt(cuts, served)'
         => Content(Here, located)' = served'
  BY DEF Unspoilt, Shared
<1> QED
  BY <1>2, <1>3, <1>4 DEF CacheInv

(* A step that writes into one cache directory. *)
LEMMA CacheWritten ==
    ASSUME CacheInv, NEW d \in CacheDirs, NEW c, cache' = [cache EXCEPT ![d] = c],
           registry' = registry, cuts' = cuts \/ cuts' = cuts + 1,
           CacheTyped(c), IndexGood(cuts', c), look' = "write" => WritingGood',
           look' = "load" /\ served' # Absent /\ Len(writes') <= 1 /\ Unspoilt(cuts, served)'
              => Content(Here, located)' = served',
           RefreshedIsCurrent'
    PROVE  CacheInv'
<1>1. \A n : Unspoilt(cuts', n) => Unspoilt(cuts, n)
  BY DEF Unspoilt, Shared, CacheInv
<1>2. /\ DOMAIN cache' = CacheDirs /\ cache'[d] = c
      /\ \A e \in CacheDirs : e # d => cache'[e] = cache[e]
  BY DEF CacheInv
<1>3. \A e \in CacheDirs : IndexGood(cuts, cache[e])'
  <2>1. IndexGood(cuts, cache[d])'
    BY <1>2 DEF IndexGood
  <2>2. ASSUME NEW e \in CacheDirs, e # d PROVE IndexGood(cuts, cache[e])'
    BY <1>1, <1>2, <2>2 DEF IndexGood, CacheInv
  <2> QED
    BY <2>1, <2>2
<1>4. \A e \in CacheDirs : CacheTyped(cache'[e])
  BY <1>2 DEF CacheInv
<1>5. cuts' \in Nat
  BY DEF CacheInv
<1>6. \A e \in CacheDirs : CacheTyped(cache[e])'
  BY <1>4 DEF CacheTyped
<1> QED
  BY <1>2, <1>3, <1>5, <1>6 DEF CacheInv

LEMMA DirHere == Dir \in CacheDirs /\ Here = cache[Dir]
BY DEF Dir, CacheDirs, Here

(* A registry that is asked: either the file of its digest is whole, or the  *)
(* index does not name it.                                                   *)
LEMMA FetchKeeps ==
    ASSUME CacheInv, Fetch
    PROVE  CacheInv'
<1> DEFINE r == args.ref
           n == registry[r]
           c == Here
           found == resolve_existing_cache_for_digest(c, r, n)
           same == IF c.index[r] = n THEN found ELSE NoPath
<1>0. r \in RegistryRefs /\ n \in Serves[r] /\ CacheTyped(c) /\ IndexGood(cuts, c)
  BY DirHere DEF Fetch, Remote, CacheInv
<1>1. /\ UNCHANGED <<cache, registry, cuts, args, pass>> /\ served' = n
      /\ \/ same # NoPath /\ located' = same /\ look' = "load"
         \/ same = NoPath /\ located' = cache_path_for_ref(r) /\ look' = "write" /\ writes' = CacheWrites
  BY DEF Fetch
<1>2. n # Absent /\ n \in Nat /\ n \in Catalogs
  BY <1>0, ServedAreCatalogs
<1>3. ASSUME c.byDigest[n] = n PROVE found = cache_path_for_digest(n) /\ found # NoPath
  <2> DEFINE ps == <<cache_path_for_digest(n), cache_path_for_ref(r)>>
             there == {i \in DOMAIN ps : Content(c, ps[i]) # Absent}
  <2>1. Content(c, cache_path_for_digest(n)) = n
    BY <1>3 DEF Content, cache_path_for_digest
  <2>2. DOMAIN ps = {1, 2} /\ ps[1] = cache_path_for_digest(n)
    OBVIOUS
  <2>3. 1 \in there /\ there \subseteq {1, 2}
    BY <1>2, <2>1, <2>2
  <2>4. found = IF there = {} THEN NoPath ELSE ps[CHOOSE i \in there : \A j \in there : i <= j]
    BY Zenon DEF resolve_existing_cache_for_digest, Existing
  <2> HIDE DEF there, ps
  <2>5. \A i \in there : (\A j \in there : i <= j) <=> i = 1
    BY <2>3
  <2>6. (CHOOSE i \in there : \A j \in there : i <= j) = 1
    BY <2>3, <2>5
  <2>7. found = cache_path_for_digest(n)
    BY <2>2, <2>3, <2>4, <2>6
  <2> QED
    BY <2>7 DEF cache_path_for_digest, NoPath
<1>4. c.index[r] = n /\ Unspoilt(cuts, n) => c.byDigest[n] = n
  BY <1>0 DEF IndexGood
<1>5. Here' = c /\ Here'.byDigest = c.byDigest
  BY <1>1 DEF Here, Dir
<1> HIDE DEF c, found, n, r
<1>6. look' = "write" => WritingGood'
  <2> SUFFICES ASSUME look' = "write" PROVE WritingGood'
    OBVIOUS
  <2>1. same = NoPath /\ located' = cache_path_for_ref(r) /\ writes' = <<"digest", "ref", "index">>
    BY <1>1 DEF CacheWrites
  <2>2. c.index[r] # n \/ ~Unspoilt(cuts, n)
    BY <1>3, <1>4, <2>1
  <2>3. Here'.index[args'.ref] # served' \/ ~Unspoilt(cuts, n)
    BY <1>1, <1>5, <2>2 DEF r
  <2>5. Unspoilt(cuts, served)' <=> Unspoilt(cuts, n)
    BY <1>1 DEF Unspoilt, Shared
  <2>6. args'.ref = r
    BY <1>1 DEF r
  <2> QED
    BY <1>0, <1>1, <2>1, <2>3, <2>5, <2>6 DEF WritingGood, cache_path_for_ref
<1>7. look' = "load" /\ Unspoilt(cuts, n) => Content(Here, located)' = n
  <2> SUFFICES ASSUME look' = "load", Unspoilt(cuts, n) PROVE Content(Here, located)' = n
    OBVIOUS
  <2>1. same # NoPath /\ located' = same
    BY <1>1
  <2>2. c.index[r] = n /\ located' = found
    BY <2>1
  <2>3. c.byDigest[n] = n
    BY <1>4, <2>2
  <2>4. located' = <<"digest", n>>
    BY <1>3, <2>2, <2>3 DEF cache_path_for_digest
  <2> QED
    BY <1>5, <2>3, <2>4 DEF Content
<1>8. RefreshedIsCurrent'
  BY <1>1 DEF RefreshedIsCurrent
<1>9. Unspoilt(cuts, served') => Unspoilt(cuts, n)
  BY <1>1
<1> QED
  BY <1>1, <1>6, <1>7, <1>8, <1>9, CacheAside

(* The digest and the copy are written before the index names them. *)
LEMMA WriteKeeps ==
    ASSUME CacheInv, cache_remote_registry_file
    PROVE  CacheInv'
<1> DEFINE r == args.ref
           c == Here
           e == WithFile(c, Head(writes), served)
<1>0. WritingGood /\ r \in RegistryRefs /\ served \in Serves[r] /\ served # Absent /\ served \in Catalogs
  BY ServedAreCatalogs DEF cache_remote_registry_file, CacheInv, WritingGood
<1>1. /\ cache' = [cache EXCEPT ![Dir] = e] /\ writes' = Tail(writes) /\ look' = IF Len(writes) = 1 THEN "load" ELSE "write"
      /\ UNCHANGED <<registry, args, pass, located, served, cuts>>
  BY DirHere DEF cache_remote_registry_file, CacheInv
<1>2. CacheTyped(c) /\ IndexGood(cuts, c) /\ Dir \in CacheDirs
  BY DirHere DEF CacheInv
<1>3. Here' = e
  BY <1>1, <1>2 DEF Here, Dir, CacheInv
<1>4. \A n : Unspoilt(cuts', n) <=> Unspoilt(cuts, n)
  BY <1>1 DEF Unspoilt, Shared
<1>5. RefreshedIsCurrent'
  BY <1>1 DEF RefreshedIsCurrent
<1> HIDE DEF c, e
<1>6. ASSUME CacheTyped(e), IndexGood(cuts', e), look' = "write" => WritingGood',
             look' = "load" => Content(Here, located)' = served'
      PROVE  CacheInv'
  BY <1>1, <1>2, <1>5, <1>6, CacheWritten
<1>7. CASE writes = <<"digest", "ref", "index">>
  <2>1. Head(writes) = "digest" /\ Tail(writes) = <<"ref", "index">> /\ Len(writes) = 3
    BY <1>7
  <2>2. e = WithContent(c, cache_path_for_digest(served), served)
    BY <2>1 DEF e, WithFile
  <2>3. CacheTyped(e) /\ e.byDigest = [c.byDigest EXCEPT ![served] = served] /\ e.index = c.index
    BY <1>0, <1>2, <2>2, DigestWritten
  <2>4. e.byDigest[served] = served /\ \A n \in Catalogs : n # served => e.byDigest[n] = c.byDigest[n]
    BY <1>0, <1>2, <2>3 DEF CacheTyped
  <2>5. IndexGood(cuts', e)
    <3>1. \A q \in RegistryRefs : c.index[q] \in Serves[q] => c.index[q] \in Catalogs
      BY ServedAreCatalogs
    <3> QED
      BY <1>2, <1>4, <2>3, <2>4, <3>1 DEF IndexGood
  <2>6. WritingGood'
    BY <1>0, <1>1, <1>3, <1>4, <2>1, <2>3, <2>4 DEF WritingGood, cache_path_for_ref, c
  <2> QED
    BY <1>1, <1>6, <2>1, <2>3, <2>5, <2>6
<1>8. CASE writes = <<"ref", "index">> /\ c.byDigest[served] = served
  <2>1. Head(writes) = "ref" /\ Tail(writes) = <<"index">> /\ Len(writes) = 2
    BY <1>8
  <2>2. e = WithContent(c, cache_path_for_ref(r), served)
    BY <2>1 DEF e, WithFile
  <2>3. CacheTyped(e) /\ e.byDigest = c.byDigest /\ e.index = c.index /\ e.byRef[slug[r]] = served
    BY <1>0, <1>2, <2>2, RefWritten
  <2>4. IndexGood(cuts', e)
    BY <1>2, <1>4, <2>3 DEF IndexGood
  <2>5. WritingGood'
    BY <1>0, <1>1, <1>3, <1>4, <1>8, <2>1, <2>3 DEF WritingGood, cache_path_for_ref, c
  <2> QED
    BY <1>1, <1>6, <2>1, <2>3, <2>4, <2>5
<1>9. CASE writes = <<"index">> /\ c.byDigest[served] = served /\ c.byRef[slug[r]] = served
  <2>1. Head(writes) = "index" /\ Len(writes) = 1
    BY <1>9
  <2>2. e = WithIndex(c, r, served)
    BY <2>1 DEF e, WithFile
  <2>3. CacheTyped(e) /\ e.byDigest = c.byDigest /\ e.index = [c.index EXCEPT ![r] = served] /\ e.byRef = c.byRef
    BY <1>0, <1>2, <2>2, IndexWritten
  <2>4. e.index[r] = served /\ \A q \in RegistryRefs : q # r => e.index[q] = c.index[q]
    BY <1>0, <1>2, <2>3 DEF CacheTyped
  <2>5. IndexGood(cuts', e)
    <3>1. ASSUME NEW q \in RegistryRefs
          PROVE  /\ e.index[q] \in Serves[q] \union {Absent, Cut}
                 /\ e.index[q] \in Serves[q] /\ Unspoilt(cuts, e.index[q]) => e.byDigest[e.index[q]] = e.index[q]
      BY <1>0, <1>2, <1>9, <2>3, <2>4 DEF IndexGood
    <3> QED
      BY <1>4, <3>1 DEF IndexGood
  <2>6. Content(Here, located)' = served'
    <3>1. located' = <<"ref", slug[r]>>
      BY <1>0, <1>1 DEF WritingGood, cache_path_for_ref
    <3> QED
      BY <1>1, <1>3, <1>9, <2>3, <3>1 DEF Content
  <2> QED
    BY <1>1, <1>6, <2>1, <2>3, <2>5, <2>6
<1> QED
  BY <1>0, <1>7, <1>8, <1>9 DEF WritingGood, c

(* What a write that does not come to its end leaves: a digest that is cut   *)
(* short is one the index does not name yet for this reference, and for      *)
(* another only if they share it.                                            *)
LEMMA RemainsGood ==
    ASSUME CacheInv, look = "write", NEW e \in Remains(Here, Head(writes))
    PROVE  /\ CacheTyped(e) /\ IndexGood(cuts + 1, e)
           /\ writes = <<"index">> => e.byRef = Here.byRef
<1> DEFINE r == args.ref
           c == Here
           k == cuts + 1
<1>0. WritingGood /\ r \in RegistryRefs /\ served \in Serves[r] /\ served # Absent /\ served \in Catalogs
  BY ServedAreCatalogs DEF CacheInv, WritingGood
<1>1. cuts \in Nat /\ k # 0
  BY DEF CacheInv
<1>2. CacheTyped(c) /\ IndexGood(cuts, c)
  BY DirHere DEF CacheInv
<1>3. \A n : Unspoilt(k, n) <=> ~Shared(n)
  BY <1>1 DEF Unspoilt
<1> HIDE DEF k
<1>4. \A n : Unspoilt(k, n) => Unspoilt(cuts, n)
  BY <1>3 DEF Unspoilt
<1>5. c.index[r] # served \/ ~Unspoilt(cuts, served)
  BY <1>0 DEF WritingGood
<1>6. e \in {c, [c EXCEPT !.made = TRUE], WithFile(c, Head(writes), Cut)}
  BY DEF Remains
<1> HIDE DEF c
<1>7. CASE e \in {c, [c EXCEPT !.made = TRUE]}
  <2>1. CacheTyped(e) /\ e.byRef = c.byRef /\ e.byDigest = c.byDigest /\ e.index = c.index
    BY <1>2, <1>7, DirectoryMade
  <2>2. IndexGood(k, e)
    BY <1>2, <1>4, <2>1 DEF IndexGood
  <2> QED
    BY <2>1, <2>2 DEF k, c
<1>8. CASE e = WithFile(c, Head(writes), Cut) /\ writes = <<"digest", "ref", "index">>
  <2>1. e = WithContent(c, cache_path_for_digest(served), Cut)
    BY <1>8 DEF WithFile
  <2>2. CacheTyped(e) /\ e.byDigest = [c.byDigest EXCEPT ![served] = Cut] /\ e.index = c.index
    BY <1>0, <1>2, <2>1, DigestWritten
  <2>3. \A n \in Catalogs : n # served => e.byDigest[n] = c.byDigest[n]
    BY <1>0, <1>2, <2>2 DEF CacheTyped
  <2>4. ASSUME NEW q \in RegistryRefs, e.index[q] \in Serves[q], Unspoilt(k, e.index[q])
        PROVE  e.byDigest[e.index[q]] = e.index[q]
    <3>1. c.index[q] # served
      <4>1. CASE q = r
        BY <1>4, <1>5, <2>2, <2>4, <4>1
      <4>2. CASE q # r
        BY <1>0, <1>3, <2>2, <2>4, <4>2 DEF Shared
      <4> QED
        BY <4>1, <4>2
    <3>2. c.index[q] \in Catalogs
      BY <2>2, <2>4, ServedAreCatalogs
    <3>3. c.byDigest[c.index[q]] = c.index[q]
      BY <1>2, <1>4, <2>2, <2>4 DEF IndexGood
    <3> QED
      BY <2>2, <2>3, <3>1, <3>2, <3>3
  <2>5. IndexGood(k, e)
    BY <1>2, <2>2, <2>4 DEF IndexGood
  <2>6. writes # <<"index">>
    BY <1>8
  <2> QED
    BY <2>2, <2>5, <2>6 DEF k
<1>9. CASE e = WithFile(c, Head(writes), Cut) /\ writes = <<"ref", "index">>
  <2>1. e = WithContent(c, cache_path_for_ref(r), Cut)
    BY <1>9 DEF WithFile
  <2>2. CacheTyped(e) /\ e.byDigest = c.byDigest /\ e.index = c.index
    BY <1>2, <2>1, RefWritten
  <2>3. IndexGood(k, e)
    BY <1>2, <1>4, <2>2 DEF IndexGood
  <2>4. writes # <<"index">>
    BY <1>9
  <2> QED
    BY <2>2, <2>3, <2>4 DEF k
<1>10. CASE e = WithFile(c, Head(writes), Cut) /\ writes = <<"index">>
  <2>1. e = WithIndex(c, r, Cut)
    BY <1>10 DEF WithFile
  <2>2. CacheTyped(e) /\ e.byDigest = c.byDigest /\ e.index = [c.index EXCEPT ![r] = Cut] /\ e.byRef = c.byRef
    BY <1>0, <1>2, <2>1, IndexWritten
  <2>3. e.index[r] = Cut /\ \A q \in RegistryRefs : q # r => e.index[q] = c.index[q]
    BY <1>0, <1>2, <2>2 DEF CacheTyped
  <2>4. Cut \notin Serves[r]
    BY <1>0, ServedAreCatalogs
  <2>5. IndexGood(k, e)
    BY <1>2, <1>4, <2>2, <2>3, <2>4 DEF IndexGood
  <2> QED
    BY <2>2, <2>5 DEF k, c
<1> QED
  BY <1>0, <1>6, <1>7, <1>8, <1>9, <1>10 DEF WritingGood

LEMMA CutKeeps ==
    ASSUME CacheInv, CutShort
    PROVE  CacheInv'
<1>1. PICK e \in Remains(Here, Head(writes)) : cache' = [cache EXCEPT ![Dir] = e]
  BY DEF CutShort
<1>2. look = "write" /\ look' = "idle" /\ registry' = registry /\ cuts' = cuts + 1
  BY DEF CutShort
<1>3. CacheTyped(e) /\ IndexGood(cuts', e)
  BY <1>2, RemainsGood
<1> QED
  BY <1>1, <1>2, <1>3, DirHere, CacheWritten DEF RefreshedIsCurrent

(* A write that fails: if only the index was left, the copy that is read is *)
(* the one just written.                                                    *)
LEMMA FailKeeps ==
    ASSUME CacheInv, CacheFails
    PROVE  CacheInv'
<1> DEFINE ps == <<cache_path_for_ref(args.ref)>> \o resolve_cached_by_digest(Here, args.ref)
<1>1. PICK e \in Remains(Here, Head(writes)) :
        /\ cache' = [cache EXCEPT ![Dir] = e]
        /\ look' = "failed" \/ (look' = "load" /\ located' = Existing(e, ps))
  BY Zenon DEF CacheFails
<1>2. look = "write" /\ UNCHANGED <<registry, args, pass, writes, served>> /\ cuts' = cuts + 1
  BY DEF CacheFails
<1>3. CacheTyped(e) /\ IndexGood(cuts', e) /\ (writes = <<"index">> => e.byRef = Here.byRef)
  BY <1>2, RemainsGood
<1>4. Here' = e
  BY <1>1, <1>2, DirHere DEF Here, Dir, CacheInv
<1> HIDE DEF ps
<1>5. ASSUME look' = "load", Len(writes') <= 1, served # Absent PROVE Content(Here, located)' = served'
  <2>1. writes = <<"index">> /\ e.byRef[slug[args.ref]] = served
    <3>1. WritingGood /\ writes' = writes
      BY <1>2 DEF CacheInv
    <3>2. Len(<<"digest", "ref", "index">>) = 3 /\ Len(<<"ref", "index">>) = 2
      OBVIOUS
    <3>3. writes = <<"index">> /\ Here.byRef[slug[args.ref]] = served
      BY <1>5, <3>1, <3>2 DEF WritingGood
    <3> QED
      BY <1>3, <3>3
  <2> DEFINE there == {i \in DOMAIN ps : Content(e, ps[i]) # Absent}
  <2>2. 1 \in DOMAIN ps /\ ps[1] = <<"ref", slug[args.ref]>> /\ \A j \in DOMAIN ps : j \in Nat /\ 1 <= j
    <3>1. CASE Here.index[args.ref] = Absent
      BY <3>1 DEF ps, cache_path_for_ref, resolve_cached_by_digest
    <3>2. CASE Here.index[args.ref] # Absent
      BY <3>2 DEF ps, cache_path_for_ref, resolve_cached_by_digest
    <3> QED
      BY <3>1, <3>2
  <2>3. Content(e, ps[1]) = served
    BY <2>1, <2>2 DEF Content
  <2>4. 1 \in there /\ \A j \in there : j \in Nat /\ 1 <= j
    BY <1>5, <2>2, <2>3
  <2>5. Existing(e, ps) = IF there = {} THEN NoPath ELSE ps[CHOOSE i \in there : \A j \in there : i <= j]
    BY Zenon DEF Existing
  <2> HIDE DEF there
  <2>6. \A i \in there : (\A j \in there : i <= j) <=> i = 1
    BY <2>4
  <2>7. (CHOOSE i \in there : \A j \in there : i <= j) = 1
    BY <2>4, <2>6
  <2>8. located' = <<"ref", slug[args.ref]>>
    BY <1>1, <1>5, <2>2, <2>4, <2>5, <2>7
  <2> QED
    BY <1>2, <1>4, <2>1, <2>8 DEF Content
<1> QED
  BY <1>1, <1>2, <1>3, <1>5, DirHere, CacheWritten DEF RefreshedIsCurrent

LEMMA LoadKeeps ==
    ASSUME CacheInv, load_catalog_from_file
    PROVE  CacheInv'
<1>1. UNCHANGED <<cache, registry, cuts, served, writes>> /\ look' \in {"resolve", "keep", "failed"}
  BY DEF load_catalog_from_file
<1>2. look' = "keep" => catalog' = Content(Here, located)
  BY DEF load_catalog_from_file
<1>3. look = "load" /\ served # Absent /\ Len(writes) <= 1 /\ Unspoilt(cuts, served) => Content(Here, located) = served
  BY DEF CacheInv
<1>4. RefreshedIsCurrent'
  BY <1>1, <1>2, <1>3 DEF RefreshedIsCurrent, Unspoilt, Shared, load_catalog_from_file
<1> QED
  BY <1>1, <1>4, CacheAside

LEMMA KeepKeeps ==
    ASSUME CacheInv, KeepCatalog
    PROVE  CacheInv'
<1>1. UNCHANGED <<registry, cuts, served, catalog, writes>> /\ look = "keep" /\ look' = "planned"
  BY DEF KeepCatalog
<1>2. RefreshedIsCurrent'
  BY <1>1 DEF RefreshedIsCurrent, CacheInv, Shared
<1>3. CASE cache' = cache
  BY <1>1, <1>2, <1>3, CacheAside
<1>4. CASE cache' # cache
  <2> DEFINE c == cache["bundle"]
             n == IF Source = cache_path_for_ref(args.ref) THEN Cut ELSE Content(c, Source)
             e == WithContent(c, cache_path_for_ref(args.ref), n)
  <2>1. "bundle" \in CacheDirs /\ CacheTyped(c) /\ IndexGood(cuts, c)
    BY DEF CacheDirs, CacheInv
  <2>2. cache' = [cache EXCEPT !["bundle"] = e]
    BY <1>4, <2>1 DEF KeepCatalog, cache_registry_file
  <2> HIDE DEF n
  <2>3. CacheTyped(e) /\ e.byDigest = c.byDigest /\ e.index = c.index
    BY <2>1, RefWritten
  <2> HIDE DEF c, e
  <2>4. IndexGood(cuts', e)
    BY <1>1, <2>1, <2>3 DEF IndexGood
  <2> QED
    BY <1>1, <1>2, <2>1, <2>2, <2>3, <2>4, CacheWritten
<1> QED
  BY <1>3, <1>4

(* A copy that fails: the digests and the index are not touched. *)
LEMMA KeepFailKeeps ==
    ASSUME CacheInv, KeepFails
    PROVE  CacheInv'
<1> DEFINE c == cache["bundle"]
<1>1. PICK e \in Remains(c, "ref") : cache' = [cache EXCEPT !["bundle"] = e]
  BY DEF KeepFails
<1>2. /\ UNCHANGED <<registry, served, catalog, writes>> /\ cuts' = cuts + 1 /\ cuts \in Nat
      /\ look = "keep" /\ look' \in {"planned", "idle"}
  BY DEF KeepFails, CacheInv
<1>3. "bundle" \in CacheDirs /\ CacheTyped(c) /\ IndexGood(cuts, c)
  BY DEF CacheDirs, CacheInv
<1>4. e \in {c, [c EXCEPT !.made = TRUE], WithContent(c, cache_path_for_ref(args.ref), Cut)}
  BY DEF Remains, WithFile
<1> HIDE DEF c
<1>5. CacheTyped(e) /\ e.byDigest = c.byDigest /\ e.index = c.index
  <2>1. CASE e = c
    BY <1>3, <2>1
  <2>2. CASE e = [c EXCEPT !.made = TRUE]
    BY <1>3, <2>2, DirectoryMade
  <2>3. CASE e = WithContent(c, cache_path_for_ref(args.ref), Cut)
    BY <1>3, <2>3, RefWritten
  <2> QED
    BY <1>4, <2>1, <2>2, <2>3
<1>6. IndexGood(cuts', e)
  BY <1>2, <1>3, <1>5 DEF IndexGood, Unspoilt
<1>7. RefreshedIsCurrent'
  BY <1>2 DEF RefreshedIsCurrent, CacheInv, Shared
<1> QED
  BY <1>1, <1>2, <1>3, <1>5, <1>6, <1>7, CacheWritten

(* A bundle that is made anew has an empty cache. *)
LEMMA EmptyGood ==
    ASSUME NEW e \in {EmptyCache, [EmptyCache EXCEPT !.made = TRUE]}, NEW k
    PROVE  CacheTyped(e) /\ IndexGood(k, e)
<1>1. DOMAIN EmptyCache = CacheFields
  BY DEF EmptyCache, CacheFields
<1>2. /\ DOMAIN e = CacheFields /\ e.index = EmptyCache.index
      /\ e.byRef = EmptyCache.byRef /\ e.byDigest = EmptyCache.byDigest
  BY <1>1 DEF CacheFields
<1>3. /\ EmptyCache.index = [r \in RegistryRefs |-> Absent] /\ EmptyCache.byDigest = [n \in Catalogs |-> Absent]
      /\ EmptyCache.byRef = [s \in Slugs |-> Absent]
  BY DEF EmptyCache, Slugs
<1>4. CacheTyped(e)
  BY <1>2, <1>3 DEF CacheTyped
<1>5. \A r \in RegistryRefs : Absent \notin Serves[r]
  BY ServedAreCatalogs
<1> QED
  BY <1>2, <1>3, <1>4, <1>5 DEF IndexGood

(***************************************************************************)
(* A command that reached the registry and wrote both copies of what it was *)
(* answered plans with that catalogue, after any number of commands, of     *)
(* publications and of writes that failed or were the last of a process     *)
(* (resolve_catalog_path, fetch_remote_registry_to_cache,                   *)
(* cache_remote_registry_file): the index names a digest only when its file *)
(* is whole, unless two references share it, and a refresh whose index      *)
(* could not be written goes on with the copy it has just written.          *)
(***************************************************************************)
THEOREM RefreshesAreCurrent == CacheSpec => []RefreshedIsCurrent
<1>1. ASSUME CacheInit(args) PROVE CacheInv
  <2>1. cache = [d \in CacheDirs |-> EmptyCache]
    BY <1>1 DEF CacheInit, CacheDirs
  <2>2. \A d \in CacheDirs : CacheTyped(cache[d]) /\ IndexGood(cuts, cache[d])
    BY <2>1, EmptyGood
  <2>3. look = "idle" /\ cuts = 0 /\ DOMAIN registry = RegistryRefs /\ \A r \in RegistryRefs : registry[r] \in Serves[r]
    BY <1>1 DEF CacheInit
  <2> QED
    BY <2>1, <2>2, <2>3 DEF CacheInv, RefreshedIsCurrent
<1>2. ASSUME CacheInv, [CacheNext]_cacheVars PROVE CacheInv'
  <2>1. ASSUME NEW a \in WizardArgs, StartWizard(a) PROVE CacheInv'
    BY <1>2, <2>1, CacheAside DEF StartWizard, RefreshedIsCurrent
  <2>2. CASE ResolveGiven \/ ResolveBadIndex \/ ResolveCached
    <3>1. UNCHANGED <<cache, registry, cuts>> /\ look' \in {"load", "failed"} /\ served' = Absent
      BY <2>2 DEF ResolveGiven, ResolveBadIndex, ResolveCached, Found, NotFound
    <3> QED
      BY <1>2, <3>1, CacheAside DEF RefreshedIsCurrent
  <2>3. CASE LeaveAlone
    BY <1>2, <2>3, CacheAside DEF LeaveAlone, RefreshedIsCurrent
  <2>4. CASE Overwrite
    <3>1. cache' = [cache EXCEPT !["bundle"] = [EmptyCache EXCEPT !.made = TRUE]] /\ look' = "idle" /\ UNCHANGED <<registry, cuts>>
      BY <2>4 DEF Overwrite
    <3> DEFINE e == [EmptyCache EXCEPT !.made = TRUE]
    <3>2. CacheTyped(e) /\ IndexGood(cuts', e)
      BY EmptyGood
    <3> HIDE DEF e
    <3>3. cache' = [cache EXCEPT !["bundle"] = e]
      BY <3>1 DEF e
    <3> QED
      BY <1>2, <3>1, <3>2, <3>3, CacheWritten DEF RefreshedIsCurrent, CacheDirs
  <2>5. ASSUME NEW r \in RegistryRefs, NEW n \in Serves[r], Publish(r, n) PROVE CacheInv'
    <3>1. UNCHANGED <<cache, args, look, pass, located, writes, served, catalog, cuts>>
      BY <2>5 DEF Publish
    <3>2. DOMAIN registry' = RegistryRefs /\ \A q \in RegistryRefs : registry'[q] \in Serves[q]
      BY <1>2, <2>5 DEF Publish, CacheInv
    <3>3. Here' = Here /\ Content(Here, located)' = Content(Here, located)
      BY <3>1 DEF Here, Dir, Content
    <3> QED
      BY <1>2, <3>1, <3>2, <3>3
         DEF CacheInv, CacheTyped, IndexGood, Unspoilt, Shared, WritingGood, cache_path_for_ref, RefreshedIsCurrent
  <2>6. CASE UNCHANGED cacheVars
    <3>1. UNCHANGED <<cache, registry, args, look, pass, located, writes, served, catalog, cuts>>
      BY <2>6 DEF cacheVars
    <3>2. Here' = Here /\ Content(Here, located)' = Content(Here, located)
      BY <3>1 DEF Here, Dir, Content
    <3> QED
      BY <1>2, <3>1, <3>2
         DEF CacheInv, CacheTyped, IndexGood, Unspoilt, Shared, WritingGood, cache_path_for_ref, RefreshedIsCurrent
  <2> QED
    BY <1>2, <2>1, <2>2, <2>3, <2>4, <2>5, <2>6, FetchKeeps, WriteKeeps, CutKeeps, FailKeeps, LoadKeeps,
       KeepKeeps, KeepFailKeeps DEF CacheNext
<1>3. CacheInv => RefreshedIsCurrent
  BY DEF CacheInv
<1> QED
  BY <1>1, <1>2, <1>3, PTL DEF CacheSpec

=============================================================================
