--------------------------- MODULE Subscriptions ---------------------------
(***************************************************************************)
(* The universal subscriptions of src/subscriptions_universal and the       *)
(* "demo subscriptions" commands of src/cli.rs.  Each command is a process  *)
(* run for one tenant; they share the files of the SubscriptionStore, one   *)
(* per tenant (and team) and binding, and take no lock: a state is read,    *)
(* the provider is called, and only then the file is rewritten or removed.  *)
(* The provider is external: a call fails or answers with or without a      *)
(* subscription id and an expiration.  One provider id; a tenant stands for *)
(* a tenant and team.  Files are replaced by rename, here in one step.      *)
(***************************************************************************)
EXTENDS Integers, Sequences, FiniteSets

CONSTANTS Procs,      \* the commands
          Tenants, Bindings,
          Users,      \* users given with --user-id and --user-token-key
          MaxSid,     \* bound: subscription ids the provider hands out
          Commands    \* Commands[p]: [op, tenant, binding, user] process p may run

None == "none"
Sids == 1..MaxSid
NoSid == 0
Files == Tenants \X Bindings

(* expiration_unix_ms: absent, within the skew of now, or further away. *)
Expirations == {None, "due", "later"}

(* The fields of SubscriptionState that later commands use. *)
State == [user : Users \cup {None}, sid : Sids \cup {NoSid}, exp : Expirations]
NoFile == [user |-> None, sid |-> NoSid, exp |-> "nofile"]

Ops == {"ensure", "renew_due", "renew_one", "delete"}
Command == [op : Ops, tenant : Tenants, binding : Bindings, user : Users \cup {None}]

ASSUME SubscriptionsAssumption ==
    /\ MaxSid \in Nat
    /\ None \notin Users
    /\ Commands \in [Procs -> SUBSET Command]

VARIABLES store,      \* the state files
          pc, cmd,    \* each command: where it is, what it was asked
          todo,       \* renew_due: states listed and not yet visited
          cur,        \* the file and state being renewed or deleted
          pending,    \* the state about to be written
          nextSid,    \* subscription ids handed out so far
          owner,      \* history: the user each subscription id was ensured for
          calls,      \* history: <<sid, user>> of the renew and delete calls
          listed, tried,       \* history of renew_due: states listed, and attempted
          accepted,            \* history: subscription ids the provider deleted
          deleted              \* history: files removed and not ensured again since

vars == <<store, pc, cmd, todo, cur, pending, nextSid, owner, calls, listed, tried, accepted, deleted>>
history == <<owner, calls, listed, tried, accepted, deleted>>

Listed == [file : Files, state : State]
NoEntry == [file |-> <<>>, state |-> NoFile]
PCs == {"idle", "ensure_write", "visit", "renew_write", "call", "remove", "done"}

Init ==
    /\ store = [f \in Files |-> NoFile]
    /\ pc = [p \in Procs |-> "idle"]
    /\ cmd = [p \in Procs |-> [op |-> None]]
    /\ todo = [p \in Procs |-> {}]
    /\ cur = [p \in Procs |-> NoEntry]
    /\ pending = [p \in Procs |-> NoFile]
    /\ nextSid = 1
    /\ owner = [s \in Sids |-> <<>>]
    /\ calls = {}
    /\ listed = [p \in Procs |-> {}] /\ tried = [p \in Procs |-> {}]
    /\ accepted = {} /\ deleted = {}

Goto(p, l) == pc' = [pc EXCEPT ![p] = l]

(* default_user_ref: made up from the command's own tenant. *)
DefaultUser(t) == <<"operator", t>>
UserOf(t, u) == IF u = None THEN DefaultUser(t) ELSE <<"user", u>>

-----------------------------------------------------------------------------
(* ensure: call subscription_ensure, then write what it answered. *)

Ensure(p, c) ==
    /\ pc[p] = "idle" /\ c.op = "ensure"
    /\ cmd' = [cmd EXCEPT ![p] = c]
    /\ \/ Goto(p, "done") /\ UNCHANGED <<pending, nextSid, owner>>
       \/ \E exp \in {None, "later"} :
            /\ pending' = [pending EXCEPT ![p] = [user |-> c.user, sid |-> NoSid, exp |-> exp]]
            /\ Goto(p, "ensure_write")
            /\ UNCHANGED <<nextSid, owner>>
       \/ \E exp \in {None, "later"} :
            /\ nextSid <= MaxSid
            /\ pending' = [pending EXCEPT ![p] = [user |-> c.user, sid |-> nextSid, exp |-> exp]]
            /\ owner' = [owner EXCEPT ![nextSid] = UserOf(c.tenant, c.user)]
            /\ nextSid' = nextSid + 1
            /\ Goto(p, "ensure_write")
    /\ UNCHANGED <<store, todo, cur, calls, listed, tried, accepted, deleted>>

EnsureWrite(p) ==
    LET f == <<cmd[p].tenant, cmd[p].binding>> IN
    /\ pc[p] = "ensure_write"
    /\ store' = [store EXCEPT ![f] = pending[p]]
    /\ deleted' = deleted \ {f}
    /\ Goto(p, "done")
    /\ UNCHANGED <<cmd, todo, cur, pending, nextSid, owner, calls, listed, tried, accepted>>

-----------------------------------------------------------------------------
(* renew: all due bindings of the store, or one of the command's tenant. *)

Stored == {[file |-> f, state |-> store[f]] : f \in {f \in Files : store[f] # NoFile}}

RenewDue(p, c) ==
    /\ pc[p] = "idle" /\ c.op = "renew_due"
    /\ cmd' = [cmd EXCEPT ![p] = c]
    /\ todo' = [todo EXCEPT ![p] = Stored]
    /\ listed' = [listed EXCEPT ![p] = Stored]
    /\ Goto(p, "visit")
    /\ UNCHANGED <<store, cur, pending, nextSid, owner, calls, tried, accepted, deleted>>

Due(e) == e.state.exp = "due"

Skip(p, e) ==
    /\ pc[p] = "visit" /\ e \in todo[p] /\ ~Due(e)
    /\ todo' = [todo EXCEPT ![p] = @ \ {e}]
    /\ UNCHANGED <<store, pc, cmd, cur, pending, nextSid, history>>

Finish(p) ==
    /\ pc[p] = "visit" /\ todo[p] = {}
    /\ Goto(p, "done")
    /\ UNCHANGED <<store, cmd, todo, cur, pending, nextSid, history>>

(* Mutant: the user is left out of the renewed state, like notification_url. *)
Bug_Renewed(e, sid, exp) == [user |-> None, sid |-> sid, exp |-> exp]

(* from_provider_result: everything the answer omits is lost. *)
Renewed(e, sid, exp) == [user |-> e.state.user, sid |-> sid, exp |-> exp]

(* subscription_renew of e: an answer to be written, a failure, or an error *)
(* because there is no subscription id.                                     *)
RenewCall(p, e, AfterError) ==
    \/ /\ e.state.sid # NoSid
       /\ calls' = calls \cup {<<e.state.sid, UserOf(cmd[p].tenant, e.state.user)>>}
       /\ \E sid \in {e.state.sid, NoSid}, exp \in {None, "later"} :
            pending' = [pending EXCEPT ![p] = Renewed(e, sid, exp)]
       /\ cur' = [cur EXCEPT ![p] = e]
       /\ Goto(p, "renew_write")
    \/ /\ \/ e.state.sid = NoSid /\ UNCHANGED calls
          \/ e.state.sid # NoSid /\ calls' = calls \cup {<<e.state.sid, UserOf(cmd[p].tenant, e.state.user)>>}
       /\ Goto(p, AfterError)
       /\ UNCHANGED <<pending, cur>>

(* Mutant: the first failed renewal ends the pass. *)
Bug_AfterRenewError == "done"

(* renew_due logs the error and goes on. *)
AfterRenewError == "visit"

Visit(p, e) ==
    /\ pc[p] = "visit" /\ e \in todo[p] /\ Due(e)
    /\ RenewCall(p, e, AfterRenewError)
    /\ todo' = [todo EXCEPT ![p] = @ \ {e}]
    /\ tried' = [tried EXCEPT ![p] = @ \cup {e}]
    /\ UNCHANGED <<store, cmd, nextSid, owner, listed, accepted, deleted>>

RenewOne(p, c) ==
    LET e == [file |-> <<c.tenant, c.binding>>, state |-> store[<<c.tenant, c.binding>>]] IN
    /\ pc[p] = "idle" /\ c.op = "renew_one"
    /\ cmd' = [cmd EXCEPT ![p] = c]
    /\ \/ e.state = NoFile /\ Goto(p, "done") /\ UNCHANGED cur
       \/ e.state # NoFile /\ Goto(p, "call") /\ cur' = [cur EXCEPT ![p] = e]
    /\ UNCHANGED <<store, todo, pending, nextSid, history>>

RenewOneCall(p) ==
    /\ pc[p] = "call" /\ cmd[p].op = "renew_one"
    /\ RenewCall(p, cur[p], "done")
    /\ UNCHANGED <<store, cmd, todo, nextSid, owner, listed, tried, accepted, deleted>>

(* The renewed state carries the command's tenant, whatever file it is of.  *)
RenewWrite(p) ==
    /\ pc[p] = "renew_write"
    /\ store' = [store EXCEPT ![<<cmd[p].tenant, cur[p].file[2]>>] = pending[p]]
    /\ Goto(p, IF cmd[p].op = "renew_due" THEN "visit" ELSE "done")
    /\ UNCHANGED <<cmd, todo, cur, pending, nextSid, history>>

-----------------------------------------------------------------------------
(* delete: read the file, call subscription_delete, remove the file. *)

Delete(p, c) ==
    LET f == <<c.tenant, c.binding>> IN
    /\ pc[p] = "idle" /\ c.op = "delete"
    /\ cmd' = [cmd EXCEPT ![p] = c]
    /\ \/ store[f] = NoFile /\ Goto(p, "done") /\ UNCHANGED cur
       \/ /\ store[f] # NoFile
          /\ cur' = [cur EXCEPT ![p] = [file |-> f, state |-> store[f]]]
          /\ Goto(p, "call")
    /\ UNCHANGED <<store, todo, pending, nextSid, history>>

(* Mutant: a delete that cannot be sent or that fails removes the file. *)
Bug_DeleteFailed(p) == Goto(p, "remove")

DeleteFailed(p) == Goto(p, "done")

DeleteCall(p) ==
    LET st == cur[p].state IN
    /\ pc[p] = "call" /\ cmd[p].op = "delete"
    /\ \/ st.sid = NoSid /\ DeleteFailed(p) /\ UNCHANGED <<calls, accepted>>
       \/ /\ st.sid # NoSid
          /\ calls' = calls \cup {<<st.sid, UserOf(cmd[p].tenant, st.user)>>}
          /\ \/ DeleteFailed(p) /\ UNCHANGED accepted
             \/ Goto(p, "remove") /\ accepted' = accepted \cup {st.sid}
    /\ UNCHANGED <<store, cmd, todo, cur, pending, nextSid, owner, listed, tried, deleted>>

DeleteRemove(p) ==
    /\ pc[p] = "remove"
    /\ store' = [store EXCEPT ![cur[p].file] = NoFile]
    /\ deleted' = deleted \cup {cur[p].file}
    /\ Goto(p, "done")
    /\ UNCHANGED <<cmd, todo, cur, pending, nextSid, owner, calls, listed, tried, accepted>>

-----------------------------------------------------------------------------
(* Time passes: an expiration comes within the skew. *)
BecomeDue(f) ==
    /\ store[f].exp = "later"
    /\ store' = [store EXCEPT ![f].exp = "due"]
    /\ UNCHANGED <<pc, cmd, todo, cur, pending, nextSid, history>>

Start(p) == \E c \in Commands[p] : Ensure(p, c) \/ RenewDue(p, c) \/ RenewOne(p, c) \/ Delete(p, c)

Step(p) ==
    \/ EnsureWrite(p) \/ Finish(p) \/ RenewOneCall(p) \/ RenewWrite(p) \/ DeleteCall(p) \/ DeleteRemove(p)
    \/ \E e \in todo[p] : Skip(p, e) \/ Visit(p, e)

Next == (\E p \in Procs : Start(p) \/ Step(p)) \/ (\E f \in Files : BecomeDue(f))

Spec == Init /\ [][Next]_vars

-----------------------------------------------------------------------------
(* Every variable has its type: states that are listed, being renewed or    *)
(* about to be written are states a file can hold.                          *)
TypeOK ==
    /\ store \in [Files -> State \cup {NoFile}]
    /\ pc \in [Procs -> PCs]
    /\ \A p \in Procs : /\ todo[p] \subseteq Listed /\ cur[p] \in Listed \cup {NoEntry}
                        /\ pending[p] \in State \cup {NoFile}
    /\ nextSid \in 1..(MaxSid + 1)

(***************************************************************************)
(* Delegated contexts stay intact: a subscription that was ensured for an   *)
(* explicit user is renewed and deleted as that user, by whichever command, *)
(* after any number of renewals and whatever other commands overwrite.      *)
(***************************************************************************)
DelegatedUserKept ==
    \A c \in calls : owner[c[1]][1] = "user" => c[2] = owner[c[1]]

(***************************************************************************)
(* A renew pass that is over has tried every binding that was due when it   *)
(* began, whichever of the other renewals failed.                           *)
(***************************************************************************)
RenewPassComplete ==
    \A p \in Procs : cmd[p].op = "renew_due" /\ pc[p] = "done" =>
      \A e \in listed[p] : Due(e) => e \in tried[p]

(***************************************************************************)
(* A state file is removed only after the provider has accepted the         *)
(* deletion of the subscription the command read from it, so that a delete  *)
(* that failed can be repeated.                                             *)
(***************************************************************************)
RemovedAfterAccepted ==
    \A p \in Procs : cmd[p].op = "delete" /\ cur[p].file \in deleted =>
      \E q \in Procs : cmd[q].op = "delete" /\ cur[q].file = cur[p].file /\ cur[q].state.sid \in accepted

=============================================================================
