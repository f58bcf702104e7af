----------------------------- MODULE PostIngress -----------------------------
(***************************************************************************)
(* Post-ingress hooks, src/hooks/runner.rs, and the offers they come from,  *)
(* src/offers/registry.rs.  What a provider made of a request is shown to   *)
(* the hooks that the installed packs offer, in order of priority, until    *)
(* one answers with a directive other than continue: respond and deny       *)
(* replace the response, dispatch runs another flow.  Then the default      *)
(* routing takes place (ingress_dispatch.rs, event_router.rs, and the       *)
(* messaging threads of MessagingIngress), or the end-to-end egress of the  *)
(* command line.  The registry of offers is cached for the whole process.   *)
(***************************************************************************)
EXTENDS Integers, Sequences, FiniteSets, SequencesExt

CONSTANTS Reqs,
          Casts,       \* [posts, refs, hooks, event_hooks]: what each request may be, which
                       \* packs may come and go, and what the environment enables
          Refs,        \* pack files, numbered in the order of their paths
          Manifest,    \* Manifest[f]: [pack_id, offers] of pack file f
          Codes,       \* status codes hooks may give
          MaxChanges   \* bound: how often packs are installed or removed

None == "none"
NoCode == -1
U16 == 65536

(***************************************************************************)
(* via: the HTTP server, or the command line (always messaging).  entries:  *)
(* the provider's "events", of which the server reads some as events, the   *)
(* others as messages.                                                      *)
(***************************************************************************)
Entry == {"event", "message"}
Post == [via : {"server", "cli"}, domain : {"events", "messaging"}, entries : Seq(Entry)]
RawOffer == [id : Nat \cup {NoCode}, kind : {"hook", "subs", "capability", None}, cap_id : BOOLEAN,
             op : BOOLEAN, priority : Int, stage : {"post_ingress", None}, contract : {"control", None}]

ASSUME PostIngressAssumption ==
    /\ \A c \in Casts :
         /\ \A r \in Reqs : \A p \in c.posts[r] : p \in Post /\ (p.via = "cli" => p.domain = "messaging")
         /\ c.refs \subseteq Refs /\ {c.hooks, c.event_hooks} \subseteq BOOLEAN
    /\ Refs \subseteq Nat /\ IsFiniteSet(Refs)
    /\ \A f \in Refs : Manifest[f].offers \in Seq(RawOffer)
    /\ Codes \subseteq Nat /\ MaxChanges \in Nat

-----------------------------------------------------------------------------
(* The offers of a pack (parse_pack_offers), and the registry. *)

DefaultPriority == 100

Candidate(o) == o.id # NoCode \/ o.kind # None \/ o.cap_id
Candidates(f) == {o \in DOMAIN Manifest[f].offers : Candidate(Manifest[f].offers[o])}

(* Every candidate has an id of its own, a kind and an operation. *)
PackOk(f) ==
    LET os == Manifest[f].offers IN
    /\ Manifest[f].pack_id # None
    /\ \A k \in Candidates(f) : /\ os[k].id # NoCode /\ os[k].op
                                /\ os[k].kind # None \/ os[k].cap_id
                                /\ \A j \in Candidates(f) : os[j].id = os[k].id => j = k

Kind(o) == IF o.kind # None THEN o.kind ELSE "capability"

OfferOf(f, o) ==
    [pack |-> f, id |-> o.id, kind |-> Kind(o),
     priority |-> IF o.priority = NoCode THEN DefaultPriority ELSE o.priority,
     stage |-> o.stage, contract |-> o.contract]
Offers(f) == {OfferOf(f, Manifest[f].offers[k]) : k \in Candidates(f)}

(* register_pack: a pack id in two files is an error. *)
IdsDistinct(fs) == \A f, g \in fs : Manifest[f].pack_id = Manifest[g].pack_id => f = g

Registry(fs) == UNION {Offers(f) : f \in fs}

(* Priority, then the key "pack_id::id"; ids are numbered like the keys. *)
Before(a, b) ==
    \/ a.priority < b.priority
    \/ a.priority = b.priority /\ (a.pack < b.pack \/ (a.pack = b.pack /\ a.id < b.id))

(* The elements of a set, each after those that are before it. *)
Sorted(S, before(_, _)) ==
    [n \in 1..Cardinality(S) |-> CHOOSE x \in S : Cardinality({y \in S : before(y, x)}) = n - 1]

Hooks(reg) == {o \in reg : o.kind = "hook" /\ o.stage = "post_ingress" /\ o.contract = "control"}
select_hooks(reg) == Sorted(Hooks(reg), Before)

-----------------------------------------------------------------------------
VARIABLES cast,       \* the requests and the environment of this behaviour
          disk,       \* the pack files that are installed
          changes,    \* how often that has changed
          cache,      \* OFFER_REGISTRY_CACHE: none, or one registry
          step, post,
          refs,       \* the files a request has discovered
          hooks,      \* the hooks it still has to invoke
          body,       \* HookIngressBody: [status, by, events]
          envelopes,  \* messaging_envelopes
          invoked,    \* history: the hooks invoked
          applied,    \* history: the hooks whose directive was applied
          routed      \* history: entries given to the default routing

post_vars == <<cast, disk, changes, cache, step, post, refs, hooks, body, envelopes, invoked, applied, routed>>

NoPost == [via |-> None, domain |-> None, entries |-> <<>>]
NoBody == [status |-> 0, by |-> None, events |-> <<>>]

PostInit ==
    /\ cast \in Casts
    /\ disk \in SUBSET cast.refs
    /\ changes = 0 /\ cache = <<>>
    /\ step = [r \in Reqs |-> "idle"] /\ post = [r \in Reqs |-> NoPost]
    /\ refs = [r \in Reqs |-> {}] /\ hooks = [r \in Reqs |-> <<>>]
    /\ body = [r \in Reqs |-> NoBody] /\ envelopes = [r \in Reqs |-> <<>>]
    /\ invoked = [r \in Reqs |-> <<>>] /\ applied = [r \in Reqs |-> <<>>]
    /\ routed = [r \in Reqs |-> <<>>]

Goto(r, l) == step' = [step EXCEPT ![r] = l]

(* Packs come and go while the operator runs. *)
Install(f) ==
    /\ changes < MaxChanges /\ changes' = changes + 1
    /\ disk' = IF f \in disk THEN disk \ {f} ELSE disk \cup {f}
    /\ UNCHANGED <<cache, step, post, refs, hooks, body, envelopes, invoked, applied, routed>>

IsEvent(e) == e = "event"
IsMessage(e) == e = "message"

RunsHooks(p) == cast.hooks /\ (p.via = "server" /\ p.domain = "events" => cast.event_hooks)

(***************************************************************************)
(* The provider fails, or its output is decoded.  The server keeps events   *)
(* and messages apart, the command line does not.                           *)
(***************************************************************************)
Ingest(r) ==
    /\ step[r] = "idle"
    /\ \E p \in cast.posts[r] :
         /\ post' = [post EXCEPT ![r] = p]
         /\ \/ Goto(r, "done") /\ UNCHANGED <<body, envelopes>>
            \/ /\ Goto(r, IF RunsHooks(p) THEN "discover" ELSE "route")
               /\ body' = [body EXCEPT ![r] =
                    [status |-> 200, by |-> "provider",
                     events |-> IF p.via = "server" THEN SelectSeq(p.entries, IsEvent) ELSE p.entries]]
               /\ envelopes' = [envelopes EXCEPT ![r] =
                    IF p.via = "server" THEN SelectSeq(p.entries, IsMessage) ELSE <<>>]
    /\ UNCHANGED <<disk, changes, cache, refs, hooks, invoked, applied, routed>>

Discover(r) ==
    /\ step[r] = "discover"
    /\ refs' = [refs EXCEPT ![r] = disk]
    /\ Goto(r, IF disk = {} THEN "route" ELSE "load")
    /\ UNCHANGED <<disk, changes, cache, post, hooks, body, envelopes, invoked, applied, routed>>

Cached == cache # <<>>

(* Under the lock of the cache.  An error is the request's, and not cached. *)
Load(r) ==
    /\ step[r] = "load"
    /\ \/ Cached /\ UNCHANGED cache
       \/ /\ ~Cached /\ refs[r] \subseteq disk
          /\ \A f \in refs[r] : PackOk(f)
          /\ IdsDistinct(refs[r])
          /\ cache' = <<Registry(refs[r])>>
    /\ hooks' = [hooks EXCEPT ![r] = select_hooks(cache'[1])]
    /\ Goto(r, "hooks")
    /\ UNCHANGED <<disk, changes, post, refs, body, envelopes, invoked, applied, routed>>

LoadFails(r) ==
    /\ step[r] = "load" /\ ~Cached
    /\ ~(refs[r] \subseteq disk /\ IdsDistinct(refs[r]) /\ \A f \in refs[r] : PackOk(f))
    /\ Goto(r, "done")
    /\ UNCHANGED <<disk, changes, cache, post, refs, hooks, body, envelopes, invoked, applied, routed>>

-----------------------------------------------------------------------------
(* A hook is invoked.  What follows depends on its answer. *)

Invoke(r) ==
    /\ step[r] = "hooks" /\ hooks[r] # <<>>
    /\ invoked' = [invoked EXCEPT ![r] = Append(@, Head(hooks[r]))]
    /\ UNCHANGED <<disk, changes, cache, post, refs, envelopes, routed>>

(* The invocation cannot be made: the request fails. *)
HookCannotRun(r) ==
    /\ Invoke(r)
    /\ Goto(r, "done")
    /\ UNCHANGED <<hooks, body, applied>>

(***************************************************************************)
(* No success, no output, no directive or continue: the next hook.          *)
(***************************************************************************)
HookPasses(r) ==
    /\ Invoke(r)
    /\ hooks' = [hooks EXCEPT ![r] = Tail(@)]
    /\ UNCHANGED <<step, body, applied>>

(* The target of a dispatch is not safe, not found or without a flow, or    *)
(* its flow fails: the next hook.                                           *)
DispatchFails(r) ==
    /\ Invoke(r)
    /\ hooks' = [hooks EXCEPT ![r] = Tail(@)]
    /\ UNCHANGED <<step, body, applied>>

(* Mutant: the hooks after it are invoked as well. *)
Bug_AfterApplied(r) == IF Len(hooks[r]) > 1 THEN "hooks" ELSE "route"

(* break: the first directive that can be applied is the last. *)
AfterApplied(r) == "route"

Apply(r, b) ==
    /\ Invoke(r)
    /\ body' = [body EXCEPT ![r] = b]
    /\ applied' = [applied EXCEPT ![r] = Append(@, Head(hooks[r]))]
    /\ hooks' = [hooks EXCEPT ![r] = Tail(@)]
    /\ Goto(r, AfterApplied(r))

(* The code is cut to 16 bits. *)
apply_reply(b, code, deny) ==
    [status |-> IF code # NoCode THEN code % U16 ELSE IF deny THEN 403 ELSE 200,
     by |-> "hook", events |-> <<>>]

Reply(r) ==
    \E code \in Codes \cup {NoCode}, deny \in BOOLEAN : Apply(r, apply_reply(body[r], code, deny))

Dispatch(r) == Apply(r, [status |-> 202, by |-> "hook", events |-> <<>>])

HooksDone(r) ==
    /\ step[r] = "hooks" /\ hooks[r] = <<>>
    /\ Goto(r, "route")
    /\ UNCHANGED <<disk, changes, cache, post, refs, hooks, body, envelopes, invoked, applied, routed>>

-----------------------------------------------------------------------------
(* The default routing. *)

(* Events, one flow after the other; one that fails is the last. *)
RouteEvents(r) ==
    /\ step[r] = "route" /\ post[r].domain = "events"
    /\ \E n \in 0..Len(body[r].events) : routed' = [routed EXCEPT ![r] = SubSeq(body[r].events, 1, n)]
    /\ Goto(r, "done")
    /\ UNCHANGED <<disk, changes, cache, post, refs, hooks, body, envelopes, invoked, applied>>

(* All messages are given to a messaging thread. *)
RouteMessages(r) ==
    /\ step[r] = "route" /\ post[r].domain = "messaging" /\ post[r].via = "server"
    /\ routed' = [routed EXCEPT ![r] = envelopes[r]]
    /\ Goto(r, "done")
    /\ UNCHANGED <<disk, changes, cache, post, refs, hooks, body, envelopes, invoked, applied>>

(* run_ingress: an entry that is not a message is an error. *)
RouteCli(r) ==
    /\ step[r] = "route" /\ post[r].via = "cli"
    /\ routed' = [routed EXCEPT ![r] =
         IF ToSet(body[r].events) \subseteq {"message"} THEN body[r].events ELSE <<>>]
    /\ Goto(r, "done")
    /\ UNCHANGED <<disk, changes, cache, post, refs, hooks, body, envelopes, invoked, applied>>

Handle(r) ==
    \/ Discover(r) \/ Load(r) \/ LoadFails(r)
    \/ HookCannotRun(r) \/ HookPasses(r) \/ DispatchFails(r) \/ Reply(r) \/ Dispatch(r) \/ HooksDone(r)
    \/ RouteEvents(r) \/ RouteMessages(r) \/ RouteCli(r)

-----------------------------------------------------------------------------
(* Every variable has its type; a status fits in 16 bits. *)
PostTypeOK ==
    /\ cast \in Casts
    /\ disk \subseteq Refs
    /\ \A r \in Reqs :
         /\ step[r] \in {"idle", "discover", "load", "hooks", "route", "done"}
         /\ refs[r] \subseteq Refs
         /\ body[r].status \in 0..(U16 - 1) /\ body[r].by \in {None, "provider", "hook"}
         /\ \A k \in DOMAIN body[r].events : body[r].events[k] \in Entry

(***************************************************************************)
(* Hooks are asked in order and the first directive is the last: what has   *)
(* been invoked is ascending in (priority, key), at most one directive was  *)
(* applied, and it was the last one asked for.                              *)
(***************************************************************************)
FirstDirectiveWins ==
    \A r \in Reqs :
      /\ \A j, k \in DOMAIN invoked[r] : j < k => Before(invoked[r][j], invoked[r][k])
      /\ applied[r] # <<>> => applied[r] = <<invoked[r][Len(invoked[r])]>>

(***************************************************************************)
(* If a hook produces dispatch, respond or deny, the ingress pipeline does  *)
(* not do the default dispatch afterwards.                                  *)
(***************************************************************************)
DirectivesShortCircuit == \A r \in Reqs : applied[r] # <<>> => routed[r] = <<>>
=============================================================================
