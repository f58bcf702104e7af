---------------------------- MODULE Capabilities ----------------------------
(***************************************************************************)
(* The capability registry of src/capabilities.rs: every offer the bundle's *)
(* packs make, the order in which offers are tried, which offer a call      *)
(* resolves to and which offers form a hook chain.  The registry is built   *)
(* once, when the DemoRunnerHost is created, and never changes afterwards,  *)
(* so it is a constant here.  Strings are small sets; the order of stable   *)
(* ids is the order of naturals.  A pack found by the registry is always    *)
(* also in packs_by_path (DemoRunnerHost::new fills both in one loop), so   *)
(* the "pack not found" branches of the host cannot be taken.               *)
(***************************************************************************)
EXTENDS Naturals

CONSTANTS Tenants,    \* tenants an invocation can be made for
          OpNames,    \* operation names, "cap.invoke:<cap>" included
          NoOp,       \* the empty op of invoke_capability
          Caps,       \* capability ids
          StableIds,  \* stable ids (explicit offer_id, or derived), as naturals
          Offers,     \* identities of the offers in the registry
          Offer       \* their contents: Offer[o] is the CapabilityOfferRecord

(***************************************************************************)
(* tenants and ops are the scope and applies_to lists (empty: anything);    *)
(* pos is the place of the offer in the pack index (pack path, then index   *)
(* in the pack), which a stable sort leaves as the last tie-break.          *)
(***************************************************************************)
OfferRecord == [cap : Caps, priority : Nat, stable_id : StableIds, pos : Nat,
                tenants : SUBSET Tenants, ops : SUBSET OpNames,
                requires_setup : BOOLEAN]

ASSUME RegistryAssumption ==
    /\ StableIds \subseteq Nat
    /\ NoOp \notin OpNames
    /\ Offer \in [Offers -> OfferRecord]
    /\ \A o, p \in Offers : Offer[o].pos = Offer[p].pos => o = p

(* Offers are sorted by priority, then stable id, then pack order. *)
Before(o, p) ==
    \/ Offer[o].priority < Offer[p].priority
    \/ /\ Offer[o].priority = Offer[p].priority
       /\ \/ Offer[o].stable_id < Offer[p].stable_id
          \/ /\ Offer[o].stable_id = Offer[p].stable_id
             /\ Offer[o].pos <= Offer[p].pos

(* The first offer of S in registry order. *)
IsFirst(o, S) == o \in S /\ \A p \in S : Before(o, p)

value_matches(values, current) == values = {} \/ current \in values

scope_matches(o, tenant) == value_matches(Offer[o].tenants, tenant)

op_matches(o, op) == op = NoOp \/ value_matches(Offer[o].ops, op)

(* The offers resolve_for_op searches. *)
Candidates(cap, tenant, op) ==
    {o \in Offers : Offer[o].cap = cap /\ scope_matches(o, tenant) /\ op_matches(o, op)}

(***************************************************************************)
(* The offers of a hook chain: filtered by applies_to only, whatever the    *)
(* tenant; the host walks them in registry order.                           *)
(***************************************************************************)
resolve_hook_chain(cap, op) ==
    {o \in Offers : Offer[o].cap = cap /\ value_matches(Offer[o].ops, op)}

=============================================================================
