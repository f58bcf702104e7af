------------------------------- MODULE Wizard -------------------------------
(***************************************************************************)
(* The bundle wizard: `wizard` and `demo wizard` of src/cli.rs, the plan    *)
(* that src/wizard.rs makes from the answers and what its execution does to *)
(* the bundle, step by step.  A step may fail, before it has done anything  *)
(* or half way, which ends the command; it may then be run again.           *)
(*                                                                          *)
(* A pack is named by a reference (100 and up) until it has an id: the one  *)
(* that is derived from the reference, or the next free number after it     *)
(* (`name`, `name-2`, ...).  Numbers with the same tens stand for names     *)
(* that may come to be the same in this way: the family of `name`.  A       *)
(* reference that looks like an id (`My_Pack`, `mypack:latest`) is taken    *)
(* for one, which the pack need not get (`my-pack`, `mypack-latest`).  A    *)
(* default pack is assigned to all (the empty scope), to a tenant or to a   *)
(* team.                                                                    *)
(***************************************************************************)
EXTENDS Project

CONSTANTS Places,     \* the tenants and teams there may be
          PackIds,    \* the ids packs may get, or be taken to have
          BaseOf,     \* BaseOf[ref]: derive_pack_id_from_reference
          BareName,   \* BareName[ref]: how a reference without a scheme, a slash and a dot reads as an id
          CatalogRef, \* CatalogRef[id]: the reference of a provider in the catalogue
          Linkable,   \* the ids that start with the name of a domain
          Answers,    \* what the user may answer
          Bundles,    \* the bundles there may be
          MaxRuns     \* how often the command is run

Refs == DOMAIN BaseOf
Where == Places \union {<<>>}
Ops == {"packs_add", "packs_remove", "providers_add", "providers_remove", "tenants_add", "tenants_remove",
        "access_change", "packs", "providers", "tenants_teams"}
BundleScope == <<"bundle", "bundle", "bundle">>
Demo == <<"demo">>
Scaffold == {<<"default">>, <<"demo">>, <<"demo", DefaultTeam>>}
NoPack == 0
IsRef(x) == x >= 100
Family(i) == i \div 10

Access == [pack : Refs \union PackIds, scope : Places, policy : {Public, Forbidden}]
WizardAnswer ==
    [mode : {"create", "update", "remove"}, packs : Seq([ref : Refs, scope : Where, default : BOOLEAN]), refs : Seq(Refs),
     providers : Seq(PackIds), catalog : Seq(PackIds), targets : Seq(Places), allow : Seq([names : Seq(Nat), plain : BOOLEAN]),
     ops : SUBSET Ops, access : Seq(Access), packsRemove : Seq([pack : Refs \union PackIds, scope : Where \union {BundleScope}]),
     providersRemove : Seq(PackIds), tenantsRemove : Seq(Places), seeds : Seq([id : PackIds, https : BOOLEAN])]

Bundle ==
    [there : BOOLEAN, yaml : BOOLEAN, meta : SUBSET [id : PackIds, ref : Refs], packs : [PackIds -> {None, "whole", "torn"}],
     linked : [PackIds -> {None, "whole", "torn"}], registry : SUBSET [id : PackIds, ref : Refs \union PackIds, enabled : BOOLEAN],
     registryFile : BOOLEAN, broken : SUBSET {"packs.json", "providers.json"}, defaults : [Where -> PackIds \union {NoPack}],
     dirs : SUBSET Places, files : SUBSET Places, gmap : [Places -> AccessFile], staged : SUBSET Places, resolved : SUBSET Places,
     secrets : SUBSET (PackIds \X Places), webhooks : SUBSET (PackIds \X Places)]

(* What packs.json and the registry hold when this program wrote them: one entry for an
   id and for a reference, and an id other than the derived one only where that was taken. *)
MetaOk(meta) ==
    \A m, n \in meta : /\ m.id = n.id \/ m.ref = n.ref => m = n
                       /\ Family(m.id) = Family(BaseOf[m.ref])
                       /\ m.id # BaseOf[m.ref] => \E o \in meta : o # m /\ Family(o.id) = Family(m.id)

StartOk(b) ==
    /\ MetaOk(b.meta)
    /\ \A x, y \in b.registry : x.id = y.id => x = y
    /\ ~b.registryFile => b.registry = {}
    /\ \A s \in Places \ b.files : b.gmap[s] = EmptyFile

(* The numbers of a family do not run out: `name-2`, `name-3` and so on have no end. *)
IdsSuffice ==
    \A r \in Refs : \A used \in SUBSET PackIds : Cardinality(used) < Cardinality(Refs) =>
      \E i \in PackIds : /\ Family(i) = Family(BaseOf[r]) /\ i >= BaseOf[r]
                         /\ i \notin used /\ \A k \in BaseOf[r]..i-1 : k \in used

ASSUME WizardAssumption ==
    /\ MaxRuns \in Nat /\ Range(BaseOf) \subseteq PackIds /\ Range(CatalogRef) \subseteq Refs
    /\ DOMAIN BareName \subseteq Refs /\ Range(BareName) \subseteq PackIds
    /\ IsFiniteSet(Refs) /\ \A r \in Refs : r \in Nat /\ r >= 100
    /\ \A i \in PackIds : i \in Nat /\ i > 0 /\ i < 100
    /\ Scaffold \subseteq Places /\ \A s \in Places : s \in Seq(STRING) /\ Len(s) \in {1, 2} /\ Tenant(s) \in Places
    /\ Answers \subseteq WizardAnswer
    /\ Bundles \subseteq Bundle /\ \A b \in Bundles : StartOk(b)
    /\ IdsSuffice

VARIABLES answers,  \* the answers of the user
          start,    \* the bundle before the first run
          bundle,   \* the bundle
          plan,     \* the plan of this run
          todo,     \* the steps that are left of it
          wizard,   \* the state of the command
          runs,     \* how often it was begun
          lost      \* history: a file that is read and written back was cut short

wizardVars == <<answers, start, bundle, plan, todo, wizard, runs, lost>>

NoBundle ==
    [there |-> FALSE, yaml |-> FALSE, meta |-> {}, packs |-> [i \in PackIds |-> None], linked |-> [i \in PackIds |-> None],
     registry |-> {}, registryFile |-> FALSE, broken |-> {}, defaults |-> [s \in Places \union {<<>>} |-> NoPack],
     dirs |-> {}, files |-> {}, gmap |-> [s \in Places |-> EmptyFile], staged |-> {}, resolved |-> {},
     secrets |-> {}, webhooks |-> {}]

(* Numbers in order. *)
Ascending(S) == [n \in 1..Cardinality(S) |-> CHOOSE i \in S : Cardinality({j \in S : j < i}) = n - 1]

(* The elements of a sequence in order, each once. *)
Distinct(seq) ==
    LET firsts == Ascending({i \in DOMAIN seq : \A j \in 1..i-1 : seq[j] # seq[i]})
    IN [n \in DOMAIN firsts |-> seq[firsts[n]]]

Collect(seq, Op(_)) == FlattenSeq([i \in DOMAIN seq |-> Op(seq[i])])

-----------------------------------------------------------------------------
(* DemoWizardArgs::run: the request *)

(* The packs that were asked for, on the command line or by name in the catalogue.
   A provider that is not in the catalogue has no reference. *)
RefsOf(a) ==
    Collect(a.packs, LAMBDA x : <<x.ref>>) \o a.refs
      \o Collect(a.providers \o a.catalog, LAMBDA id : IF id \in DOMAIN CatalogRef THEN <<CatalogRef[id]>> ELSE <<>>)

(* A catalogue pack must be known. *)
AnswersOk(a) == Range(a.catalog) \subseteq DOMAIN CatalogRef

(* Without a target it is the tenant of the command, `demo`. *)
TargetsOf(a) == IF a.targets = <<>> THEN <<Demo>> ELSE a.targets

TenantsOf(a) == [i \in DOMAIN TargetsOf(a) |-> [scope |-> TargetsOf(a)[i], allow |-> a.allow]]

(* A pack is granted to the scope it is given with, or to every target. *)
normalize_access_changes_from_pack_refs(a) ==
    LET grant(ref, s) == [pack |-> ref, scope |-> s, policy |-> Public]
    IN Distinct(Collect(a.packs, LAMBDA x :
         IF x.scope = <<>> THEN [i \in DOMAIN TargetsOf(a) |-> grant(x.ref, TargetsOf(a)[i])] ELSE <<grant(x.ref, x.scope)>>))

normalize_default_assignments_from_pack_refs(a) ==
    Collect(a.packs, LAMBDA x : IF x.default THEN <<[pack |-> x.ref, scope |-> x.scope]>> ELSE <<>>)

(* Outside of create, only the changes that were asked for. *)
build_access_changes(a) == IF a.mode = "create" THEN normalize_access_changes_from_pack_refs(a) ELSE a.access

RequestOf(a) ==
    [mode |-> a.mode, refs |-> RefsOf(a), tenants |-> TenantsOf(a), providers |-> a.providers, ops |-> a.ops,
     defaults |-> normalize_default_assignments_from_pack_refs(a), access |-> build_access_changes(a),
     packsRemove |-> a.packsRemove, providersRemove |-> a.providersRemove, tenantsRemove |-> a.tenantsRemove,
     seeds |-> a.seeds]

-----------------------------------------------------------------------------
(* build_plan: packs get their ids where they are known, and the operations are found. *)

RefIn(meta, ref) == {m \in meta : m.ref = ref}

IdOf(meta, ref) == (CHOOSE m \in RefIn(meta, ref) : TRUE).id

(* Two references may come to one name. *)
derive_pack_id_from_reference(ref) == BaseOf[ref]

(* What looks like an id is taken for one, even if packs.json has it for a reference. *)
canonical_pack_identifier(meta, x) ==
    CASE ~IsRef(x)             -> x
      [] x \in DOMAIN BareName -> BareName[x]
      [] OTHER -> IF RefIn(meta, x) # {} THEN IdOf(meta, x) ELSE derive_pack_id_from_reference(x)

(* Mutant: changes of access keep the reference. *)
Bug_normalize_request_for_plan(req, meta) ==
    LET named(x) == [x EXCEPT !.pack = canonical_pack_identifier(meta, @)]
        all(seq) == [i \in DOMAIN seq |-> named(seq[i])]
    IN [req EXCEPT !.defaults = all(@), !.packsRemove = all(@)]

normalize_request_for_plan(req, meta) ==
    LET named(x) == [x EXCEPT !.pack = canonical_pack_identifier(meta, @)]
        all(seq) == [i \in DOMAIN seq |-> named(seq[i])]
    IN [req EXCEPT !.defaults = all(@), !.packsRemove = all(@), !.access = all(@)]

(* References in order, each once. *)
SortedRefs(refs) == Ascending(Range(refs))

Allows(req) == \E i \in DOMAIN req.tenants : req.tenants[i].allow # <<>>

If(c, x) == IF c THEN {x} ELSE {}

(* Without a choice, everything there is something to do for. *)
InferredOps(req) ==
    IF req.ops # {} THEN req.ops
    ELSE If(req.refs # <<>>, "packs_add") \union If(req.packsRemove # <<>>, "packs_remove")
         \union If(req.providers # <<>>, "providers_add") \union If(req.providersRemove # <<>>, "providers_remove")
         \union If(req.tenants # <<>>, "tenants_add") \union If(req.tenantsRemove # <<>>, "tenants_remove")
         \union If(req.access # <<>> \/ Allows(req), "access_change")

InferredTargets(req) ==
    IF req.ops # {} THEN req.ops
    ELSE If(req.packsRemove # <<>>, "packs") \union If(req.providersRemove # <<>>, "providers")
         \union If(req.tenantsRemove # <<>>, "tenants_teams")

apply_create(req) == [req EXCEPT !.refs = SortedRefs(@)]

apply_update(req) == [req EXCEPT !.refs = SortedRefs(@), !.ops = InferredOps(req)]

apply_remove(req) == [req EXCEPT !.refs = <<>>, !.ops = InferredTargets(req)]

build_plan(a, meta) ==
    LET req == normalize_request_for_plan(RequestOf(a), meta)
    IN CASE a.mode = "create" -> apply_create(req)
         [] a.mode = "update" -> apply_update(req)
         [] OTHER             -> apply_remove(req)

-----------------------------------------------------------------------------
(* Execution: the steps of a plan in their order *)

Do(op, x) == [op |-> op, x |-> x]
Each(op, seq) == [i \in DOMAIN seq |-> Do(op, seq[i])]
When(c, steps) == IF c THEN steps ELSE <<>>

AddPacks(p) ==
    When(p.refs # <<>>, <<Do("resolve", None), Do("assign", p.refs)>> \o Each("copy", p.refs) \o Each("link", p.refs))

(* The registry is only touched for packs that were added. *)
Register(refs) == When(refs # <<>>, <<Do("register", refs)>>)

Grants(p) ==
    Collect(p.tenants, LAMBDA t : <<Do("ensure", t.scope)>> \o
        [i \in DOMAIN t.allow |-> Do("rule", [scope |-> t.scope, path |-> t.allow[i], policy |-> Public])])
    \o Collect(p.access, LAMBDA c : <<Do("ensure", c.scope),
        Do("rule", [scope |-> c.scope, path |-> Given(<<c.pack>>), policy |-> c.policy])>>)

Targets(p) == Distinct(Collect(p.tenants, LAMBDA t : <<t.scope>>) \o Collect(p.access, LAMBDA c : <<c.scope>>))

apply_access_and_sync(p) ==
    Grants(p) \o When(Targets(p) # <<>>, <<Do("sync", None)>> \o Each("manifest", Targets(p)))

(* Secrets are seeded for each provider and tenant. *)
ForTenants(op, ids, p) == Collect(ids, LAMBDA id : Collect(p.tenants, LAMBDA t : <<Do(op, <<id, Tenant(t.scope)>>)>>))

seed_setup_answers(p) == ForTenants("seed", Collect(p.seeds, LAMBDA x : <<x.id>>), p)

(* Webhooks are for providers with a public https address. *)
run_webhook_setup_from_answers(p) ==
    ForTenants("webhook", Collect(p.seeds, LAMBDA x : IF x.https THEN <<x.id>> ELSE <<>>), p)

execute_create_plan(p) ==
    <<Do("scaffold", None)>> \o AddPacks(p) \o Register(p.refs) \o Each("default", p.defaults)
      \o When(p.providers # <<>>, <<Do("enable", p.providers)>>)
      \o seed_setup_answers(p) \o run_webhook_setup_from_answers(p) \o apply_access_and_sync(p)

execute_update_plan(p) ==
    LET On(op) == op \in p.ops
        refs == IF On("packs_add") THEN p.refs ELSE <<>>
    IN AddPacks([p EXCEPT !.refs = refs]) \o Each("default", p.defaults)
       \o When(On("packs_remove"), Each("unpack", p.packsRemove))
       \o Register(refs)
       \o When(On("providers_add") /\ p.providers # <<>>, <<Do("enable", p.providers)>>)
       \o When(On("providers_remove") /\ p.providersRemove # <<>>, <<Do("disable", p.providersRemove)>>)
       \o When(On("tenants_add"), Collect(p.tenants, LAMBDA t : <<Do("ensure", t.scope)>>))
       \o When(On("tenants_remove"), Each("drop", p.tenantsRemove))
       \o When(On("access_change"), apply_access_and_sync(p))

execute_remove_plan(p) ==
    When("packs" \in p.ops, Each("unpack", p.packsRemove))
    \o When("providers" \in p.ops /\ p.providersRemove # <<>>, <<Do("disable", p.providersRemove)>>)
    \o When("tenants_teams" \in p.ops, Each("drop", p.tenantsRemove))

execute_plan(p) ==
    CASE p.mode = "create" -> execute_create_plan(p)
      [] p.mode = "update" -> execute_update_plan(p)
      [] OTHER             -> execute_remove_plan(p)

-----------------------------------------------------------------------------
(* What a step does to the bundle *)

(* add_tenant, add_team and write_if_missing: a file that is there is left alone. *)
WithScopes(b, ss) ==
    [b EXCEPT !.dirs = @ \union ss, !.files = @ \union ss,
              !.gmap = [s \in Places |-> IF s \in ss \ b.files THEN ClosedFile ELSE @[s]]]

create_demo_bundle_structure(b) == WithScopes([b EXCEPT !.there = TRUE, !.yaml = TRUE], Scaffold)

allocate_unique_pack_id(base, used) ==
    CHOOSE i \in {j \in PackIds : j >= base} : i \notin used /\ \A k \in base..i-1 : k \in used

(* A reference that has an id keeps it. *)
PackIdFor(meta, ref) ==
    IF RefIn(meta, ref) # {} THEN IdOf(meta, ref) ELSE allocate_unique_pack_id(derive_pack_id_from_reference(ref), {m.id : m \in meta})

assign_pack_ids_and_persist_metadata(b, refs) ==
    LET add(meta, ref) == LET id == PackIdFor(meta, ref)
                          IN {m \in meta : m.id # id} \union {[id |-> id, ref |-> ref]}
        meta[n \in 0..Len(refs)] == IF n = 0 THEN b.meta ELSE add(meta[n - 1], refs[n])
    IN [b EXCEPT !.meta = meta[Len(refs)]]

(* Mutant: like the copies for the domains, a pack that is there is kept. *)
Bug_copy_pack_into_bundle(b, ref) ==
    LET id == IdOf(b.meta, ref) IN IF b.packs[id] = None THEN [b EXCEPT !.packs[id] = "whole"] ELSE b

copy_pack_into_bundle(b, ref) == [b EXCEPT !.packs[IdOf(b.meta, ref)] = "whole"]

(* A copy that is there is kept. *)
link_packs_to_provider_dirs(b, ref) ==
    LET id == IdOf(b.meta, ref)
    IN IF id \in Linkable /\ b.linked[id] = None THEN [b EXCEPT !.linked[id] = b.packs[id]] ELSE b

(* Entries take the place of the ones with their ids. *)
PutEntries(registry, entries) == {x \in registry : \A e \in entries : e.id # x.id} \union entries

upsert_provider_registry(b, refs) ==
    LET entries == {[id |-> IdOf(b.meta, r), ref |-> r, enabled |-> TRUE] : r \in Range(refs)}
    IN [b EXCEPT !.registry = PutEntries(@, entries), !.registryFile = TRUE]

(* An entry keeps its reference; a new one has its id for one. *)
upsert_provider_ids(b, ids) ==
    LET old(id) == {x \in b.registry : x.id = id}
        entry(id) == [id |-> id, ref |-> IF old(id) = {} THEN id ELSE (CHOOSE x \in old(id) : TRUE).ref, enabled |-> TRUE]
    IN [b EXCEPT !.registry = PutEntries(@, {entry(id) : id \in Range(ids)}), !.registryFile = TRUE]

(* One that is not there is warned of. *)
remove_provider_ids(b, ids) ==
    IF ~b.registryFile THEN b
    ELSE [b EXCEPT !.registry = {IF x.id \in Range(ids) THEN [x EXCEPT !.enabled = FALSE] ELSE x : x \in @}]

(* A pack that is not there is warned of, and one for the bundle is skipped. *)
apply_default_assignment(b, d) ==
    IF d.scope = BundleScope \/ b.packs[d.pack] = None THEN b
    ELSE [b EXCEPT !.defaults[d.scope] = d.pack,
                   !.dirs = IF d.scope = <<>> THEN @ ELSE WithDir(@, d.scope)]

(* The files of the pack go, whatever the scope; the default of a scope goes with it,
   those of others are only warned of.  Registry, packs.json and copies stay. *)
apply_pack_remove(b, d) ==
    LET gone == [b EXCEPT !.packs[d.pack] = None]
    IN IF d.scope = BundleScope THEN gone ELSE [gone EXCEPT !.defaults[d.scope] = NoPack]

ensure_tenant_and_team(b, s) == WithScopes(b, {Tenant(s), s})

Inside(s) == {x \in Places : IsPrefix(s, x)}

remove_tenant_or_team(b, s) ==
    [b EXCEPT !.dirs = @ \ Inside(s), !.files = @ \ Inside(s),
              !.gmap = [x \in Places |-> IF x \in Inside(s) THEN EmptyFile ELSE @[x]],
              !.defaults = [x \in DOMAIN @ |-> IF x \in Inside(s) THEN NoPack ELSE @[x]]]

PutRule(b, c) ==
    [b EXCEPT !.gmap[c.scope] = upsert_policy(@, c.path, c.policy), !.files = @ \union {c.scope},
              !.dirs = WithDir(@, c.scope)]

(* A manifest that the resolver did not make is warned of. *)
copy_resolved_for_target(b, s) == IF s \in b.staged THEN [b EXCEPT !.resolved = @ \union {s}] ELSE b

Effect(b, st) ==
    CASE st.op = "scaffold" -> create_demo_bundle_structure(b)
      [] st.op = "resolve"  -> b
      [] st.op = "assign"   -> assign_pack_ids_and_persist_metadata(b, st.x)
      [] st.op = "copy"     -> copy_pack_into_bundle(b, st.x)
      [] st.op = "link"     -> link_packs_to_provider_dirs(b, st.x)
      [] st.op = "register" -> upsert_provider_registry(b, st.x)
      [] st.op = "default"  -> apply_default_assignment(b, st.x)
      [] st.op = "unpack"   -> apply_pack_remove(b, st.x)
      [] st.op = "enable"   -> upsert_provider_ids(b, st.x)
      [] st.op = "disable"  -> remove_provider_ids(b, st.x)
      [] st.op = "ensure"   -> ensure_tenant_and_team(b, st.x)
      [] st.op = "drop"     -> remove_tenant_or_team(b, st.x)
      [] st.op = "rule"     -> PutRule(b, st.x)
      [] st.op = "sync"     -> [b EXCEPT !.staged = sync_project(@, b.dirs)]
      [] st.op = "manifest" -> copy_resolved_for_target(b, st.x)
      [] st.op = "seed"     -> [b EXCEPT !.secrets = @ \union {st.x}]
      [] st.op = "webhook"  -> [b EXCEPT !.webhooks = @ \union {st.x}]

(* An access map with a line that does not parse cannot be edited, nor can packs.json
   or the registry when they were cut short. *)
StepOk(b, st) ==
    /\ st.op = "rule" => UpsertOk(b.gmap[st.x.scope], st.x.path)
    /\ st.op = "assign" => "packs.json" \notin b.broken
    /\ st.op \in {"register", "enable", "disable"} => "providers.json" \notin b.broken

(* The directory is there and the default is not, or what it said is gone. *)
HalfDefault(b, d) ==
    LET made == apply_default_assignment(b, d)
    IN If(made # b, [b EXCEPT !.dirs = made.dirs]) \union If(made # b, [made EXCEPT !.defaults[d.scope] = NoPack])

(* What a step may leave behind when it is cut short, and be repaired of when it is repeated. *)
Halfway(b, st) ==
    CASE st.op = "scaffold" -> {[b EXCEPT !.there = TRUE], WithScopes([b EXCEPT !.there = TRUE, !.yaml = TRUE], {<<"demo">>})}
      [] st.op = "copy"     -> {[b EXCEPT !.packs[IdOf(b.meta, st.x)] = "torn"]}
      [] st.op = "default"  -> HalfDefault(b, st.x)
      [] st.op = "unpack"   -> {[b EXCEPT !.packs[st.x.pack] = None]}
      [] st.op = "sync"     -> {[b EXCEPT !.staged = @ \union {s}] : s \in ManifestScopes(b.dirs)}
      [] st.op = "ensure"   -> {WithScopes(b, {Tenant(st.x)})}
      [] st.op = "drop"     -> {[b EXCEPT !.files = @ \ Inside(st.x),
                                          !.gmap = [x \in Places |-> IF x \in Inside(st.x) THEN EmptyFile ELSE @[x]]]}
      [] OTHER              -> {}

(* And what not: files that are read and written back, and files and copies that are
   kept if they are there. *)
Damaged(b, st) ==
    CASE st.op = "rule"   -> {[b EXCEPT !.gmap[st.x.scope] = EmptyFile, !.files = @ \union {st.x.scope}]}
      [] st.op = "ensure" /\ ~({st.x, Tenant(st.x)} \subseteq b.files) ->
            {[b EXCEPT !.dirs = WithDir(@, st.x), !.files = @ \union {st.x, Tenant(st.x)}]}
      [] st.op = "link" /\ link_packs_to_provider_dirs(b, st.x) # b -> {[b EXCEPT !.linked[IdOf(b.meta, st.x)] = "torn"]}
      [] st.op \in {"register", "enable"} \/ (st.op = "disable" /\ b.registryFile) ->
            {[b EXCEPT !.registry = {}, !.registryFile = TRUE, !.broken = @ \union {"providers.json"}]}
      [] st.op = "assign" -> {[b EXCEPT !.meta = {}, !.broken = @ \union {"packs.json"}]}
      [] OTHER            -> {}

-----------------------------------------------------------------------------
WizardInit ==
    /\ answers \in Answers
    /\ start \in Bundles
    /\ bundle = start /\ plan = RequestOf(answers) /\ todo = <<>>
    /\ wizard = "idle" /\ runs = 0 /\ lost = FALSE

(* Create removes a bundle that is there, once it is planned and the user agrees; the
   others need one.  Webhooks are not in the bundle. *)
Base(b) == IF answers.mode = "create" THEN [NoBundle EXCEPT !.webhooks = b.webhooks] ELSE b

BundleOk(b) == answers.mode = "create" \/ (b.there /\ b.yaml)

WizardCommand ==
    /\ wizard \in {"idle", "failed"} /\ runs < MaxRuns /\ runs' = runs + 1
    /\ AnswersOk(answers) /\ BundleOk(bundle)
    /\ plan' = build_plan(answers, bundle.meta)
    /\ bundle' = Base(bundle)
    /\ todo' = execute_plan(plan')
    /\ wizard' = "running"
    /\ UNCHANGED <<answers, start, lost>>

(* A dry run stops after the plan, and so does a user who does not agree. *)
Refused ==
    /\ wizard \in {"idle", "failed"} /\ runs < MaxRuns /\ runs' = runs + 1
    /\ ~AnswersOk(answers) \/ ~BundleOk(bundle) \/ (answers.mode = "create" /\ bundle.there)
    /\ UNCHANGED <<answers, start, bundle, plan, todo, wizard, lost>>

WizardStep ==
    /\ wizard = "running" /\ todo # <<>> /\ StepOk(bundle, Head(todo))
    /\ bundle' = Effect(bundle, Head(todo))
    /\ todo' = Tail(todo)
    /\ UNCHANGED <<answers, start, plan, wizard, runs, lost>>

(* Secrets and webhooks that cannot be set up are only warned of. *)
Optional(st) == st.op \in {"seed", "webhook"}

SkipOptional ==
    /\ wizard = "running" /\ todo # <<>> /\ Optional(Head(todo))
    /\ todo' = Tail(todo)
    /\ UNCHANGED <<answers, start, bundle, plan, wizard, runs, lost>>

(* An error, or the death of the process. *)
StepFails ==
    /\ wizard = "running" /\ todo # <<>>
    /\ \/ bundle' \in {bundle} \union Halfway(bundle, Head(todo)) /\ UNCHANGED lost
       \/ bundle' \in Damaged(bundle, Head(todo)) /\ lost' = TRUE
    /\ wizard' = "failed" /\ todo' = <<>>
    /\ UNCHANGED <<answers, start, plan, runs>>

WizardEnds ==
    /\ wizard = "running" /\ todo = <<>>
    /\ wizard' = "done"
    /\ UNCHANGED <<answers, start, bundle, plan, todo, runs, lost>>

WizardNext == WizardCommand \/ Refused \/ WizardStep \/ SkipOptional \/ StepFails \/ WizardEnds

WizardSpec == WizardInit /\ [][WizardNext]_wizardVars

-----------------------------------------------------------------------------
(* Packs whose names may come to be the same, and are then made unique. *)
SameName(a, b) == a # b /\ Family(BaseOf[a]) = Family(BaseOf[b])

Mentioned == Range(RequestOf(answers).refs) \union {m.ref : m \in start.meta}

Namesakes(refs) == {r \in refs : \E q \in Mentioned : SameName(r, q)}

(* The packs that steps make the default of a scope, or remove, and those they copy. *)
PacksOf(op, steps) == {steps[i].x.pack : i \in {i \in DOMAIN steps : steps[i].op = op}}

Copied(steps) == {derive_pack_id_from_reference(steps[i].x) : i \in {i \in DOMAIN steps : steps[i].op = "copy"}}

(* The bundle after steps that all succeed. *)
Outcome(b, steps) ==
    LET at[n \in 0..Len(steps)] == IF n = 0 THEN b ELSE Effect(at[n - 1], steps[n])
    IN at[Len(steps)]

(* The id a pack goes by in a plan, as far as packs.json does not know another. *)
NameOfPack(x) ==
    IF x \in DOMAIN BareName THEN BareName[x] ELSE IF IsRef(x) THEN derive_pack_id_from_reference(x) ELSE x

Plainly == \A i \in DOMAIN answers.allow : answers.allow[i].plain

(***************************************************************************)
(* A wizard that failed may just be run again: wherever it stopped, and     *)
(* however often, when it ends well the bundle is the one that a single run *)
(* would have made, but for secrets and webhooks.  Not so if packs share a  *)
(* name, because the second run knows the ids the first one gave them; nor  *)
(* if it was cut short while it wrote an access map, the registry or        *)
(* packs.json back, or wrote a file that is kept if it is there.  An update *)
(* of a bundle may make a pack a default that it removes and does not add,  *)
(* which only the first run can do; and every run adds a path once more     *)
(* that is not spelled as the access map spells it.                         *)
(***************************************************************************)
RetryConverges ==
    LET steps == execute_plan(build_plan(answers, start.meta))
        kept(b) == [b EXCEPT !.secrets = {}, !.webhooks = {}]
        again == answers.mode = "create" \/ (Plainly /\ PacksOf("default", steps) \intersect PacksOf("unpack", steps) \subseteq Copied(steps))
    IN wizard = "done" /\ ~lost /\ Namesakes(Mentioned) = {} /\ again => kept(bundle) = kept(Outcome(Base(start), steps))

(***************************************************************************)
(* What is granted for a pack is granted to the id the pack gets, and the   *)
(* pack is there, although the plan names packs before they have an id, and *)
(* whatever earlier runs left behind: unless another one that the bundle    *)
(* knows, or is to get, has its name, or the same run removes the pack or   *)
(* changes its access in this scope once more, or its reference looks like  *)
(* an id and is not spelled as the one it gets, for then what is granted is *)
(* granted to that spelling.  An update that is told its operations must    *)
(* add packs and change access; and a path that is not spelled as in the    *)
(* access map adds a rule that later changes do not find.                   *)
(***************************************************************************)
GrantsNameTheirPack ==
    LET asked == RequestOf(answers).access
        stands(i) == \A j \in DOMAIN asked :
                       j > i /\ asked[j].scope = asked[i].scope => NameOfPack(asked[j].pack) # NameOfPack(asked[i].pack)
    IN wizard = "done" /\ ~lost /\ Plainly /\ (answers.mode = "create" \/ {"packs_add", "access_change"} \subseteq plan.ops) =>
         \A i \in DOMAIN asked :
           LET c  == asked[i]
               id == IdOf(bundle.meta, c.pack)
               owed == /\ c.pack \in Range(plan.refs) \ Namesakes(Mentioned) /\ stands(i)
                       /\ id \notin PacksOf("unpack", execute_plan(plan))
                       /\ NameOfPack(c.pack) = derive_pack_id_from_reference(c.pack)
           IN owed => bundle.packs[id] = "whole" /\ LastPolicy(bundle.gmap[c.scope].rules, <<id>>) = c.policy
=============================================================================
