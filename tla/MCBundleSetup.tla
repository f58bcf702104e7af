---------------------------- MODULE MCBundleSetup ----------------------------
(***************************************************************************)
(* The parts that set a bundle up and try it out, each with its own casts   *)
(* of requests and commands; a behaviour is of one part.                    *)
(***************************************************************************)
EXTENDS Onboarding, Wizard, ProviderSetup, RegistryCache, DemoRepl

VARIABLE part

vars == <<part, fileVars, onboardVars, wizardVars, setupVars, cacheVars, replVars>>

-----------------------------------------------------------------------------
(* Onboarding *)

Submit(provider, scope, mode, service, url) ==
    [op |-> "submit", after |-> {}, provider |-> provider, scope |-> scope, mode |-> mode, fit |-> "fit", object |-> TRUE,
     visible |-> TRUE, service |-> service, url |-> url, urls |-> <<"v1", "http">>]
Policy(scope, path, what) == [op |-> "policy", after |-> {}, scope |-> scope, path |-> path, policy |-> what]
Create(scope, fit) == [op |-> "scope", after |-> {}, scope |-> scope, fit |-> fit]

T == <<"t">>
Default == <<"t", "default">>
Sales == <<"t", "sales">>
U == <<"u">>
SomeScopes == {T, Default, Sales, U}
SomePaths == {<<>>, <<1>>, <<2>>, <<1, Wild>>, <<1, 1>>, <<1, 1, 1>>, <<1, 1, 1, 1>>}

After(ps, r) == [r EXCEPT !.after = ps]
(* Two at once and a third when they have ended, or one after the other. *)
Overlap(a, b, c) == "a" :> a @@ "b" :> b @@ "c" :> After({"a", "b"}, c)
InTurn(a, b, c) == "a" :> a @@ "b" :> After({"a"}, b) @@ "c" :> After({"b"}, c)

Plain == [commented |-> FALSE, rules |-> <<Rule(<<>>, Forbidden), Rule(<<1, Wild>>, Public), Rule(<<1>>, Forbidden)>>]
Commented == [commented |-> TRUE, rules |-> <<Rule(<<1>>, Forbidden), Rule(<<1, 1>>, Public), Rule(<<>>, Forbidden)>>]

Fit(fit, r) == [r EXCEPT !.fit = fit]
Mute(r) == [r EXCEPT !.visible = FALSE]
NotObject(r) == [r EXCEPT !.object = FALSE]

Webex(scope, mode, url) == Submit("p1", scope, mode, "webex", url)
Slack(scope, mode) == Submit("p2", scope, mode, "slack", None)
Telegram(scope) == Submit("p2", scope, "setup", "telegram", "v2")
Quiet(url) == Submit("p1", U, "setup", None, url)

Casts == {
    InTurn(Webex(T, "setup", "v2"), Webex(T, "upgrade", None), Webex(Default, "setup", "v2")),
    Overlap(Webex(T, "upgrade", None), Policy(T, Given(<<1>>), Forbidden), Policy(T, Given(<<1, Wild>>), Forbidden)),
    Overlap(Slack(Sales, "remove"), Telegram(U), Policy(U, Given(<<2>>), Forbidden)),
    InTurn(Slack(T, "setup"), Slack(T, "remove"), Telegram(T)),
    Overlap(Webex(Sales, "setup", "v2"), NotObject(Webex(Sales, "setup", "v2")), Create(Sales, "bad")),
    Overlap(Policy(T, Given(<<1, 1, 1, 1>>), Public), Create(Sales, "fit"), Policy(T, Given(<<1, 1>>), Forbidden)),
    Overlap(Policy(T, [names |-> <<1>>, plain |-> FALSE], Public), Create(Default, "fit"), Policy(T, Given(<<1>>), Forbidden)),
    InTurn(Create(Default, "fit"), Policy(T, Given(<<1>>), Public), Create(Default, "fit")),
    InTurn(Mute(Quiet("http")), NotObject(Quiet("http")), Create(U, "bad")),
    InTurn(Fit("bad", Quiet(None)), Fit("unknown", Quiet(None)), Fit("refused", Quiet(None))) }

Hooks == {[account |-> "p1", name |-> [scope |-> Default, kind |-> "cards"], url |-> "v1", n |-> Old]}

OnboardStart(casts) ==
    \E c \in casts, file \in {Plain, Commented} : OnboardInit(c, {T, U}, (T :> file @@ U :> ClosedFile), Hooks, "p1")

ASSUME CastsAreRequests == (\A c \in Casts : c \in [Procs -> Request]) /\ {Plain, Commented, ClosedFile} \subseteq AccessFile

Nothing == Create(U, "bad")
NoRequests == InTurn(Nothing, Nothing, Nothing)

-----------------------------------------------------------------------------
(* The wizard *)

Blank ==
    [mode |-> "update", packs |-> <<>>, refs |-> <<>>, providers |-> <<>>, catalog |-> <<>>, targets |-> <<>>, allow |-> <<>>,
     ops |-> {}, access |-> <<>>, packsRemove |-> <<>>, providersRemove |-> <<>>, tenantsRemove |-> <<>>, seeds |-> <<>>]
Pack(ref, scope, default) == [ref |-> ref, scope |-> scope, default |-> default]
Change(pack, scope, what) == [pack |-> pack, scope |-> scope, policy |-> what]
Removal(pack, scope) == [pack |-> pack, scope |-> scope]
Spelled(names) == [names |-> names, plain |-> FALSE]
Acme == <<"acme">>
AcmeOps == <<"acme", "ops">>
SomePlaces == Scaffold \union {Acme, AcmeOps}
SomeBase == (100 :> 10 @@ 101 :> 10 @@ 102 :> 11 @@ 110 :> 20 @@ 120 :> 31)
(* The pack `My_Pack`, whose id is `my-pack`. *)
SomeSpelling == (120 :> 40)
SomeCatalog == (20 :> 110)

SomeAnswers == {
    [Blank EXCEPT !.mode = "create", !.packs = <<Pack(110, <<>>, TRUE), Pack(100, Acme, FALSE)>>, !.targets = <<Acme, AcmeOps>>,
                  !.providers = <<20, 30>>, !.seeds = <<[id |-> 20, https |-> TRUE], [id |-> 10, https |-> FALSE]>>],
    [Blank EXCEPT !.mode = "create", !.packs = <<Pack(100, <<>>, TRUE), Pack(101, <<>>, TRUE)>>],
    [Blank EXCEPT !.mode = "create", !.packs = <<Pack(120, Acme, TRUE), Pack(110, Acme, FALSE)>>],
    [Blank EXCEPT !.refs = <<110, 120>>, !.access = <<Change(110, Acme, Public), Change(120, Acme, Public)>>, !.packsRemove = <<Removal(120, Demo)>>],
    [Blank EXCEPT !.mode = "create", !.catalog = <<30>>],
    [Blank EXCEPT !.packs = <<Pack(100, Acme, TRUE), Pack(110, <<>>, TRUE)>>, !.providers = <<10>>, !.allow = <<Given(<<20, Wild>>)>>,
                  !.access = <<Change(100, AcmeOps, Public), Change(110, Demo, Public), Change(30, Demo, Forbidden)>>],
    [Blank EXCEPT !.refs = <<101>>, !.access = <<Change(101, Acme, Public)>>],
    [Blank EXCEPT !.packsRemove = <<Removal(110, <<>>), Removal(10, BundleScope)>>, !.providersRemove = <<20, 30>>,
                  !.tenantsRemove = <<Demo>>, !.targets = <<AcmeOps>>],
    [Blank EXCEPT !.ops = {"tenants_add"}, !.refs = <<100>>, !.targets = <<Acme>>],
    [Blank EXCEPT !.refs = <<102>>, !.access = <<Change(102, Acme, Public), Change(101, Acme, Forbidden)>>, !.tenantsRemove = <<AcmeOps>>],
    [Blank EXCEPT !.refs = <<110>>, !.allow = <<Spelled(<<20>>)>>, !.access = <<Change(110, Demo, Forbidden), Change(20, Acme, Public)>>],
    [Blank EXCEPT !.refs = <<110>>, !.access = <<Change(110, Demo, Forbidden), Change(20, Demo, Public)>>],
    [Blank EXCEPT !.refs = <<110>>, !.access = <<Change(110, Acme, Public)>>, !.packsRemove = <<Removal(110, Demo)>>],
    [Blank EXCEPT !.ops = {"packs_remove"}, !.packs = <<Pack(110, Demo, TRUE), Pack(100, Demo, TRUE)>>,
                  !.packsRemove = <<Removal(100, BundleScope)>>, !.access = <<Change(110, Demo, Public)>>],
    [Blank EXCEPT !.mode = "remove", !.packsRemove = <<Removal(110, Demo)>>, !.providersRemove = <<20>>, !.tenantsRemove = <<AcmeOps, Acme>>],
    [Blank EXCEPT !.mode = "remove", !.ops = {"packs"}, !.packsRemove = <<Removal(110, BundleScope)>>, !.tenantsRemove = <<Acme>>] }

Scaffolded == create_demo_bundle_structure(NoBundle)
Made ==
    [Scaffolded EXCEPT
        !.meta = {[id |-> 10, ref |-> 100], [id |-> 20, ref |-> 110]}, !.packs = [@ EXCEPT ![10] = "whole", ![20] = "whole"],
        !.linked = [@ EXCEPT ![10] = "whole"], !.registryFile = TRUE,
        !.registry = {[id |-> 10, ref |-> 100, enabled |-> TRUE], [id |-> 20, ref |-> 110, enabled |-> FALSE]},
        !.defaults = [@ EXCEPT ![<<>>] = 20, ![Demo] = 20],
        !.gmap = [@ EXCEPT ![Demo] = [commented |-> TRUE, rules |-> <<Rule(<<20>>, Public)>>]]]
Namesake ==
    WithScopes([Scaffolded EXCEPT !.meta = {[id |-> 10, ref |-> 101], [id |-> 11, ref |-> 100]},
                                  !.packs = [@ EXCEPT ![10] = "whole", ![11] = "whole"]], {Acme, AcmeOps})
SomeBundles == {NoBundle, Scaffolded, Made, Namesake}

NoWizard == /\ answers = Blank /\ start = NoBundle /\ bundle = NoBundle /\ plan = RequestOf(Blank) /\ todo = <<>>
            /\ wizard = "idle" /\ runs = 0 /\ lost = FALSE

-----------------------------------------------------------------------------
(* Set-up of providers *)

Copy(order, dir, file, provider) ==
    [order |-> order, dir |-> dir, file |-> file, provider |-> provider, flow |-> TRUE, qa |-> TRUE, asks |-> TRUE,
     contract |-> 1, upgrade |-> "none"]

(* Two copies of one pack of which the second is newer, one without a component, one
   without a set-up flow, and a capability pack. *)
SomeCopies == {
    Copy(1, "messaging", "m", "m"), [Copy(2, "packs", "m", "m") EXCEPT !.contract = 2],
    [Copy(3, "packs", "e", "e") EXCEPT !.qa = FALSE, !.asks = FALSE],
    [Copy(4, "events", "x", "x") EXCEPT !.flow = FALSE],
    [Copy(5, "packs", "r", "r") EXCEPT !.upgrade = "state"],
    [Copy(6, "packs", "o", "o") EXCEPT !.upgrade = "telemetry"] }

SomeKeepers == {[at |-> T, opens |-> TRUE], [at |-> <<>>, opens |-> FALSE]}

JobOn(op, scope, providers) ==
    [op |-> op, scope |-> scope, after |-> {}, domains |-> <<"messaging">>, found |-> {"m", "e", "x"}, listed |-> {"m", "e", "x"},
     allowed |-> providers, answers |-> providers, threads |-> 1, best |-> FALSE, allowMissing |-> FALSE, allowChange |-> TRUE,
     dry |-> FALSE, force |-> FALSE, verify |-> FALSE, secrets |-> TRUE, seeds |-> {}, override |-> FALSE, allowEnv |-> FALSE,
     env |-> "memory"]

Setup(scope, providers) == JobOn("setup", scope, providers)
Wide(r) == [r EXCEPT !.domains = <<"messaging", "events">>]
Several(r) == [r EXCEPT !.threads = 2]
Library(scope, providers) == JobOn("providers", scope, providers)
Uprise(scope, provider) == [JobOn("upgrade", scope, {provider}) EXCEPT !.env = "redis"]
Silent(r) == [r EXCEPT !.answers = {}]

Together(a, b) == "a" :> a @@ "b" :> b
Then(a, b) == "a" :> a @@ "b" :> After({"a"}, b)

JobCasts == {
    Then(Several(Setup(T, {"m", "e"})), [Library(T, {"m", "e"}) EXCEPT !.verify = TRUE, !.best = TRUE]),
    Then([Several(Wide(Setup(T, {"m", "e"}))) EXCEPT !.best = TRUE, !.allowChange = FALSE], Silent(Uprise(T, "m"))),
    Then([Wide(Setup(U, {"m"})) EXCEPT !.allowEnv = TRUE], Silent(Setup(U, {"m"}))),
    Then([Setup(T, {"m"}) EXCEPT !.override = TRUE], [Setup(T, {"e"}) EXCEPT !.dry = TRUE, !.allowMissing = TRUE]),
    Then([JobOn("wizard", Default, {"m", "e"}) EXCEPT !.best = TRUE, !.allowMissing = TRUE, !.allowChange = FALSE,
                                                      !.domains = <<"messaging", "events">>],
         [Library(Default, {"m"}) EXCEPT !.force = TRUE, !.verify = TRUE]),
    Together(Silent(Uprise(Sales, "r")), Uprise(T, "r")),
    Together(Uprise(Sales, "o"), [Silent(Library(Sales, {"o"})) EXCEPT !.seeds = {"o"}]),
    Then(Uprise(T, "r"), Silent(Uprise(Sales, "r"))),
    Then([Library(Sales, {"e"}) EXCEPT !.secrets = FALSE], Library(Sales, {"e"})) }

-----------------------------------------------------------------------------
(* The provider catalogue *)

SomeSlugs == "stable" :> "s" @@ "beta" :> "b" @@ LocalRef :> "l"
SomeCatalogs == "stable" :> {1, 2} @@ "beta" :> {2}
Look(mode, ref) == [mode |-> mode, ref |-> ref, offline |-> FALSE, refresh |-> FALSE, given |-> FALSE, there |-> TRUE, named |-> TRUE]
Refreshing(a) == [a EXCEPT !.refresh = TRUE]
Offline(a) == [a EXCEPT !.offline = TRUE]
Missing(a) == [a EXCEPT !.there = FALSE]
SomeArgs ==
    {Look("create", "stable"), Look("update", "stable"), Look("remove", "beta"), Look("update", LocalRef), Missing(Look("update", LocalRef)),
     Refreshing(Look("update", "stable")), Offline(Look("update", "stable")), Offline(Refreshing(Look("update", "beta"))),
     [Refreshing(Look("create", "beta")) EXCEPT !.named = FALSE],
     [Look("update", "stable") EXCEPT !.given = TRUE], [Missing(Look("update", "stable")) EXCEPT !.given = TRUE]}
NoCommand == Look("create", LocalRef)

CacheIdle == CacheInit(NoCommand) /\ registry["stable"] = 1

-----------------------------------------------------------------------------
(* The demo *)

CardOf(inputs, actions) == [kind |-> "adaptive", inputs |-> inputs, actions |-> actions]
Hero == [kind |-> "hero"]

(* A card, a card next to something else, something else that hides a card, and nothing. *)
SomeOutputs == {
    <<CardOf({"name"}, {"ok"}), NoCard, NoCard, NoCard, NoCard>>,
    <<NoCard, NoCard, NoCard, CardOf({"url"}, {"submit"}), Hero>>,
    <<NoCard, Hero, CardOf({"url"}, {"ok"}), NoCard, NoCard>>,
    <<NoCard, NoCard, NoCard, NoCard, NoCard>> }

SomeSessions ==
    [op : {"run", "setup-wizard"}, resolves : {TRUE}, form : {<<>>, <<"url", "name">>}]
      \union {[op |-> "run", resolves |-> FALSE, form |-> <<>>]}

NoDemo == ReplInit({CHOOSE s \in Sessions : ~s.resolves})

-----------------------------------------------------------------------------
Init ==
    \/ /\ part = "onboarding" /\ OnboardStart(Casts)
       /\ NoWizard /\ SetUpInit(CHOOSE c \in JobCasts : TRUE) /\ CacheIdle /\ NoDemo
    \/ /\ part = "wizard" /\ OnboardStart({NoRequests}) /\ gmap[T] = Plain /\ WizardInit
       /\ SetUpInit(CHOOSE c \in JobCasts : TRUE) /\ CacheIdle /\ NoDemo
    \/ /\ part = "setup" /\ OnboardStart({NoRequests}) /\ gmap[T] = Plain /\ NoWizard
       /\ CacheIdle /\ NoDemo /\ \E c \in JobCasts : SetUpInit(c)
    \/ /\ part = "catalog" /\ OnboardStart({NoRequests}) /\ gmap[T] = Plain /\ NoWizard
       /\ SetUpInit(CHOOSE c \in JobCasts : TRUE) /\ CacheInit(NoCommand) /\ NoDemo
    \/ /\ part = "demo" /\ OnboardStart({NoRequests}) /\ gmap[T] = Plain /\ NoWizard
       /\ SetUpInit(CHOOSE c \in JobCasts : TRUE) /\ CacheIdle /\ ReplInit(Sessions)

Next ==
    \/ part = "onboarding" /\ Onboard /\ UNCHANGED <<part, wizardVars, setupVars, cacheVars, replVars>>
    \/ part = "wizard" /\ WizardNext /\ UNCHANGED <<part, fileVars, onboardVars, setupVars, cacheVars, replVars>>
    \/ part = "setup" /\ SetUp /\ UNCHANGED <<part, fileVars, onboardVars, wizardVars, cacheVars, replVars>>
    \/ part = "catalog" /\ CacheNext /\ UNCHANGED <<part, fileVars, onboardVars, wizardVars, setupVars, replVars>>
    \/ part = "demo" /\ ReplNext /\ UNCHANGED <<part, fileVars, onboardVars, wizardVars, setupVars, cacheVars>>

Spec == Init /\ [][Next]_vars
=============================================================================
