---------------------------- MODULE ProviderSetup ----------------------------
(***************************************************************************)
(* How providers are set up outside of the onboarding API: `demo setup` and *)
(* the end of `wizard --run-setup` plan the packs of each domain and run    *)
(* the plan with one or several threads (src/cli.rs), the library does it   *)
(* from a configuration (src/providers.rs), and the upgrade of telemetry or *)
(* of the state store seeds the secrets of its pack                         *)
(* (src/capability_bootstrap.rs).  With the secrets they write and read:    *)
(* src/secrets_setup.rs, src/secrets_manager.rs and src/secrets_gate.rs.    *)
(*                                                                          *)
(* A pack is known by its copies: a bundle may have one in packs/ and one   *)
(* in the directory of a domain.  Commands run one after another or at the  *)
(* same time; a call may fail and a thread may panic.  A secret that is     *)
(* given is named by the command that gave it.                              *)
(***************************************************************************)
EXTENDS Project

CONSTANTS Jobs,        \* the commands
          Copies,      \* the copies of packs in the bundle
          Keepers,     \* the secrets manager packs there may be
          MaxThreads,  \* how many threads a command may have
          MaxMishaps   \* how many calls may fail and threads panic

ASSUME SetUpAssumption == IsFiniteSet(Copies) /\ None \notin Jobs /\ MaxThreads \in Nat \ {0}

NoJob == "nobody"
Placeholder == "placeholder"
Seeded == "seed"
Broken == "broken"

VARIABLES job,       \* job[j]: what the command is told
          phase,     \* phase[j]: how far it is
          ahead,     \* ahead[j]: the domains it has left
          queue,     \* queue[j]: the items of the plan that are left
          failed,    \* failed[j]: the items that ended with an error
          done,      \* history: done[j], the items that ended well
          planned,   \* history: planned[j], the items of its plans
          thread,    \* thread[w]: the step of a thread
          item,      \* item[w]: the copy it sets up
          lack,      \* lack[w]: whether it found the secret missing
          vault,     \* vault[k]: the secret of a scope and provider
          given,     \* history: given[k], the last value given for it
          raced,     \* history: secrets written between another's look and its write, or in part
          record,    \* record[k]: <provider>.setup.json
          config,    \* config[k]: who wrote the config envelope, for which contract
          checked,   \* the providers with a <provider>.verify.json
          status,    \* the providers with a <provider>.status.json
          result,    \* result[j]: what an upgrade led to
          mishaps

setupVars == <<job, phase, ahead, queue, failed, done, planned, thread, item, lack, vault, given, raced,
               record, config, checked, status, result, mishaps>>
secretVars == <<vault, given, raced>>
diskVars == <<record, config, checked, status>>
planVars == <<job, phase, ahead, queue, failed, done, planned, result>>

Threads == Jobs \X (1..MaxThreads)
JobOf(w) == job[w[1]]

DomainOps == {"setup", "wizard"}
Plans(j) == job[j].op \in DomainOps

Ended(j) == phase[j] \in {"ok", "error", "died"}

Mishap == mishaps < MaxMishaps /\ mishaps' = mishaps + 1
Smooth == UNCHANGED mishaps

-----------------------------------------------------------------------------
(* Secrets *)

(* select_secrets_manager: an override that is named must be there, then the pack of the
   team, of the tenant, of the bundle.  The team `default` is looked for as `_`. *)
Override == <<"override">>

KeepersAt(place) == {k \in Keepers : k.at = place}

select_secrets_manager(b) ==
    LET places == IF b.override THEN <<Override>> ELSE <<canonical_team(b.scope), Tenant(b.scope), <<>>>>
        found  == SelectSeq(places, LAMBDA p : KeepersAt(p) # {})
    IN IF found = <<>> THEN {} ELSE KeepersAt(Head(found))

(* Without a pack it is the dev store.  A backend that cannot be opened is replaced by
   the environment where that is allowed. *)
ManagerOk(b) ==
    /\ b.override => select_secrets_manager(b) # {}
    /\ b.allowEnv \/ \A k \in select_secrets_manager(b) : k.opens

(* canonical_secret_uri *)
KeyOf(s, provider) == <<canonical_team(s), provider>>

(* LoggingSecretsManager::read: what a component is given.  A team that has no value of
   its own is given the tenant's. *)
team_wildcard_fallback(k) == <<Tenant(k[1]), k[2]>>

SecretRead(k) == IF vault[k] # None THEN vault[k] ELSE vault[team_wildcard_fallback(k)]

(* Mutant: secrets are seeded without a look at the store. *)
Bug_SecretMissing(k) == TRUE

(* ensure_pack_secrets asks for the secret of the scope itself. *)
SecretMissing(k) == vault[k] = None

SeedFor(b, provider) == IF provider \in b.seeds THEN Seeded ELSE Placeholder

-----------------------------------------------------------------------------
(* Planning *)

(* The packs of a domain: those in its directory and all of packs/.  A pack of which
   there are two copies is found twice. *)
discover_provider_packs(domain) == {c \in Copies : c.dir \in {domain, "packs"}}

(* What detection has found, and what the manifest of the scope lists. *)
Selected(b, domain) == {c \in discover_provider_packs(domain) : c.file \in b.found \intersect b.listed}

MissingSetup(b, packs) == IF b.allowMissing THEN {} ELSE {c \in packs : ~c.flow}

PlanFails(b, domain) == MissingSetup(b, Selected(b, domain)) # {} /\ ~b.best

filter_packs_by_allowed(b, packs) == {c \in packs : c.provider \in b.allowed}

(* Packs are planned in the order of their file names, or of the configuration. *)
InOrder(packs) == [i \in 1..Cardinality(packs) |-> CHOOSE c \in packs : Cardinality({d \in packs : d.order < c.order}) = i - 1]

(* plan_runs: what has the flow, is allowed and matches the filter. *)
plan_runs(b, domain) ==
    InOrder({c \in filter_packs_by_allowed(b, Selected(b, domain)) : c.flow})

(* resolve_providers and resolve_pack_path: those of the configuration, in its order. *)
resolve_providers(b) ==
    InOrder({c \in Copies : c.dir = "packs" /\ c.provider \in b.allowed})

StartJob(j) ==
    /\ phase[j] = "idle" /\ \A i \in job[j].after : Ended(i)
    /\ phase' = [phase EXCEPT ![j] = IF ManagerOk(job[j]) \/ ~(job[j].op = "setup") THEN "plan" ELSE "error"]
    /\ ahead' = [ahead EXCEPT ![j] = job[j].domains]
    /\ UNCHANGED <<job, queue, failed, done, planned, result, thread, item, lack, secretVars, diskVars, mishaps>>

(* run_domain_command, for one domain after the other. *)
PlanDomain(j) ==
    LET plan == IF Plans(j) THEN plan_runs(job[j], Head(ahead[j])) ELSE resolve_providers(job[j])
    IN /\ phase[j] = "plan" /\ ahead[j] # <<>>
       /\ ahead' = [ahead EXCEPT ![j] = Tail(@)]
       /\ \/ /\ ~(Plans(j) /\ PlanFails(job[j], Head(ahead[j])))
             /\ queue' = [queue EXCEPT ![j] = plan] /\ planned' = [planned EXCEPT ![j] = @ \o plan]
             /\ phase' = [phase EXCEPT ![j] = IF job[j].dry THEN "plan" ELSE "run"]
          \/ /\ Plans(j) /\ PlanFails(job[j], Head(ahead[j]))
             /\ phase' = [phase EXCEPT ![j] = "error"] /\ UNCHANGED <<queue, planned>>
       /\ UNCHANGED <<job, failed, done, result, thread, item, lack, secretVars, diskVars, mishaps>>

EndJob(j) ==
    /\ phase[j] = "plan" /\ ahead[j] = <<>>
    /\ phase' = [phase EXCEPT ![j] = "ok"]
    /\ UNCHANGED <<job, ahead, queue, failed, done, planned, result, thread, item, lack, secretVars, diskVars, mishaps>>

-----------------------------------------------------------------------------
(* run_plan *)

Parallel(j) == job[j].threads > 1

(* One thread takes the items in order; several pop them from the end. *)
NextItem(j) == IF Parallel(j) THEN Last(queue[j]) ELSE Head(queue[j])

Rest(j) == IF Parallel(j) THEN Front(queue[j]) ELSE Tail(queue[j])

FirstStep(j) == IF Plans(j) THEN "answers" ELSE IF job[j].secrets THEN "look" ELSE "known"

TakeItem(w) ==
    LET j == w[1]
    IN /\ phase[j] = "run" /\ thread[w] = "free" /\ w[2] <= job[j].threads /\ queue[j] # <<>>
       /\ item' = [item EXCEPT ![w] = NextItem(j)]
       /\ queue' = [queue EXCEPT ![j] = Rest(j)]
       /\ thread' = [thread EXCEPT ![w] = FirstStep(j)]
       /\ UNCHANGED <<job, phase, ahead, failed, done, planned, result, lack, secretVars, diskVars, mishaps>>

(* Mutant: the threads are not waited for. *)
Bug_Joined(j) == queue[j] = <<>>

(* A thread that panicked is joined like any other. *)
Joined(j) ==
    \A w \in Threads : w[1] = j /\ w[2] <= job[j].threads =>
        thread[w] = "panicked" \/ (thread[w] = "free" /\ queue[j] = <<>>)

Join(j) ==
    /\ phase[j] = "run" /\ Joined(j)
    /\ phase' = [phase EXCEPT ![j] = IF failed[j] # {} /\ ~job[j].best THEN "error" ELSE "plan"]
    /\ UNCHANGED <<job, ahead, queue, failed, done, planned, result, thread, item, lack, secretVars, diskVars, mishaps>>

Goto(w, step) == thread' = [thread EXCEPT ![w] = step]

ItemEnds(w) ==
    /\ Goto(w, "free") /\ done' = [done EXCEPT ![w[1]] = @ \union {item[w]}]
    /\ UNCHANGED <<job, phase, ahead, queue, failed, planned, result>>

(* Alone, the first error ends the command, unless it is to do what it can. *)
ItemFails(w) ==
    LET j == w[1]
    IN /\ Goto(w, "free") /\ failed' = [failed EXCEPT ![j] = @ \union {item[w]}]
       /\ phase' = (IF Parallel(j) \/ job[j].best THEN phase ELSE [phase EXCEPT ![j] = "error"])
       /\ UNCHANGED <<job, ahead, queue, done, planned, result>>

GoesOn(w, step) == Goto(w, step) /\ UNCHANGED planVars

(* A panic takes a thread, or the command if it has no other. *)
Panic(w) ==
    LET j == w[1]
    IN /\ Mishap /\ thread[w] = "persist"
       /\ Goto(w, "panicked")
       /\ phase' = (IF Parallel(j) THEN phase ELSE [phase EXCEPT ![j] = "died"])
       /\ UNCHANGED <<job, ahead, queue, failed, done, planned, result, item, lack, secretVars, diskVars>>

-----------------------------------------------------------------------------
(* The steps of an item, run_plan_item and the loop of run_provider_setup *)

Secret(w) == KeyOf(JobOf(w).scope, item[w].provider)

(* Domain commands keep files by tenant, the library by tenant and team. *)
Place(w) == <<IF Plans(w[1]) THEN Tenant(JobOf(w).scope) ELSE JobOf(w).scope, item[w].provider>>

(* ensure_pack_secrets; an upgrade goes on without. *)
SeedFails(w) == IF JobOf(w).op = "upgrade" THEN GoesOn(w, "persist") ELSE ItemFails(w)

LookForSecret(w) ==
    /\ thread[w] = "look"
    /\ \/ lack' = [lack EXCEPT ![w] = SecretMissing(Secret(w))] /\ GoesOn(w, "seed") /\ Smooth
       \/ Mishap /\ SeedFails(w) /\ UNCHANGED lack
    /\ UNCHANGED <<item, secretVars, diskVars>>

AfterSeed(w) == IF JobOf(w).op = "upgrade" THEN "persist" ELSE "known"

SeedSecret(w) ==
    /\ thread[w] = "seed"
    /\ \/ /\ lack[w]
          /\ vault' = [vault EXCEPT ![Secret(w)] = SeedFor(JobOf(w), item[w].provider)]
          /\ raced' = (IF ~SecretMissing(Secret(w)) THEN raced \union {Secret(w)} ELSE raced)
          /\ GoesOn(w, AfterSeed(w)) /\ Smooth
       \/ ~lack[w] /\ GoesOn(w, AfterSeed(w)) /\ Smooth /\ UNCHANGED <<vault, raced>>
       \/ lack[w] /\ Mishap /\ SeedFails(w) /\ UNCHANGED <<vault, raced>>
    /\ UNCHANGED <<given, item, lack, diskVars>>

(* run_provider_setup: a record, of whatever outcome, stands for a set-up. *)
SkipKnown(w) ==
    /\ thread[w] = "known"
    /\ IF record[Place(w)] # None /\ ~JobOf(w).force THEN ItemEnds(w) ELSE GoesOn(w, "answers")
    /\ UNCHANGED <<item, lack, secretVars, diskVars, mishaps>>

HasAnswers(w) == item[w].provider \in JobOf(w).answers \/ ~item[w].asks

(* ensure_contract_compatible *)
ContractOk(w) ==
    LET c == config[Place(w)] IN c.by = NoJob \/ c.contract = item[w].contract \/ JobOf(w).allowChange

AfterAnswers(w) ==
    IF Plans(w[1]) THEN (IF item[w].qa /\ item[w].asks THEN "qaconfig" ELSE "persist")
    ELSE IF item[w].qa THEN "record" ELSE "flow"

(* Answers, contract and the pack's own component, which may refuse. *)
AnswerItem(w) ==
    /\ thread[w] = "answers"
    /\ \/ HasAnswers(w) /\ ContractOk(w) /\ GoesOn(w, AfterAnswers(w)) /\ Smooth
       \/ ~(HasAnswers(w) /\ ContractOk(w)) /\ ItemFails(w) /\ Smooth
       \/ HasAnswers(w) /\ ContractOk(w) /\ Mishap /\ ItemFails(w)
    /\ UNCHANGED <<item, lack, secretVars, diskVars>>

Envelope(w) == [by |-> w[1], contract |-> item[w].contract]

(* persist_qa_config and write_provider_config_envelope: a failure is only logged. *)
WriteConfig(w) ==
    \/ config' = [config EXCEPT ![Place(w)] = Envelope(w)] /\ Smooth
    \/ Mishap /\ UNCHANGED config

PersistQaConfig(w) ==
    /\ thread[w] = "qaconfig" /\ WriteConfig(w) /\ GoesOn(w, "persist")
    /\ UNCHANGED <<item, lack, secretVars, record, checked, status>>

(* persist_all_config_as_secrets: all that was answered; a failure is only logged. *)
Gives(w) == item[w].provider \in JobOf(w).answers

AfterPersist(w) == CASE JobOf(w).op = "upgrade" -> "upgrade" [] item[w].qa -> "record" [] OTHER -> "flow"

PersistSecrets(w) ==
    /\ thread[w] = "persist" /\ GoesOn(w, AfterPersist(w))
    /\ \/ /\ Gives(w) /\ vault' = [vault EXCEPT ![Secret(w)] = w[1]] /\ given' = [given EXCEPT ![Secret(w)] = w[1]]
          /\ raced' = raced \ {Secret(w)} /\ Smooth
       \/ ~Gives(w) /\ Smooth /\ UNCHANGED secretVars
       \/ /\ Gives(w) /\ Mishap /\ vault' \in {vault, [vault EXCEPT ![Secret(w)] = Broken]}
          /\ raced' = raced \union {Secret(w)} /\ UNCHANGED given
    /\ UNCHANGED <<item, lack, diskVars>>

(* The flow of the pack runs; its exit code is recorded, and is not an error. *)
RunFlow(w) ==
    /\ thread[w] = "flow"
    /\ \/ \E s \in {"record", "recordfailure"} : GoesOn(w, s) /\ Smooth
       \/ Mishap /\ ItemFails(w)
    /\ UNCHANGED <<item, lack, secretVars, diskVars>>

WriteRecord(w) ==
    /\ thread[w] \in {"record", "recordfailure"}
    /\ \/ /\ record' = [record EXCEPT ![Place(w)] = IF thread[w] = "record" THEN "success" ELSE "failure"]
          /\ GoesOn(w, "envelope") /\ Smooth
       \/ Mishap /\ ItemFails(w) /\ record' \in {record, [record EXCEPT ![Place(w)] = Broken]}
    /\ UNCHANGED <<item, lack, secretVars, config, checked, status>>

WriteEnvelope(w) ==
    /\ thread[w] = "envelope" /\ WriteConfig(w)
    /\ IF Plans(w[1]) THEN ItemEnds(w) ELSE GoesOn(w, "verify")
    /\ UNCHANGED <<item, lack, secretVars, record, checked, status>>

(* Only the library goes on: the verify flow, webhooks and the status. *)
VerifyWebhooks(w) ==
    LET due == JobOf(w).verify /\ (Place(w) \notin checked \/ JobOf(w).force)
    IN /\ thread[w] = "verify"
       /\ \/ checked' = (IF due THEN checked \union {Place(w)} ELSE checked) /\ GoesOn(w, "status") /\ Smooth
          \/ due /\ Mishap /\ ItemFails(w) /\ UNCHANGED checked
       /\ UNCHANGED <<item, lack, secretVars, record, config, status>>

WriteStatus(w) ==
    /\ thread[w] = "status"
    /\ \/ status' = status \union {Place(w)} /\ ItemEnds(w) /\ Smooth
       \/ Mishap /\ ItemFails(w) /\ UNCHANGED status
    /\ UNCHANGED <<item, lack, secretVars, record, config, checked>>

-----------------------------------------------------------------------------
(* try_upgrade_telemetry and try_upgrade_state_store *)

(* The state store is Redis if the secret of the scope itself is an address, or if there
   is no secret and the environment has one. *)
create_redis_store(secret) == IF secret \in Jobs \union {Seeded} THEN "redis" ELSE "memory"

StoreFor(b, secret) == IF secret = None THEN b.env ELSE create_redis_store(secret)

(* The component of the telemetry pack reads its secrets, and may fail. *)
Upgrade(w) ==
    LET j == w[1]
    IN /\ thread[w] = "upgrade"
       /\ \/ /\ item[w].upgrade = "state" /\ result' = [result EXCEPT ![j] = StoreFor(job[j], vault[Secret(w)])]
          \/ /\ item[w].upgrade = "telemetry" /\ \E r \in {"upgraded", "kept"} : result' = [result EXCEPT ![j] = r]
       /\ Goto(w, "free") /\ done' = [done EXCEPT ![j] = @ \union {item[w]}]
       /\ UNCHANGED <<job, phase, ahead, queue, failed, planned, item, lack, secretVars, diskVars, mishaps>>

-----------------------------------------------------------------------------
ItemStep(w) ==
    \/ LookForSecret(w) \/ SeedSecret(w) \/ SkipKnown(w) \/ AnswerItem(w) \/ PersistQaConfig(w) \/ PersistSecrets(w)
    \/ RunFlow(w) \/ WriteRecord(w) \/ WriteEnvelope(w) \/ VerifyWebhooks(w) \/ WriteStatus(w) \/ Upgrade(w) \/ Panic(w)

SetUp ==
    \/ \E j \in Jobs : StartJob(j) \/ PlanDomain(j) \/ EndJob(j) \/ Join(j)
    \/ \E w \in Threads : TakeItem(w) \/ (phase[w[1]] = "run" /\ ItemStep(w))

SetUpKeys == {s : s \in UNION {{job[j].scope, Tenant(job[j].scope), canonical_team(job[j].scope)} : j \in Jobs}}
               \X {c.provider : c \in Copies}

SetUpInit(commands) ==
    /\ job = commands
    /\ phase = [j \in Jobs |-> "idle"] /\ ahead = [j \in Jobs |-> <<>>] /\ queue = [j \in Jobs |-> <<>>]
    /\ failed = [j \in Jobs |-> {}] /\ done = [j \in Jobs |-> {}] /\ planned = [j \in Jobs |-> <<>>]
    /\ thread = [w \in Threads |-> "free"] /\ item = [w \in Threads |-> CHOOSE c \in Copies : TRUE]
    /\ lack = [w \in Threads |-> FALSE]
    /\ vault = [k \in SetUpKeys |-> None] /\ given = [k \in SetUpKeys |-> NoJob] /\ raced = {}
    /\ record = [k \in SetUpKeys |-> None] /\ config = [k \in SetUpKeys |-> [by |-> NoJob, contract |-> 0]]
    /\ checked = {} /\ status = {} /\ result = [j \in Jobs |-> None] /\ mishaps = 0

(* Any commands; run_plan takes `--parallel 0` for one thread. *)
SetUpSpec == SetUpInit(job) /\ (\A j \in Jobs : job[j].threads \in 1..MaxThreads) /\ [][SetUp]_setupVars

-----------------------------------------------------------------------------
(***************************************************************************)
(* No item of a plan is forgotten: when a command is over, with one thread  *)
(* or several, each item was set up, or failed, and then the command does   *)
(* not say that all is well unless it was only to do what it can.  It may   *)
(* be otherwise if a thread panicked, because nobody asks how it ended.     *)
(***************************************************************************)
ItemsAccounted ==
    \A j \in Jobs :
        LET calm == \A w \in Threads : w[1] = j => thread[w] # "panicked"
        IN calm /\ ~job[j].dry /\ phase[j] \in {"plan", "ok"} =>
             /\ \A i \in DOMAIN planned[j] : planned[j][i] \in done[j] \union failed[j]
             /\ ~job[j].best => failed[j] = {}

(***************************************************************************)
(* A secret that was given for a scope is what a component of that scope    *)
(* reads, whatever commands seed placeholders before, after or meanwhile:   *)
(* unless it was given between the look at the store and the write of such  *)
(* a command, or could only be stored in part.                              *)
(***************************************************************************)
GivenSecretsRead == \A k \in DOMAIN given \ raced : given[k] # NoJob => SecretRead(k) = given[k]
=============================================================================
