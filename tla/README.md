# A TLA+ model of greentic-operator

This directory holds TLA+ modules that model the core of greentic-operator, TLC
configurations that check them on small instances, and TLAPS proofs of all their
safety properties, for every value of the constants. `PROJECT.json` gives, under `map`, the
source lines every definition stands for; under `hazards`, the places in the
code that tests hardly reach and the properties that watch them; under
`mutants`, for every property, a plausible bug that breaks it.

## 1. The system

greentic-operator is a Rust program that runs *packs* (bundles of WASM
components and flows) for tenants and teams. It is used through a command line
(`demo ...`), which sets a bundle up, starts an HTTP server and a timer thread,
keeps a tunnel to the outside, and manages what the packs need around them. A
command is a process of its own; the processes share the files of the bundle,
mostly without locks. Within the server, each request has its task, each batch
of messages its thread, and all share one `DemoRunnerHost`.

### Inventory

Paths are relative to the crate's `src/`.

| component | state | operations | what is hard | what makes it correct |
| --- | --- | --- | --- | --- |
| capability registry (`capabilities.rs`) | offers in order of priority; install record files | resolve, hook chain, mark ready / failed | records are written without lock or rename, while calls read them | the first offer in order that fits; a torn record is not "ready" |
| operation pipeline (`demo/runner_host.rs`, `cards.rs`) | one envelope per call | `invoke_provider_op`, `invoke_capability` | hooks that rewrite, deny or fail; a validator that is missing or broken; nested calls | denied calls do not run; tokens fail closed; one run, for the caller |
| capability events (`capability_events.rs`) | three JSONL logs per scope | publish, replay an event or a dead letter | unlocked appends in two writes, death between them, retries, replays of replays | a report accounts for every subscription; dead letters can be looked up and replayed to the right subscription |
| universal subscriptions (`subscriptions_universal/`) | a state file per binding | ensure, renew all due, renew one, delete | commands that read, call the provider and then write | delegated users are kept; a pass is complete; deletion only after acceptance |
| supervision and tunnels (`supervisor.rs`, `cloudflared.rs`, `ngrok.rs`) | pid, log and URL files; processes | start, restart, stop | check then act, pids that are reused, zombies, death between spawn and write | no tunnel escapes; a restart replaces; the URL is the tunnel's |
| messaging ingress (`demo/http_ingress.rs`) | pending forms and tokens | receive, route, reply | threads that share one map of forms | a form is answered once; tokens stay with their tenant |
| egress (`messaging_universal/`) | a job list, `dlq.log` | flow, render, encode, send | retries, widths, aborts | sent or dead-lettered; bounded, spaced retries |
| post-ingress hooks (`hooks/`, `offers/`, `ingress/`) | the cached registry of offers | load, ask, apply a directive | first requests racing, hooks that fail open | the first directive wins and ends the default routing |
| HTTP server and mounts (`demo/http_ingress.rs`, `static_routes.rs`, `deployments/api.rs`) | route table | start, stop, answer | mounts against endpoints and webhooks | the operator's space stays its own; the most specific mount answers |
| events timer (`demo/timer_scheduler.rs`) | due times | run what is due, stop | slow handlers, zero intervals | no bursts, fair turns, it stops |
| services (`services/`) | pid files, log files | start, stop, status | as tunnels, but a stop sends one signal and does not wait | what runs with the same command is left alone, another is replaced |
| onboarding and persistence (`onboard/`, `qa_persist.rs`, `provider_config_envelope.rs`) | dev store, config envelopes, input for the deployer, the webhooks the providers' services know | submit answers (set-up, upgrade, remove), create a tenant or team | a set-up that fails or dies half way, two at a time, answers of a web API that are lost | opened only when all is stored; no torn envelope; one webhook of a name |
| access maps (`gmap/`, `project/`) | rule files, resolved manifests | upsert, evaluate, sync | read, change and write back without a lock; files with comments; precedence | an edit stands and changes nothing else; the most specific rule decides |
| provider set-up and secrets (`cli.rs` run_domain_command, `providers.rs`, `secrets_*.rs`, `capability_bootstrap.rs`) | records, config envelopes, the secrets of a scope | plan and run the items of a domain with several threads, seed what is missing, upgrade telemetry or state store | threads that pop from one list, panics, look then write | every item is accounted for; a secret that was given is the one that is read |
| wizard (`wizard.rs`, `cli.rs` DemoWizardArgs) | `packs.json`, `providers.json`, packs, access maps, manifests | plan, execute create / update / remove | a step of many fails; the plan names packs before they have ids | a run can be repeated; grants are for the pack that was meant |
| provider registry cache (`provider_registry.rs`) | index, files by reference and by digest | resolve, fetch, keep | a write that is cut short, a registry that changes | what was fetched is what is used |
| demo REPL (`demo/repl.rs`, `qa_setup_wizard.rs`) | the blocked flow, the current card, what is typed, a stack of snapshots | type, click, back, set-up | two notions of "where we are": the runner's and the screen's | a point is answered once, with what was typed for it |

### How they interact

* `HttpServer` → provider component (through the pipeline) → `PostIngress`
  hooks → `MessagingIngress` threads or the event router. The command line uses
  the same hooks and then `Egress`.
* Everything that runs a component (webhooks, hooks, messages, timers, events,
  subscriptions) is a call of the *operation pipeline*; the modules of those
  parts see only its outcome.
* `demo capability ...` commands rewrite the install records the pipeline
  reads. The tunnel's URL file is read by onboarding.
* Onboarding, the policy commands and the wizard write the same access maps;
  onboarding, `demo setup`, the wizard's `--run-setup` and the capability
  upgrades write the same secrets and config envelopes.

## 2. Modules

| module | models | composed with |
| --- | --- | --- |
| `Capabilities` | registry order, resolution, hook chains (a constant: the registry is built once) | extended by `OpPipeline` |
| `OpPipeline` | every call through admission, token, pre-hooks, target (with the nested card call) and post-hooks; mark commands that write records in two steps and may die | implements `GuardedCall` |
| `GuardedCall` | abstract: guards first, at most one run, answers only of what happened | – |
| `CapEvents` | publish and replay processes over three logs of lines | – |
| `Subscriptions` | commands over the state files, an external provider | – |
| `Tunnel` | operators, the processes of cloudflared, ngrok and of services, pids, the pid, log and URL files, ngrok's local API | – |
| `MessagingIngress` | POSTs and their threads, pending forms, tokens | – |
| `Egress` | one end-to-end run: flows, jobs, retries, dead letters | – |
| `PostIngress` | offers of packs, the cached registry, the hooks of a request | extended by `HttpServer` |
| `HttpServer` | start with discovery and validation of mounts, choice of who answers, files, way to the provider | extends `PostIngress` |
| `TimerScheduler` | discovery of handlers, the loop, stop | – |
| `Gmap` | rules of an access map: upsert in files with and without comments, evaluation | extended by `Project` |
| `Project` | scopes, the manifests made from them, the team `default` | extended by `BundleFiles`, `Wizard`, `ProviderSetup` |
| `BundleFiles` | the files requests and commands share | extended by `Onboarding` |
| `Onboarding` | submissions, creation of scopes, policy commands, one file or web operation at a time | in `MCBundleSetup` |
| `Wizard` | request, plan and execution of the bundle wizard | in `MCBundleSetup` |
| `ProviderSetup` | planning and running of set-ups with threads, the library's set-up, capability upgrades, secrets | in `MCBundleSetup` |
| `RegistryCache` | the wizard's look for its catalogue | in `MCBundleSetup` |
| `DemoRepl` | the interactive sessions `demo run` and `demo setup-wizard` | in `MCBundleSetup` |

The theorems are in modules of their own (section 5):

| module | theorems about |
| --- | --- |
| `OpPipelineProofs` | `OpPipeline`, and that it implements `GuardedCall` |
| `CapEventsProofs` | `CapEvents` |
| `SubscriptionsProofs` | `Subscriptions`, and `RegistryCache`: what commands keep for later ones |
| `MessagingIngressProofs` | `MessagingIngress` |
| `CommandProofs` | `Egress`, `Tunnel` and `Wizard` |
| `ServerProofs` | `TimerScheduler`, `PostIngress`, `HttpServer`, and `DemoRepl` |
| `BundleSetupProofs` | `Onboarding` (with `Gmap`, `Project`, `BundleFiles`), `ProviderSetup` |
| `SequenceLemmas` | lemmas that several of them use: naturals, sequences and sorting, and the operators of `Gmap` |

`MC*` modules give the constants their values for TLC. Most modules have a
constant `Casts` (or `Commands`): each *cast* is a small scenario (who may do
what, over which bundle) and the initial state picks one, so that one run covers
several scenarios that would be too large together. Operators named `Bug_...`
are the mutants: they are used by no specification.

### State and actions against the code

* **Pipeline.** A *frame* is one activation of the pipeline: `<<i, "root">>` for
  the call, `<<i, "card">>` for the nested call of an OAuth card. `pc` is the place
  in `invoke_provider_op` / `invoke_capability`; `env` the `OperationEnvelope`
  reduced to op name, status and tenant; `todo` the rest of a hook chain; `subs`
  what was published to subscribers. Each call into a component is one step, and
  its answer a nondeterministic choice, malformed and failing ones included.
  Install records are files that `Mark*` truncate, write or leave torn. `TokenOps`
  are the operation names that begin like the validator's: `NamedLikeValidator` is the
  prefix test of the code, which lets more through than the validator's own calls.
  `runs`, `denySeen`, `validated` and `everReady` are history variables.
* **Events.** A log is a sequence of lines and a line what has been written to it;
  `append_jsonl` is two steps (record, newline), so two records may share a line
  and a process may leave part of one. `read_jsonl` then refuses the file. Records
  and replays name a subscription by its `id`, which two packs may have in common.
* **Subscriptions.** One step per file operation and one per provider call.
  `BecomeDue` lets time pass. Subscription ids are numbers the provider hands
  out; answers may lack id or expiration.
* **Tunnel.** `spawn_service` and `stop_pidfile` one system call at a time; a child
  of a live operator stays a zombie when it dies; pids are reused. The waits with
  a deadline (for a child to end, for a URL to appear) end with either outcome.
* **Messaging ingress.** A thread takes its messages in turn; taking and storing a
  form are one step each (they hold the mutex), everything else is outside it.
* **Egress.** Counts and delays are computed at small widths (`U32Max`, `W64`) with
  the saturation of the code.
* **Post-ingress.** The `events` array of the provider's result and the decoded
  messages are two variables, as they are two fields in the code; directives
  change the first. Reading the packs and filling the `OnceLock` are two steps.
* **HTTP server.** A path is a sequence of segments. Reading, normalisation,
  reservation, overlap and order of mounts follow `static_routes.rs`; the order of
  checks follows `handle_request_inner`. A client is local, remote, behind the
  tunnel, or a foreign page in a local browser.
* **Services and ngrok.** Services have a pid file as the tunnel has, but code of
  their own: what runs is compared with the command that is asked for, and a stop
  sends one signal without waiting; ngrok's URL comes from its local API, which any
  running ngrok answers, or from the log.
* **Onboarding.** `submit_answers` step by step: secrets, backup, temporary file,
  rename, input for the deployer, rules, manifests, webhooks. A file name stands
  for a *node* (an inode), so that two writers of one temporary file mix their
  bytes and a rename moves what both wrote. Any call may fail and the process may
  die between any two.
* **Access maps.** A rule file is its rules in order and whether it has comments. An
  edit reads, truncates and fills in three steps.
* **Wizard.** The plan is computed as in the code, before any step is done. A reference
  that looks like an id (without a scheme, a slash and a dot) is taken for one
  (`BareName`), whatever id the pack gets; any other is looked up in `packs.json`, or
  an id is derived from it. A step
  fails before it did anything, or half way. What half a step leaves is repaired when
  it is repeated (`Halfway`: a scaffold without its files, a torn copy of a pack, a
  directory without its default, ...) or is not (`Damaged`, which sets `lost`: a file
  that is read and written back, or kept if it is there). Retrying is running the
  command again with the same answers on what is there. Numbers with the same tens are
  a *family* of pack names, `name`, `name-2`, ...; `IdsSuffice` says of the constants
  that a family does not run out, as it does not in the code.
* **Provider set-up.** A thread takes an item and does its steps one by one:
  answers, contract, config, secrets, flow, record. Secrets are a function from
  scope and provider to who gave the value.
* **Registry cache.** Each write of the fetch is a step, which may fail (`CacheFails`) or
  be the last of the process (`CutShort`), and then leaves nothing, a directory or a
  truncated file (`Remains`). After a failure a refresh goes on with the cached copy
  of the reference or of the digest the index had, and any other command fails. A
  wizard command looks twice, for its questions and for its plan, and then copies
  what it read; that copy may fail too, which the code ignores (`KeepFails`).
* **REPL.** `blocks` is the runner's snapshot and `card`, `typed`, `history`, `shown` are
  the fields of `DemoRepl`; what is typed is known by the blocked point at which
  it was typed.
* **Timer.** `left[h]` is the time until handler `h` is due; a run takes any of
  `Durations`. The channel holds a stop, a disconnect, or nothing.

## 3. Runs

`tlc -workers 2 -config <cfg> <module>` in this directory. Deadlock checking is
off in all runs: commands, requests and behaviours of bounded casts end.

| run | question | bounds |
| --- | --- | --- |
| `pipeline` | Do guards hold against hooks, failures, nested calls and records that change under way? `DeniedNeverRuns`, `TokenFailClosed`, `NeverReadyNeverRuns`, `RunsOnceForCaller`, `CardResolvedFirst`, and refinement of `GuardedCall` | one call (calls share only the records, which mark commands change at every step anyway; the proofs cover any number), two tenants, ten offers (one of a capability whose id begins with the validator's) and a provider operation named like it, mark commands for the two offers that need set-up |
| `events` | `ReportAccountsForAll`, `DeadLetterWasRecorded`, `ReplaysOnlyTheFailed`, `CommandsReturn` | two overlapping commands, or three in turn with replays of replays, over four subscriptions: one with a schema, one with a filter and `max_attempts` 0, two of two packs with one id; one death |
| `subscriptions` | `DelegatedUserKept`, `RenewPassComplete`, `RemovedAfterAccepted` | two ensures, one pass, one manual command, all overlapping; two tenants, two bindings, three subscription ids |
| `tunnel` | `TunnelsAreTracked`, `RestartReplaces` (commands in turn), `CommandsReturn` (also overlapping) | casts for cloudflared, ngrok and a service: three commands in turn, two overlapping; two pids (`MaxPid`), two tunnels (`MaxTunnels`): the smallest numbers with reuse of a pid |
| `messaging_ingress` | `FormAnsweredOnce`, `ShownFormsCanBeAnswered`, `TokensStayInTenant`, `EverythingTried` | three threads of three tenants and one chat, or two threads with up to three messages |
| `egress` | `SentOrDeadLettered`, `RetriesAreDue` | two messages, two envelopes each; `u32` up to 6 and `u64` of 4 bits, so that both saturate; base 3, maximum 14, jitter 2 |
| `http_server` | `FirstDirectiveWins`, `MostSpecificMount`, `OperatorSpaceKept` | two requests; packs with hooks of which two share an id and one is malformed, one change of the disk; every subset of ten packs with mounts (literal, tenant and team templates, double slash before a literal and before a template, a name that sorts after `{`, reserved, undecodable); a status code beyond 16 bits |
| `http_webhooks` | finding 2 | one mount, one webhook |
| `post_ingress_messages` | finding 1 | one hook, one message |
| `timer_scheduler` | `NoBursts`, `FairTurns`, `StopEnds` | four bundles of up to three handlers, intervals 0, missing, 2 and 3, runs that take 0, 1 or 3 units |
| `bundle_setup` | see below | five parts, each from casts of its own |
| `catalog_offline` | finding 3 | the catalogue part of `bundle_setup` |

`pipeline` also checks the type invariant that its proofs start from; the other
modules keep a `TypeOK`, which their proofs contain or strengthen.

`MostSpecificMount` is about *plain* mounts: those whose text is their segments, that
name a template at most once, and whose literals sort before `{`. The order of the
others is an observation of section 4.

`bundle_setup` picks one of five parts in the initial state; a behaviour is of one
part, and the parts share definitions, not steps.

* *onboarding* (`RulesStand`, `MostSpecificDecides`, `EnvelopeWhole`, `OpenedAfterStored`,
  `OneHookPerName`): ten casts of three requests or commands, two at once and one
  after them or all in turn, over two tenants and two teams, with a file with and
  one without comments; one failing call (`MaxFaults`) and one death (`MaxDeaths`), the
  smallest numbers with a failure during the repair of a death. The properties
  except overlapping edits of one file, and envelopes and webhooks of one provider
  written by two requests at the same time: there the code loses edits, mixes
  bytes and makes two webhooks, and nothing in it prevents that. Two set-ups of
  webhooks overlap from the moment the second reads the list the first works from.
* *wizard* (`RetryConverges`, `GrantsNameTheirPack`): sixteen sets of answers on four
  bundles (none, empty, with packs, with packs of one name), failing at any step
  before or half way, three runs (`MaxRuns`): a failure of the run that repairs another.
  The answers include packs of one name, changes of access that contradict each other,
  packs that are granted or made a default and removed by the same run, paths in
  another spelling, a reference that looks like an id and is not the one its pack gets,
  and updates and removals that are told their operations. Each
  exception that the two properties make is a cast in which the code does otherwise;
  section 4 lists them.
* *setup* (`ItemsAccounted`, `GivenSecretsRead`): nine pairs of commands in turn or at
  the same time with one or two threads, six copies of packs of which two are of
  one pack, two failing calls or panics (`MaxMishaps`).
* *catalog* (`RefreshedIsCurrent`): three commands (`MaxCommands`) of eleven kinds, two
  registries one of which publishes a second catalogue and one catalogue that both
  references serve, one write that fails or is cut short (`MaxCuts`). The property
  excepts a refresh that could not write both copies and goes on with what was cached
  before, and such a shared catalogue once a write was cut: its file, named by
  digest, is torn for both references while the index of the other still names it.
* *demo* (`AnswersLastBlock`): a flow that blocks three times (`MaxBlocks`), so that
  one can go back twice and answer again, with cards, with none and with something
  else in the card's place, and a form of two questions.

### Fairness

* `CapEvents`: weak fairness of the work of each process. A command is sequential
  code whose calls return or fail; death is a separate action without fairness.
* `Tunnel`: weak fairness of each operator's steps; its waits have deadlines.
  Nothing is assumed of the tunnel processes.
* `TimerScheduler`: weak fairness of the thread, that is, handlers return. A
  handler that hangs keeps the thread, and so `stop`, waiting: the code has no
  timeout for it.

The other specifications state no fairness, and only safety is checked of them.

## 4. What the violations show

1. **`post_ingress_messages` / `DirectivesShortCircuit`.** A directive clears
   `result.events`, but the server routes the messages it decoded before: a
   message that a hook denied or answered is routed all the same.
2. **`http_webhooks` / `WebhooksReachable`.** The check for reserved paths looks
   for reserved prefixes of a mount, never for mounts that are a prefix of
   reserved space (`/messaging`, `/v1`, `/{tenant}`), and mounts are asked before
   webhook paths are parsed: webhooks below such a mount are answered with files.
3. **`catalog_offline` / `CachedCatalogServes`.** A wizard command copies the
   catalogue it planned with to where its reference is cached. For a remote
   reference that is the same file, and a copy onto itself truncates it: the next
   offline command with this reference finds an empty catalogue.

Smaller observations, met while modelling and not made into runs:

* two commands that append at once can put two records on one line, after which
  `read_jsonl` refuses the whole log and no replay is possible;
* token validation is skipped for every operation whose name begins with
  `cap.invoke:` and the id of the validator's capability, so also for capabilities
  with a longer id and for provider operations of such a name
  (`demo/runner_host.rs:818`);
* subscription ids need not be unique across packs, and a replay goes to every
  subscription with the id of the dead letter that matches the event, also to those
  that took it the first time (`capability_events.rs:237`);
* ids of replayed events repeat when a dead letter is replayed twice, and lookups
  take the first;
* a mount at `/api/onboarding` or `/deployments-ui` is accepted and can never be
  reached, since the handlers compare textual prefixes; a double slash or a
  template hides a mount from the check for overlaps;
* the table of mounts is ordered by number of segments and then by text, in which a
  template stands for itself: `/docs//{tenant}`, or any template when the literal
  starts with a character after `{` (`/docs/~new`), or a mount that names a template
  twice, answers before the literal mount that fits as well
  (`static_routes.rs:141`);
* a status code given by a hook is cut to 16 bits;
* an error of `send_payload` itself ends the thread of a POST, and its remaining
  messages are not routed (`EverythingTried` is about threads that do not fail);
* two overlapping starts can both spawn a tunnel, of which the pid file names one;
* the log of a tunnel is opened for appending and the first URL in it wins: after
  a restart the URL of the old tunnel is found, stored and returned
  (`cloudflared.rs:114`);
* `renew_due` lists states of all tenants, and writes the renewed ones under the
  command's tenant and team (`subscriptions_universal/service.rs:113`);
* a stop of a service reports `Stopped` although the process may live on; nothing
  in the crate calls `start_process`, `start_nats`, `start_component` or ngrok's
  `start_tunnel`.

Access maps and onboarding:

* `upsert_preserving_lines` writes a path with more than three segments, which the
  next edit then refuses to parse; `p/` and `p` are one path in two spellings, the
  first match is changed and the last one decides;
* the config envelope is one per provider for all tenants;
* two Webex providers that share one bot take each other's webhook, whose name
  does not contain the provider.

Wizard and catalogue:

* a plan is made with the ids the names of packs suggest, or those of an old
  `packs.json`, and executed with ids made unique (`-2`); a second run with packs of
  one name differs from the first;
* a pack whose derived id is `foo-2` shares its family with `foo`: a second `foo` would
  get that id, and which of the two gets it depends on the order of the references;
* of two changes for one pack and scope the last one stands, and a pack that the same
  run removes keeps its rules; an update that is told its operations grants nothing
  unless `access_change` is one of them;
* a reference without a scheme, a slash and a dot (`My_Pack`, `mypack:latest`) is taken for
  an id: access is granted to `My_Pack` while the pack becomes `my-pack`, its default
  is skipped with a warning, and its removal finds no file (`wizard.rs:1943`);
* an update may make a pack a default that it removes and does not add: the first run
  finds the pack, a repeated one does not, so what is the default depends on how often
  the command was run;
* an allowed path that is not spelled as in an access map with comments is appended
  by every run again, and hides later changes of the path;
* a torn `packs.json`, `providers.json` or cache index stops all later runs;
* the plan of a removal announces resolver, copied manifests and validation, which
  `execute_remove_plan` does not do; `link_packs_to_provider_dirs` keeps an older or
  torn copy; access-mode answers are never effective;
* `create` with a remote registry asks whether to overwrite a bundle that did not
  exist, because the fetch made its cache directory; a `--catalog-file` becomes the
  cached copy of the default reference; two references may share a slug, and two
  with one digest share a file that a write cut short tears for both;
* a refresh that cannot write its cache goes on with the cached copy, which may be an
  older catalogue, or the file it has just truncated (`provider_registry.rs:43`).

Set-up and secrets:

* a pack in `packs/` and in the directory of a domain is set up twice; a thread
  that panics is joined and forgotten, with the item it had; the record of a
  failed flow stands for a set-up;
* the secrets gate of `run_plan_item` is never used (its callers pass no manager);
  `run_provider_setup` and `try_upgrade_state_store` have no caller in the crate;
* a placeholder that was seeded for a team hides the value of the tenant that
  `secrets_gate.rs:77-79` promises, and makes the fallback to `REDIS_URL`
  unreachable; `<tenant>/default/` is never looked at for a secrets manager.

REPL:

* the snapshot that `@back` restores was taken before anything was typed, so the
  pending inputs that `docs/demo-run.md:42` promises are never restored, and the
  card that is shown again is answered at the point the flow has reached since;
* `@quit` within `@setup` ends the set-up only; `@setup` stores nothing, against
  `docs/demo-run.md:41`; its last card stays the current one, so that a click sends
  its inputs to the flow; at the end of its input `demo run` spins for ever.

## 5. Proofs

`tlapm <module>.tla` checks the proofs of a module. Every theorem has the form
`Spec => []P` (or `Spec => ImplementsGuardedCall`) where `P` is a property that a run
checks too: the run shows it on a small instance, the theorem for any number of
processes, requests, tenants, packs, messages or files. Each rests on an inductive
invariant, proved action by action; where it is not given by the property itself, it
says what a process has in hand by the step it is at.

**Operation pipeline** (`OpPipelineProofs`). `TypeCorrect`, `DeniedCallsDoNotRun`,
`OneRunForCaller`, `TokensFailClosed`, `SetUpComesFirst`, `CardsResolvedFirst` and the
refinement `PipelineRefines`. `CoreInv` says per frame, by its `pc`, what can have
happened by then: nothing has run and nobody has denied up to the target; after it
there is exactly one run, for the caller, and no denial; whoever is past the
validator was accepted or carries nothing to validate. An action touches one frame,
or the root and card frame of one invocation (`OneFrame`, `FrameKept`). `ReadyInv`
adds that a record that reads as ready was marked by somebody (a torn one never
reads so) and that from admission on the offer was marked for the caller's tenant;
`CardsInv` that a nested call exists only while its flow is at its target or past
it, and is left behind successful by a flow that ran. For the refinement, every step
of a frame is one of the moves of the abstract call (`PhaseMoves`), the others rest.

**Capability events** (`CapEventsProofs`). `DeadLettersRecorded`,
`ReplayGoesToTheFailed`, `ReportsAccountForAll`, for any number of processes that
append to the same logs in two writes and may die between them. `Base` has the types,
and what a command that logs has in hand; `RecordedInv` that the failed delivery is on
disk from the moment its record is written until the dead letter is; `FreshInv` and
`ReplayInv` that a replay has matched only subscriptions with the id of the one in the
dead letter, and that one among them.
`LedgerInv` is an account per command: each matched subscription is untouched, in
hand, took the event or was given up, and the two counts of the report are the
cardinalities of the last two.

**Subscriptions** (`SubscriptionsProofs`). `TypeCorrect`, `PassTriesAll`,
`RemovalFollowsAnswer`, `DelegationKept`. `UserInv` holds wherever a state lives
between the provider's answer and its next use (file, pending write, list of a
pass), because any of these copies may be the one that is written last.

**Messaging ingress** (`MessagingIngressProofs`). `TypeCorrect`, `FormsAnsweredOnce`,
`ShownFormsStayAnswerable`, `TokensKeptApart`, `FailureCostsNothingElse`. `FormsInv`: the
id of a form is fresh when it is stored, and a form is pending in one chat or taken
once. `ShownInv`: every form ever stored is pending, taken or replaced. `CountInv`:
messages to prepare, prepared and routed add up to those of the POST.

**Egress** (`CommandProofs`). `TypeCorrect`, `EveryEnvelopeAccounted`, `RetriesStayDue`.
`AccountInv`: the jobs before the current one are settled, none after it. `CountInv`:
attempts and answers agree, so the saturating counter never saturates before the
comparison that ends the loop. Delays stay in `u64` however often they double
(`DelayType`).

**Tunnels and services** (`CommandProofs`). `NoTunnelIsLost`, `RestartsReplace`, for any
number of operators, pids and tunnels, one command at a time. `TrackInv`: a live
tunnel nobody killed is named by the file, or its operator is about to write it or
crashed; whoever is about to remove the file knows that it names no such tunnel. The
truncation is the delicate step: the new tunnel may have got the very pid that a
stale file names, so `AtFile` says that what the file names is then the child of the
operator that truncates it. `RestartInv`: when a restart looks, the file it has
cleared still names nothing, and from the spawn on it holds a child whose pid cannot
be reused, since its zombie is reaped only when its parent leaves.

**Timer** (`ServerProofs`). `TypeCorrect`, `RunsDoNotPileUp`, `TurnsAreFair`. `ClockInv`: what
is left of an interval and what has passed add up to it. `TurnInv` counts the runs of
others while a handler is due: one in this pass if the scan is past them, one in the
pass before.

**Hooks and server** (`ServerProofs`). `FirstDirectiveIsLast`, `OperatorSpaceIsKept`,
`NarrowestMountAnswers`. `PostInv`: what a request has asked is in order and before what
it has to ask, and nothing was applied while it asks; the cached registry is one of
distinct offers, on which `Before` is a strict total order, so that sorting lists each
once. `HttpInv`: a request is looked at once, and what was chosen for it stays.
`TableInv`: the table lists the mounts of an admitted plan in order, made before any
request, and what was chosen is the first that fits; the order of texts is shown to
be total, and the first plain mount that fits to have no narrower one after it.

**Setting a bundle up** (`BundleSetupProofs`), for any number of requests, commands,
providers, scopes, faults and deaths:

* `StoredFirst` from `StoredInv` (the order of `submit_answers`).
* `WebhooksNotDoubled` from `HookInv`: unless set-ups of an account overlapped, one at
  most works from a list, and the list has what it still has to look for.
* `EnvelopesWhole` from `EnvelopeInv`: no file has two names, a writer's file is its
  own, and there is always a free file, since the files in use are at most one more
  than the processes that have made one.
* `EditsStand` from `RulesInv`: a file no edit has spoiled has one editor, which knows
  what the file said before it was truncated. It needs that an edit of a list of
  rules changes what the list says of one path only, and that sorting permutes it.
* `SpecificRulesDecide`: the loop of `eval_policy` ends with the last of the most
  specific rules that match.
* `GivenSecretsStay` (`GivenInv`), `NoItemForgotten` (`ItemsInv`: unless a thread panicked,
  an item has ended, is in the queue or in the hands of a thread).

**The wizard** (`CommandProofs`), for any bundles, answers, packs, scopes and number
of runs. `WizardInvariant` proves the inductive invariant `WizardInv`: the bundle has
its types and is one the program can have made (`Sound`: one entry for an id and for a
reference, ids other than the derived one only where that was taken, one rule for a
path), the steps that are left fit the plan and the bundle, and the packs they name
have ids by then. On it rest:

* `GrantsAreTheirPacks`. For every change that was asked for, either a step that is left
  makes it, and none after it takes it back, or it stands (`Kept`, a part of
  `WizardInv`). It is about references that go by the derived id in a plan
  (`NameOfPack`), which all do but those that look like another id. That the plan's id is the one the pack gets needs that a pack alone in
  its family is given the derived id, whatever `packs.json` holds by then.
* `RunsConverge`. The steps of a plan are not idempotent one by one (a scope is dropped
  and made again, a default is set and its pack removed), so that repeating one step
  says nothing of repeating the run. What holds is *absorption*: a step that was done,
  or begun, before the whole list of steps makes no difference to where the list
  leads. `Rel` relates two bundles that differ only in what the steps that are left will
  make the same: a pack differs only if it is still to be copied or removed, an access
  map only in paths that a rule is still to come for, and so on for each field.
  `RelStep` carries it over every kind of step, `RelOutcome` to the end, where nothing is
  left to differ. That a whole or a half done step leads to a related bundle needs the
  order of the steps (`Led`: a scope's files are made before its rules, and not dropped
  in between) and what the run has done so far (`Guarded`, `SoFar`). Every run has the
  plan of the first, since where no two packs have names of one family it does not
  depend on `packs.json` (`SamePlan`). `RetryInv` puts this together: all the steps of the
  plan lead from the bundle to where a single run ends (`Onward`), at any time, and so
  do the steps that are left of a run (`Left`); `create` starts from nothing and needs
  only the latter.

**Catalogue and demo.** `RefreshesAreCurrent` (`SubscriptionsProofs`) from `CacheInv`: files
before the index, which names a digest only when its file is whole. `RemainsGood`: no
write that fails or is cut short harms a digest the index names; a refresh that could
not write its index falls back to the copy of the reference, which it had just written.
`EachBlockAnsweredOnce` (`ServerProofs`) from `ReplInv`: what is typed was typed at the
last point, snapshots hold nothing.

`OnboardSpec`, `WizardSpec`, `SetUpSpec`, `CacheSpec` and `ReplSpec` are the parts of which
`MCBundleSetup` makes one specification for the run: a behaviour of it is one of one
of these, while the variables of the others stand still.

**Lemmas.** `SequenceLemmas` has the facts about filters, flattening and sorting that
several components need, and those about lists of access rules: the order of their
keys, what a rule that is put changes, and that two sorted lists that say the same are
the same. Induction over numbers is done there by a least
counterexample, over a set instead of an operator. Sorting by counting what is
before an element (`Sorted`, and the sort of rules) is shown to list every element
once and in order: the ranks of a finite, totally ordered set are exactly
`0..n-1` (`RanksAreAll`, `SortedAscends`).

**Assumptions.** All are about constants and evaluated by TLC in a run:
`RegistryAssumption` (offers are offer records, places in the pack index are unique,
the empty op is no op name), `PipelineAssumption`, `EventsAssumption`,
`SubscriptionsAssumption`, `IngressAssumption`, `EgressAssumption`, `OnboardAssumption`,
`SetUpAssumption`, `WizardAssumption`, `CacheAssumption`, `TimerAssumption` and
`PostIngressAssumption` give the constants their types and say that the sets of packs,
providers or processes are finite where something is counted; `PowersOfTwo` is a fact of
arithmetic that the prover has no rule for; `HttpAssumption` also says that `Rank`, the order of characters,
gives different texts different numbers and that `{team}` sorts before `{tenant}`;
`WizardAssumption` that bundles are ones this program wrote and that the numbers of a
family suffice for the packs there are;
`TunnelAssumption` that the plain services know no restart, as `services/` has none.

**What the proofs found in the model.** Five properties were too strong as first
stated and passed TLC only because no small instance showed it; each now states the
exceptions, which the run has instances of. `OneHookPerName` missed overlaps that begin
with the reading of the list; `RefreshedIsCurrent` fails for a catalogue two references
share after a write was cut short; `MostSpecificMount` fails for mounts that are not
plain; `GrantsNameTheirPack` fails for changes that contradict each other, for packs the
run removes, for operations without `access_change` and for paths in another spelling;
`RetryConverges` fails for defaults of packs that are removed and not added, and for such
paths. Two half done steps of the wizard were missing as well: a directory that is made
before its default is written, and a default that is rewritten.

**Only model-checked.** `CommandsReturn` (both) and `StopEnds`: liveness under fairness is
out of the prover's reach. Every safety property of a passing run is proved. The three
violations are refutations and need no proof.

## 6. Not modelled

`PROJECT.json` lists every component with its status. Not modelled by intent:

* parsing, printing and translation of texts (`cli.rs` for the most part, `i18n`,
  what the REPL prints), vendored code and the reproduction crate: no state;
* the GitHub adapter and the admin API: stateless translations to another service
  or to the file system;
* the libraries the operator uses (runner, deployer, secrets, qa-spec), whose
  answers are nondeterministic choices. The race of `complete_drain` with other
  transitions (`deployments/api.rs:345`) is one of the deployer's lifecycle, which is
  not part of the repository;
* two operators that start a service at the same time: both spawn one and the pid
  file names the last. That is what the code does; there is no claim to check.

## 7. Plan

What is left:

1. A theorem of type correctness for the parts whose proofs use stronger invariants
   than their `TypeOK` (`Tunnel`, `HttpServer`, `CapEvents`).
2. The parts of section 6 that have state of their own, once more of it is in this
   crate's hands: the lifecycle of deployments, and services that two operators start.
