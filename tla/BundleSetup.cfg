CONSTANTS
  Scopes <- SomeScopes
  Providers = {"p1", "p2"}
  Procs = {"a", "b", "c"}
  Paths <- SomePaths
  MaxFaults = 1
  MaxDeaths = 1
  Places <- SomePlaces
  PackIds = {10, 11, 12, 13, 14, 15, 20, 21, 22, 23, 24, 30, 31, 32, 33, 34, 35, 40}
  BaseOf <- SomeBase
  BareName <- SomeSpelling
  CatalogRef <- SomeCatalog
  Linkable = {10, 11}
  Answers <- SomeAnswers
  Bundles <- SomeBundles
  MaxRuns = 3
  Jobs = {"a", "b"}
  Copies <- SomeCopies
  Keepers <- SomeKeepers
  MaxThreads = 2
  MaxMishaps = 2
  RegistryRefs = {"stable", "beta"}
  slug <- SomeSlugs
  Serves <- SomeCatalogs
  LocalCatalog = 9
  WizardArgs <- SomeArgs
  MaxCommands = 3
  MaxCuts = 1
  Outputs <- SomeOutputs
  Fields = {"name", "url"}
  Actions = {"ok", "submit"}
  Sessions <- SomeSessions
  MaxBlocks = 3
SPECIFICATION Spec
INVARIANTS
  RulesStand
  MostSpecificDecides
  EnvelopeWhole
  OpenedAfterStored
  OneHookPerName
  RetryConverges
  GrantsNameTheirPack
  ItemsAccounted
  GivenSecretsRead
  RefreshedIsCurrent
  AnswersLastBlock
CHECK_DEADLOCK FALSE
