CONSTANTS
  Procs = {"p1", "p2", "p3", "p4"}
  Payloads <- MCPayloads
  TopicSchema <- MCTopicSchema
  SubIds = {"one", "two", "same"}
  Subscriptions <- FourSubscriptions
  Casts <- AllCasts
  MaxCrashes = 1
SPECIFICATION Spec
INVARIANTS
  ReportAccountsForAll
  DeadLetterWasRecorded
  ReplaysOnlyTheFailed
PROPERTY
  CommandsReturn
CHECK_DEADLOCK FALSE
