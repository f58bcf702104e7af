CONSTANTS
  Tenants <- MCTenants
  OpNames <- MCOpNames
  NoOp = ""
  Caps <- MCCaps
  StableIds = {1, 2, 3, 4, 5, 6, 7, 8, 9}
  Offers <- MCOffers
  Offer <- MCOffer
  Inv = {i1}
  TokenCap = "token"
  CardCap = "card"
  BrokerCap = "broker"
  PreCap = "pre"
  PostCap = "post"
  BrokerOps = {"auth"}
  CardOp = "resolve"
  CapOpName <- MCCapOpName
  TokenOps = {"cap:token", "cap:token2"}
  Rewrites <- MCRewrites
  Requests <- MCRequests
  MarkCommands <- MCMarkCommands
SPECIFICATION Spec
INVARIANTS
  TypeOK
  DeniedNeverRuns
  TokenFailClosed
  NeverReadyNeverRuns
  RunsOnceForCaller
  CardResolvedFirst
PROPERTY
  ImplementsGuardedCall
CHECK_DEADLOCK FALSE
