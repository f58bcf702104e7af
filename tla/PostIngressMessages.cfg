CONSTANTS
  Reqs = {"r1"}
  Casts <- OneMessage
  Refs = {1, 2, 3, 4, 5, 6, 7, 8, 9, 10, 11, 12, 13, 14, 15}
  Manifest <- ThePacks
  Statics <- TheStatics
  Files <- TheFiles
  Rank <- TheRank
  Onboard = {"onboard", "onboarding"}
  Deployments = {"deployments", "deployments-ui"}
  Verbs = {"stage", "warm", "activate", "rollback", "complete-drain"}
  Codes = {}
  MaxChanges = 0
SPECIFICATION HttpSpec
INVARIANT
  DirectivesShortCircuit
CHECK_DEADLOCK FALSE
