CONSTANTS
  Reqs = {"r1", "r2", "r3"}
  Tenants = {"acme", "beta", "gamma"}
  Chats = {"c1"}
  Texts = {"hi", "t1", "t2"}
  Pack <- ThreeTenants
  Casts <- AllCasts
SPECIFICATION Spec
INVARIANTS
  FormAnsweredOnce
  ShownFormsCanBeAnswered
  TokensStayInTenant
  EverythingTried
CHECK_DEADLOCK FALSE
