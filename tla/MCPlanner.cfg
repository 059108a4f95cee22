\* Every set of up to three of 26 rows, with and without existing bindings.
CONSTANTS
  star = star
  f = f
  fo = fo
  foo = foo
  user = user
  alice = alice
  bob = bob
  svc = svc
  host = host
  Star = star
  Name <- MCName
  StartsWith <- MCStartsWith
  PrincipalType = {user}
  PrincipalName = {alice, bob, svc}
  Host = {host}
  Inputs <- MCInputs
  Inventories <- MCInventories
  Rule = 7
  RuleAt <- MCRuleAt
  RoleOps <- MCRoleOps
  Mapping <- MCMapping
  Fallback = "fail"
  Scoped = {"Topic", "Group"}

SPECIFICATION Spec
CHECK_DEADLOCK FALSE
INVARIANTS TypeOK NoRowLost NeverWidened NoGrantLost WarnsOnlyUncoverable DenyVerdicts
