\* The same rows and rules, without a principal mapping.
CONSTANTS
  star = star
  f = f
  fo = fo
  foo = foo
  user = user
  alice = alice
  bob = bob
  svc = svc
  host = host
  Star = star
  Name <- MCName
  StartsWith <- MCStartsWith
  PrincipalType = {user}
  PrincipalName = {alice, bob, svc}
  Host = {host}
  Inputs <- MCInputs
  Inventories <- MCInventories
  Rule = 7
  RuleAt <- MCRuleAt
  RoleOps <- MCRoleOps
  Mapping <- MCNoMapping
  Fallback = "pass-through"
  Scoped = {"Topic", "Group"}

SPECIFICATION Spec
CHECK_DEADLOCK FALSE
INVARIANT SafeBesideBindings
