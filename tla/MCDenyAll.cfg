\* A DENY of every operation.
CONSTANTS
  star = star
  fo = fo
  foo = foo
  user = user
  alice = alice
  Star = star
  Name <- MCName
  StartsWith <- MCStartsWith
  PrincipalType = {user}
  PrincipalName = {alice}
  Host = {}
  Denies <- MCDenyAll
  Scoped = {"kafka", "none"}
  Grants <- MCGrants
  MaxAcls = 2
  MaxPlans = 2
  MaxScripts = 1

SPECIFICATION Spec
CHECK_DEADLOCK FALSE
INVARIANTS RecheckHolds
