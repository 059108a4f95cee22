\* Up to four lines, two calls, three records or documents; one change of Kafka's ACLs.
CONSTANTS
  star = star
  fo = fo
  foo = foo
  cluster0 = cluster0
  alice = alice
  bob = bob
  h1 = h1
  h2 = h2
  Star = star
  Name <- MCName
  StartsWith <- MCStartsWith
  PrincipalType = {"User", "Group"}
  PrincipalName = {alice, bob}
  Host = {h1, h2}
  Word <- MCWord
  Upper <- MCUpper
  ClusterName = cluster0
  Var = {}
  Inputs <- MCInputs
  Filters <- MCFilters
  KafkaAcls <- MCKafkaAcls
  MaxChanges = 1
  PrincipalRank <- MCPrincipalRank
  NameRank <- MCNameRank
  WordRank <- MCWordRank

SPECIFICATION Spec
CHECK_DEADLOCK FALSE
INVARIANTS TypeOK NothingInvented NothingLost IdsIdentify LiveRowsDiffer RollbackRestores
