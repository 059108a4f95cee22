\* Two versions of acls.json and of plan.json.
CONSTANTS
  alice = alice
  devRead = devRead
  devWrite = devWrite
  read = read
  write = write
  Row <- MCRow
  Grant <- MCGrant
  Holder <- MCHolder
  HolderOf <- MCHolderOf
  Owner <- MCOwner
  Covers <- MCCovers
  PlanOf <- MCPlanOf
  Overlap = FALSE
  MaxFiles = 2
  MaxVerifies = 1
  MaxDeletes = 1

SPECIFICATION Spec
CHECK_DEADLOCK FALSE
INVARIANTS TypeOK ScriptedIsVouched ScriptFollowsPlan LogIsTruthful
