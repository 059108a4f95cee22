\* The commands may overlap.
CONSTANTS
  alice = alice
  devRead = devRead
  devWrite = devWrite
  read = read
  write = write
  Row <- MCRow
  Grant <- MCGrant
  Holder <- MCHolder
  HolderOf <- MCHolderOf
  Owner <- MCOwner
  Covers <- MCCovers
  PlanOf <- MCPlanOf
  Overlap = TRUE
  MaxFiles = 2
  MaxVerifies = 1
  MaxDeletes = 1

SPECIFICATION Spec
CHECK_DEADLOCK FALSE
INVARIANTS ScriptedIsVouched
