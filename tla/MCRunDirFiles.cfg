\* Two processes run three commands, or two on Windows; one edit, one kill or power loss.
CONSTANTS
  p1 = p1
  p2 = p2
  Proc = {p1, p2}
  Platforms = {"posix", "windows"}
  None = None
  Torn = Torn
  MaxCommands <- MCMaxCommands
  MaxEdits = 1
  MaxDeaths = 1

SPECIFICATION Spec
SYMMETRY Symmetry
CHECK_DEADLOCK FALSE
INVARIANTS TypeOK PlanFitsExtract
PROPERTIES AtomicSpec VouchedIsChecked UsableOnceStamped
