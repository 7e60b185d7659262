SPECIFICATION Spec
CONSTANTS
  HwTasks = {0, 1}
  SwTasks = {4}
  Common = 3
  Idle = 15
  Irqs = {isp, vipre}
  isp = isp
  vipre = vipre
  LoadFails = {0}
  Careful = TRUE
  Shared = FALSE
INVARIANTS
  RunningIsHooked
  DispatchedIsRunnable
  SlotsHoldAllocated
SYMMETRY IrqSymmetry
