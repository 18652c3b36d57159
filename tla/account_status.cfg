SPECIFICATION Spec
CONSTANTS
  p1 = p1
  p2 = p2
  Procs <- Procs2
  Worlds <- Crowded
  MaxCool = 1
  MaxRestarts = 1
INVARIANTS Agreement DisableHonoured EnableHonoured
SYMMETRY Alike
