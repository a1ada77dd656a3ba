SPECIFICATION NetworkSpec
CONSTANTS
  Networks = {n1, n2}
  Callers = {c1, c2}
  MaxSwitches = 4
  NoNetwork = NoNetwork
INVARIANT AppliedIsInEffect
CHECK_DEADLOCK FALSE
