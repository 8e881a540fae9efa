CONSTANTS
  a = a
  b = b
  t1 = t1
  Timer = Timer
  None = None
  Locked = {a}
  Mpsafe = {b}
  Thread = {t1}
  WheelSize = 2
  TickMod = 6
  MaxTo = 1
  MaxSteps = 2
SPECIFICATION FairSpec
INVARIANTS WheelInv ReturnValuesExact NoneMissed
PROPERTIES StoppedStaysStopped NeverEarly ClockTicks
