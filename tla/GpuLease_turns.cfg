SPECIFICATION FairSpec
CONSTANTS
  Tenants = {t1, t2, t3}
  Probers = {p1}
  Nobody = Nobody
  Blank = Blank
  Missing = Missing
  MaxPolls = 2
INVARIANTS TypeOK GpuExclusive StampNamesHolder
PROPERTIES LeaseIsKept TakesTurns WaitEnds
CHECK_DEADLOCK FALSE
