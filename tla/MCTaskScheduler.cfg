CONSTANTS
  Tasks = {t1, t2, t3}
  NoTask = NoTask
  MinPrio <- MCMinPrio
  MaxPrio = 2
  Prios <- MCPrios
SPECIFICATION Spec
INVARIANTS TypeOK AgingIsBounded WaitIsBounded
PROPERTY NoStarvation
