CONSTANTS
  main = main
  taskDisp = taskDisp
  Tasks = {main, t1}
  DEFAULT_TASK_TICKS = 2
  MaxTime = 5
SPECIFICATION Spec
PROPERTY NoYieldWhileDisabled
