CONSTANTS
  Tasks = {0, 1, 2, 3, 4}
  NUM_PRODUTORES = 2
  NUM_CONSUMIDORES = 1
  QUEUE_PRODUCERS = 1
  QUEUE_CONSUMERS = 1
  TAM_BUFFER = 2
  NUMTASKS = 3
  Rounds = 2
  Items = {0, 1}
SPECIFICATION Spec
INVARIANTS TypeOK OneTurn SumIsRight JoinReportsMax MainOutlivesTasks
PROPERTIES ImplementsFIFO EveryTestEnds NobodyStarves
