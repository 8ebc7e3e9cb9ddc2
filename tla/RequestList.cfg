CONSTANTS
  LastBlock = 2
  MaxLength = 3
SPECIFICATION Spec
INVARIANTS TypeOK WellLinked DereferencesLiveNodes
PROPERTIES ImplementsSeekOrder SSTFIsNearest CSCANRestarts CSCANSweeps
