CONSTANTS
  Pang = Pang
  Peng = Peng
  Ping = Ping
  Pong = Pong
  Pung = Pung
  Tasks = {Pang, Peng, Ping, Pong, Pung}
  NoTask = NoTask
  MinPrio <- MCMinPrio
  MaxPrio = 20
  Prios = {}
SPECIFICATION TestSpec
INVARIANT RunsInExpectedOrder
CHECK_DEADLOCK FALSE
