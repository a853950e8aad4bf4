\* Two sockets come and go while the pump's thread decides to end.
SPECIFICATION PumpSpec
CONSTANTS
  Clients = {b1, b2}
  MaxEvents = 2
  MaxJoins = 4
INVARIANTS
  WatchedRoomIsPolled
CHECK_DEADLOCK FALSE
