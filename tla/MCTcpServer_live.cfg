\* Liveness of the shutdown, with every thread scheduled.
SPECIFICATION FairSpec
CONSTANTS
  Conn = {c1, c2}
  Fd = {1, 2}
  Nil = Nil
  Items = {"command"}
  MaxInput = 1
PROPERTIES ShutdownCompletes DisconnectedClientsLeave
