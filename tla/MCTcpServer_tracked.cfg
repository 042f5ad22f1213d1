\* Is every client that is being served tracked?
SPECIFICATION Spec
CONSTANTS
  Conn = {c1, c2}
  Fd = {1, 2}
  Nil = Nil
  Items = {"command", "violation"}
  MaxInput = 2
INVARIANT ServedClientsAreTracked
SYMMETRY Symmetry
