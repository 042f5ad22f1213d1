\* Does a handler run after Stop has returned in time?
SPECIFICATION Spec
CONSTANTS
  Conn = {c1, c2}
  Fd = {1, 2}
  Nil = Nil
  Items = {"command", "violation"}
  MaxInput = 2
INVARIANT NothingRunsAfterStop
SYMMETRY Symmetry
