\* Two connections come and go while the server is stopped.
SPECIFICATION Spec
CONSTANTS
  Conn = {c1, c2}
  Fd = {1, 2}
  Nil = Nil
  Items = {"command", "violation"}
  MaxInput = 2
INVARIANTS TypeOK OwnsItsDescriptor ActiveCounted OnlyTheLastRemains
SYMMETRY Symmetry
