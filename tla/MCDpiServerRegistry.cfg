\* Two transports whose identifiers collide and whose generators wrap.
CONSTANTS
  Transport = {t1, t2}
  Conn = {c1, c2}
  Post = {p1, p2}
  Download = {d1}
  nil = nil
  IDSpace = 3
  ChanCap = 1
  MaxChunk = 0
SPECIFICATION Spec
INVARIANTS
  LiveIsRegistered 
SYMMETRY Symmetry
