\* No POST handler closes anything: the connection ends by itself.
CONSTANTS
  Transport = {t1}
  Conn = {c1}
  Post = {}
  Download = {d1}
  nil = nil
  IDSpace = 3
  ChanCap = 2
  MaxChunk = 2
SPECIFICATION Spec
INVARIANT BufferedDataReachable
