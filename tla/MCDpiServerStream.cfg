\* One connection, two downloads that compete for its chunks.
CONSTANTS
  Transport = {t1}
  Conn = {c1}
  Post = {p1}
  Download = {d1, d2}
  nil = nil
  IDSpace = 2
  ChanCap = 2
  MaxChunk = 4
SPECIFICATION FairSpec
INVARIANTS
  DownloadsPartitionStream
PROPERTIES
  ClosedConnReleased ShutdownReleases
