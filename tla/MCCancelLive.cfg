SPECIFICATION FairSpec
CONSTANTS
  s1 = s1
  s2 = s2
  s3 = s3
  t1 = t1
  t2 = t2
  h1 = h1
  h2 = h2
  h3 = h3
  Signals = {s1, s2}
  Threads = {t1, t2}
  Handles = {h1, h2}
  r1 = r1
  Reasons <- NoReasons
  NoReason = NoReason
  None = None
  Empty = Empty
  MaxSlots = 2
  MaxGen = 0
PROPERTIES Propagation CallsReturn WaitersReturn
