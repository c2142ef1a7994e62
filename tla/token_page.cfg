\* The quota page takes a lane that it has.
SPECIFICATION FairSpec
CONSTANTS
  Callers = {r1, r2, p1}
  Guarded = {r2}
  Pages = {p1}
  Connections = {c1, c2}
  Uses <- MCUses
  r1 = r1
  c1 = c1
  None = None
  MaxToken = 2
PROPERTIES
  QueueFlows
