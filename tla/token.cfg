\* Two callers, one of them guarded, over two connections of one group, and the
\* quota page for one of these.
SPECIFICATION FairSpec
CONSTANTS
  Callers = {r1, r2, p1}
  Guarded = {r2}
  Pages = {p1}
  Connections = {c1, c2}
  Uses <- MCUses
  r1 = r1
  c1 = c1
  None = None
  MaxToken = 2
INVARIANTS
  TypeOK
  RowIsUsable
  OneInFlight
PROPERTIES
  RefreshEnds
