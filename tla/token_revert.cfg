\* Two guarded callers of one connection.
SPECIFICATION Spec
CONSTANTS
  Callers = {r1, r2}
  Guarded = {r1, r2}
  Pages = {}
  Connections = {c1}
  Uses <- MCUses
  r1 = r1
  c1 = c1
  None = None
  MaxToken = 3
PROPERTIES
  RowNeverReverts
