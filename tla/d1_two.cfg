\* Two processes over one local file, and a database that enforces keys.
SPECIFICATION Spec
CONSTANTS
  Sessions = {s1}
  Clients = {c1, c2}
  ForeignKeys = TRUE
  MaxWrites = 3
SYMMETRY ClientSymmetry
INVARIANTS
  NothingLost
