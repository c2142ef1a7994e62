\* One client, foreign keys enforced (as Cloudflare D1 does): the remote database
\* follows the order of the local writes, and catches up.
SPECIFICATION FairSpec
CONSTANTS
  Sessions = {s1, s2}
  Clients = {c1}
  ForeignKeys = TRUE
  MaxWrites = 3
INVARIANTS
  TypeOK
  SyncedCopyAgrees
  ReadsAreCurrent
PROPERTIES
  ImplementsLog
  OutboxDrains
