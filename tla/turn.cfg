\* Two browsers, a voice request and two prompts, with everything the users can do.
SPECIFICATION FairSpec
CONSTANTS
  Requests = {r1, r2}
  Voices = {v1}
  Prompts = {p1, p2}
  Sessions = {s1, s2}
  Users = {"sync", "stop", "leave", "switch", "voice", "type", "interrupt", "slash"}
  None = None
INVARIANTS
  TypeOK
  TurnKeepsSession
  StopIsKept
  WorkerKeepsServer
PROPERTIES
  StopHalts
  StopEndsTurn
  DisconnectFrees
