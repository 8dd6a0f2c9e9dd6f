CONSTANTS
  c1 = c1
  c2 = c2
  c3 = c3
  blocklist = blocklist
  Nobody = Nobody
  OpOf <- MCOpOf
  Calls = {c1, c2, c3}
  Timers = {blocklist}
  Peer <- MixedPeers
  MaxInFlight = 2
  Faults = {"panic", "no_socket", "timeout", "no_thread"}
SPECIFICATION FairSpec
INVARIANTS
  SocketOpsExclusive
  NoWaitCycle
  SlotsAccounted
  AnswerTellsTheRun
PROPERTIES
  TakesTurns
  EveryCallEnds
  AnswerIsFinal
