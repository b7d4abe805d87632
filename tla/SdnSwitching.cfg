CONSTANTS
  h1 = h1
  h2 = h2
  Broadcast = Broadcast
  ANY = ANY
  FLOOD = FLOOD
  Switches = {1, 2, 3, 4}
  Attached <- MCAttached
  Topologies <- Wirings
  Changing <- Lines
  Apps = {"hub", "learning", "tree", "spr"}
  MaxFrames = 2
  MaxFaults = 1
SPECIFICATION Spec
INVARIANTS
  TypeOK
  TreeIsCurrent
  AtMostOnce
  RulesLeadToHost
PROPERTIES
  EveryFrameArrives
\* The hosts stop speaking.
CHECK_DEADLOCK FALSE
