\* Two callers share a channel of one message; the client is slow, leaves, or is
\* dropped.  Safety for any number of clients is proved in HubProofs.
CONSTANTS
  Client = {c1}
  Caller = {p1, p2}
  BroadcastCap = 1
  SendCap = 1
  MaxMsg = 5
CHECK_DEADLOCK FALSE
SPECIFICATION FairSpec
INVARIANTS
  HubTypeOK
  NoPanic
  UnbrokenRun
  OpenIffRegistered
PROPERTIES
  EveryMessageArrives
  
  EndedIsForgotten
  BroadcastReturns
