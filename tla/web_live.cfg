CONSTANTS
  Part = {accounts}
  Dash = dashboard
  Nothing = Nothing
  MaxVersion = 1
  MaxFailures = 1
  Socket = {w1, w2, w3}
  NoSocket = NoSocket
  MaxToggles = 3
  Member = {ann, bob}
  Nobody = Nobody
  Idle = Idle
  MaxSignIns = 2
  MaxCalls = 1
  Code = {c1}
  LinkCode = {l1}
  Adult = Adult
  NoUser = NoUser
  Source = {a, b, i}
  CalDAV = {a, b}
  NoSource = NoSource
  MaxPresses = 2
  MaxEdits = 2
  MaxForeign = 1

CHECK_DEADLOCK FALSE
SPECIFICATION WebLiveSpec
INVARIANTS
  WebLiveTypeOK
  OneAtATime
  
PROPERTIES
  DataCatchesUp
  
