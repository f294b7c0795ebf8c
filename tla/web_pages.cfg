CONSTANTS
  CardId <- Cards
  Granularity = 2
  UnitCols = 1
  UnitRows = 1
  ScanRows = 2
  DefaultCards <- DefaultGrid
  DefaultOrder <- CardOrder
  KioskCards <- KioskGrid
  SavedLayouts <- Layouts
  RowSpans <- CardRows
  MaxRow = 2
  MaxEdits = 1
  MaxLoads = 1
  NoLayout = NoLayout
  NotYet = NotYet
  MaxChanges = 2
  MaxAsked = 1
  MaxOpened <- Openings
  TicksPerDay = 2
  Columns = 3
  Margin = 1
  MaxEvents = 3
  MaxTyped = 1
  MaxSaves = 2
  Kiosk = {k1, k2}
  NoKiosk = NoKiosk
  MaxRequests <- Requests
  MaxForms = 1
  MaxDrafts = 2
  i1 = i1
  i2 = i2
  ann = ann
  bob = bob
  Item = {i1, i2}
  NoItem = NoItem
  Grownup = {ann, bob}
  NoGrownup = NoGrownup
  OwnerOf <- Owners
  MaxPosts = 2
  MaxGlances = 2
  Cam = {c1, c2}
  MaxQueuedChunks = 2
  MaxChunks = 5
  MaxShown = 3
  GridOrders = {o1, o2}
  Photo = {p1, p2}
  NoPhoto = NoPhoto
  MaxPreloads = 2
  MaxAlbums = 2

CHECK_DEADLOCK FALSE
SPECIFICATION WebPagesSpec
INVARIANTS
  WebPagesTypeOK
  LayoutKept
  
  
  
  ViewsFaithful
  
PROPERTIES
  DragKeepsApart
