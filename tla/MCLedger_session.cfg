CONSTANTS
  hub = hub
  scene = scene
  room = room
  well = well
  e_scene = e_scene
  e_call = e_call
  e_auto = e_auto
  e_deep = e_deep
  e_open = e_open
  NoNode = NoNode
  NoEdge = NoEdge
  Nodes <- MCNodes
  Edges <- MCEdges
  EdgeAt <- MCEdgeAt
  Authored <- MCAuthored
  Entries <- MCEntries
  Destination <- WellFound
  Gated = {room, scene, hub}
  Dependent = {well}
  Projects <- NoneBuilt
  Voiced = {hub, room}
  Recording = {room}
  Sections = {scene}
  Stateful = {room}
  MAX_RESOLVE_DEPTH = 5
  Dirtying = {}
  Faulty = {room, well}
  Entry = hub
  checkpoint_cadence = 2
  Primed = TRUE
  KeepsRejected = FALSE
  NativeStore = FALSE
  MaxSteps = 2
  MaxStream = 6
  DebugTools = TRUE
  BookmarkNames = {"here"}
  MarkSteps = {}
  RollbackSteps = {1, 3}
SPECIFICATION FairSpec
INVARIANTS
  NoRecordAhead
  VisitsWithinHistory
PROPERTIES
  CallsReturn
  RollbackTruncates
  UpdateIsLastChoice
  ChoicesSettle
CHECK_DEADLOCK FALSE
