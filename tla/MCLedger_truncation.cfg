CONSTANTS
  hub = hub
  scene = scene
  room = room
  well = well
  e_scene = e_scene
  e_call = e_call
  e_auto = e_auto
  e_deep = e_deep
  e_open = e_open
  NoNode = NoNode
  NoEdge = NoEdge
  Nodes <- MCNodes
  Edges <- MCEdges
  EdgeAt <- MCEdgeAt
  Authored <- MCAuthored
  Entries <- MCEntries
  Destination <- NothingFound
  Gated = {room, scene, hub}
  Dependent = {well}
  Projects <- NoneBuilt
  Voiced = {hub, room}
  Recording = {room}
  Sections = {scene}
  Stateful = {}
  MAX_RESOLVE_DEPTH = 5
  Dirtying = {room}
  Faulty = {room}
  Entry = hub
  checkpoint_cadence = 2
  Primed = FALSE
  KeepsRejected = FALSE
  NativeStore = FALSE
  MaxSteps = 2
  MaxStream = 40
  DebugTools = FALSE
  BookmarkNames = {}
  MarkSteps = {}
  RollbackSteps = {0, 1, 2, 3, 4, 5, 6}
SPECIFICATION Spec
PROPERTIES
  RollbackTruncates
CHECK_DEADLOCK FALSE
