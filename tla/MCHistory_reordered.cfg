CONSTANTS
  hub = hub
  scene = scene
  room = room
  well = well
  e_scene = e_scene
  e_call = e_call
  e_auto = e_auto
  e_deep = e_deep
  e_open = e_open
  NoNode = NoNode
  NoEdge = NoEdge
  Nodes <- MCNodes
  Edges <- MCEdges
  EdgeAt <- MCEdgeAt
  Authored <- MCAuthored
  Entries <- MCEntries
  Destination <- NothingFound
  Gated = {room, scene, hub}
  Dependent = {well}
  Projects <- TwoAtRoom
  Voiced = {hub, room}
  Recording = {room}
  Sections = {scene}
  Stateful = {hub}
  MAX_RESOLVE_DEPTH = 5
  Dirtying = {}
  Faulty = {room}
  Entry = hub
  checkpoint_cadence = 1
  Primed = FALSE
  KeepsRejected = FALSE
  NativeStore = FALSE
  MaxSteps = 2
  MaxStream = 40
  DebugTools = FALSE
  BookmarkNames = {}
  MarkSteps = {}
  RollbackSteps = {0, 1, 2, 3, 4, 5, 6}
SPECIFICATION HSpec
INVARIANTS
  RestoresEveryStep
CHECK_DEADLOCK FALSE
