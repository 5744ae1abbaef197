SPECIFICATION Spec
CONSTANTS
  a = a
  b = b
  nobody = nobody
  alice = alice
  bob = bob
  carol = carol
  Main = Main
  Rival = Rival
  Nothing = Nothing
  Worker = {w1, w2}
  Process = {Main, Rival}
  Passing = {alice, bob, carol}
  OnlyOne = FALSE
  Capacity = 1
  Chunks = 2
  HardwareThreads = 8
  WellFormedId = {"task_1", "quick"}
  Picture <- MCPictures
  FacesOf <- MCFacesOf
  Shows <- MCShows
  Existing <- MCExisting
  FilesIn <- MCFilesIn
  KindOf <- MCKindOf
  Model <- MCModels
  Worlds <- MCWorlds
INVARIANTS
  NoUseDuringLoad
  EveryFaceTreated
  ModelIsWhole
  StartedMeansReady
PROPERTIES
  EveryFrameLeaves
CHECK_DEADLOCK FALSE
