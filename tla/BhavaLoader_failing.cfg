\* Machines as the loader expects them, and machines that lack something.
CONSTANTS
  Machines <- MCAll
  Bases <- MCBases
  PageBytes = 4
  AddressBytes = 1
  IntRange = 64
  UintnRange = 4096
  Uninitialised = Uninitialised
  CustomResolution <- MCCustom
  AnyResolution = AnyResolution
  Wild <- MCAnywhere
  Parts = {0, 3, 6}
  MayFail = {"sfs", "volume", "read", "pool", "info", "gop", "setmode", "exit"}
SPECIFICATION FairSpec
INVARIANTS TypeOK KernelLoaded HandoffComplete NoOverrun
PROPERTIES AnsweredSincePrompt Terminates
CHECK_DEADLOCK FALSE
