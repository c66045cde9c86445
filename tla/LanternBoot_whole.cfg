\* From efi_main to the terminal, with every call that may fail.
CONSTANTS
  Machines <- MCBoot
  Bases <- MCBases
  PageBytes = 4
  AddressBytes = 1
  IntRange = 64
  UintnRange = 4096
  Uninitialised = Uninitialised
  CustomResolution <- MCCustom
  AnyResolution = AnyResolution
  Wild <- MCAnywhere
  Parts = {3}
  MayFail = {"sfs", "volume", "read", "pool", "info", "gop", "setmode", "exit"}
  StartDescs <- MCStartDescs
  DescriptorSizes <- MCSizes
  MaxGrowth = 1
  MaxEvents = 1
  PoolMayFail = TRUE
SPECIFICATION BootSpec
INVARIANTS BootTypeOK KernelAlone ConstructorsInOrder
PROPERTY ImplementsLoader
CHECK_DEADLOCK FALSE
