SPECIFICATION MCSpec
CONSTANTS
  WBYTE = 4
  WSHORT = 5
  WINT = 6
  WLONG = 8
  WLLONG = 9
  Uses <- MCUses
  Limits = {3, 6, 20}
  Volumes <- MCVolumes
  SectorSize = 8
  EntrySize = 4
  IsoEntries = 4
  Paths <- MCPaths
  Reads <- MCReads
  Seeks <- MCSeeks
  KVolumes <- MCKVolumes
  BlockBytes = 8
  KEntries = {4, 5, 6}
  KValues = {2730, 4096, 65535, 268435455}
  KFats <- MCKFats
  Blocks <- MCBlocks
  FatCopies = {0, 1}
  LastByte = 31
  MaxWrites = 2
  BootMaps <- MCBootMaps
  BootLow = 2
  ImageEnd = 3
  BootTable = 4
  BootTables = 4
  DevicePages = {}
  PageFlags = {}
  BootMaxPages = 2
  ModuleFiles <- MCModuleFiles
  Kernels <- MCKernels
  PageWords = 2
  Exported <- MCExported
  Modulus = 64
  MaxLoads = 3
  PathTexts <- MCPathTexts
  BufferSizes = {1, 2, 3, 5, 7, 14}
  Cwd <- MCCwd
  FsNames <- MCFsNames
  Dirs <- MCDirs
  CdTexts <- MCCdTexts
  PathMax = 24
  Configs <- MCConfigs
  Serialize <- MCSerialize
  Keys = {"up", "down", "other"}
  MaxPicks = 3
  Typed <- MCTyped
  MaxLines = 3
  ReadMax = 24
  Words <- MCWords
  LineMax = 24
  ElemMax = 16
  ArgMax = 4
  Commands <- MCCommands
  CharOfCode <- MCCharOfCode
INVARIANTS
  FormatAsC
  FilesRead
  TablesKept
  LoadedIntact
  HandoffComplete
  
  
\* The loader stops in a panic or hands over to the kernel or the shell.
CHECK_DEADLOCK FALSE
