SPECIFICATION RuntimeSpec
CONSTANTS
  Jobs = {j1, j2, j3}
  VMs = {v1}
  LockId = {l1, l2, l3, l4}
  NoLock = NoLock
  Kinds = {"create", "start"}
  JobLimit = 2
  Refs = {"r1", "r2"}
  Digests = {"d1", "d2"}
  Layers = {"l1", "l2"}
  LayersOf <- LayersFor
  Procs = {"p1", "p2", "p3", "p4"}
  LayerSize = 2
  ImgScopes <- ImgInstances
  Chunks = 2
  QueueCap = 2
  UpScopes <- UpInstances
  Callers = {"c1", "c2"}
  FileChunks = 3
  MaxTransfer = 3
  RelayCapacity = 2
  Capacity = 1
  DlScopes <- DlInstances
  DirJobs = {"j1", "j2", "j3"}
  PageLimit = 1
  Inodes = {1, 2}
  MaxParts = 3
  DirScopes <- DirInstances
  NANOS = 4
  SECONDS = 3
  ReportScopes <- ReportInstances
  BootScopes <- BootInstances
  MIB = 4
  U8MAX = 3
  U32MAX = 5
  MILLIS = 4
  LASTSECOND = 6
  Machines = {"m1", "m2"}
  NoHolder = "nobody"
  IMAGE = 2
  ConfigScopes <- ConfigInstances
  PolicySources <- PolicyInstances
  Flows <- FlowInstances
  Requests <- RequestInstances
SYMMETRY JobSymmetry
CHECK_DEADLOCK FALSE
INVARIANTS
  OneJobPerVM
  CacheIsSound CreatedWhole
  UploadIsWhole
  DownloadIsWhole
  
  
  
  
  
PROPERTIES
  ImplementsOperations
