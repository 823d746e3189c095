SPECIFICATION HostSpec
CONSTANTS
  Key = {0, 1, 2, 3}
  Hash <- KeyHash
  MaxCount = 4
  WordBits = 3
  Arrays <- SmallArrays
  Counts = 16
  UserFlags = 4
  MphMinimum = 4
  Wishes <- SmallWishes
  Schemas <- SmallSchemas
  BuilderKey <- SmallKeys
  Words = 16
  SlotSize = 2
  FirstCap = 1
  MaxSeed = 4
  MaxPuts = 3
  BucketHash <- SmallBucketHash
  SlotHash <- SmallSlotHash
  ScanKey <- ScanKeys
  Tables <- SmallTables
INVARIANTS
  LookupCorrect
  CodecCallsExact
  WithinBuffer
  SchemaPersists
  PlannerSound
  FrozenExact
  TableWithin
  ScansExact
PROPERTIES
  Logarithmic
  FreezeBounded
  CallsReturn
CHECK_DEADLOCK FALSE
