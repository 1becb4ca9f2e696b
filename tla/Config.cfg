SPECIFICATION Spec
CONSTANTS
  Values = {1, 2}
  Bad = Bad
  Empty = Empty
  Off = Off
  MaxSensors = 2
  MaxRevision = 4
  MaxReloads = 1
INVARIANTS TypeOK MemoryFollows NoOrphans
PROPERTY RevisionTells
