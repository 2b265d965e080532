\* Three rotations that keep one snapshot, two files of which one is edited.
CONSTANTS
    N = 3
    Files = {1, 2}
    Keep = 1
    MaxTime = 1
    MaxEdits = 1
    MaxKills = 1
    MaxPowerLosses = 1
SPECIFICATION Spec
INVARIANTS
    SnapshotIsOneMoment
    CatalogIsWhole
    RetentionKeeps
CHECK_DEADLOCK FALSE
