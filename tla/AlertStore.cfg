CONSTANTS
  MaxIncidents = 2
  MaxSecond = 1
  MaxSnapshots = 1
  UploadsMax = 2
  FailedMax = 1
SPECIFICATION Spec
INVARIANTS MediaOfOwnAlert ListedMediaExists SnapshotsAreNamed
PROPERTY DeletedStaysDeleted
