SPECIFICATION DeviceSpec
CONSTANTS
  Total = 5
  ReadSize = 3
  Requests <- BelowAndAt
  Media <- EveryMedium
INVARIANT EverySectorIsItsOwnOrRecorded
