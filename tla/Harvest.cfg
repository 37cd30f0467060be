SPECIFICATION HarvestSpec
CONSTANTS
    MaxConsecutiveFailures = 3
    MaxStrays = 3
INVARIANT HarvestTypeOK
PROPERTIES EpochHarvested PagedWhenBroken
