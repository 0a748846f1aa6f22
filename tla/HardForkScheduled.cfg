CONSTANTS
  Table <- ScheduledTable
  WindowSize = 2
  MaxHeight = 5
  MaxMinor = 4
SPECIFICATION FairSpec
INVARIANTS
  TypeOK
  VersionIsScheduled
PROPERTY
  StartupFinishes
