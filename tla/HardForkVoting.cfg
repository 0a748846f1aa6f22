CONSTANTS
  Table <- VotedTable
  WindowSize = 3
  MaxHeight = 5
  MaxMinor = 4
SPECIFICATION SpecNoPop
INVARIANT
  RescanIsTransparent
