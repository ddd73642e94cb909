CONSTANTS
  Bits = {b1}
  Sectors = 2
  SectorSize = 4
  PageSize = 2
  Transfers = {7, 9}
  MaxLen = 3
  MaxCuts = 1
SPECIFICATION LiveSpec
PROPERTIES ImplementsStore CallReturns
