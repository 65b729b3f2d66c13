SPECIFICATION PagesSpec
CONSTANTS
  PageSize = 2
  MaxBlocks = 6
  MaxRequests = 2
INVARIANTS
  PagesTypeOK
  PagesCover
