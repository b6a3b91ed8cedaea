SPECIFICATION InputSpec
CONSTANTS
  Rows = 3
  Cols = 3
  NumEntries = 3
  Unset = Unset
  Banners <- AllBanners
  Headers <- AllHeaders
INVARIANT TypeOK
INVARIANT CsrIsMatrix
PROPERTY NeverOverwritten
PROPERTY ReadsTheLines
CHECK_DEADLOCK FALSE
