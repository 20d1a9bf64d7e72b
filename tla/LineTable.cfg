\* Tables of up to five addresses below 6, differences cut down to a three-bit int.
SPECIFICATION FairSpec
CONSTANTS
  MaxAddress = 5
  Addresses <- AddressRange
  HalfInt = 4
  MaxEntries = 5
  Null = Null
INVARIANTS
  StaysInTable
  SortedWhenSpanFits
  FindsNearest
PROPERTIES
  Narrows
  LookupReturns
CHECK_DEADLOCK FALSE
