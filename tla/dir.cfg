SPECIFICATION FairSpec
CONSTANTS
  MaxName = 5
  MaxChanges = 1
  lsSize = 2
  Counts = {1, 3}
INVARIANTS
  TypeOK
  ListingComplete
  ListingOrdered
  ListBounded
PROPERTIES
  ReaddirReturns
  ProducerStops
