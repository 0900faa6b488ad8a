SPECIFICATION UpdateSpec
CONSTANTS
  Images = 3
  Encrypted <- Containers
  Blocks = 2
  Releases = {this, other}
  Junk = junk
  MaxWrites = 2
  MaxTime = 1
  Package = "pkg"
  Lines <- SomeLines
  MaxLines = 3
  Required <- SomePaths
  UnsafeParts <- Dots
  UnsafeNames <- NotNames
  CrcMod = 8
SYMMETRY Symmetry
INVARIANT DeliversOneUpdate
INVARIANT AtMostOneStream
INVARIANT CatalogVouches
CHECK_DEADLOCK FALSE
