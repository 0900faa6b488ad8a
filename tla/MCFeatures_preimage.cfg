SPECIFICATION FeaturesSpec
CONSTANTS
  Features = {"f1", "f2"}
  Packages = {"f1", "f2", "f3"}
  Mounted = {"elsewhere"}
  Catalogs <- MCCatalogs
  Images <- MCImages
  Selections <- MCSelections
  Directories <- SomeDirectories
  Junk <- Malformed
  MaxPatches = 3
  Limits <- SomeLimits
INVARIANT SelectedByPreimageOnly
CHECK_DEADLOCK FALSE
