SPECIFICATION PartsSpec
CONSTANTS
  Fresh = {"p9", "p10"}
  Bodies = {"a", "b", "c"}
  Sound = {"a", "b"}
  Plans <- AllPlans
  MaxMeddling = 2
  SourceUnits = 4
  DestUnits = 11
  Chunk = 2
  Values <- Contents
  Calls <- Copies
  Layouts <- AllLayouts
  MaxDamage = 1
  OtherSizes = {0, 1, 524288}
  MaxDeviations = 2
  Names <- AllNames
  Unsafe <- UnsafeNames
  LongNames = {"long"}
  Settings = {"wanted", "new", "listed", "other", "large"}
  LargeIds = {"large"}
  Manifests <- SomeManifests
  MaxFaults = 2
INVARIANT CopyIsExact
INVARIANT GeometryIsDisjoint
INVARIANT GeometryIsFound
INVARIANT FreshIsAccepted
INVARIANT FreshIsAsSpecified
INVARIANT SkeletonIsListed
INVARIANT SkeletonIsBuilt
INVARIANT AssemblyIsAccepted
INVARIANT RootIsCustomized
INVARIANT HonestIsPublished
CHECK_DEADLOCK FALSE
