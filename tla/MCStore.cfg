SPECIFICATION Spec
CONSTANTS
  a1 = a1
  a2 = a2
  a3 = a3
  NULL = NULL
  Actors <- Three
  Casts <- AllCasts
  MaxContents = 3
  MaxCrashes = 1
INVARIANTS
  BundleCanBeTrusted
PROPERTIES
  FrozenStays
  LockedWritersLoseNothing
CHECK_DEADLOCK FALSE
