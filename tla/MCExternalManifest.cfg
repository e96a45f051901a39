SPECIFICATION Spec
CONSTANTS
  w1 = w1
  w2 = w2
  r1 = r1
  Writers = {w1, w2}
  Readers = {r1}
  StrictWriters = {w2}
  MaxVersion = 3
  LegacyVersions = 1
  VerifyAttempts = 1
  MaxFaults = 2
  Size <- MCSize
  LegacyManifest = LegacyManifest
  NoManifest = NoManifest
INVARIANTS
  TypeOK
  OnlySelectedMaterialized
  RowsRecoverable
  OutcomesAreTrue
  AtMostOneBehind
  LatestIsFresh
PROPERTIES
  CanonicalNeverChanges
  ImplementsVersionLog
