SPECIFICATION Spec
CONSTANTS
  w1 = w1
  w2 = w2
  r1 = r1
  Writers = {w1, w2}
  Readers = {r1}
  StrictWriters = {w2}
  MaxVersion = 3
  LegacyVersions = 2
  VerifyAttempts = 1
  MaxFaults = 0
  Size <- MCSize
  LegacyManifest = LegacyManifest
  NoManifest = NoManifest
PROPERTIES
  CanonicalNeverChanges
