SPECIFICATION FairSpec
CONSTANTS
  w1 = w1
  w2 = w2
  r1 = r1
  Writers = {w1, w2}
  Readers = {r1}
  StrictWriters = {}
  MaxVersion = 2
  LegacyVersions = 0
  VerifyAttempts = 2
  MaxFaults = 1
  Size <- MCSize
  LegacyManifest = LegacyManifest
  NoManifest = NoManifest
PROPERTIES
  ReservationsMaterialize
  WritersReport
