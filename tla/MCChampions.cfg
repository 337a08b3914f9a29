SPECIFICATION FairSpec
CONSTANTS
  ahri = ahri
  bard = bard
  corki = corki
  Versions <- MCVersions
  Catalogue <- MCCatalogue
  Workers = {w1, w2}
  MaxFaults = 3
INVARIANTS
  PublishedComplete
PROPERTIES
  NeverGoesBack
  RefreshEnds
CHECK_DEADLOCK FALSE
