CONSTANTS
  Catalogue <- MCCatalogue
  Late <- MCLate
  Unstable = {2}
  Own = {1}
  Starrable = {1}
  Categories = {"ai", "web"}
  Presets <- MCPresets
  Values <- MCValues
  DefaultLimit = 1
  MaxClicks = 2
  MaxSeen = 1
SPECIFICATION MarketSpec
INVARIANTS
  MetaIsCurrent
  PagesCoverTheRanking
  ScreenedStaysHidden
PROPERTY
  ReloadRestoresFilters
CHECK_DEADLOCK FALSE
