SPECIFICATION Spec
CONSTANTS
  Contents <- Trees
  SiteFiles <- SomeFiles
  Targets = {"www", "mnt"}
  FirstKinds <- SomeKinds
  Paths <- SomePaths
  MaxRoutes = 3
  PrefixMax = 6
  Methods = {"GET", "POST"}
  MaxChanges = 1
  MaxCached = 1
INVARIANTS TableSound NothingLeft MatchIsBest OwnTree RedirectSettles
PROPERTY CheckPredictsInit
CHECK_DEADLOCK FALSE
