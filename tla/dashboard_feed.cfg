CONSTANTS
  a = a b = b k = k x = x p = p q = q
  Signals = {a, b}
  Pushed = {a}
  Old = {b}
  NewestFirst <- MCNewestFirst
  Country <- MCCountry
  Category <- MCCategory
  Countries = {k, x}
  Known = {k}
  All = All
  Filters = {All, p}
  Missing = Missing
  Uncached = Uncached
  Free = Free
  Copies = 1
  Cap = 2
  Fill = 1
  MaxSockets = 2
  MaxLoads = 2
  MaxFetches = 1
  MaxChanges = 1
  MaxFaults = 1
SPECIFICATION FairSpec
INVARIANTS ListsStayShort SpinnerHasALoad NoSignalMultiplied
PROPERTIES NothingVanishes FeedConverges SelectedIsFetched
