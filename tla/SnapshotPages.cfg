CONSTANTS
  Character = {1, 2, 3, 4}
  Rosters <- MCRosters
  PerPage = 2
  PageLimit = {1, 2}
  MaxChanges = 1
  MaxSyncs = 2
  Idle = Idle
SPECIFICATION FairPaging
INVARIANTS PagesTyped PagesWhole CatalogueWhole
PROPERTY ReaderEnds
