SPECIFICATION MCSpec
CONSTANTS
  Writes = {w1, w2}
  Statements = {s1}
  Tries = 2
  Rows = 1
  MaxDepth = 2
  MaxOuter = 2
  MaxFailures = 1
  Airports = {"EGKK", "LFPG"}
  Keys = {"sid", "star", "other"}
  Versions = {"v1", "v2"}
  RowsOf <- MCRowsOf
  Size = 4
  Capacity = 2
  Places <- MCPlaces
  Ids = {"SFD", "SAM"}
  Codes = {"EGKK"}
  MaxLines = 5
  MaxLoads = 2
  MaxAids = 4
  AirportAt <- MCAirportAt
  NavAidsAt <- MCNavAidsAt
  LatLonAt <- MCLatLonAt
  Airways = {"M605"}
  Departures = {"SFD4Z"}
  Arrivals = {"BIBA9W"}
  Routes <- MCRoutes
  KnownAirports = {"EGKK"}
  NavAidsOf <- MCNavAidsOf
  FixPlaces <- MCFixPlaces
  MaxEntries = 2
  MaxPieces = 2
  None = None
INVARIANTS
  TypesOK
  TransactionsAreWhole
  AnswersAreWhole
  AidsAreFound
  AirportsAreAsWritten
  NearestToPrevious
  RouteIsWhole
  PlansAreWhole
CHECK_DEADLOCK FALSE
