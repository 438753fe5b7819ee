SPECIFICATION Spec
CONSTANTS
  AirportAt <- MCAirportAt
  NavAidsAt <- MCNavAidsAt
  LatLonAt <- MCLatLonAt
  Airways = {}
  Departures = {}
  Arrivals = {}
  Routes <- MCRoutes
INVARIANT
  DateLineLegsAreSplit
CHECK_DEADLOCK FALSE
