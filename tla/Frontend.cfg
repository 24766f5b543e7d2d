CONSTANTS
  None = None
  Groups = {"checkout", "accounts", "bookings", "desk", "calendar", "session", "trainer"}
  MaxTroubles = 1
  MaxClicks = 2
  MaxPolls = 2
  Discussions = {d1}
  SeatPrice = 2
  PackCredits = 2
  MaxVisits = 2
  MaxTokens = 2
  MaxPages = 1
  MaxRequests = 2
  Booked = {"first", "second"}
  Moving = {"first"}
  Prices = {1, 2}
  Welcome = 1
  Zones = {"ist", "nyc", "syd"}
  BookingZone = "ist"
  Offset <- MCOffset
  DayLen = 3
  MonthLen = 2
  Now = 6
  Times = {7, 11, 12}
  Months <- MCMonths
  MaxLive = 1
  Starts = {0, 1}
  MaxNow = 1
  PayIds = {p1}
  Currencies = {usd, inr}
  SoldIn = {usd, inr}
  Usd = usd
  SlotRecord = slot
  Users = {u1}
  Codes = {c1}
  Rows = {r1, r2}
  Filters = {f1, f2}
  First = f1
  Topics = {"story", "interview"}
  Tracks = {"any", "job"}
  Styles = {"easy", "hard"}
  Track <- MCTrack
  Style <- MCStyle
  Choices = {1, 3}
  Gap = 2
  MaxPauses = 1
SPECIFICATION MCSpec
INVARIANTS PagesTypeOK BusyHasAReason ShownIsCharged TokenIsSpentOnce  RoundIsConsistent ExtraTimeIsBounded MonthIsWhole ScreenIsCurrent DeleteDoesWhatItSaid
PROPERTIES RecordKept NoPageIsStuck
CHECK_DEADLOCK FALSE
