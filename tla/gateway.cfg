SYMMETRY Symmetric
SPECIFICATION MCSpec
CONSTANTS
  Request = {r1, r2}
  NoRequest = none
  FirstRows = 3
  MaxName = 4
  MaxVersion = 6
  Listing <- MCListing
  Top = 2
  TTL = 2
  MaxStay = 1
  MaxSaves = 2
  MaxClock = 5
  None = None
  Word = Word
  Stored <- MCStored
  Empty <- MCEmpty
  DocType <- MCDocType
  Meta <- MCMeta
  NameForm <- MCNameForm
  RouteForm <- MCRouteForm
  Form <- MCForm
  Rest <- MCRest
  World <- MCWorld
  Profile <- MCProfile
  Query <- MCQuery
  Body <- MCBody
  Blank <- MCBlank
  Served = {"Order"}
  Id = {1}
  Value = {0, 1}
  NEVER_EXPOSED = {"User"}
  DefaultPageSize = 2
  DefaultMaxPageSize = 3
INVARIANTS FilterMeansWhatItSays PublicNamesAreUnambiguous RoutesServeWhatTheyShow ListsAgreeWithReads WritesStayInScope HiddenFieldsAreUnobservable
  ExposureIsRecent WritesRespectIfMatch PagesCoverSteadyRows
PROPERTIES StoreSpec
CHECK_DEADLOCK FALSE
