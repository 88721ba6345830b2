SPECIFICATION SpecBackOffice
CONSTANTS
  None = None
  Keep = Keep
  \* FolderTree
  Ids = {"i", "j", "k", "l"}
  Requests = {p, q}
  Scopes <- MCScopes
  EventHomes = {"e"}
  MaxDepth = 3
  Root = Root
  MaxMoves = 3
  \* Registrations
  Subs = {p, q}
  Staff = {"a"}
  Regs = {"r1", "r2"}
  Resps = {"x1", "x2"}
  Docs = {"d"}
  EventForms = {"f", "g"}
  Anonymous = {"g"}
  Crm = {"f"}
  NeedsImage = {"f"}
  Filing = {"f"}
  Phones = {"c"}
  Capacity = 1
  MaxReceived = 2
  MaxEdits = 1
  MaxFaults = 1
  \* FormAnswers
  Forms = {"f", "g"}
  Fields = {"x", "y"}
  Rules = {"w"}
  Slugs = {u, v}
  Labels = {u, v}
  Editors = {p, q}
  Visits = {"n"}
  MaxRequests = 2
  \* RecurringRules
  RuleIds = {"r1", "r2"}
  Templates = {"t"}
  EventIds = {"e", "g"}
  Crons = {u, v}
  Patches <- MCPatches
  Source = "e"
  Sessions = {p, q}
  MaxCalls = 3
  MaxOutages = 1
  \* MessageFiles
  TplIds = {"t1", "t2"}
  MsgIds = {"m1"}
  FileIds = {"f1", "f2"}
  Askers = {p, q}
  Senders = {"s"}
  MaxAsks = 3
  MaxStorageFaults = 1
  \* ManualSend
  SendIds = {p, q}
  SendInputs <- MCSendInputs
  WaMinDelay = 1
  WaMaxDelay = 2
  BatchSize = 2
  BatchMinDelay = 4
  BatchMaxDelay = 4
  PaceMin = 1
  PaceMax = 2
  MaxNow = 1
  MaxBreaks = 1
  \* DisplayOrder
  Items = {"i", "j", "k"}
  Old <- MCOld
  Homes = {"top", "in"}
  Top = "top"
  Users = {"u", "v"}
  Sees <- MCSees
  Drags = {p, q}
  PageSize = 2
  MaxChanges = 3
  \* EngineTriggers
  People = {"a"}
  Sheets = {"f", "g"}
  Notices = {"w1", "w2", "w3"}
  NoticeOf <- MCNotices
  Hands = {p, q}
  MaxTurns = 2
  MaxTicks = 1
  MaxMishaps = 1
  \* CheckIn
  Guests = {"g1", "g2"}
  Nights = {"e", "f"}
  Numbers <- MCPhones
  Doors = {p, q}
  DayLength = 2
  LastInstant = 3
  MaxDoorCalls = 2
  \* EventPanel
  Cards = {"e", "g"}
  Faces = {"u", "v"}
  Chosen = {"s"}
  Drawn = {"S", "T"}
  Clicks = {p, q}
  MaxClicks = 5
  MaxBlips = 1
  \* TemplateHomes
  Letters = {"t", "o"}
  Lands = {"e", "g"}
  Boxes = {"b", "c"}
  BoxHome <- MCBoxHome
  Duties = {"d"}
  Pens = {p, q}
  MaxPens = 2
SYMMETRY Alike
INVARIANTS TypeOKBackOffice NoneVanishes DeepOnlyIfCarried OverbookedOnlyByRace
  CrmStatusIsTrue AbsentOnlyIfLate AnswersReachTheirField  CopiesAgree
   ManualSpacing RecurringOnTime NobodyIsPassedOver OncePerOccasion
  ShownPicturesExist TemplatesAreAtHome
PROPERTIES DropLandsWhereAimed DoorMarksTheRightEvent
CHECK_DEADLOCK FALSE
