SPECIFICATION ConsoleSpec
CONSTANTS
  Slots = {s1, s2}
  Channels = {c1, c2, c3}
  Null = Null
  Beyond = "no"
  MaxTokens = 2
  OtherTab = "yes"
  l1 = l1
  p1 = p1
  DefaultLog = l1
  DefaultPassword = p1
  Logs = {l1, l2}
  Passwords = {p1, p2}
  Admin = Admin
  Blank = Blank
  Widgets = {"toggle", "text", "radio", "certificate"}
  d1 = d1
  d2 = d2
  OldItems <- TwoOld
  NewItem = new
  Edited = typed
  MaxRows = 3
  OldDomains <- OneOld
  Domains = {d1, d3}
  MaxRecords = 2
  OldLists <- TwoOld
  NewList = typed
  MaxLists = 3
  g = g
  Names = {g, u}
  Guest = g
  Surfers = {g}
  MaxUsed = 1
  Searches = {t1, t2}
SYMMETRY Symmetry
CHECK_DEADLOCK FALSE
INVARIANTS
  ConsoleTypeOK
  SessionBacked
  PasswordNeverBlank UserNameKept EditsKept
  WidgetHonest
  SavedIsShown OthersKept
  TableIsStored
  ListsShown
  UsersShown CopiesAgree
  RowsOfSearch OneChart
PROPERTIES EndsForAReason ConsumptionSaved
