CONSTANTS
  m = m
  n = n
  Styles <- AllStyles
  Marks = {m, n}
  Unknown = {n}
  Batches <- UpToTwoMarks
  MaxIds = 5
  MaxFaults = 2
  f = f
  g = g
  cpp = cpp
  python = python
  Nothing = Nothing
  Files = {f, g}
  FiletypesOf <- OneEach
  Filetypes = {cpp, python}
  LanguageServers = {clangd}
  MaxGeneration = 2
  MaxTroubles = 2
  Shown = {a, b}
  LastLine = 2
  Reports <- NoneOrThree
  Blank = Blank
  Upsets = {"disable", "poll", "restart"}
  p = p
  q = q
  r = r
  Symbols = {p, q, r}
  LocationsOf <- NoneToTwo
  MaxHandlesPerIndex = 10
  Unresolved = Unresolved
  MaxNodes = 3
  MaxAnswer = 2
  x = x
  y = y
  Signatures = {s, t}
  NoSignature = NoSignature
  NoRequest = NoRequest
  Unanswered = Unanswered
  Languages = {c, java}
  CurrentLanguages = {c}
  Absent = Absent
  Waiting = Waiting
  MaxQueries = 4
  MaxToggles = 2
  b = b
  Characters = {m, n, x, y, b}
  Blanks = {b}
  Texts <- TwoTexts
  Replacements <- NothingOrALine
  MaxChunks = 2
  NotApplied = NotApplied
SPECIFICATION SupportSpec
INVARIANTS
  SupportTypeOK
  ScreenIsSnapshot
  StatusIsCurrent
  NoPollIsForgotten
  InsertModeIsQuiet
  PopupIsInStep
  ResultsAreCurrent
  EditsAreApplied
PROPERTY
  SelectionFollows
CHECK_DEADLOCK FALSE
