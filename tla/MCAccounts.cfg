SPECIFICATION MCSpec
CONSTANTS
  p1 = p1 p2 = p2 r1 = r1 r2 = r2 o1 = o1 None = None
  OpenIds = {o1}
  Procs = {p1, p2}
  Calls = {r1, r2}
  MaxUsers = 3 MaxPairs = 3 MaxNames = 3 MaxTime = 4 MaxFaults = 1
  YearTicks = 3 WindowStart = 1 WindowEnd = 2 NicknameWait = 2
  Requests = {r1, r2}
  MaxFails = 3 MaxAdminPairs = 3 MaxAdminFaults = 1 MaxCount = 5
  Servers = {p1, p2}
  Editors = {r1, r2}
  Words <- MCWords
  Texts <- MCTexts
  MaxMaskHits = 3 MaxEdits = 3 MaxReadFaults = 1 Nobody = None
  MaxTerms = 3
  Names = {"autumn", "spring"}
  Themes <- MCThemes
  Clerks = {r1, r2}
  MaxCurrent = 2 MaxThemes = 2 NoTerm = None
SYMMETRY Symmetry
CHECK_DEADLOCK FALSE
INVARIANTS AccountsAgree TokensAgree LoginsAreLimited SessionsEnd WordsAgree HitsAreMasked TermsAgree
