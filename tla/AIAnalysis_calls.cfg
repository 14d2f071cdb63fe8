CONSTANTS
  u1 = u1  e1 = e1  s1 = s1  w1 = w1  w2 = w2  w3 = w3  v1 = v1  p1 = p1  rest = rest
  Nobody = Nobody  Unset = Unset  Secret = Secret  Unborn = Unborn  Gone = Gone
  None = None  All = All  Blank = Blank
  Users = {u1}  Exams = {e1}  PublicExams = {e1}
  Subjects = {s1}  Students = {1, 2}  Classes = {1}
  ClassOf <- MCClassOf  Mark <- MCMark
  FullScores = {10}  Batches <- MCBatches  Sheets <- MCBatches  Asks <- PromptAsks
  Params = {p1}  Calls <- MCCalls  Sayings <- MCSayings  MaxRestarts = 1
  Unit = 1  Exact = 0  Floats = {0}
  Requests = {r1, r2}
SPECIFICATION AIFairSpec
INVARIANTS AITypeOK ModelMadeOnce LinksFollowed SegmentsKeep
PROPERTIES AIAnswered
