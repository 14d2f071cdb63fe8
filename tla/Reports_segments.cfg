CONSTANTS
  u1 = u1  u2 = u2  e1 = e1  e2 = e2  s1 = s1  s2 = s2
  Nobody = Nobody  Unset = Unset  Secret = Secret  Unborn = Unborn  Gone = Gone  None = None  All = All
  Users = {u1, u2}  Exams = {e1}  PublicExams = {}
  Subjects = {s1, s2}  Students = {1, 2, 3}  Classes = {1, 2}
  ClassOf <- MCClassOf  Mark <- MCMark
  FullScores <- PositiveFullScores  Batches <- MCBatches  Sheets <- MCSheets
  Unit = 4  Exact = 32  Floats <- MCFloats
  Requests = {r1}  Asks <- ReportAsks
SPECIFICATION Spec
INVARIANT RangesMeet
