CONSTANTS
  u1 = u1  u2 = u2  e1 = e1  e2 = e2  e3 = e3  s1 = s1  s2 = s2  k1 = k1
  Nobody = Nobody  Unborn = Unborn  Gone = Gone  None = None  Unset = Unset  Secret = Secret
  Users = {u1, u2}  Exams = {e1, e2, e3}  PublicExams = {e1}
  Subjects = {s1, s2}  Students = {1, 2}  FullScores = {10}
  Keywords = {k1}  Date <- MCDate  Named <- MCNamed  Half = 8
  Studied = {e1}  Batches <- MCBatches
  Requests = {r1, r2}  Asks <- MCAsks
SPECIFICATION Spec
SYMMETRY Symmetry
INVARIANTS TypeOK VisibleListed PageFits PagesTile StudentsOnce FullScoreShown
