CONSTANTS
  u1 = u1  u2 = u2  e1 = e1  e2 = e2  s1 = s1  s2 = s2
  c1 = c1  c2 = c2  n1 = n1  n2 = n2
  Nobody = Nobody  Unborn = Unborn  Gone = Gone  None = None  Unset = Unset  Secret = Secret
  Users = {u1, u2}  Exams = {e1, e2}  PublicExams = {e1}
  Subjects = {s1, s2}  Classes = {c1, c2}  Names = {n1, n2}
  DefaultFull = 100
  FullScores <- MCFullScores
  Reqs = {r1, r2}
  Jobs <- PublicJobs
SPECIFICATION Spec
SYMMETRY Symmetry
PROPERTIES NamesakesAllowed
