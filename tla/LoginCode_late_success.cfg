CONSTANTS
  Absent = Absent  Waiting = Waiting  None = None
  Pages = {p1, p2}
  Messages = {m1, m2}
  Codes = {c1, c2}
  OpenIds = {o1, o2}
  Life = 2
SPECIFICATION Spec
INVARIANT SuccessNotExpired
