SPECIFICATION Spec
CONSTANTS
  Requests = {r1, r2}
  Tasks = {t1, t2}
  Subs = {s1, s2, s3, s4}
  Dates = {1, 2}
  Categories = {"fun"}
  Lists <- PostedLists
  Periods <- OneDay
  MaxAsked = 4
  Nothing = Nothing
SYMMETRY Symmetry
INVARIANTS
  TypeOK
  ListAsPosted
  OrdersDistinct
  CountsFit
CHECK_DEADLOCK FALSE
