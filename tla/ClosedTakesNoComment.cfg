SPECIFICATION Spec
CONSTANTS
  NoOne = NoOne
  Tickets = {t1}
  Users = {u1}
  Technicians = {k1, k2}
  Admins = {a1}
  Requests = {r1, r2}
  MaxEvents = 6
PROPERTY ClosedTakesNoComment
CHECK_DEADLOCK FALSE
