SPECIFICATION Spec
CONSTANTS
  r1 = r1
  r2 = r2
  a = a
  b = b
  c = c
  Requests = {r1, r2}
  Names = {a, b, c}
  NoName = NoName
  Users = {"u"}
  Tickets = {"t"}
  Notices = {"n"}
  Seed <- MCSeed
  MaxOptions = 2
SYMMETRY Symmetry
INVARIANTS
  TypeOK
  TicketsFollowOptions
  NoticesFollowOptions
