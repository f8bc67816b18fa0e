SPECIFICATION Spec
CONSTANTS
  NoOne = NoOne
  Tickets = {t1}
  Users = {u1}
  Technicians = {k1, k2}
  Admins = {a1}
  Requests = {r1, r2, r3}
  MaxEvents = 6
SYMMETRY Interchangeable
INVARIANTS
  TypeOK
  CancelledNeverServed
  TimelineIsComplete
  OffersAreHonest
PROPERTIES
  RecoveredOnce
  ImplementsClaim
\* MaxEvents stops the exploration: a ticket at the bound takes no more calls.
CHECK_DEADLOCK FALSE
