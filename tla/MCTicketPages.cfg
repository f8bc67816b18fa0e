SPECIFICATION Spec
CONSTANTS
  Readers = {"r"}
  Users = {"ann", "bob"}
  Technicians = {"tom", "kim"}
  Admins = {"eve"}
  Nobody = "nobody"
  Seed <- MCSeed
  Queries <- MCQueries
  PageCap = 1
  Started = 3
  MaxClock = 6
  MaxTickets = 4
\* Without account, clock and tickets to spare the readers alone go on.
INVARIANTS
  TypeOK
  WalkDrift
  ListsAgree
