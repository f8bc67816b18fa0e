SPECIFICATION Spec
CONSTANTS
  r1 = r1
  r2 = r2
  s1 = s1
  Requests = {r1, r2}
  Admins = {"admin"}
  Technicians = {"technician"}
  Requesters = {"requester"}
  Sectors = {s1}
  NoSector = NoSector
  Contents <- MCContents
  MaxNotices = 1
  MaxRevision = 2
  MaxTime = 1
SYMMETRY Symmetry
INVARIANTS
  TypeOK
  ReadMeansShown
  ListedIsConfirmable
