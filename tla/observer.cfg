SPECIFICATION FairSpec
CONSTANTS
  Recorders = {p1, p2}
  Capacity = 2
  Round = 1
  MaxEvents = 2
  Fits = 1
  Clients = {c1}
  Admin = Admin
  MaxRecords = 3
  None = None
CHECK_DEADLOCK FALSE
INVARIANTS TypeOK ListingIsRecent AnswersAreFresh
PROPERTY RecordsAreTaken
