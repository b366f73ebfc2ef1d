\* One server, one page.
CONSTANTS
  p1 = p1
  Nets = 1
  Pages = {p1}
  MaxApps = 2
  MaxClients = 3
  Buf = 8
  Pipe = 2
  MaxReports = 2
  MaxInbox = 1
SPECIFICATION FairSpec
INVARIANTS
  TypeOK
  NothingInvented
  CardFollowsRow
PROPERTIES
  BackOnlyByHello
  PageCatchesUp
