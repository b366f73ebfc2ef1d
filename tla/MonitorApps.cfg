\* Two servers, one page: the number of apps of one is that of the other.
CONSTANTS
  p1 = p1
  Nets = 2
  Pages = {p1}
  MaxApps = 2
  MaxClients = 2
  Buf = 12
  Pipe = 1
  MaxReports = 2
  MaxInbox = 1
SPECIFICATION Spec
INVARIANT UsedIsCurrent
