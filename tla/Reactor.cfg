SPECIFICATION FairSpec
\* All clients may have come and nothing may be left to report.
CHECK_DEADLOCK FALSE
CONSTANTS
  Fds <- MCFds
  ListenFd = 4
  Listener = Listener
  Nobody = Nobody
  MaxConns = 3
INVARIANTS
  TypeOK
  TablesAgree
  DescriptorOwned
  ReadsLiveConnections
PROPERTIES
  HangUpNoticed
  WaitingAccepted
