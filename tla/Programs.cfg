SPECIFICATION Spec
\* The programs end, or wait for a peer that never answers.
CHECK_DEADLOCK FALSE
CONSTANTS
  HttpRequests = 2
  Fds = {1, 2}
  Chunks = 2
  Size = 2
  MaxCalls = 4
  TEST_CMD_COUNT = 3
  Clients = {1, 2}
  Topics = {11}
  Messages = {1, 2}
  TopicOf <- MCTopicOf
  Threads = {1, 2}
  MaxCommands = 1
  Commands <- MCCommands
  Base = 8
  RIO_BUFSIZE = 5
  Hosts = 2
  ZmqRequests = 4
  Elements = {1, 2}
  Cells = {1, 2, 3, 4}
  SIZE = 2
  MaxTop = 5
  Items = {1, 2}
  Params <- MCParams
  MaxAdds = 3
  Murmur <- MCMurmur
  Values = {1, 2, 3}
  MaxLength = 5
INVARIANTS
  WholeOrNothing
  OwnAnswers
  SubscriptionsAgree
  ItemsRemembered
PROPERTIES
  EventuallyAnswered
  OrderKept
