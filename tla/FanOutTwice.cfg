SPECIFICATION Spec
CHECK_DEADLOCK FALSE
CONSTANTS
  Clients = {1, 2}
  Topics = {11}
  Messages = {1}
  TopicOf <- MCTopicOf
  Threads = {1}
  MaxCommands = 2
INVARIANT
  SentOnce
