SPECIFICATION FairSpec
CHECK_DEADLOCK FALSE
CONSTANTS
  c1 = c1
  c2 = c2
  ta = ta
  tb = tb
  m1 = m1
  m2 = m2
  Conns = {c1, c2}
  Topics = {ta, tb}
  NoTopic = NoTopic
  Messages = {m1}
  NoMessage = NoMessage
  TopicOf <- MCTopicOf
  Wants <- MCWants
  MaxGroups <- MCMaxGroups
  InitialThreads <- MCInitialThreads
  MaxThreads = 2
INVARIANTS
  OneGroupEach
