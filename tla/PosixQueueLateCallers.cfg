SPECIFICATION Spec
CONSTANTS
  a = a
  b = b
  producer = producer
  consumer = consumer
  mixed = mixed
  NoItem = NoItem
  Items = {a, b}
  Threads <- MCThreads
  Capacities = {0, 1}
  Calls <- MCCalls
  MaxBacklog = 2
  LateCallers = TRUE
INVARIANT AbortedNobodySleeps
CHECK_DEADLOCK FALSE
