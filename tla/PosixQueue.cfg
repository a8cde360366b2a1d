SPECIFICATION FairSpec
CONSTANTS
  a = a
  b = b
  producer = producer
  consumer = consumer
  mixed = mixed
  NoItem = NoItem
  Items = {a, b}
  Threads <- MCThreads
  Capacities = {0, 1}
  Calls <- MCCalls
  MaxBacklog = 2
  LateCallers = FALSE
INVARIANTS
  TypeOK
  WaitersCounted
  NoLostWakeup
  WithinCapacity
  DestroyedQuiet
PROPERTIES
  ImplementsFIFO
  TimedCallReturns
  DtorFinishes
CHECK_DEADLOCK FALSE
