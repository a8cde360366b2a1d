SPECIFICATION Spec
CONSTANTS
  login = login
  e1 = e1
  e2 = e2
  bad = bad
  EID_UNKOWN = EID_UNKOWN
  NoEvent = NoEvent
  Svc = svcThread
  Publishers = {p}
  Handlers = {h1, h2}
  Eids = {login}
  Events = {e1, e2, bad}
  EidOf <- MCEidOf
  MaxItems = 1
  MaxInits = 2
INVARIANT SubscribersHandleEvents
CHECK_DEADLOCK FALSE
