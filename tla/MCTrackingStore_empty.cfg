\* Two requests on the empty number, every fault.
SPECIFICATION Spec
CONSTANTS
  p1 = p1  p2 = p2  p3 = p3  n1 = n1  empty = empty
  Proc = {p1, p2}
  Number = {empty}
  EmptyNumber = empty
  WebhookBody <- MCWebhookBody
  TisBody <- MCReceivedBody
  NoBody = NoBody  NoLog = NoLog  NoTimes = NoTimes
  Faults = {"db", "redis", "crash"}
SYMMETRY ProcSymmetry
INVARIANTS EmptyNumberStaysInside
