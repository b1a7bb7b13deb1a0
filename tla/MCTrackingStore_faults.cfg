\* Two requests, one number, two bodies, every fault: the safety properties and the register.
SPECIFICATION Spec
CONSTANTS
  p1 = p1  p2 = p2  p3 = p3  n1 = n1  empty = empty
  Proc = {p1, p2}
  Number = {n1}
  EmptyNumber = empty
  WebhookBody <- MCWebhookBody
  TisBody <- MCTwoTisBody
  NoBody = NoBody  NoLog = NoLog  NoTimes = NoTimes
  Faults = {"db", "redis", "crash"}
SYMMETRY ProcSymmetry
INVARIANTS ShownWasExecuted UnsignedShownWasStored LogIsOnePush IInv
PROPERTIES SignedRowFrozen AckedPushExecuted CoherenceLasts ImplementsRegister
