\* One request and one retried task on one number, every fault.
SPECIFICATION RFairSpec
CONSTANTS
  p1 = p1  n1 = n1  empty = empty  t1 = t1  t2 = t2
  Proc = {p1}
  Number = {n1}
  EmptyNumber = empty
  WebhookBody <- MCWebhookLabels
  TisBody <- MCNothing
  NoBody = NoBody  NoLog = NoLog  NoTimes = NoTimes
  Faults = {"db", "redis", "crash"}
  Task = {t1}
  MaxRetry = 1
INVARIANTS RInv
PROPERTIES TaskAdvances TaskLeavesExecuted ImplementsRegister TasksEnd CoherentAfterRetries
