\* One request at a time and no faults, on one number.
SPECIFICATION Spec
CONSTANTS
  p1 = p1  p2 = p2  p3 = p3  n1 = n1  empty = empty
  Proc = {p1}
  Number = {n1}
  EmptyNumber = empty
  WebhookBody <- MCWebhookBody
  TisBody <- MCTisBody
  NoBody = NoBody  NoLog = NoLog  NoTimes = NoTimes
  Faults = {}
INVARIANTS AtRestCoherent AtRestLogFollowsRow
