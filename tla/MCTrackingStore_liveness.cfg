\* Two requests, Redis faults and crashes, under the fairness of the code.
SPECIFICATION FairSpec
CONSTANTS
  p1 = p1  p2 = p2  p3 = p3  n1 = n1  empty = empty
  Proc = {p1, p2}
  Number = {n1}
  EmptyNumber = empty
  WebhookBody <- MCWebhookLabel
  TisBody <- MCReceivedLabel
  NoBody = NoBody  NoLog = NoLog  NoTimes = NoTimes
  Faults = {"redis", "crash"}
PROPERTIES RequestsEnd EventuallyCoherent
