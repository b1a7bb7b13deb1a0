\* An admin batch smaller than its limit is not answered.
SPECIFICATION Spec
CONSTANTS
  ch1 = ch1  ch2 = ch2
  Config = {}
  Code = {}
  MaxCodes = 0
  Channel = {}
  Payload = {}
  KeyLen = {}
  Number = {"A", "B"}
  MaxAsked = 4
  Blank = ""
  AdminMax = 3
  PublicMax = 3
INVARIANTS AdminBatchAnswersAsked
