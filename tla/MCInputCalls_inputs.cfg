\* Every configuration, payload and batch.
SPECIFICATION Spec
CONSTANTS
  ch1 = ch1  ch2 = ch2
  Config <- MCConfig
  Code = {48, 57, 84, 89}
  MaxCodes = 2
  Channel = {ch1, ch2}
  Payload <- MCPayload
  KeyLen = {15, 16, 24, 32}
  Number = {"A", "B"}
  MaxAsked = 4
  Blank = ""
  AdminMax = 3
  PublicMax = 3
INVARIANTS RolloutIsMonotone RolloutShare OpensWhatWasPadded BatchInOrder
