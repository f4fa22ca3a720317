SPECIFICATION WebhookSpec
CONSTANTS
  s1 = s1
  s2 = s2
  s3 = s3
  s4 = s4
  s5 = s5
  s6 = s6
  s7 = s7
  Signatures <- MCSignatures
  Malformed = Malformed
  Payloads <- MCPayloads
  MaxSignatures = 6
  Concurrency = 3
INVARIANT ResponseIsFaithful
PROPERTIES ImplementsTaskBag DeliveryAnswered
CHECK_DEADLOCK FALSE
