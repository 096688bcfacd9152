SPECIFICATION FairSpec
CONSTANTS
  a = a
  b = b
  None = None
  Redaction = redacted
  Bytes <- MCBytes
  Credentials <- MCCredentials
  MinSecret = 2
  Cap = 3
  Chunk = 2
  Prompt = 1
  MaxBytes = 4
  Leftover <- MCLeftover
CHECK_DEADLOCK FALSE
INVARIANTS
  OutcomeHonest
  KilledTogether
  LiveFaithful
  NoCredential
PROPERTIES
  SessionEnds
