SPECIFICATION FairSpec
CONSTANTS
  Mails = {a, b}
  NoMail = NoMail
  MaxAttempts = 2
  BatchSize = 2
  MaxRetries = 1
  MaxCrashes = 1
INVARIANTS
  TypeOK
  GivesUpWhenExhausted
  InFlightUntouched
PROPERTIES
  FinalIsFinal
  Settles
  LivesAsPromised
