SPECIFICATION Spec
CONSTANTS
  Mails = {a}
  NoMail = NoMail
  MaxAttempts = 2
  BatchSize = 2
  MaxRetries = 1
  MaxCrashes = 1
PROPERTY
  CleanupSparesUnsent
