SPECIFICATION Spec
CONSTANTS
  None = None
  Second = 2
  SlowDownIncrement = 1
  DefaultExpiry = 3
  DefaultInterval = 2
  FieldAliases <- MCFieldAliases
  ErrorAliases <- MCErrorAliases
  ClassifyHook <- MCClassifyHook
  DeviceResponses <- MCDeviceResponses
  Dialect <- MCDialect
  Timeouts <- MCTimeouts
  MaxDuration = 20
  MaxOrigin = 1
  MaxElapsed = 11
  MaxAnswered = 2
INVARIANTS OutcomeHonest TokenNotDiscarded RepliesUnderstood
PROPERTIES PollSpacing CountdownHonoured PaceHonoured
PROPERTIES ImplementsLogin Terminates
