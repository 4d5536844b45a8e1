SPECIFICATION Spec
CONSTANTS
  None = None
  Bytes <- MCBytes
  Transform <- MCTransform
  Configs <- MCConfigs
  Answers <- MCAnswers
  Urls <- MCUrls
INVARIANTS TargetsTrusted RecordsFound Authenticated
