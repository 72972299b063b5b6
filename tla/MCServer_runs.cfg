CONSTANTS
  Configs <- MCConfigs
  Credentials <- MCCredentials
  Files <- MCFiles
  MaxStarts = 2
  MaxSessions = 1
  MaxEdits = 1
SPECIFICATION Spec
INVARIANTS TypeOK Admission HostKeyStable
PROPERTY ShutsDown
CHECK_DEADLOCK FALSE
