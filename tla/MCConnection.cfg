CONSTANTS
  MaxSends = 3
  Room = 2
SPECIFICATION FairSpec
INVARIANTS TypeOK EndsAgree SecureIsEncrypted OwnedByOneList
PROPERTIES ImplementsChannel CloseEnds
CHECK_DEADLOCK FALSE
