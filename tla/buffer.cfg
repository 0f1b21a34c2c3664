CONSTANTS
  MaxBuffer = 3
  Byte = {"a", "b"}
  Zero = "-"
  Data <- MCData
  Split <- MCSplit
SPECIFICATION FairSpec
CONSTRAINT FewSlips
INVARIANTS TypeOK StaysInside WriteArmed
PROPERTIES ReadInOrder SendInOrder CalledWhenDue Answered Drained
CHECK_DEADLOCK FALSE
