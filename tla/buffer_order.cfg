CONSTANTS
  MaxBuffer = 3
  Byte = {"a", "b"}
  Zero = "-"
  Data <- MCData
  Split <- MCSplit
SPECIFICATION Spec
CONSTRAINT FewSlips
PROPERTY SendAlwaysInOrder
CHECK_DEADLOCK FALSE
