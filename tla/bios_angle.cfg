SPECIFICATION BiosSpec
CONSTANTS
  NumberWidth = 16
  Jobs <- Points
INVARIANT AngleInQuadrant
CHECK_DEADLOCK FALSE
