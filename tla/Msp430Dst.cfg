SPECIFICATION MCSpec
CONSTANTS
  Hooked = {12300}
  MaxSteps = 1
PROPERTIES DestinationIsRead
