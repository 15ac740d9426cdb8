CONSTANTS
  SECONDS = 2
  MINUTES = 2
  DAYS = 2
SPECIFICATION Spec
PROPERTY TimeIsCurrent
