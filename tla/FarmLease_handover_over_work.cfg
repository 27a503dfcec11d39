SPECIFICATION Spec
CONSTANTS
  Acquires = {a1, a2}
  Calls = {c1}
  Gradings = {g1}
  Engines = {e1}
  MaxUploads = 1
  None = None
PROPERTIES
  HandsOverAtRest
CHECK_DEADLOCK FALSE
