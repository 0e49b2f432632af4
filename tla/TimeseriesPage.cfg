\* Two requests, two datasets of either ship or none, titles written by hand.
SPECIFICATION Spec
CONSTANTS
  v1 = v1
  v2 = v2
  t1 = t1
  None = None
  Null = Null
  Empty = Empty
  Undefined = Undefined
  Datasets = {1, 2}
  Variables = {v1, v2}
  Texts = {t1}
  Selections <- MCSelections
  Times = {2, 8}
  Clock = {9}
  CRUISE_START_TIME = 2
  MAX_NUMBER_DATAPOINTS = 12
  MaxLoads = 2
INVARIANTS TypeOK OneResolution LabelsFitData CountedIsShown
PROPERTIES RefinesFigure
CHECK_DEADLOCK FALSE
