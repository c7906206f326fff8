CONSTANTS
  Vehicle = {v1}
  Tag = {t1, t2}
  Axis = {lat}
  Pos = {0, 1}
  Eps = 0
  MaxEncodes = 2
SPECIFICATION Spec
PROPERTIES
  OnlyChangedFields
