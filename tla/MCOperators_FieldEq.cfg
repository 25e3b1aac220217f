CONSTANTS
  u1 = u1
  u2 = u2
  Car = Car
  Owner = Owner
  Own = Own
  NoData = NoData
  x = x
  y = y
  s = s
  e1 = e1
  e2 = e2
  v0 = v0
  v1 = v1
  Absent = Absent
  KeyErr = KeyErr
  Missing = Missing
  d1 = d1
  d2 = d2
  d3 = d3
  w1 = w1
  w2 = w2
  None = None
  TypeErr = TypeErr
  ParseErr = ParseErr
  NoParser = NoParser
  NoValidator = NoValidator

INIT Init
NEXT Next

INVARIANT EqualFieldsValidateAlike
