\* Two cells, three rows of which one has no image, four loads.
CONSTANTS
  Cells = {c1, c2}
  Rows = {a, b, plain}
  PlainRows = {plain}
  NoRow = NoRow
  Blank = Blank
  Default = Default
  MaxLoads = 4

SPECIFICATION Spec
INVARIANTS TypeOK OwnImage NoneLeftBlank
PROPERTIES RightImageStays RowIsServed SpinnerStops
