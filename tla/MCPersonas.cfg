SPECIFICATION Spec
CONSTANTS
  N = 2
  Names = {a, b}
  NoName = NoName
  Values = {u, v}
  NoValue = NoValue
  MaxId = 3
INVARIANTS OneRecordEach OnlyClashesLose
SYMMETRY Alike
