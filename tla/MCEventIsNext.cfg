SPECIFICATION HoursSpec
CONSTANTS
  Week = 7
  Warning1 = 2
  Warning2 = 1
  MaxLines = 2
  MaxLate = 3
PROPERTY EventIsNext
