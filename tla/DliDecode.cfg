SPECIFICATION Spec
CHECK_DEADLOCK FALSE
CONSTANTS
  LineWidth = 4
  ImageWidth = 3
  Descramble <- MCDescramble
  Swipes <- MCSwipes
  FirstSeqs = {6, 255}
  Cuts = {0, 1}
  Junk = Junk
INVARIANTS
  LinesApart
  ImageIsLine
  LeadingKept
