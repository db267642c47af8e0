\* A screen of 8 by 6 pixels with two lines of 4 characters, or of 3 after a zoom.
CONSTANTS
  ScreenWidth = 8
  ScreenHeight = 6
  Widths <- TwoWidths
  Heights <- TwoHeights
  FONT_CHAR_GAP = 1
  TAB_SPACES = 2
  Strings <- SomeStrings
SPECIFICATION ScreenSpec
INVARIANTS CursorOnScreen WordsStayWhole
PROPERTIES NeverWritesOver
