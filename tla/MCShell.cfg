SPECIFICATION MCSpec
CONSTANTS
  LINE = 5
  Letters = {t, a}
  Words = {t}
  Letter = a
  Space = Space
  Tab = Tab
  Escape = Escape
  Backspace = Backspace
  Newline = Newline
  Prompt = Prompt
  NUL = NUL
  COLS = 4
  ROWS = 2
  FBCOLS = 3
  FBROWS = 2
  CHAR_W = 9
  Middle <- MiddleOfScreen
  LABEL = 1
INVARIANTS TypeOK LineIsTyped EchoIsExact CommandIsFirstWord ArgumentIsRest
