SPECIFICATION Spec
CONSTANTS
  Enter = Enter
  Escape = Escape
  Bracket = Bracket
  Backspaces = {Backspace}
  ArrowUp = ArrowUp
  ArrowDown = ArrowDown
  ArrowRight = ArrowRight
  ArrowLeft = ArrowLeft
  Space = Space
  Quotes = {Quote, Apostrophe}
  Zero = Zero
  Ls <- LsWord
  Cat <- CatWord
  Exit <- ExitWord
  Status <- StatusWord
  Others <- OtherWords
  Keys = {Enter, Backspace, Escape, Bracket, ArrowRight, ArrowLeft, Space, Quote, Apostrophe, ArrowUp, Zero}
  Size = 4
CHECK_DEADLOCK FALSE
INVARIANTS
  LineIsCutIntoWords
PROPERTY EditsText
