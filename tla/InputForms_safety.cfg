\* The three forms over 40 inputs and 6 kinds of text; the list has up to two lines and takes one.
CONSTANTS
  Inputs <- MCInputs
  Lines <- MCLines
  MaxLines = 2
  MaxUrls = 1
SPECIFICATION Spec
INVARIANTS
  ErrorMatchesText
  ToolTakesWhatFormGave
  FormGivesWhatToolTakes
