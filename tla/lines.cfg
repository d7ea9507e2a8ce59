CONSTANTS
  Programs = {"simple", "multi"}
  Word = {"ls", "who"}
  BuiltIn = {"who"}
  Number = {2}
  Lines <- AllLines
  MaxTokens = 4
  MaxLines = 2
SPECIFICATION Spec
INVARIANTS CellsSound CommandsRun
CHECK_DEADLOCK FALSE
