CONSTANTS
  Programs = {"simple", "single", "multi"}
  Word = {"ls", "cat", "printenv"}
  BuiltIn = {"printenv"}
  Sources = {"ls"}
  Number = {1, 2}
  Lines <- ShortLines
  MaxTokens = 5
  MaxLines = 3
  max_store_num = 2
  MaxPipes = 3
SPECIFICATION LiveSpec
INVARIANTS Joined EndsHeld
PROPERTY PromptReturns
CHECK_DEADLOCK FALSE
