CONSTANTS
  Half = 4
  PyValues <- MCPyValues
  Letters <- MCLetters
  Trees <- MCTrees
  Changes <- MCChanges
  Depth <- MCDepth
SPECIFICATION ConversionsSpec
INVARIANTS
  ValuesSurvive
  ChangeFaithful
CHECK_DEADLOCK FALSE
