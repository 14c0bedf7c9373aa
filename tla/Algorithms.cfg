\* Folders one below the other and folders whose names begin alike, several roots;
\* chats of up to 5 messages of which one is longer than the budget; all scripts of
\* up to 5 pieces.
SPECIFICATION Spec
CONSTANTS
  Components <- MCComponents
  AgentNames <- MCNames
  Paths <- MCPaths
  Starts <- MCStarts
  BudgetChars = 5
  StepsWithOutput = 2
  SourceChars = 2
  Omitted = 1
  Kinds <- MCKinds
  Sources = {0, 1, 3}
  MaxChat = 5
  MaxPieces = 5
\* Chats and scripts end at their bounds.
CHECK_DEADLOCK FALSE
INVARIANTS SandboxKeepsTerritory OneWriterPerPath ContextOK WordsAreCommands
