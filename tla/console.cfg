SPECIFICATION Spec
CONSTANTS
  Width = 4
  Height = 2
  Tab = 2
  Script <- MCScript
INVARIANTS
  ConsoleTypeOK
  StraysStayNear
  CursorOnScreen
PROPERTIES
  PromptKept
