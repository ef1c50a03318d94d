SPECIFICATION Spec

CONSTANTS
  Letters = {"a", " "}
  Space = " "
  Zero = "zero"
  Junk = "junk"
  BufSize = 4
  MaxHistory = 2
  Offered <- MCOffered
  ExitLines <- MCExitLines
  Names = {"a", "b"}
  None = "none"
  MaxNodes = 2
  MaxHandles = 3
  Texts <- MCTexts
  Chars = {"{", "}", "[", "]", "quote", "backslash"}
  MaxChars = 5
  MaxTokens = 6

INVARIANTS
  EditorSafe
  
  CommandsHandleCurrent
  TokensNest
  LoadReadsTokens

PROPERTIES
  EditorIsLine
  
  ParserIsBrackets
