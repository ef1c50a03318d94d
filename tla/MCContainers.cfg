SPECIFICATION Spec

CONSTANTS
  Keys <- MCKeys
  Hash <- MCHash
  Vals = {v1, v2}
  ListVals = {v1, v2, v3, v4}
  NoVal = NoVal
  Junk = "junk"
  MaxElems = 4
  MaxCells = 4
  MaxEntries = 3
  DefaultSize = 2
  Sizes = {1, 3}
  Words <- MCWords
  Zero = "zero"
  Prealloc = 3
  FormatBuf = 2
  Pieces <- MCPieces
  Separators <- MCSeparators
  Trimmed = {" "}
  Counts = {0, 1, 3}
  Indices <- MCIndices
  MaxText = 3
  Owners = {s1, s2}
  PageWords = 8
  Blank = Blank
  MaxPages = 6
  MaxPushes = 12

INVARIANTS
  ListLinked
  ListMemorySafe
  
  StringSound
  

PROPERTIES
  ListIsItemSeq
  
  MapIsBindings
  TrieIsDictionary
  
