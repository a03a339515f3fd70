SPECIFICATION Lessons
CONSTANTS
  Dirs <- MCDirs
  Start = "home"
  Tree <- MCTree
  Names <- MCNames
  Files <- MCFiles
  Searchable = {"home", "sub"}
  Listable = {"home", "sub", "closed"}
  Writable = {"home", "sub"}
  Sizes = {1, 2}
  MaxCalls = 7
  Threads = 3
  Calls = 2
  Lines = 2
  MaxPrograms = 2
  Units = 2
  Capacity = 1
  MaxChars = 4
  MaxInputs = 2
  Readers = {r1, r2}
  Printers = {p1, p2}
  LineLength <- MCLineLength
  MaxCats = 2
  Users = {u1, u2}
  Addresses = {"address"}
  Bytes = 2
  MaxOpers = 2
  Rows = 3
  Cols = 3
  Beyond = 2
INVARIANTS
  TypesOK
  PanelsInStep
  TidyCallersApart
  ShellTrue
  
  ModulesServe
  EditorKeepsPlace
PROPERTIES
  ThreadsServed
  
  UnloadEnds
CHECK_DEADLOCK FALSE
