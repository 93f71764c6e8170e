SPECIFICATION Spec
CONSTANTS
  Tasks = {"web", "ota"}
  Web = "web"
  Versions = {"short", "file", "long"}
  MaxChunks = 3
  Chunks <- MCChunks
  File = "file"
  None = None
INVARIANTS TypeOK StoreIsWhole
PROPERTIES LoadedIsLast
