CONSTANTS
  Docs = {d1}
  Contents = {"short", "long"}
  Configs = {k1}
  NoConfig = NoConfig
  Jobs = {j1, j2}
  Workers = {w1, w2}
  Pieces <- MCPieces
SPECIFICATION MCSpec
INVARIANT OneGeneration
CHECK_DEADLOCK FALSE
