CONSTANTS
  Docs = {d1}
  Contents = {"short", "long"}
  Configs = {k1}
  NoConfig = NoConfig
  Jobs = {j1, j2, j3}
  Workers = {w1, w2}
  Pieces <- MCPieces
SPECIFICATION MCFairSpec
INVARIANTS TypeOK NoOrphanChunks WholeGenerations
PROPERTIES IndexKept WorkSettles
CHECK_DEADLOCK FALSE
