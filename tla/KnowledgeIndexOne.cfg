CONSTANTS
  Docs = {d1, d2}
  Contents = {"empty", "long"}
  Configs = {k1}
  NoConfig = NoConfig
  Jobs = {j1, j2, j3}
  Workers = {w1}
  Pieces <- MCPieces
SPECIFICATION MCSpec
INVARIANTS OneGeneration SettledFresh
PROPERTY ReplacedAsAWhole
CHECK_DEADLOCK FALSE
