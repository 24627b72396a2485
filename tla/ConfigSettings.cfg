CONSTANTS
  w1 = w1
  w2 = w2
  gpt = gpt
  small = small
  old = old
  new = new
  embed = embed
  u1 = u1
  Unset = Unset
  Omitted = Omitted
  Writers = {w1, w2}
  MinSize = 2
  MaxSize = 4
  MaxChunks = 3
  EmbeddingModels <- MCEmbeddingModels
  Given <- MCGiven
  Patches <- MCPatches
  Lengths = {0, 1, 3, 5, 8}
  MaxUpdates = 3
  ModelIds = {gpt, old, new, embed}
  InScope = {gpt, old, new}
  NoModel = NoModel
  TicksPerDay = 2
  NoDate = NoDate
  Adapters = {"openai", "anthropic"}
  Listings <- MCListings
  Logs <- MCLogs
  Days = {0, 1, 2}
  Limits = {1, 3}
SPECIFICATION MCSpec
SYMMETRY Symmetry
CHECK_DEADLOCK FALSE
INVARIANTS
  SettingsLegal
  ChunksCover
  ReportsExact
