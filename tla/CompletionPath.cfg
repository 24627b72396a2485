CONSTANTS
  r1 = r1
  r2 = r2
  u1 = u1
  u2 = u2
  agent = agent
  broad = broad
  extract = extract
  tree = tree
  blank = blank
  hub = hub
  shop = shop
  c1 = c1
  s1 = s1
  s2 = s2
  Callers = {r1, r2}
  Users = {u1, u2}
  CredentialIds = {c1}
  Values = {blank, hub, shop}
  Blank = blank
  Absent = Absent
  MasterKeys = {1, 2}
  Payloads <- MCPayloads
  MaxChanges = 1
  Strings = {blank, hub, shop}
  NoExchange = NoExchange
  Lifetimes = {1, 2}
  Margin = 1
  CacheTTL = 2
  MaxLatency = 1
  MaxTime = 1
  RequestLimit = 2
  TokenCounts = {1}
  MaxWaiting = 1
  MaxLosses = 1
  Slugs = {agent, broad, extract, tree}
  Config <- MCConfig
  DefaultSlug <- MCDefaultSlug
  Servers = {s1, s2}
  CredentialOf <- MCCredentialOf
  Requests <- MCRequests
  PoolSize = 1
SPECIFICATION MCSpec
CHECK_DEADLOCK FALSE
INVARIANTS
  TypeOK
  LoggedOnce
  ConnectionsComeBack
  BooksBalance
PROPERTIES
  CachedTokenFits
