CONSTANTS
  a = a
  b = b
  c = c
  s1 = s1
  s2 = s2
  chat = chat
  embedding = embedding
  Ids = {a, b, c}
  Slugs = {s1, s2}
  Types = {chat, embedding}
  Unset = Unset
  Txns = {t1, t2}
  Requests <- MCRequests
SPECIFICATION MCSpec
CHECK_DEADLOCK FALSE
INVARIANTS
  TypeOK
  Unique
PROPERTIES
  SuppliedFieldsOnly
  DefaultKept
  RequestsEnd
