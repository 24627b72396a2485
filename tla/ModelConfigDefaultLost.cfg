CONSTANTS
  a = a
  b = b
  c = c
  s1 = s1
  s2 = s2
  chat = chat
  embedding = embedding
  Ids = {a, b, c}
  Slugs = {s1, s2}
  Types = {chat, embedding}
  Unset = Unset
  Txns = {t1, t2}
  Requests <- MCMarks
SPECIFICATION MCSpec
CHECK_DEADLOCK FALSE
PROPERTIES
  DefaultNeverLost
