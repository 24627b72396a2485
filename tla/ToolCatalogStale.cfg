CONSTANTS
  r1 = r1
  r2 = r2
  r3 = r3
  k1 = k1
  k2 = k2
  k3 = k3
  a = a
  b = b
  t1 = t1
  t2 = t2
  t3 = t3
  t4 = t4
  Rows = {r1, r2, r3}
  Keys = {k1, k2, k3}
  Confs = {a, b}
  Unset = Unset
  Nothing = Nothing
  Txns = {t1, t2, t3, t4}
  Readers = {f1}
  Requests <- MCRequests
SPECIFICATION MCSpec
INVARIANT QuietFresh
