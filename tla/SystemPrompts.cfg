CONSTANTS
  p = p
  q = q
  n1 = n1
  n2 = n2
  blank = blank
  text = text
  c = c
  Ids = {p, q}
  Names = {n1, n2}
  Contents = {blank, text}
  Blank = blank
  Configs = {c}
  None = None
  Txns = {t1, t2, t3}
  Requests <- MCRequests
SPECIFICATION MCSpec
SYMMETRY MCSymmetry
CHECK_DEADLOCK FALSE
INVARIANTS
  TypeOK
  Integrity
  NumbersWithoutGap
  RunHasPrompt
PROPERTIES
  UpdateTakesEffect
