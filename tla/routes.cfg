SPECIFICATION Spec
CONSTANTS
  W = W  C = C  T = T  O = O  None = None  t1 = t1  t2 = t2
  s1 = s1  s2 = s2  s3 = s3  p1 = p1  p2 = p2  d1 = d1  d2 = d2
  Warehouse = W
  Production = {C, T}
  Splitting = {C}
  Outside = O
  NoSerial = None
  SharedSerial = shared
  NoTask = None
  KeyOf <- McKeyOf
  People = {p1, p2}
  Admins = {p2}
  Drawings = {d1, d2}
  MaxDrawings = 1
  Serials = {s1, s2, s3}
  Cases <- McCases
INVARIANTS TypeOK FilesHangTogether WorkFollowsThePath AnswersAgree
PROPERTY PublishedAsReviewed
CHECK_DEADLOCK FALSE
