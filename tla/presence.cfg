CONSTANTS
  ann = ann bob = bob r1 = r1 r2 = r2 s1 = s1 s2 = s2 s3 = s3 None = None
  Users = {ann, bob}
  Rooms = {r1, r2}
  Sockets = {s1, s2, s3}
  Owner <- AnnTwiceAndBob
  MaxWaiting = 2
SPECIFICATION MCFairSpec
CHECK_DEADLOCK FALSE
INVARIANTS PresenceExact
PROPERTIES AbandonedIsRemoved ExpiryEndsGame ClosedIsForgotten
