SPECIFICATION FairSpec
CONSTANTS
  Cancellers = {c1, c2}
  Streams = {s1}
  Tools = {t1}
  Children = {k1}
  MaxGen = 2
CHECK_DEADLOCK FALSE
INVARIANTS TypeOK CancelReachesAll CallbackAtMostOnce OpenStreamsAccounted ReservationIsFresh
PROPERTIES CancelTakesEffect
