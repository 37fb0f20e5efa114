SPECIFICATION AuthSpec
CONSTANTS
  a = a
  b = b
  w1 = w1
  w2 = w2
  s1 = s1
  s2 = s2
  r1 = r1
  r2 = r2
  Nobody = Nobody
  t1 = t1
  t2 = t2
  Emails = {a, b}
  Slugs = {w1, w2}
  Seeds = {s1, s2}
  Slots = {r1, r2}
  Tokens = {t1, t2}
  FirstOwner <- MCFirstOwner
  Actors <- MCActors
  PoolSize = 2
  Lifetime = 1
  MaxTime = 1
INVARIANTS SeedsAreAtomic ServedOnlyWhileLoggedIn StarvedByQualityOnly
PROPERTIES EverybodyIsAnswered
CHECK_DEADLOCK FALSE
