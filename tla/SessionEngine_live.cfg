\* Two connections and the main thread at one session.
SPECIFICATION FairSpec
CONSTANTS
  None = None
  c1 = c1  c2 = c2  s1 = s1  s2 = s2
  Main = Main
  Reader = Reader
  Sessions = {s1}
  Conns = {c1, c2}
  Room = 2
  MaxOutput = 1
  MaxRequests = 5
CHECK_DEADLOCK FALSE
INVARIANTS
  TypeOK
  NothingLeftBehind
  LastWords
PROPERTIES
  RequestsReturn
  FollowersLearn
