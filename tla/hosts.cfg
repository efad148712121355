SPECIFICATION FairSpec
CONSTANTS
  Instances = {h1, h2}
  h1 = h1
  h2 = h2
  Nobody = Nobody
  Requests = {r1}
  r1 = r1
  Calls = {"Abort"}
  MaxIds = 2
  MaxPosts = 2
  MaxInits = 2
INVARIANTS TypeOK NoUseAfterDestroy OneThreadPerId NoCallLost
PROPERTIES ImplementsContract CallsArrive DestroyEnds
