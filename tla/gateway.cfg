SPECIFICATION FairSpec
CONSTANTS
  r1 = r1
  r2 = r2
  a = a
  org = org
  key1 = key1
  key2 = key2
  Requests = {r1, r2}
  Scopes = {org, key1, key2}
  Path <- TwoKeys
  Places <- OnePlace
  Lease <- DefaultLease
  MaxSkew = 1
  Replicas = {a}
  ReplicaOf <- OneReplica
  SkewOf <- ClockSteps
  Streams = {r1}
  Deduplicated = {}
  Chunks = 2
  Retries = 1
  AttemptTime = 1
  Margin = 3
  MaxWait = 1
  WarmTime = 1
  MaxLosses = 1
  None = None
INVARIANTS RunningWithinLimit ReleasedIsGone ExecutedOnce PlacesBounded
PROPERTIES CutIsNotMetered NothingAfterLoss PlacesComeBack
