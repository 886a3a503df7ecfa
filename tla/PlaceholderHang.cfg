SPECIFICATION Spec
CONSTANTS
  o1 = o1
  w1 = w1
  rand0 = rand0
  rand1 = rand1
  None = None
  Config = Config
  Originals = {o1, w1}
  Words = {w1}
  Labels <- SpelledLabels
  SafeLabel <- SpelledSafeLabel
  RuleLabel <- MCRuleLabel
  Suffixes = {"d0", "d1", rand0, rand1}
  DetSuffix <- MCDetSuffix
  s1 = s1
  s2 = s2
  Sids = {s1}
  RecentTtl = 0
  MappingTtl = 2
  RecentMax = 1
  PruneSlack = 0
  QueueMax = 1
  MaxTime = 0
  MaxRequests = 2
  MaxChanges = 3
  MaxRestarts = 0
  FreshDraws = TRUE
SYMMETRY StoreSymmetry
INVARIANT NoThreadHangs
CHECK_DEADLOCK FALSE
