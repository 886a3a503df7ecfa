SPECIFICATION Spec
CONSTANTS
  s1 = s1
  s2 = s2
  s3 = s3
  Sids = {s1, s2, s3}
  Keeps = {0, 1, 2}
  MaxChanges = 2
INVARIANTS TypeOK Bounded
 
CHECK_DEADLOCK FALSE
