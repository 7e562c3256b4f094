\* Three threads, two addresses of one shard.
CONSTANTS
  Thread = {t1, t2, t3}
  Addr = {0, 2}
  NSHARD = 2
  State = {s1, s2, s3}
SPECIFICATION FairSpec
INVARIANTS WaitersCounted
PROPERTIES ImplementsLocks WantedIsTaken
