CONSTANTS
  Pages = {p1, p2}
  Guards = {p2}
  Threads = {t1, t2}
  MaxEnables = 2
  MaxFails = 1
  PipeSize = 1
SPECIFICATION FairSpec
INVARIANTS TypeOK NotifiesOnce CrashOnlyIfDisturbed OffMeansRestored WatchedTraps
PROPERTY FaultEnds
