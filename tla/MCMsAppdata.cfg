\* All graphlets may be destroyed, so that the system may stop.
SPECIFICATION FairSpec
CONSTANTS
  a = a  b = b  d = d  e = e  t1 = t1  t2 = t2
  Graphlets <- MCGraphlets
  Creators <- MCCreators
  Contents <- MCContents
  Default = d
  Tasks <- MCTasks
  Absent = Absent
CHECK_DEADLOCK FALSE
INVARIANT ToldWhatIsCached
PROPERTY WaitersAreTold
