\* Three callers; as many pids, so that every one of them can leave an orphan.
\* Liveness, so no symmetry.
CONSTANTS
  Threads = {t1, t2, t3}
  Pids = {p1, p2, p3}
  NoPid = NoPid
SPECIFICATION FairSpec
INVARIANTS
  TypeOK
  SingleOwner
  ScriptExclusion
  WaitHasChild
PROPERTIES
  VerdictIsOwn
  ImplementsLifecycle
  RoutineEnds
\* Threads that were cancelled are gone: the system may stop.
CHECK_DEADLOCK FALSE
