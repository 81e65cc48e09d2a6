\* Three children (the code starts two): a first, a middle and a last one.
SPECIFICATION FairSpec
CONSTANT N = 3
INVARIANTS
  TypeOK
  NoOrphan
  EveryoneAsked
  NotSelfInflicted
PROPERTIES
  GraceBeforeKill
  Stops
