CONSTANTS
  Repeat = 2
  Bases <- MCBases
  SeedMod = 8
  Before <- MCBefore
  Cap = 1
  MaxOut = 2
SPECIFICATION FairSpec
INVARIANTS TypeOK VerdictHonest ReportTrue QemuAwaited
PROPERTIES SessionEnds
\* The process exits.
CHECK_DEADLOCK FALSE
