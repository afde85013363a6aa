\* Three PEs, an array of two elements of two bits, all programs of at most five calls with
\* sums, and every two reductions in a row.
CONSTANTS
  N = 3
  Size = 2
  Width = 2
  MaxCalls = 5
  Programs <- ExamplePrograms
SPECIFICATION FairSpec
INVARIANTS
  TypeOK
  AsIfInLockStep
  NoPutMeetsReduction
  NeverStuck
PROPERTY
  Termination
