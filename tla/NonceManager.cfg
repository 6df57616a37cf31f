CONSTANTS
  NumNonces = 2
  Triggers = {t1, t2}
  MaxAdvance = 1
SPECIFICATION FairSpec
INVARIANTS NeverAheadOfChain ExclusiveLease
PROPERTIES AlwaysRepaired
