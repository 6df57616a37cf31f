CONSTANTS
  NumNonces = 1
  Triggers = {t1, t2}
  MaxAdvance = 2
SPECIFICATION Spec
PROPERTIES ReadyOnlyReplacedByNewer
