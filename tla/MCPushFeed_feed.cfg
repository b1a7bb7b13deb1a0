\* Every feed of up to three events, also filed late, and every OMS status.
SPECIFICATION Spec
CONSTANTS
  Node <- MCNode
  MaxTime = 2
  MaxEvents = 3
INVARIANTS TypeOK DeliveredHasItsTime ColumnMatchesDetail ViewsAgree PublicShowsFeed
PROPERTIES TimesAreStable
