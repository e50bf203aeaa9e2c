CONSTANTS
  Pods = {p, q}
  HandName = hand
  None = none
  MaxOffers = 2
  MaxByHand = 1
  Assumed = {"lands", "patience", "answers"}
SPECIFICATION Spec
INVARIANTS BillIsNamed SparesWork
PROPERTIES RegisteredUntilGone
CHECK_DEADLOCK FALSE
