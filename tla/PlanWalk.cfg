CONSTANTS
  Owned = {o1, o2}
  Shared = {s1}
  Gone = {g1}
  Queues <- MCQueues
  Candidates <- MCCandidates
SYMMETRY OwnedSymmetry
SPECIFICATION Spec
INVARIANTS GivenOnce HeldInOrder BorrowsOnlyTheShortfall StopsStartSomebody KeepsContract
