------------------------------ MODULE MCSessions ------------------------------
(* Small instances of Sessions.                                              *)
EXTENDS Sessions, TLC

NoResets == {}

SessionSymmetry == Permutations(TokenIds) \cup Permutations(Slots) \cup Permutations(ResetIds)

===============================================================================
