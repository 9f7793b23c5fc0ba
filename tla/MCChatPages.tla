----------------------------- MODULE MCChatPages -----------------------------
(* Instances of ChatPages for TLC. *)
EXTENDS ChatPages, TLC
ConvSymmetry == Permutations(Convs)

\* Each excuse alone and every two of them together: behind a third, fewer and fewer
\* properties say anything.
Mishaps ==
  (IF clues.moved # {} THEN {"moved"} ELSE {}) \cup
  (IF clues.unsaved # {} THEN {"unsaved"} ELSE {}) \cup
  (IF clues.lost # {} THEN {"lost"} ELSE {}) \cup
  {mishap \in {"crossed", "hasty"} : clues[mishap]}
TwoMishaps == Cardinality(Mishaps) <= 2
=============================================================================
