----------------------------- MODULE MCSummary -----------------------------
(* Instances of Summary for TLC.                                           *)
EXTENDS Summary, TLC

SectionKinds == <<"overview", "decision">>

\* Two spellings of one title.
Spellings == [plain |-> "key", spaced |-> "key"]
Plain == {"plain"}

\* Threads, and stewards, differ by name only.
NameSymmetry == Permutations(Threads) \cup Permutations(Stewards)
=============================================================================
