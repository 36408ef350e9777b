----------------------------- MODULE MCCodePool -----------------------------
(* The code pool of one playtest, for TLC. *)
EXTENDS CodePool

\* Two files that overlap, one that does not, one that repeats a code and one with a line
\* that is no code (0).
MCFiles == {<<11, 12>>, <<12, 13>>, <<15>>, <<14, 14>>, <<14, 0>>}
=============================================================================
