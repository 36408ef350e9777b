----------------------------- MODULE MCCodeGrant -----------------------------
(* TLC instances of CodeGrant. *)
EXTENDS CodeGrant, TLC

\* Users, codes and requests are interchangeable.
MCSymmetry == Permutations(Users) \cup Permutations(Codes) \cup Permutations(Handlers)
=============================================================================
