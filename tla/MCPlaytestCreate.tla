-------------------------- MODULE MCPlaytestCreate --------------------------
(* Requests to create playtests, for TLC. *)
EXTENDS PlaytestCreate, TLC
CONSTANTS c1, c2, k1

\* Two requests for one slug build on AGS; a third takes another slug without AGS.
MCSlug == (c1 :> "s") @@ (c2 :> "s") @@ (k1 :> "t")
=============================================================================
