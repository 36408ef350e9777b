---------------------------- MODULE MCAdtLinkage ----------------------------
(* Callbacks, unlinks and build changes that overlap, for TLC. *)
EXTENDS AdtLinkage, TLC

\* Everything that moves the linkage; and a linkage that moves under the build.
MCLoads ==
  {Completes \cup Unlinks \cup Recovers} \cup
  {{l, u} \cup Changes \cup Probes : l \in Completes, u \in Unlinks}

\* Calls of one kind and states are alike, and MCLoads is closed under swapping them.
MCSymmetry == Permutations(Completes) \cup Permutations(Unlinks) \cup Permutations(States)
=============================================================================
