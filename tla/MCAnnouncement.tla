--------------------------- MODULE MCAnnouncement ---------------------------
(* Announcements to applicants who are alike but for their Discord id, for TLC. *)
EXTENDS Announcement, TLC

MCSymmetry == Permutations(Announcements) \cup Permutations(Applicants \ Unreachable)
=============================================================================
