------------------------------ MODULE MCSurvey ------------------------------
(* The survey and NDA of one playtest, for TLC. *)
EXTENDS Survey, TLC
CONSTANTS t1, t2

\* Two NDA texts to switch between, and no NDA.
MCForms == [required : {TRUE}, nda : {t1, t2}] \cup {[required |-> FALSE, nda |-> None]}

\* An admin publishes and edits while the replica restarts; an EditPlaytest is in the way
\* of the edits; a survey is published to players who are accepting an NDA; players accept
\* and answer while the NDA is edited.
Publishing == {"CreateSurvey", "EditSurvey", "SoftDelete", "Restart", "RequestFails"}
Republishing == {"EditSurvey", "EditPlaytest", "Restart", "RequestFails"}
Telling == {"CreateSurvey", "EditPlaytest", "AcceptNDA", "RequestFails"}
Answering == {"EditPlaytest", "AcceptNDA", "SubmitSurveyResponse", "Close", "RequestFails"}
MCLoads == {Publishing, Republishing, Telling, Answering}

\* Nothing but edits of a survey, none of which fails.
EditsOnly == {{"EditSurvey"}}

\* A survey is published and edited, and the replica restarts.
EditsAndRestart == {{"CreateSurvey", "EditSurvey", "Restart"}}
=============================================================================
