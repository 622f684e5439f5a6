------------------------- MODULE MCInterviewSession -------------------------
(* InterviewSession on small instances, for TLC.                            *)
EXTENDS InterviewSession
=============================================================================
