--------------------------- MODULE MCJobQueueCalm ---------------------------
(* The instances of MCJobQueue for JobQueueCalm. *)
EXTENDS JobQueueCalm, MCJobQueue
=============================================================================
