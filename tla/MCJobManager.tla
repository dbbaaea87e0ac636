---------------------------- MODULE MCJobManager ----------------------------
(***************************************************************************)
(* The job manager for TLC: its threads and its jobs.                      *)
(***************************************************************************)
EXTENDS JobManager

AllThreads == {JobThread, Exchange, Main} \cup Workers
AllJobs    == ConnectionJobs \cup {Invalid, Discover}

=============================================================================
