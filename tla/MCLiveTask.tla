----------------------------- MODULE MCLiveTask -----------------------------
(* Two tasks of one page: the answers of the first may meet the second.    *)
EXTENDS LiveTask
=============================================================================
