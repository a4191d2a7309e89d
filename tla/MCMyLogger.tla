----------------------------- MODULE MCMyLogger -----------------------------
(* Instances of MyLogger for TLC: the configurations give every constant.  *)
(* LinesAreWritten is a liveness property, so the threads are not taken to *)
(* be interchangeable.                                                     *)
EXTENDS MyLogger
=============================================================================
