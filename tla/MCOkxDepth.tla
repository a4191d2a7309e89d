----------------------------- MODULE MCOkxDepth -----------------------------
(* Instances of OkxDepth for TLC: the configurations give every constant.  *)
EXTENDS OkxDepth
=============================================================================
