--------------------------- MODULE MCBinanceDepth ---------------------------
(* Instances of BinanceDepth for TLC: the configurations give every        *)
(* constant.                                                               *)
EXTENDS BinanceDepth
=============================================================================
