----------------------------- MODULE MCStartup -----------------------------
(* An instance of Startup for TLC: two markets, and the entries that       *)
(* differ in something the code looks at.                                  *)
EXTENDS Startup

OneAddress == "tcp://127.0.0.1:5551"
TheOther   == "tcp://127.0.0.1:5552"
MCBindable == {OneAddress, TheOther}
MCGarbage  == {0, 5}

Depths ==
  {[type |-> "none", level |-> 0], [type |-> "other", level |-> 20],
   [type |-> "full", level |-> 20]}
  \cup [type : {"limit"}, level : {1, 5, 20}]

Plain ==
  [wsclass |-> "okx-f", isstart |-> TRUE, usdt |-> TRUE, trade |-> TRUE,
   type |-> "limit", level |-> 20, zmqstr |-> TheOther]

\* Entries in order, but for the type "other", and one of each flaw.
MCEntry ==
  {[Plain EXCEPT !.wsclass = c, !.trade = t, !.type = d.type, !.level = d.level,
                 !.zmqstr = OneAddress] :
     c \in {"binance-f", "okx-f"}, t \in BOOLEAN, d \in Depths}
  \cup {[Plain EXCEPT !.wsclass = c, !.usdt = u] : c \in WsClass, u \in BOOLEAN}
  \cup {[Plain EXCEPT !.wsclass = "unknown", !.trade = FALSE, !.type = "none"],
        [Plain EXCEPT !.isstart = FALSE],
        [Plain EXCEPT !.zmqstr = "tcp:/127.0.0.1:5553"]}
=============================================================================
