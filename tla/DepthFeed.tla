------------------------------ MODULE DepthFeed ------------------------------
(***************************************************************************)
(* What the incremental-depth mode promises to the subscribers of the ZMQ  *)
(* socket, whichever exchange the data comes from: an abstract             *)
(* specification that BinanceDepth and OkxDepth implement.                 *)
(*                                                                         *)
(* A client drafts one message at a time, always about an update at least  *)
(* as new as the last one it drafted for that symbol, and then either      *)
(* sends or drops it.  What it sends has two sides that do not cross and   *)
(* no more than Depth levels each.  A message drafted from a good copy (it *)
(* is "sound") shows no level the exchange did not have at that update.    *)
(* How copies become good, and how often, is not said here.                *)
(***************************************************************************)
EXTENDS DepthBook, Sequences

CONSTANTS
  Symbol,  \* the instruments the client follows
  None     \* no message

VARIABLES
  hist,    \* external: the books of each symbol, by update number
  latest,  \* the update each symbol's last draft was about, 0 = none yet
  draft,   \* the message in the making, or None
  sent     \* what this step sent, None when it sent nothing

feedVars == <<hist, latest, draft, sent>>

Message == [symbol : Symbol, updateid : Nat \ {0}, book : Quote, sound : BOOLEAN]

\* Every level that book shows has the volume that q gives it.
Shows(q, book) == \A l \in Level : book[l] > 0 => book[l] = q[l]

Init ==
  /\ hist \in [Symbol -> {<<q>> : q \in Quote}]
  /\ latest = [s \in Symbol |-> 0]
  /\ draft = None
  /\ sent = None

\* A book changes.
Move(s) ==
  /\ sent' = None
  /\ UNCHANGED <<latest, draft>>
  /\ \E q \in Quote : hist' = [hist EXCEPT ![s] = Append(@, q)]

Draft(s) ==
  /\ draft = None
  /\ draft' \in Message
  /\ draft'.symbol = s
  /\ draft'.updateid \in latest[s] .. Len(hist[s])
  /\ \E q \in Quote : draft'.book = Cut(q, Depth)
  /\ draft'.sound => Shows(hist[s][draft'.updateid], draft'.book)
  /\ latest' = [latest EXCEPT ![s] = draft'.updateid]
  /\ sent' = None
  /\ UNCHANGED hist

Drop ==
  /\ draft # None
  /\ draft' = None
  /\ sent' = None
  /\ UNCHANGED <<hist, latest>>

Ship ==
  /\ draft # None
  /\ TwoSided(draft.book)
  /\ ~Crossed(draft.book)
  /\ sent' = draft
  /\ draft' = None
  /\ UNCHANGED <<hist, latest>>

\* Nothing is sent while the client does other things.
Idle ==
  /\ sent' = None
  /\ UNCHANGED <<hist, latest, draft>>

Next ==
  \/ Idle
  \/ Drop
  \/ Ship
  \/ \E s \in Symbol : Draft(s) \/ Move(s)

Spec == Init /\ [][Next]_feedVars
=============================================================================
