------------------------------ MODULE DepthBook ------------------------------
(***************************************************************************)
(* Order books as the clients see them.                                    *)
(*                                                                         *)
(* A level is a side of the book and a price.  A quote gives every level   *)
(* its volume; volume 0 means that the level is not there, as it does in   *)
(* the exchanges' increments and, through H_MINVALUE, in the clients.      *)
(* The two std::map members m_map_depthfull_ask and m_map_depthfull_bid    *)
(* differ only in their order, StrCompare_Asc and StrCompare_Des, which is *)
(* the order "Ahead" below.                                                *)
(***************************************************************************)
EXTENDS Naturals, FiniteSets

CONSTANTS
  Price,   \* the prices that can be quoted
  Vol,     \* the volumes a level can have, 0 included
  Depth    \* m_subinfo_depth_level: how many levels a side is cut to

ASSUME PriceAssumption == Price \subseteq Nat
ASSUME VolAssumption   == Vol \subseteq Nat /\ 0 \in Vol
ASSUME DepthAssumption == Depth \in Nat \ {0}

Side  == {"ask", "bid"}
Level == Side \X Price
Quote == [Level -> Vol]

\* The best ask is the lowest one, the best bid the highest one.
Ahead(l, m) ==
  /\ l[1] = m[1]
  /\ IF l[1] = "ask" THEN l[2] < m[2] ELSE l[2] > m[2]

\* The levels of S that belong to a side.
OfSide(S, side) == {l \in S : l[1] = side}

\* The first n levels of each side.
TopLevels(q, n) ==
  {l \in Level : /\ q[l] > 0
                 /\ Cardinality({m \in Level : q[m] > 0 /\ Ahead(m, l)}) < n}

\* The same quote with everything behind its first n levels cut off.
Cut(q, n) == [l \in Level |-> IF l \in TopLevels(q, n) THEN q[l] ELSE 0]

\* Neither side is empty (bidsize > 0 && asksize > 0).
TwoSided(q) == \A side \in Side : \E p \in Price : q[<<side, p>>] > 0

\* The best ask does not lie above the best bid (the negation of ask0 > bid0).
Crossed(q) ==
  \E a, b \in Price : q[<<"ask", a>>] > 0 /\ q[<<"bid", b>>] > 0 /\ a <= b

\* The levels on which two quotes differ: what an increment between them names.
Changed(q, r) == {l \in Level : q[l] # r[l]}
==============================================================================
