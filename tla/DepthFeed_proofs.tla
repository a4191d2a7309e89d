--------------------------- MODULE DepthFeed_proofs ---------------------------
(***************************************************************************)
(* What a subscriber can rely on, whichever client it listens to: the      *)
(* consequences of DepthFeed.  BinanceDepth and OkxDepth implement         *)
(* DepthFeed, so this holds of what they send.                             *)
(***************************************************************************)
EXTENDS DepthFeed, DepthBook_proofs

\* A message can be used as it is: both sides are there, they do not cross and
\* have no more levels than were asked for; it is about an update the exchange has
\* made, and a sound one shows only what the exchange showed then.
Usable(m) ==
  /\ m \in Message
  /\ TwoSided(m.book) /\ ~Crossed(m.book)
  /\ \A side \in Side : Cardinality(OfSide(Present(m.book), side)) <= Depth
  /\ m.updateid <= Len(hist[m.symbol])
  /\ m.sound => Shows(hist[m.symbol][m.updateid], m.book)

SentIsUsable == sent # None => Usable(sent)

\* The last message of a symbol carries the number that latest keeps.
SentIsLatest == sent # None => sent.updateid = latest[sent.symbol]

NumbersAdvance == \A s \in Symbol : latest'[s] >= latest[s]

----------------------------------------------------------------------------
Drafted(m) ==
  /\ m \in Message
  /\ \E q \in Quote : m.book = Cut(q, Depth)
  /\ m.updateid = latest[m.symbol]
  /\ m.sound => Shows(hist[m.symbol][m.updateid], m.book)

FeedInv ==
  /\ hist \in [Symbol -> Seq(Quote) \ {<< >>}]
  /\ latest \in [Symbol -> Nat]
  /\ \A s \in Symbol : latest[s] <= Len(hist[s])
  /\ draft # None => Drafted(draft)
  /\ sent # None => Drafted(sent) /\ TwoSided(sent.book) /\ ~Crossed(sent.book)

LEMMA FeedInvInit == Init => FeedInv
<1> SUFFICES ASSUME Init PROVE FeedInv
  OBVIOUS
<1>1. \A q \in Quote : <<q>> \in Seq(Quote) \ {<< >>} /\ Len(<<q>>) = 1
  OBVIOUS
<1>2. hist \in [Symbol -> Seq(Quote) \ {<< >>}] /\ \A s \in Symbol : Len(hist[s]) = 1
  BY <1>1 DEF Init
<1> QED BY <1>2 DEF Init, FeedInv

LEMMA FeedInvStep == FeedInv /\ [Next]_feedVars => FeedInv' /\ NumbersAdvance
<1> SUFFICES ASSUME FeedInv, [Next]_feedVars PROVE FeedInv' /\ NumbersAdvance
  OBVIOUS
<1> USE DEF FeedInv
<1>1. CASE UNCHANGED <<hist, latest, draft>> /\ sent' \in {None, sent}
  <2>1. NumbersAdvance
    BY <1>1 DEF NumbersAdvance
  <2> QED BY <1>1, <2>1 DEF Drafted
<1>2. CASE Drop \/ Ship
  <2>1. /\ UNCHANGED <<hist, latest>>
        /\ draft # None /\ draft' = None /\ sent' \in {None, draft}
        /\ sent' # None => TwoSided(draft.book) /\ ~Crossed(draft.book)
    BY <1>2 DEF Drop, Ship
  <2>2. NumbersAdvance
    BY <2>1 DEF NumbersAdvance
  <2> QED BY <2>1, <2>2 DEF Drafted
<1>3. ASSUME NEW s \in Symbol, Move(s) PROVE FeedInv' /\ NumbersAdvance
  <2>1. PICK q \in Quote : hist' = [hist EXCEPT ![s] = Append(@, q)]
    BY <1>3 DEF Move
  <2>2. sent' = None /\ UNCHANGED <<latest, draft>>
    BY <1>3 DEF Move
  <2>3. hist' \in [Symbol -> Seq(Quote) \ {<< >>}]
    BY <2>1
  <2>4. \A r \in Symbol : /\ Len(hist[r]) \in Nat /\ Len(hist'[r]) \in Nat
                          /\ Len(hist[r]) <= Len(hist'[r])
                          /\ \A k \in 1 .. Len(hist[r]) : hist'[r][k] = hist[r][k]
    BY <2>1
  <2>5. \A r \in Symbol : latest'[r] <= Len(hist'[r])
    BY <2>2, <2>4
  <2>6. ASSUME draft # None PROVE Drafted(draft)'
    <3>1. Drafted(draft) /\ draft.symbol \in Symbol /\ draft.updateid \in Nat \ {0}
      BY <2>6 DEF Drafted, Message
    <3>2. draft.updateid \in 1 .. Len(hist[draft.symbol])
      BY <2>4, <3>1 DEF Drafted
    <3>3. hist'[draft.symbol][draft.updateid] = hist[draft.symbol][draft.updateid]
      BY <2>4, <3>1, <3>2
    <3> QED BY <2>2, <3>1, <3>3 DEF Drafted
  <2>7. NumbersAdvance
    BY <2>2 DEF NumbersAdvance
  <2> QED BY <2>2, <2>3, <2>5, <2>6, <2>7
<1>4. ASSUME NEW s \in Symbol, Draft(s) PROVE FeedInv' /\ NumbersAdvance
  <2>1. /\ hist' = hist /\ sent' = None
        /\ draft' \in Message /\ draft'.symbol = s
        /\ draft'.updateid \in latest[s] .. Len(hist[s])
        /\ latest' = [latest EXCEPT ![s] = draft'.updateid]
        /\ \E q \in Quote : draft'.book = Cut(q, Depth)
        /\ draft'.sound => Shows(hist[s][draft'.updateid], draft'.book)
    BY <1>4 DEF Draft
  <2>2. draft'.updateid \in Nat
    BY <2>1 DEF Message
  <2>3. latest' \in [Symbol -> Nat] /\ latest'[s] = draft'.updateid
        /\ \A r \in Symbol \ {s} : latest'[r] = latest[r]
    BY <2>1, <2>2
  <2>4. \A r \in Symbol : latest'[r] <= Len(hist'[r])
    BY <2>1, <2>3
  <2>5. Drafted(draft)'
    BY <2>1, <2>3 DEF Drafted
  <2>6. NumbersAdvance
    BY <2>1, <2>3 DEF NumbersAdvance
  <2> QED BY <2>1, <2>3, <2>4, <2>5, <2>6
<1> QED BY <1>1, <1>2, <1>3, <1>4 DEF Next, Idle, feedVars

\* A message cut to Depth levels has no more than Depth levels a side.
LEMMA CutIsShort ==
  ASSUME IsFiniteSet(Price), NEW q \in Quote, NEW side
  PROVE  Cardinality(OfSide(Present(Cut(q, Depth)), side)) <= Depth
<1>1. OfSide(Present(Cut(q, Depth)), side) \subseteq OfSide(TopLevels(q, Depth), side)
  BY DEF OfSide, Present, Cut
<1>2. OfSide(TopLevels(q, Depth), side) \subseteq Level
  BY DEF OfSide, TopLevels
<1>3. /\ Cardinality(OfSide(Present(Cut(q, Depth)), side))
           <= Cardinality(OfSide(TopLevels(q, Depth), side))
      /\ Cardinality(OfSide(Present(Cut(q, Depth)), side)) \in Nat
      /\ Cardinality(OfSide(TopLevels(q, Depth), side)) \in Nat
  BY <1>1, <1>2, FewerLevels, FiniteLevels
<1>4. OfSide(Present(q), side) \subseteq Level
  BY DEF OfSide, Present
<1>5. Cardinality(OfSide(Present(q), side)) \in Nat
  BY <1>4, FiniteLevels
<1>6. Cardinality(OfSide(TopLevels(q, Depth), side)) <= Depth
  BY <1>5, CutLeavesTheFirst, DepthAssumption
<1> QED BY <1>3, <1>6, DepthAssumption

\* Every message that is sent can be used as it is, whatever the client's copy
\* was worth (mf_parse_depth_full of both clients).
THEOREM MessagesAreUsable ==
  ASSUME IsFiniteSet(Price) PROVE Spec => []SentIsUsable
<1>1. FeedInv => SentIsUsable
  <2> SUFFICES ASSUME FeedInv, sent # None PROVE Usable(sent)
    BY DEF SentIsUsable
  <2>1. Drafted(sent) /\ TwoSided(sent.book) /\ ~Crossed(sent.book)
    BY DEF FeedInv
  <2>2. PICK q \in Quote : sent.book = Cut(q, Depth)
    BY <2>1 DEF Drafted
  <2>3. \A side \in Side : Cardinality(OfSide(Present(sent.book), side)) <= Depth
    BY <2>2, CutIsShort
  <2>4. sent.updateid <= Len(hist[sent.symbol])
    BY <2>1 DEF Drafted, FeedInv, Message
  <2> QED BY <2>1, <2>3, <2>4 DEF Usable, Drafted
<1> QED BY <1>1, FeedInvInit, FeedInvStep, PTL DEF Spec

\* The messages of a symbol never go back to an older update: each carries the
\* number kept for its symbol, and that number only grows, also across
\* reconnects and refreshes (c_depthfull_lastu, which no clear resets).
THEOREM MessagesNeverGoBack == Spec => []SentIsLatest /\ [][NumbersAdvance]_feedVars
<1>1. FeedInv => SentIsLatest
  BY DEF FeedInv, Drafted, SentIsLatest
<1> QED BY <1>1, FeedInvInit, FeedInvStep, PTL DEF Spec
==============================================================================
