------------------------- MODULE BinanceDepth_proofs -------------------------
(***************************************************************************)
(* What holds of BinanceDepth for every set of symbols, prices, volumes,   *)
(* every Depth and every bound: type correctness, that a mirrored copy     *)
(* shows nothing the exchange does not have but what an older image        *)
(* brought back, and misses nothing but what was cut off its image, that   *)
(* this does no harm until levels are missing in the range of the image,   *)
(* that what is sent of a faithful copy is the top of the exchange's book, *)
(* that entries only advance, how many steps a refresh takes, and that     *)
(* the client implements DepthFeed and keeps what DepthFeed_proofs shows   *)
(* of it.                                                                  *)
(***************************************************************************)
EXTENDS BinanceDepth, DepthBook_proofs

Book == [Level -> Stored \cup {Absent}]

\* Looking at a copy gives a quote.
LEMMA ViewQuote == ASSUME NEW b \in Book PROVE View(b) \in Quote
<1> SUFFICES ASSUME NEW l \in Level PROVE b[l].vol \in Vol
  BY DEF View, Quote
<1>1. b[l] \in Stored \cup {Absent}
  BY DEF Book
<1> QED BY <1>1, VolAssumption DEF Stored, Absent

\* An increment, and an image, turn a copy into a copy.
LEMMA ApplyDiffBook ==
  ASSUME NEW b \in Book, NEW u \in Nat \ {0}, NEW T, NEW q \in Quote
  PROVE  ApplyDiff(b, u, T, q) \in Book
<1> SUFFICES ASSUME NEW l \in Level
             PROVE  ApplyDiff(b, u, T, q)[l] \in Stored \cup {Absent}
  BY DEF Book, ApplyDiff
<1>1. b[l] \in Stored \cup {Absent}
  BY DEF Book
<1>2. q[l] \in Vol /\ q[l] \in Nat
  BY VolAssumption DEF Quote
<1>3. q[l] > 0 => [updateid |-> u, vol |-> q[l]] \in Stored
  BY <1>2 DEF Stored
<1> QED BY <1>1, <1>3 DEF ApplyDiff

LEMMA ApplyImageBook ==
  ASSUME NEW b \in Book, NEW id \in Nat \ {0}, NEW q \in Quote
  PROVE  ApplyImage(b, id, q) \in Book
<1> SUFFICES ASSUME NEW l \in Level
             PROVE  ApplyImage(b, id, q)[l] \in Stored \cup {Absent}
  BY DEF Book, ApplyImage
<1>1. b[l] \in Stored \cup {Absent}
  BY DEF Book
<1>2. q[l] \in Vol /\ q[l] \in Nat
  BY VolAssumption DEF Quote
<1>3. q[l] > 0 => [updateid |-> id, vol |-> q[l]] \in Stored
  BY <1>2 DEF Stored
<1> QED BY <1>1, <1>3 DEF ApplyImage

\* The exchange only adds to its books.
LEMMA HistoryGrows ==
  ASSUME NEW h \in [Symbol -> Seq(Quote) \ {<< >>}], NEW g,
         NEW s \in Symbol, NEW q \in Quote, g = [h EXCEPT ![s] = Append(@, q)]
  PROVE  /\ g \in [Symbol -> Seq(Quote) \ {<< >>}]
         /\ \A r \in Symbol : /\ Len(h[r]) \in Nat /\ Len(g[r]) \in Nat
                              /\ Len(h[r]) <= Len(g[r])
                              /\ \A k \in 1 .. Len(h[r]) : g[r][k] = h[r][k]
OBVIOUS

----------------------------------------------------------------------------
(* Type correctness needs one more fact to be inductive: the image that    *)
(* waits to be parsed is one of the books the exchange has had.            *)

ImageKnown ==
  image # None => /\ image.updateid <= Len(hist[image.symbol])
                  /\ ppc = "fetch"
                  /\ image.symbol \in todo

TypeInv == TypeOK /\ ImageKnown

LEMMA TypeInit == Init => TypeInv
<1> SUFFICES ASSUME Init PROVE TypeInv
  OBVIOUS
<1>1. hist \in [Symbol -> Seq(Quote) \ {<< >>}]
  <2>1. \A q \in UncrossedQuote : <<q>> \in Seq(Quote) \ {<< >>}
    BY DEF UncrossedQuote
  <2>2. hist \in [Symbol -> {<<q>> : q \in UncrossedQuote}]
    BY DEF Init
  <2> QED BY <2>1, <2>2
<1>2. map_depthfull \in [Symbol -> Book]
  BY DEF Init, Empty, Book
<1> QED BY <1>1, <1>2, BoundAssumption DEF Init, TypeInv, TypeOK, ImageKnown, Book

LEMMA TypeStep == TypeInv /\ [Next]_vars => TypeInv'
<1> SUFFICES ASSUME TypeInv, [Next]_vars PROVE TypeInv'
  OBVIOUS
<1> USE DEF TypeInv, TypeOK
<1>0. map_depthfull \in [Symbol -> Book]
  BY DEF Book
<1>1. ASSUME NEW s \in Symbol, ExchangeUpdate(s) PROVE TypeInv'
  <2>1. PICK q \in Quote : hist' = [hist EXCEPT ![s] = Append(@, q)]
    BY <1>1 DEF ExchangeUpdate, UncrossedQuote
  <2>2. /\ hist' \in [Symbol -> Seq(Quote) \ {<< >>}]
        /\ \A r \in Symbol : Len(hist[r]) <= Len(hist'[r])
    BY <2>1, HistoryGrows
  <2>3. ImageKnown'
    BY <1>1, <2>2 DEF ExchangeUpdate, ImageKnown, ping
  <2> QED BY <1>1, <2>2, <2>3 DEF ExchangeUpdate, conn, ping, ghost
<1>2. ASSUME NEW s \in Symbol, ServerSubscribe(s) PROVE TypeInv'
  BY <1>2 DEF ServerSubscribe, conn, ping, ghost, ImageKnown
<1>3. CASE on_open
  BY <1>3, BoundAssumption DEF on_open, exchange, ghost, ImageKnown
<1>4. CASE on_close
  BY <1>4 DEF on_close, ping, ghost, ImageKnown
<1>5. CASE on_message_other
  BY <1>5 DEF on_message_other, exchange, ping, ghost, ImageKnown
<1>6. ASSUME NEW s \in Symbol, mf_parse_depth_full(s) PROVE TypeInv'
  <2> DEFINE u == feed[s]
             T == Changed(hist[s][u - 1], hist[s][u])
             b == ApplyDiff(map_depthfull[s], u, T, hist[s][u])
  <2>1. u \in Nat \ {0} /\ hist[s][u] \in Quote
    BY <1>6 DEF mf_parse_depth_full
  <2>2. b \in Book
    <3> HIDE DEF T, u
    <3> QED BY <1>0, <2>1, ApplyDiffBook
  <2>3. map_depthfull' = [map_depthfull EXCEPT ![s] = b]
    BY <1>6 DEF mf_parse_depth_full
  <2>4. map_depthfull' \in [Symbol -> Book] /\ map_depthfull'[s] = b
    <3> HIDE DEF b
    <3> QED BY <1>0, <2>2, <2>3
  <2>5. Cut(View(map_depthfull'[s]), Depth) \in Quote
    <3> HIDE DEF b
    <3> QED BY <2>2, <2>4, ViewQuote, CutQuote
  <2>6. msg' \in Message
    <3>1. msg' = [symbol |-> s, updateid |-> u,
                  book |-> Cut(View(map_depthfull'[s]), Depth),
                  sound |-> Faithful(s)']
      BY <1>6 DEF mf_parse_depth_full
    <3>2. Faithful(s)' \in BOOLEAN
      BY DEF Faithful, Mirrored
    <3> HIDE DEF u
    <3> QED BY <2>1, <2>5, <3>1, <3>2 DEF Message
  <2>7. first' \in [Symbol -> Nat] /\ missed' \in [Symbol -> BOOLEAN]
    <3>1. first' = [first EXCEPT ![s] = IF first[s] = 0 THEN u ELSE first[s]]
      BY <1>6 DEF mf_parse_depth_full
    <3>2. missed' = [missed EXCEPT ![s] = missed[s] \/
                       (first[s] # 0 /\ c_depthfull_lastu[s] # u - 1)]
      BY <1>6 DEF mf_parse_depth_full
    <3>3. (missed[s] \/ (first[s] # 0 /\ c_depthfull_lastu[s] # u - 1)) \in BOOLEAN
      OBVIOUS
    <3> HIDE DEF u
    <3> QED BY <2>1, <3>1, <3>2, <3>3
  <2>8. ImageKnown'
    BY <1>6 DEF mf_parse_depth_full, ImageKnown, ping
  <2> HIDE DEF b, T
  <2> QED BY <1>6, <2>1, <2>4, <2>6, <2>7, <2>8 DEF mf_parse_depth_full, ping, Book
<1>7. CASE Publish
  BY <1>7 DEF Publish, Withhold, Send, RefuseCrossed, exchange, conn, ping, ghost,
              ImageKnown
<1>8. CASE PingPoll
  BY <1>8 DEF PingPoll, exchange, conn, ghost, ImageKnown
<1>9. CASE mf_clear_depthfull
  <2>1. map_depthfull' \in [Symbol -> Book]
    BY <1>9 DEF mf_clear_depthfull, Empty, Book
  <2>2. ghost' \in [Symbol -> Nat] \X [Symbol -> Nat] \X [Symbol -> Nat]
                   \X [Symbol -> BOOLEAN]
    BY <1>9 DEF mf_clear_depthfull, ForgetCopies, ghost
  <2> QED BY <1>9, <2>1, <2>2 DEF mf_clear_depthfull, exchange, conn, ghost,
                                  ImageKnown, Book
<1>10. ASSUME NEW s \in Symbol, RestAnswer(s) PROVE TypeInv'
  <2>1. image' = [symbol |-> s, updateid |-> Len(hist[s])]
    BY <1>10 DEF RestAnswer
  <2>2. Len(hist[s]) \in Nat \ {0}
    OBVIOUS
  <2>3. ImageKnown'
    BY <1>10, <2>1, <2>2 DEF RestAnswer, ImageKnown, exchange
  <2> QED BY <1>10, <2>1, <2>2, <2>3 DEF RestAnswer, exchange, conn, ghost
<1>11. ASSUME NEW s \in Symbol, RestFail(s) PROVE TypeInv'
  BY <1>11 DEF RestFail, exchange, conn, ghost, ImageKnown
<1>12. CASE cf_restparse_all_depthimage
  <2> DEFINE s  == image.symbol
             id == image.updateid
             b  == ApplyImage(map_depthfull[s], id, Cut(hist[s][id], Depth))
  <2>1. s \in Symbol /\ id \in Nat \ {0} /\ id <= Len(hist[s])
    BY <1>12 DEF cf_restparse_all_depthimage, ImageKnown
  <2>2. Cut(hist[s][id], Depth) \in Quote
    <3>1. hist[s][id] \in Quote
      BY <2>1
    <3> QED BY <3>1, CutQuote
  <2>3. b \in Book
    <3> HIDE DEF s, id
    <3> QED BY <1>0, <2>1, <2>2, ApplyImageBook
  <2>4. map_depthfull' = [map_depthfull EXCEPT ![s] = b]
    BY <1>12 DEF cf_restparse_all_depthimage
  <2>5. map_depthfull' \in [Symbol -> Book]
    <3> HIDE DEF b
    <3> QED BY <1>0, <2>3, <2>4
  <2>6. base' \in [Symbol -> Nat] /\ late' \in [Symbol -> Nat]
    BY <1>12, <2>1 DEF cf_restparse_all_depthimage
  <2> HIDE DEF b
  <2> QED BY <1>12, <2>5, <2>6
      DEF cf_restparse_all_depthimage, exchange, conn, ImageKnown, Book
<1>13. CASE RestDone
  BY <1>13 DEF RestDone, exchange, conn, ghost, ImageKnown
<1>14. CASE PingSettle
  BY <1>14 DEF PingSettle, exchange, conn, ghost, ImageKnown
<1>15. CASE UNCHANGED vars
  BY <1>15 DEF vars, exchange, conn, ping, ghost, ImageKnown
<1> QED BY <1>1, <1>2, <1>3, <1>4, <1>5, <1>6, <1>7, <1>8, <1>9, <1>10, <1>11,
           <1>12, <1>13, <1>14, <1>15
        DEF Next, Exchange, LoopThread, PingThread

\* Every reachable state of the client and the exchange has its type.
THEOREM TypeCorrect == Spec => []TypeOK
<1>1. TypeInv => TypeOK
  BY DEF TypeInv
<1> QED BY <1>1, TypeInit, TypeStep, PTL DEF Spec

----------------------------------------------------------------------------
(* The copies.  MirrorSound and MirrorComplete speak of copies whose       *)
(* increments have reached the image; to be inductive they must also say   *)
(* what the others hold: before the image, the levels the increments have  *)
(* named; ahead of the increments, levels of the image.  That needs the    *)
(* order of the numbers (an increment to come is newer than the last one   *)
(* and at most one newer than the book), that the image that waits is no   *)
(* older than a copy that got no increment since, and that a symbol whose  *)
(* image is still to be fetched has not got one.                           *)

Numbers ==
  \A s \in Symbol :
    /\ c_depthfull_lastu[s] <= Len(hist[s])
    /\ feed[s] <= Len(hist[s]) + 1
    /\ feed[s] # 0 => feed[s] >= 2 /\ c_depthfull_lastu[s] < feed[s]
    /\ base[s] <= Len(hist[s])
    /\ base[s] # 0 /\ first[s] = 0 => c_depthfull_lastu[s] <= base[s]
    /\ first[s] # 0 => first[s] >= 2 /\ first[s] <= c_depthfull_lastu[s]
    /\ late[s] # 0 => /\ base[s] # 0 /\ first[s] # 0
                      /\ base[s] < late[s] /\ late[s] <= c_depthfull_lastu[s]

WaitingImage ==
  image # None /\ first[image.symbol] = 0 =>
    c_depthfull_lastu[image.symbol] <= image.updateid

ToFetch == ppc = "fetch" => \A s \in todo : base[s] = 0

\* Nothing is missing among what the copy was made of.
Known(s) == ~missed[s] /\ (base[s] # 0 => first[s] <= base[s] + 1)

\* The exchange's level l was the same from update k to update n.
SameFrom(s, l, k, n) == \A u \in k .. n : hist[s][u][l] = hist[s][n][l]

\* The exchange's level l was cut off the image of s and did not change until u.
CutOff(s, l, u) ==
  /\ l \notin TopLevels(hist[s][base[s]], Depth)
  /\ \A k \in base[s] .. u : hist[s][k][l] = hist[s][base[s]][l]

\* A level that is there is the exchange's at the last increment and has been since
\* its label, or it is the image's and the increments are not there yet, or it
\* was brought back.
Reflects(s, l) ==
  LET e == map_depthfull[s][l]
      a == c_depthfull_lastu[s]
  IN /\ first[s] = 0 /\ e # Absent => e.updateid = base[s]
     /\ e # Absent =>
          \/ e.updateid <= a /\ e.vol = hist[s][a][l] /\ SameFrom(s, l, e.updateid, a)
          \/ a < e.updateid /\ e.updateid = base[s] /\ e.vol = hist[s][base[s]][l]
          \/ BroughtBack(s, l)

\* Before the image only levels that no increment named are missing; then, until the
\* increments have reached the image, none of its levels; from then on only what
\* the exchange does not have or what was cut off.
Shown(s, l) ==
  LET e == map_depthfull[s][l]
      a == c_depthfull_lastu[s]
  IN /\ base[s] = 0 /\ first[s] # 0 /\ e = Absent =>
          hist[s][a][l] = 0 \/ SameFrom(s, l, first[s] - 1, a)
     /\ base[s] # 0 /\ a <= base[s] /\ l \in TopLevels(hist[s][base[s]], Depth) =>
          e.updateid = base[s]
     /\ base[s] # 0 /\ base[s] <= a /\ e = Absent =>
          hist[s][a][l] = 0 \/ CutOff(s, l, a)

Copies ==
  \A s \in Symbol : Known(s) => \A l \in Level : Reflects(s, l) /\ Shown(s, l)

MirrorInv == TypeInv /\ Numbers /\ WaitingImage /\ ToFetch /\ Copies

LEMMA MirrorInit == Init => MirrorInv
<1> SUFFICES ASSUME Init PROVE MirrorInv
  OBVIOUS
<1>1. TypeInv
  BY TypeInit
<1>2. Numbers
  BY <1>1 DEF Init, Numbers, TypeInv, TypeOK
<1>3. ToFetch /\ WaitingImage
  BY DEF Init, ToFetch, WaitingImage
<1>4. Copies
  BY DEF Init, Copies, Reflects, Shown, Empty
<1> QED BY <1>1, <1>2, <1>3, <1>4 DEF MirrorInv

\* What is known of a copy that a step leaves alone, while the exchange may go on.
LEMMA CopyKept ==
  ASSUME MirrorInv, NEW s \in Symbol, Known(s)', NEW l \in Level,
         \A k \in 1 .. Len(hist[s]) : hist'[s][k] = hist[s][k],
         c_depthfull_lastu'[s] = c_depthfull_lastu[s],
         map_depthfull'[s] = map_depthfull[s],
         base'[s] = base[s], late'[s] = late[s],
         first'[s] = first[s], missed'[s] = missed[s]
  PROVE  (Reflects(s, l) /\ Shown(s, l))'
<1> DEFINE e == map_depthfull[s][l]
           a == c_depthfull_lastu[s]
           c == base[s]
<1>1. /\ a \in Nat /\ c \in Nat /\ late[s] \in Nat /\ first[s] \in Nat
      /\ Len(hist[s]) \in Nat
      /\ e \in Stored \cup {Absent}
      /\ a <= Len(hist[s]) /\ c <= Len(hist[s])
      /\ late[s] # 0 => late[s] <= a
      /\ first[s] # 0 => first[s] >= 2 /\ first[s] <= a
  BY DEF MirrorInv, TypeInv, TypeOK, Numbers
<1>2. e # Absent => e.updateid \in Nat \ {0}
  BY <1>1 DEF Stored
<1>3. Reflects(s, l) /\ Shown(s, l)
  BY DEF MirrorInv, Copies, Known
<1>4. \A k \in 1 .. a : hist'[s][k][l] = hist[s][k][l]
  BY <1>1
<1>5. c # 0 => hist'[s][c] = hist[s][c]
  BY <1>1
<1>6. c # 0 => TopLevels(hist[s][base[s]], Depth)' = TopLevels(hist[s][base[s]], Depth)
  BY <1>5 DEF TopLevels
<1>7. ASSUME NEW k \in Nat \ {0}, SameFrom(s, l, k, a)
      PROVE  SameFrom(s, l, k, c_depthfull_lastu[s])'
  BY <1>1, <1>4, <1>7 DEF SameFrom
<1>8. c # 0 /\ CutOff(s, l, a) => CutOff(s, l, c_depthfull_lastu[s])'
  BY <1>1, <1>4, <1>5, <1>6 DEF CutOff
<1>9. c # 0 /\ BroughtBack(s, l) => BroughtBack(s, l)'
  BY <1>1, <1>4, <1>6 DEF BroughtBack
<1>10. /\ map_depthfull'[s][l] = e /\ c_depthfull_lastu'[s] = a
       /\ e # Absent /\ e.updateid <= a => hist'[s][a][l] = hist[s][a][l]
       /\ first[s] # 0 \/ (c # 0 /\ c <= a) => hist'[s][a][l] = hist[s][a][l]
       /\ c # 0 => hist'[s][c][l] = hist[s][c][l]
  BY <1>1, <1>2, <1>4, <1>5
<1>11. e # Absent /\ BroughtBack(s, l) => c # 0
  BY <1>2 DEF BroughtBack
<1>12. Reflects(s, l)'
  <2> HIDE DEF e, a, c
  <2> QED BY <1>2, <1>3, <1>7, <1>9, <1>10, <1>11 DEF Reflects, e, a, c
<1>13. Shown(s, l)'
  <2>1. first[s] # 0 => first[s] - 1 \in Nat \ {0}
    BY <1>1
  <2> QED BY <1>3, <1>6, <1>7, <1>8, <1>10, <2>1 DEF Shown
<1> QED BY <1>12, <1>13

\* Steps that leave the copies, the numbers and the books of the exchange
\* alone keep what is known of them.
LEMMA MirrorUnchanged ==
  ASSUME MirrorInv, TypeInv', ToFetch', WaitingImage',
         UNCHANGED <<hist, feed, c_depthfull_lastu, map_depthfull, ghost>>
  PROVE  MirrorInv'
<1>1. Numbers'
  BY DEF MirrorInv, Numbers, ghost
<1>2. Copies'
  BY DEF MirrorInv, Copies, Known, Reflects, Shown, SameFrom, CutOff, BroughtBack, ghost
<1> QED BY <1>1, <1>2 DEF MirrorInv

\* An increment that is applied to a copy nothing is missing from.
LEMMA DiffKnown ==
  ASSUME MirrorInv, NEW s \in Symbol, mf_parse_depth_full(s), Known(s)',
         NEW l \in Level
  PROVE  (Reflects(s, l) /\ Shown(s, l))'
<1> DEFINE u == feed[s]
           a == c_depthfull_lastu[s]
           c == base[s]
           f == first[s]
           e == map_depthfull[s][l]
           d == map_depthfull'[s][l]
           T == Changed(hist[s][u - 1], hist[s][u])
<1>t. /\ hist \in [Symbol -> Seq(Quote) \ {<< >>}]
      /\ feed \in [Symbol -> Nat]
      /\ c_depthfull_lastu \in [Symbol -> Nat]
      /\ base \in [Symbol -> Nat]
      /\ late \in [Symbol -> Nat]
      /\ first \in [Symbol -> Nat]
      /\ missed \in [Symbol -> BOOLEAN]
      /\ map_depthfull \in [Symbol -> [Level -> Stored \cup {Absent}]]
  BY DEF MirrorInv, TypeInv, TypeOK
<1>1. /\ u \in Nat /\ u >= 2 /\ u <= Len(hist[s]) /\ a < u
      /\ a \in Nat /\ c \in Nat /\ f \in Nat /\ late[s] \in Nat
      /\ c # 0 /\ f = 0 => a <= c
      /\ f # 0 => f >= 2 /\ f <= a
      /\ late[s] # 0 => c # 0 /\ f # 0 /\ c < late[s] /\ late[s] <= a
  BY <1>t DEF mf_parse_depth_full, MirrorInv, Numbers
<1>2. /\ c_depthfull_lastu' = [c_depthfull_lastu EXCEPT ![s] = u]
      /\ map_depthfull' = [map_depthfull EXCEPT ![s] =
                             ApplyDiff(map_depthfull[s], u, T, hist[s][u])]
      /\ first' = [first EXCEPT ![s] = IF first[s] = 0 THEN u ELSE first[s]]
      /\ missed' = [missed EXCEPT ![s] = missed[s] \/ (first[s] # 0 /\ a # u - 1)]
      /\ UNCHANGED <<hist, base, late>>
  BY DEF mf_parse_depth_full
<1>3. /\ c_depthfull_lastu'[s] = u
      /\ d = IF l \in T /\ e.updateid < u
             THEN IF hist[s][u][l] > 0
                  THEN [updateid |-> u, vol |-> hist[s][u][l]] ELSE Absent
             ELSE e
      /\ first'[s] = (IF f = 0 THEN u ELSE f)
      /\ missed'[s] = (missed[s] \/ (f # 0 /\ a # u - 1))
  <2>1. map_depthfull'[s] = ApplyDiff(map_depthfull[s], u, T, hist[s][u])
    <3> HIDE DEF u, T
    <3> QED BY <1>t, <1>2
  <2>2. c_depthfull_lastu'[s] = u /\ first'[s] = (IF f = 0 THEN u ELSE f)
    BY <1>t, <1>2
  <2>3. missed'[s] = (missed[s] \/ (f # 0 /\ a # u - 1))
    BY <1>t, <1>2, Zenon
  <2> HIDE DEF u, T
  <2> QED BY <2>1, <2>2, <2>3 DEF ApplyDiff
<1>4. /\ Known(s)
      /\ f # 0 => a = u - 1
      /\ c # 0 /\ f = 0 => u <= c + 1
  <2>1. ~missed'[s] /\ (c # 0 => first'[s] <= c + 1)
    BY <1>2 DEF Known
  <2>2. ~missed[s] /\ ~(f # 0 /\ a # u - 1)
    <3> HIDE DEF f, a, u
    <3> QED BY <1>3, <2>1, Zenon
  <2>3. c # 0 => f <= c + 1
    BY <1>1, <1>3, <2>1
  <2>4. c # 0 /\ f = 0 => u <= c + 1
    BY <1>1, <1>3, <2>1
  <2> QED BY <2>2, <2>3, <2>4 DEF Known
<1>5. Reflects(s, l) /\ Shown(s, l)
  BY <1>4 DEF MirrorInv, Copies
<1>6. /\ e.updateid \in Nat
      /\ e # Absent => e.updateid # 0
      /\ e = Absent => e.updateid = 0
  BY <1>t DEF Stored, Absent
<1>7. hist[s][u][l] \in Nat
  <2>1. hist[s][u] \in Quote
    BY <1>t, <1>1
  <2> QED BY <2>1, VolAssumption DEF Quote
<1>8. l \notin T => hist[s][u][l] = hist[s][u - 1][l]
  BY DEF Changed
<1>9. c # 0 => TopLevels(hist[s][base[s]], Depth)' = TopLevels(hist[s][base[s]], Depth)
  BY <1>2 DEF TopLevels
<1>10. /\ \A k : SameFrom(s, l, k, u) => SameFrom(s, l, k, c_depthfull_lastu[s])'
       /\ hist'[s][u][l] = hist[s][u][l] /\ hist'[s][c][l] = hist[s][c][l]
       /\ base'[s] = c /\ late'[s] = late[s] /\ first'[s] # 0
  <2>1. hist' = hist /\ base' = base /\ late' = late
    BY <1>2
  <2>2. first'[s] # 0
    BY <1>1, <1>3
  <2>3. \A k : SameFrom(s, l, k, u) => SameFrom(s, l, k, c_depthfull_lastu[s])'
    BY <1>3, <2>1 DEF SameFrom
  <2> QED BY <2>1, <2>2, <2>3
<1>11. Reflects(s, l)'
  <2>1. SUFFICES ASSUME d # Absent
        PROVE  \/ d.updateid <= u /\ d.vol = hist[s][u][l] /\ SameFrom(s, l, d.updateid, u)
               \/ u < d.updateid /\ d.updateid = c /\ d.vol = hist[s][c][l]
               \/ BroughtBack(s, l)'
    <3> HIDE DEF d, u, c
    <3> QED BY <1>3, <1>10 DEF Reflects, d
  <2>2. CASE l \in T /\ e.updateid < u
    <3>1. d.updateid = u /\ d.vol = hist[s][u][l]
      <4> HIDE DEF d, e, u, T
      <4> QED BY <1>3, <2>1, <2>2
    <3>2. SameFrom(s, l, u, u)
      BY <1>1 DEF SameFrom
    <3> HIDE DEF d, u
    <3> QED BY <1>1, <3>1, <3>2
  <2>3. CASE ~(l \in T /\ e.updateid < u)
    <3>1. d = e /\ e # Absent
      <4> HIDE DEF d, e, u, T
      <4> QED BY <1>3, <2>1, <2>3
    <3>2. CASE /\ e.updateid <= a /\ e.vol = hist[s][a][l]
               /\ SameFrom(s, l, e.updateid, a)
      <4>1. a = u - 1
        <5>1. f = 0 => e.updateid = c
          BY <1>5, <3>1 DEF Reflects
        <5> HIDE DEF e
        <5> QED BY <1>1, <1>4, <1>6, <3>1, <3>2, <5>1
      <4>2. l \notin T
        BY <1>1, <1>6, <2>3, <3>2
      <4>3. SameFrom(s, l, e.updateid, u)
        <5> SUFFICES ASSUME NEW k \in e.updateid .. u
                     PROVE  hist[s][k][l] = hist[s][u][l]
          BY DEF SameFrom
        <5> HIDE DEF e, u, T
        <5> QED BY <1>1, <1>6, <1>8, <3>2, <4>1, <4>2 DEF SameFrom
      <4>4. e.updateid <= u /\ e.vol = hist[s][u][l]
        BY <1>1, <1>6, <1>8, <3>2, <4>1, <4>2
      <4> HIDE DEF d, e, u
      <4> QED BY <3>1, <4>3, <4>4
    <3>3. CASE a < e.updateid /\ e.updateid = c /\ e.vol = hist[s][c][l]
      <4>1. u < c \/ u = c \/ (u = c + 1 /\ l \notin T)
        BY <1>1, <1>4, <1>6, <2>3, <3>1, <3>3
      <4>2. u = c \/ u = c + 1 => e.vol = hist[s][u][l] /\ SameFrom(s, l, c, u)
        <5>1. CASE u = c
          BY <1>1, <3>3, <5>1 DEF SameFrom
        <5>2. CASE u = c + 1
          <6>1. l \notin T /\ u - 1 = c
            BY <1>1, <4>1, <5>2
          <6>2. hist[s][u][l] = hist[s][c][l]
            BY <1>8, <6>1
          <6>3. \A k \in c .. u : k = c \/ k = u
            BY <1>1, <5>2
          <6> HIDE DEF e, u, c
          <6> QED BY <3>3, <6>2, <6>3 DEF SameFrom
        <5> QED BY <5>1, <5>2
      <4> HIDE DEF d, e, u, c
      <4> QED BY <1>1, <1>6, <3>1, <3>3, <4>1, <4>2
    <3>4. CASE BroughtBack(s, l)
      <4>1. /\ late[s] # 0 /\ e.updateid = c /\ a = u - 1 /\ late[s] <= a /\ c < u
            /\ l \in TopLevels(hist[s][c], Depth)
            /\ \A k \in late[s] .. a : hist[s][k][l] = 0
        BY <1>1, <1>4, <3>4 DEF BroughtBack
      <4>2. l \notin T
        BY <2>3, <4>1
      <4>3. \A k \in late[s] .. u : hist[s][k][l] = 0
        <5> HIDE DEF T, u
        <5> QED BY <1>1, <1>8, <4>1, <4>2
      <4>4. l \in TopLevels(hist[s][base[s]], Depth)'
        BY <1>1, <1>9, <4>1
      <4> HIDE DEF u
      <4> QED BY <1>2, <1>3, <1>10, <3>1, <4>1, <4>3, <4>4 DEF BroughtBack
    <3> QED BY <1>5, <3>1, <3>2, <3>3, <3>4 DEF Reflects
  <2> QED BY <2>2, <2>3
<1>12. ASSUME c = 0 \/ c < u PROVE e.updateid < u
  <2>1. CASE e = Absent
    BY <1>1, <1>6, <2>1
  <2>2. CASE e # Absent
    <3>1. e.updateid <= a \/ e.updateid = c
      BY <1>5, <2>2 DEF Reflects, BroughtBack
    <3> HIDE DEF e
    <3> QED BY <1>1, <1>6, <1>12, <2>2, <3>1
  <2> QED BY <2>1, <2>2
<1>13. ASSUME d = Absent, c = 0 \/ c < u, l \in T PROVE hist[s][u][l] = 0
  <2>1. ~(hist[s][u][l] > 0)
    <3> HIDE DEF d, e, T
    <3> QED BY <1>1, <1>3, <1>12, <1>13 DEF Absent
  <2> QED BY <1>7, <2>1
<1>14. ASSUME d = Absent, l \notin T PROVE e = Absent
  <2> HIDE DEF d, e, u, T
  <2> QED BY <1>3, <1>14
<1>15. ASSUME c = 0, d = Absent
       PROVE  hist[s][u][l] = 0 \/ SameFrom(s, l, first'[s] - 1, u)
  <2>1. CASE l \in T
    BY <1>13, <1>15, <2>1
  <2>2. CASE l \notin T
    <3>1. CASE f = 0
      <4> HIDE DEF T
      <4> QED BY <1>1, <1>3, <1>8, <2>2, <3>1 DEF SameFrom
    <3>2. CASE f # 0
      <4>1. hist[s][a][l] = 0 \/ SameFrom(s, l, f - 1, a)
        BY <1>5, <1>14, <1>15, <2>2, <3>2 DEF Shown
      <4>2. a = u - 1 /\ first'[s] = f /\ hist[s][u][l] = hist[s][a][l]
        BY <1>3, <1>4, <1>8, <2>2, <3>2
      <4>3. SameFrom(s, l, f - 1, a) => SameFrom(s, l, f - 1, u)
        <5> SUFFICES ASSUME SameFrom(s, l, f - 1, a), NEW k \in f - 1 .. u
                     PROVE  hist[s][k][l] = hist[s][u][l]
          BY DEF SameFrom
        <5> HIDE DEF u
        <5> QED BY <1>1, <4>2 DEF SameFrom
      <4> QED BY <4>1, <4>2, <4>3
    <3> QED BY <3>1, <3>2
  <2> QED BY <2>1, <2>2
<1>16. ASSUME c # 0, u <= c, l \in TopLevels(hist[s][c], Depth)
       PROVE  d.updateid = c
  <2>1. e.updateid = c
    BY <1>1, <1>5, <1>16 DEF Shown
  <2> HIDE DEF d, e, u, a, T
  <2> QED BY <1>1, <1>3, <1>16, <2>1
<1>17. ASSUME c # 0, c <= u, d = Absent
       PROVE  hist[s][u][l] = 0 \/ CutOff(s, l, u)
  <2>1. CASE u = c
    <3>1. l \notin TopLevels(hist[s][c], Depth)
      BY <1>1, <1>16, <1>17, <2>1 DEF Absent
    <3> QED BY <1>1, <2>1, <3>1 DEF CutOff
  <2>2. CASE u # c
    <3>1. c < u /\ (a = u - 1 \/ (u - 1 = c /\ a < c))
      BY <1>1, <1>4, <1>17, <2>2
    <3>2. CASE l \in T
      BY <1>13, <1>17, <3>1, <3>2
    <3>3. CASE l \notin T
      <4>1. e = Absent
        BY <1>14, <1>17, <3>3
      <4>2. hist[s][u - 1][l] = 0 \/ CutOff(s, l, u - 1)
        <5>1. CASE a = u - 1
          BY <1>1, <1>5, <1>17, <3>1, <4>1, <5>1 DEF Shown
        <5>2. CASE u - 1 = c /\ a < c
          <6>1. l \notin TopLevels(hist[s][c], Depth)
            BY <1>1, <1>5, <1>6, <1>17, <4>1, <5>2 DEF Shown
          <6> QED BY <1>1, <5>2, <6>1 DEF CutOff
        <5> QED BY <3>1, <5>1, <5>2
      <4>3. CutOff(s, l, u - 1) => CutOff(s, l, u)
        <5> SUFFICES ASSUME CutOff(s, l, u - 1), NEW k \in c .. u
                     PROVE  hist[s][k][l] = hist[s][c][l]
          BY DEF CutOff
        <5> HIDE DEF u, T
        <5> QED BY <1>1, <1>8, <3>1, <3>3 DEF CutOff
      <4> QED BY <1>8, <3>3, <4>2, <4>3
    <3> QED BY <3>2, <3>3
  <2> QED BY <2>1, <2>2
<1>18. c # 0 /\ CutOff(s, l, u) => CutOff(s, l, c_depthfull_lastu[s])'
  <2> HIDE DEF u
  <2> QED BY <1>2, <1>3, <1>9 DEF CutOff
<1>19. Shown(s, l)'
  <2> HIDE DEF u, a, e, T, d
  <2> QED BY <1>3, <1>9, <1>10, <1>15, <1>16, <1>17, <1>18 DEF Shown, d
<1> QED BY <1>11, <1>19

\* An image that is merged into a copy nothing is missing from, older or newer than
\* the increments the copy holds.
LEMMA ImageKnownCopy ==
  ASSUME MirrorInv, cf_restparse_all_depthimage,
         NEW s \in Symbol, s = image.symbol, Known(s)', NEW l \in Level
  PROVE  (Reflects(s, l) /\ Shown(s, l))'
<1> DEFINE id  == image.updateid
           a   == c_depthfull_lastu[s]
           f   == first[s]
           e   == map_depthfull[s][l]
           d   == map_depthfull'[s][l]
           img == Cut(hist[s][id], Depth)
<1>t. /\ hist \in [Symbol -> Seq(Quote) \ {<< >>}]
      /\ c_depthfull_lastu \in [Symbol -> Nat]
      /\ base \in [Symbol -> Nat]
      /\ late \in [Symbol -> Nat]
      /\ first \in [Symbol -> Nat]
      /\ map_depthfull \in [Symbol -> [Level -> Stored \cup {Absent}]]
  BY DEF MirrorInv, TypeInv, TypeOK
<1>1. /\ id \in Nat \ {0} /\ id <= Len(hist[s])
      /\ image # None /\ s \in todo /\ ppc = "fetch"
  BY DEF cf_restparse_all_depthimage, MirrorInv, TypeInv, TypeOK, ImageKnown
<1>2. /\ map_depthfull' = [map_depthfull EXCEPT ![s] =
                             ApplyImage(map_depthfull[s], id, img)]
      /\ base' = [base EXCEPT ![s] = id]
      /\ late' = [late EXCEPT ![s] = IF id < c_depthfull_lastu[s]
                                     THEN c_depthfull_lastu[s] ELSE 0]
      /\ UNCHANGED <<hist, c_depthfull_lastu, first, missed>>
  BY DEF cf_restparse_all_depthimage, exchange
<1>3. /\ base[s] = 0 /\ a \in Nat /\ f \in Nat
      /\ f = 0 => a <= id
      /\ f # 0 => f >= 2 /\ f <= a
      /\ late[s] = 0
  BY <1>t, <1>1 DEF MirrorInv, ToFetch, WaitingImage, Numbers
<1>4. /\ base'[s] = id /\ c_depthfull_lastu'[s] = a /\ first'[s] = f
      /\ late'[s] = (IF id < a THEN a ELSE 0)
      /\ d = IF img[l] > 0 /\ e.updateid < id
             THEN [updateid |-> id, vol |-> img[l]] ELSE e
  <2>1. map_depthfull'[s] = ApplyImage(map_depthfull[s], id, img)
    <3> HIDE DEF id, img
    <3> QED BY <1>t, <1>2
  <2>2. base'[s] = id /\ late'[s] = (IF id < a THEN a ELSE 0)
    BY <1>t, <1>2
  <2> HIDE DEF id, img
  <2> QED BY <1>2, <2>1, <2>2 DEF ApplyImage
<1>5. Known(s) /\ f <= id + 1
  BY <1>1, <1>2, <1>3, <1>4 DEF Known
<1>6. Reflects(s, l) /\ Shown(s, l)
  BY <1>5 DEF MirrorInv, Copies
<1>7. /\ e.updateid \in Nat
      /\ e # Absent => e.updateid # 0
      /\ e = Absent => e.updateid = 0
  BY <1>t DEF Stored, Absent
<1>8. e # Absent => /\ f # 0 /\ e.updateid <= a /\ e.vol = hist[s][a][l]
                    /\ SameFrom(s, l, e.updateid, a)
  BY <1>3, <1>6, <1>7 DEF Reflects, BroughtBack
<1>9. e = Absent /\ f # 0 => hist[s][a][l] = 0 \/ SameFrom(s, l, f - 1, a)
  BY <1>3, <1>6 DEF Shown
<1>10. /\ img[l] > 0 => img[l] = hist[s][id][l]
       /\ l \in TopLevels(hist[s][id], Depth) <=> img[l] > 0
  <2>1. img[l] > 0 => img[l] = hist[s][id][l]
    BY CutShows
  <2>2. l \in TopLevels(hist[s][id], Depth) <=> img[l] > 0
    BY DEF Cut, TopLevels
  <2> QED BY <2>1, <2>2
<1>11. TopLevels(hist[s][base[s]], Depth)' = TopLevels(hist[s][id], Depth)
  BY <1>2, <1>4 DEF TopLevels
<1>12. \A k : SameFrom(s, l, k, a) => SameFrom(s, l, k, c_depthfull_lastu[s])'
  BY <1>2 DEF SameFrom
<1>13. Reflects(s, l)'
  <2>1. SUFFICES ASSUME d # Absent
        PROVE  /\ f = 0 => d.updateid = id
               /\ \/ d.updateid <= a /\ d.vol = hist[s][a][l]
                                     /\ SameFrom(s, l, d.updateid, a)
                  \/ a < d.updateid /\ d.updateid = id /\ d.vol = hist[s][id][l]
                  \/ BroughtBack(s, l)'
    <3>1. hist' = hist
      BY <1>2
    <3> HIDE DEF d, a, id, f
    <3> QED BY <1>4, <1>12, <3>1 DEF Reflects, d
  <2>2. CASE ~(img[l] > 0 /\ e.updateid < id)
    <3>1. d = e /\ e # Absent
      <4> HIDE DEF d, e, id, img
      <4> QED BY <1>4, <2>1, <2>2
    <3> HIDE DEF d, e, id, img
    <3> QED BY <1>8, <3>1
  <2>3. CASE img[l] > 0 /\ e.updateid < id
    <3>1. d.updateid = id /\ d.vol = hist[s][id][l]
      <4> HIDE DEF d, e, id, img
      <4> QED BY <1>4, <1>10, <2>3
    <3>2. CASE a < id
      BY <3>1, <3>2
    <3>3. CASE a = id
      BY <1>1, <3>1, <3>3 DEF SameFrom
    <3>4. CASE id < a
      <4>1. f # 0
        BY <1>1, <1>3, <3>4
      <4>2. ASSUME NEW k \in Nat, k <= id, SameFrom(s, l, k, a)
            PROVE  hist[s][id][l] = hist[s][a][l] /\ SameFrom(s, l, id, a)
        <5> HIDE DEF id
        <5> QED BY <1>1, <1>3, <3>4, <4>2 DEF SameFrom
      <4>3. CASE e # Absent
        <5>1. hist[s][id][l] = hist[s][a][l] /\ SameFrom(s, l, id, a)
          <6>1. e.updateid \in Nat /\ e.updateid <= id /\ SameFrom(s, l, e.updateid, a)
            BY <1>1, <1>7, <1>8, <2>3, <4>3
          <6> HIDE DEF e, id
          <6> QED BY <4>2, <6>1
        <5> HIDE DEF d, id
        <5> QED BY <1>1, <1>3, <3>1, <3>4, <5>1
      <4>4. CASE e = Absent /\ SameFrom(s, l, f - 1, a)
        <5>1. f - 1 \in Nat /\ f - 1 <= id
          BY <1>1, <1>3, <1>5, <4>1
        <5>2. hist[s][id][l] = hist[s][a][l] /\ SameFrom(s, l, id, a)
          BY <4>2, <4>4, <5>1
        <5> HIDE DEF d, id
        <5> QED BY <1>1, <1>3, <3>1, <3>4, <5>2
      <4>5. CASE hist[s][a][l] = 0
        <5>1. late'[s] = a /\ a # 0
          BY <1>1, <1>3, <1>4, <3>4
        <5>2. l \in TopLevels(hist[s][base[s]], Depth)'
          BY <1>10, <1>11, <2>3
        <5>3. \A k \in a .. a : hist'[s][k][l] = 0
          BY <1>2, <1>3, <4>5
        <5>4. BroughtBack(s, l)'
          <6> HIDE DEF id, a
          <6> QED BY <1>4, <3>1, <5>1, <5>2, <5>3 DEF BroughtBack, d
        <5> QED BY <1>1, <3>1, <4>1, <5>4
      <4> QED BY <1>9, <4>1, <4>3, <4>4, <4>5
    <3> QED BY <1>1, <1>3, <3>1, <3>2, <3>3, <3>4
  <2> QED BY <2>2, <2>3
<1>14. ASSUME a <= id, l \in TopLevels(hist[s][id], Depth) PROVE d.updateid = id
  <2>1. ~(e.updateid < id) => e.updateid = id
    BY <1>1, <1>3, <1>7, <1>8, <1>14
  <2> HIDE DEF d, e, img, id
  <2> QED BY <1>4, <1>10, <1>14, <2>1
<1>15. ASSUME id <= a, d = Absent
       PROVE  hist[s][a][l] = 0 \/ CutOff(s, l, c_depthfull_lastu[s])'
  <2>1. ~(img[l] > 0) /\ e = Absent
    <3>1. CASE img[l] > 0 /\ e.updateid < id
      BY <1>1, <1>4, <1>15, <3>1 DEF Absent
    <3>2. CASE ~(img[l] > 0 /\ e.updateid < id)
      BY <1>1, <1>4, <1>7, <1>15, <3>2
    <3> QED BY <3>1, <3>2
  <2>2. l \notin TopLevels(hist[s][base[s]], Depth)'
    BY <1>10, <1>11, <2>1
  <2>3. CASE a = id
    <3> HIDE DEF id, a
    <3> QED BY <1>1, <1>2, <1>4, <2>2, <2>3 DEF CutOff
  <2>4. CASE id < a
    <3>1. f # 0
      BY <1>1, <1>3, <2>4
    <3>2. ASSUME SameFrom(s, l, f - 1, a), NEW k \in id .. a
          PROVE  hist[s][k][l] = hist[s][id][l]
      <4>1. id \in f - 1 .. a /\ k \in f - 1 .. a
        BY <1>1, <1>3, <1>5, <3>1, <2>4
      <4>2. hist[s][k][l] = hist[s][a][l] /\ hist[s][id][l] = hist[s][a][l]
        <5> HIDE DEF id, a, f
        <5> QED BY <3>2, <4>1 DEF SameFrom
      <4> QED BY <4>2
    <3>3. SameFrom(s, l, f - 1, a) => CutOff(s, l, c_depthfull_lastu[s])'
      <4> HIDE DEF id, a, f
      <4> QED BY <1>2, <1>4, <2>2, <3>2 DEF CutOff
    <3> QED BY <1>9, <2>1, <3>1, <3>3
  <2> QED BY <1>1, <1>3, <1>15, <2>3, <2>4
<1>16. Shown(s, l)'
  <2>1. hist'[s][a][l] = hist[s][a][l] /\ base'[s] # 0
    BY <1>1, <1>2, <1>4
  <2> HIDE DEF id, a, e, d
  <2> QED BY <1>4, <1>11, <1>14, <1>15, <2>1 DEF Shown, d
<1> QED BY <1>13, <1>16

LEMMA MirrorStep == MirrorInv /\ [Next]_vars => MirrorInv'
<1> SUFFICES ASSUME MirrorInv, [Next]_vars PROVE MirrorInv'
  OBVIOUS
<1>0. TypeInv'
  BY TypeStep DEF MirrorInv
<1>t. /\ hist \in [Symbol -> Seq(Quote) \ {<< >>}]
      /\ feed \in [Symbol -> Nat]
      /\ c_depthfull_lastu \in [Symbol -> Nat]
      /\ base \in [Symbol -> Nat]
      /\ late \in [Symbol -> Nat]
      /\ first \in [Symbol -> Nat]
      /\ missed \in [Symbol -> BOOLEAN]
      /\ map_depthfull \in [Symbol -> [Level -> Stored \cup {Absent}]]
      /\ todo \subseteq Symbol
      /\ image \in [symbol : Symbol, updateid : Nat \ {0}] \cup {None}
      /\ \A s \in Symbol : Len(hist[s]) \in Nat \ {0}
  BY DEF MirrorInv, TypeInv, TypeOK
<1>1. ASSUME NEW s \in Symbol, ExchangeUpdate(s) PROVE MirrorInv'
  <2>1. PICK q \in Quote : hist' = [hist EXCEPT ![s] = Append(@, q)]
    BY <1>1 DEF ExchangeUpdate, UncrossedQuote
  <2>2. \A r \in Symbol : /\ Len(hist'[r]) \in Nat
                          /\ Len(hist[r]) <= Len(hist'[r])
                          /\ \A k \in 1 .. Len(hist[r]) : hist'[r][k] = hist[r][k]
    BY <1>t, <2>1, HistoryGrows
  <2>3. UNCHANGED <<feed, c_depthfull_lastu, map_depthfull, base, late, first, missed,
                    ppc, todo, image>>
    BY <1>1 DEF ExchangeUpdate, conn, ping, ghost
  <2>4. Numbers'
    BY <1>t, <2>2, <2>3 DEF MirrorInv, Numbers
  <2>5. ToFetch' /\ WaitingImage'
    BY <2>3 DEF MirrorInv, ToFetch, WaitingImage
  <2>6. ASSUME NEW r \in Symbol, Known(r)', NEW l \in Level
        PROVE  (Reflects(r, l) /\ Shown(r, l))'
    BY <2>2, <2>3, <2>6, CopyKept
  <2> QED BY <1>0, <2>4, <2>5, <2>6 DEF MirrorInv, Copies
<1>2. ASSUME NEW s \in Symbol, mf_parse_depth_full(s) PROVE MirrorInv'
  <2> DEFINE u == feed[s]
             a == c_depthfull_lastu[s]
  <2>1. /\ u \in Nat /\ u >= 2 /\ u <= Len(hist[s]) /\ a < u
        /\ a \in Nat
    BY <1>2, <1>t DEF mf_parse_depth_full, MirrorInv, Numbers
  <2>2. /\ feed' = [feed EXCEPT ![s] = u + 1]
        /\ c_depthfull_lastu' = [c_depthfull_lastu EXCEPT ![s] = u]
        /\ first' = [first EXCEPT ![s] = IF first[s] = 0 THEN u ELSE first[s]]
        /\ UNCHANGED <<hist, base, late, ppc, todo, image>>
    BY <1>2 DEF mf_parse_depth_full, ping
  <2>3. \A r \in Symbol \ {s} : /\ c_depthfull_lastu'[r] = c_depthfull_lastu[r]
                                /\ map_depthfull'[r] = map_depthfull[r]
                                /\ first'[r] = first[r] /\ missed'[r] = missed[r]
                                /\ feed'[r] = feed[r]
    BY <1>2, <1>t DEF mf_parse_depth_full
  <2>4. /\ c_depthfull_lastu'[s] = u /\ feed'[s] = u + 1
        /\ first'[s] = IF first[s] = 0 THEN u ELSE first[s]
    BY <1>t, <2>2
  <2>5. Numbers'
    <3> SUFFICES ASSUME NEW r \in Symbol PROVE
          /\ c_depthfull_lastu'[r] <= Len(hist[r])
          /\ feed'[r] <= Len(hist[r]) + 1
          /\ feed'[r] # 0 => feed'[r] >= 2 /\ c_depthfull_lastu'[r] < feed'[r]
          /\ base[r] <= Len(hist[r])
          /\ base[r] # 0 /\ first'[r] = 0 => c_depthfull_lastu'[r] <= base[r]
          /\ first'[r] # 0 => first'[r] >= 2 /\ first'[r] <= c_depthfull_lastu'[r]
          /\ late[r] # 0 => /\ base[r] # 0 /\ first'[r] # 0
                            /\ base[r] < late[r] /\ late[r] <= c_depthfull_lastu'[r]
      BY <2>2 DEF Numbers
    <3>1. CASE r = s
      <4> HIDE DEF u
      <4> QED BY <1>t, <2>1, <2>4, <3>1 DEF MirrorInv, Numbers
    <3>2. CASE r # s
      BY <1>t, <2>3, <3>2 DEF MirrorInv, Numbers
    <3> QED BY <3>1, <3>2
  <2>6. ToFetch'
    BY <2>2 DEF MirrorInv, ToFetch
  <2>7. WaitingImage'
    <3> SUFFICES ASSUME image # None, first'[image.symbol] = 0
                 PROVE  c_depthfull_lastu'[image.symbol] <= image.updateid
      BY <2>2 DEF WaitingImage
    <3>1. image.symbol \in Symbol /\ image.symbol # s
      <4> HIDE DEF u
      <4> QED BY <1>t, <2>1, <2>4
    <3> QED BY <2>3, <3>1 DEF MirrorInv, WaitingImage
  <2>8. ASSUME NEW r \in Symbol, r # s, Known(r)', NEW l \in Level
        PROVE  (Reflects(r, l) /\ Shown(r, l))'
    BY <2>2, <2>3, <2>8, CopyKept
  <2>9. ASSUME Known(s)', NEW l \in Level PROVE (Reflects(s, l) /\ Shown(s, l))'
    BY <1>2, <2>9, DiffKnown
  <2> QED BY <1>0, <2>5, <2>6, <2>7, <2>8, <2>9 DEF MirrorInv, Copies
<1>3. CASE cf_restparse_all_depthimage
  <2>1. /\ image # None /\ image.symbol \in Symbol /\ image.updateid \in Nat \ {0}
        /\ image.updateid <= Len(hist[image.symbol])
        /\ ppc = "fetch" /\ image.symbol \in todo
    BY <1>3 DEF cf_restparse_all_depthimage, MirrorInv, TypeInv, TypeOK, ImageKnown
  <2>2. PICK s \in Symbol, id \in Nat \ {0} :
          s = image.symbol /\ id = image.updateid /\ id <= Len(hist[s])
    BY <2>1
  <2>3. /\ todo' = todo \ {s}
        /\ base' = [base EXCEPT ![s] = id]
        /\ late' = [late EXCEPT ![s] = IF id < c_depthfull_lastu[s]
                                       THEN c_depthfull_lastu[s] ELSE 0]
        /\ image' = None
        /\ UNCHANGED <<hist, feed, c_depthfull_lastu, first, missed, ppc>>
    BY <1>3, <2>2 DEF cf_restparse_all_depthimage, exchange
  <2>4. \A r \in Symbol \ {s} : /\ map_depthfull'[r] = map_depthfull[r]
                                /\ base'[r] = base[r] /\ late'[r] = late[r]
    BY <1>3, <1>t, <2>2 DEF cf_restparse_all_depthimage
  <2>5. Numbers'
    BY <1>t, <2>1, <2>2, <2>3 DEF MirrorInv, Numbers, WaitingImage
  <2>6. ToFetch' /\ WaitingImage'
    BY <1>t, <2>2, <2>3 DEF MirrorInv, ToFetch, WaitingImage
  <2>7. ASSUME NEW r \in Symbol, r # s, Known(r)', NEW l \in Level
        PROVE  (Reflects(r, l) /\ Shown(r, l))'
    BY <2>3, <2>4, <2>7, CopyKept
  <2>8. ASSUME Known(s)', NEW l \in Level PROVE (Reflects(s, l) /\ Shown(s, l))'
    BY <1>3, <2>2, <2>8, ImageKnownCopy
  <2> QED BY <1>0, <2>5, <2>6, <2>7, <2>8 DEF MirrorInv, Copies
<1>4. CASE mf_clear_depthfull
  <2>1. /\ base' = [s \in Symbol |-> 0]
        /\ late' = [s \in Symbol |-> 0]
        /\ first' = [s \in Symbol |-> 0]
        /\ map_depthfull' = [s \in Symbol |-> Empty]
        /\ ppc = "clear"
        /\ UNCHANGED <<hist, feed, c_depthfull_lastu, image>>
    BY <1>4 DEF mf_clear_depthfull, ForgetCopies, exchange
  <2>2. Numbers'
    BY <1>t, <2>1 DEF MirrorInv, Numbers
  <2>3. image = None
    BY <2>1 DEF MirrorInv, TypeInv, ImageKnown
  <2>4. ToFetch' /\ WaitingImage'
    BY <1>t, <2>1, <2>3, <1>0 DEF ToFetch, WaitingImage, TypeInv, TypeOK
  <2>5. Copies'
    BY <2>1 DEF Copies, Reflects, Shown, Empty
  <2> QED BY <1>0, <2>2, <2>4, <2>5 DEF MirrorInv
<1>5. ASSUME NEW s \in Symbol, RestAnswer(s) PROVE MirrorInv'
  <2>1. /\ image' = [symbol |-> s, updateid |-> Len(hist[s])]
        /\ UNCHANGED <<hist, feed, c_depthfull_lastu, map_depthfull, ghost, ppc, todo>>
    BY <1>5 DEF RestAnswer, exchange
  <2>2. ToFetch' /\ WaitingImage'
    BY <2>1 DEF MirrorInv, ToFetch, WaitingImage, Numbers, ghost
  <2> QED BY <1>0, <2>1, <2>2, MirrorUnchanged
<1>6. CASE /\ UNCHANGED <<hist, c_depthfull_lastu, map_depthfull, ghost, image>>
           /\ ppc' = "fetch" => ppc = "fetch"
           /\ todo' \subseteq todo
           /\ \A s \in Symbol : feed'[s] \in {0, feed[s], Len(hist[s]) + 1}
  <2>1. Numbers'
    <3> SUFFICES ASSUME NEW s \in Symbol PROVE
          /\ feed'[s] <= Len(hist[s]) + 1
          /\ feed'[s] # 0 => feed'[s] >= 2 /\ c_depthfull_lastu[s] < feed'[s]
      BY <1>6 DEF MirrorInv, Numbers, ghost
    <3>1. feed'[s] \in {0, feed[s], Len(hist[s]) + 1}
      BY <1>6
    <3>2. /\ c_depthfull_lastu[s] <= Len(hist[s])
          /\ feed[s] <= Len(hist[s]) + 1
          /\ feed[s] # 0 => feed[s] >= 2 /\ c_depthfull_lastu[s] < feed[s]
      BY DEF MirrorInv, Numbers
    <3> QED BY <1>t, <3>1, <3>2
  <2>2. ToFetch' /\ WaitingImage'
    BY <1>6 DEF MirrorInv, ToFetch, WaitingImage, ghost
  <2>3. ASSUME NEW r \in Symbol, Known(r)', NEW l \in Level
        PROVE  (Reflects(r, l) /\ Shown(r, l))'
    BY <1>6, <2>3, CopyKept DEF ghost
  <2> QED BY <1>0, <2>1, <2>2, <2>3 DEF MirrorInv, Copies
<1>7. ASSUME NEW s \in Symbol, ServerSubscribe(s)
      PROVE  \A r \in Symbol : feed'[r] \in {0, feed[r], Len(hist[r]) + 1}
  BY <1>t, <1>7 DEF ServerSubscribe
<1>8. \/ \E s \in Symbol : ExchangeUpdate(s)
      \/ \E s \in Symbol : mf_parse_depth_full(s)
      \/ cf_restparse_all_depthimage
      \/ mf_clear_depthfull
      \/ \E s \in Symbol : RestAnswer(s)
      \/ /\ UNCHANGED <<hist, c_depthfull_lastu, map_depthfull, ghost, image>>
         /\ ppc' = "fetch" => ppc = "fetch"
         /\ todo' \subseteq todo
         /\ \A s \in Symbol : feed'[s] \in {0, feed[s], Len(hist[s]) + 1}
  BY <1>7 DEF Next, Exchange, LoopThread, PingThread, ServerSubscribe, on_open, on_close,
         on_message_other, Publish, PingPoll, RestFail, RestDone, PingSettle, vars,
         exchange, ping
<1> QED BY <1>1, <1>2, <1>3, <1>4, <1>5, <1>6, <1>8

LEMMA MirrorInvSound == MirrorInv => MirrorSound
<1> SUFFICES ASSUME MirrorInv, NEW s \in Symbol, Mirrored(s), NEW l \in Level,
                    map_depthfull[s][l] # Absent, ~BroughtBack(s, l)
             PROVE  map_depthfull[s][l].vol = hist[s][c_depthfull_lastu[s]][l]
  BY DEF MirrorSound
<1>1. /\ base[s] <= c_depthfull_lastu[s]
      /\ c_depthfull_lastu[s] \in Nat /\ base[s] \in Nat
  BY DEF Mirrored, MirrorInv, TypeInv, TypeOK
<1>2. Reflects(s, l)
  BY DEF MirrorInv, Copies, Known, Mirrored
<1> QED BY <1>1, <1>2 DEF Reflects

\* A mirrored copy shows no level the exchange does not have at the last
\* increment, and none with another volume, whichever came first, the image or
\* newer increments; what an older image brings back is all that can be wrong
\* (mf_parse_depth_full, cf_restparse_all_depthimage).
THEOREM MirroredCopiesAreSound == Spec => []MirrorSound
BY MirrorInvSound, MirrorInit, MirrorStep, PTL DEF Spec

LEMMA MirrorInvComplete == MirrorInv => MirrorComplete
<1> SUFFICES ASSUME MirrorInv, NEW s \in Symbol, Mirrored(s), NEW l \in Level,
                    map_depthfull[s][l] = Absent
             PROVE  \/ hist[s][c_depthfull_lastu[s]][l] = 0
                    \/ CutOff(s, l, c_depthfull_lastu[s])
  BY DEF MirrorComplete, CutOff
<1>1. Shown(s, l) /\ base[s] # 0 /\ base[s] <= c_depthfull_lastu[s]
  BY DEF MirrorInv, Copies, Known, Mirrored
<1> QED BY <1>1 DEF Shown

\* What a mirrored copy misses was cut off the image and did not change since,
\* whichever came first, the image or newer increments (mf_parse_depth_full,
\* cf_restparse_all_depthimage).
THEOREM MirroredCopiesAreComplete == Spec => []MirrorComplete
BY MirrorInvComplete, MirrorInit, MirrorStep, PTL DEF Spec

----------------------------------------------------------------------------
(* The top of the copies.                                                  *)

\* What a cut image leaves out does no harm to the first Depth levels as long as
\* no side of the copy has fewer levels in the range of the image than the image
\* had (cf_restparse_all_depthimage asks for Depth levels only).
LEMMA MirrorInvTop ==
  ASSUME IsFiniteSet(Price), MirrorInv PROVE CopyShowsTop
<1> SUFFICES ASSUME NEW s \in Symbol, Faithful(s),
                    \A side \in Side : Undiminished(s, side)
             PROVE  Cut(View(map_depthfull[s]), Depth)
                    = Cut(hist[s][c_depthfull_lastu[s]], Depth)
  BY DEF CopyShowsTop
<1> DEFINE copy == View(map_depthfull[s])
           book == hist[s][c_depthfull_lastu[s]]
           image0 == hist[s][base[s]]
<1>1. /\ hist[s] \in Seq(Quote) /\ map_depthfull[s] \in Book
      /\ c_depthfull_lastu[s] \in Nat /\ base[s] \in Nat
  BY DEF MirrorInv, TypeInv, TypeOK, Book
<1>m. Mirrored(s)
  BY DEF Faithful
<1>2. /\ base[s] \in 1 .. Len(hist[s])
      /\ c_depthfull_lastu[s] \in 1 .. Len(hist[s])
      /\ c_depthfull_lastu[s] \in base[s] .. c_depthfull_lastu[s]
  BY <1>1, <1>m DEF Mirrored, MirrorInv, Numbers
<1>3. copy \in Quote /\ book \in Quote /\ image0 \in Quote
  BY <1>1, <1>2, ViewQuote
<1>4. \A l \in Level : copy[l] = map_depthfull[s][l].vol
  BY DEF View
<1>5. ASSUME NEW l \in Level, copy[l] > 0 PROVE copy[l] = book[l]
  <2>1. map_depthfull[s][l] # Absent
    BY <1>4, <1>5 DEF Absent
  <2> QED BY <1>4, <1>m, <2>1, MirrorInvSound DEF MirrorSound, Faithful
<1>6. ASSUME NEW l \in Level, book[l] > 0, copy[l] = 0 PROVE Depth <= Rank(copy, l)
  <2> DEFINE img  == OfSide(TopLevels(image0, Depth), l[1])
             kept == {m \in OfSide(Level, l[1]) :
                        /\ map_depthfull[s][m] # Absent
                        /\ \E k \in img : m = k \/ Ahead(m, k)}
  <2>1. map_depthfull[s][l] = Absent
    BY <1>1, <1>4, <1>6 DEF Book, Stored
  <2>2. l \notin TopLevels(image0, Depth) /\ image0[l] = book[l]
    BY <1>2, <1>m, <1>6, <2>1, MirrorInvComplete DEF MirrorComplete
  <2>3. ~ (Rank(image0, l) < Depth)
    BY <1>6, <2>2, TopByRank DEF Present
  <2>4. Depth <= Rank(image0, l)
    BY <2>3, RankType, DepthAssumption
  <2>5. Cardinality(img) = Depth /\ \A k \in img : Ahead(k, l)
    BY <2>4, TopIsAhead, DepthAssumption
  <2>6. l[1] \in Side
    BY DEF Level
  <2>7. Cardinality(kept) >= Depth
    BY <2>5, <2>6 DEF Undiminished
  <2>8. kept \subseteq Better(copy, l)
    <3> SUFFICES ASSUME NEW m \in kept PROVE m \in Better(copy, l)
      OBVIOUS
    <3>1. PICK k \in img : m = k \/ Ahead(m, k)
      OBVIOUS
    <3>2. m \in Level /\ k \in Level /\ map_depthfull[s][m] # Absent
      BY DEF OfSide, TopLevels
    <3>3. Ahead(m, l)
      BY <2>5, <3>1, <3>2, AheadOrders
    <3>4. map_depthfull[s][m] \in Stored
      BY <1>1, <3>2 DEF Book
    <3>5. copy[m] > 0
      <4>1. map_depthfull[s][m].vol \in Nat \ {0}
        BY <3>4, VolAssumption DEF Stored
      <4>2. copy[m] = map_depthfull[s][m].vol
        BY <1>4, <3>2
      <4> HIDE DEF copy
      <4> QED BY <4>1, <4>2
    <3> HIDE DEF copy
    <3> QED BY <3>2, <3>3, <3>5 DEF Better
  <2>9. Better(copy, l) \subseteq Level
    BY DEF Better
  <2>10. Cardinality(kept) <= Rank(copy, l)
    <3> HIDE DEF kept, copy
    <3> QED BY <2>8, <2>9, FewerLevels DEF Rank
  <2>11. Cardinality(kept) \in Nat
    <3>1. kept \subseteq Level
      BY DEF OfSide
    <3> HIDE DEF kept
    <3> QED BY <3>1, FiniteLevels
  <2> HIDE DEF kept, copy
  <2> QED BY <2>7, <2>10, <2>11, RankType, DepthAssumption
<1> HIDE DEF copy, book
<1>7. Cut(copy, Depth) = Cut(book, Depth)
  BY <1>3, <1>5, <1>6, SameFirstLevels, DepthAssumption
<1> QED BY <1>7 DEF copy, book

\* A faithful copy that was built on a cut image shows the first Depth levels of
\* the exchange until more of them have gone than have come.
THEOREM CutImagesSuffice ==
  ASSUME IsFiniteSet(Price) PROVE Spec => []CopyShowsTop
<1>1. MirrorInv => CopyShowsTop
  BY MirrorInvTop
<1> QED BY <1>1, MirrorInit, MirrorStep, PTL DEF Spec

----------------------------------------------------------------------------
(* What is sent of a faithful copy.  With images that hold the whole book  *)
(* nothing is cut off, so the copy is the exchange's book.                 *)

\* A message made of a faithful copy is the top of the exchange's book.
Top(m) ==
  m # None /\ m.sound =>
    /\ m.updateid \in 1 .. Len(hist[m.symbol])
    /\ m.book = Cut(hist[m.symbol][m.updateid], Depth)

SentInv == MirrorInv /\ Top(msg) /\ Top(sent)

\* Nothing is missing from a faithful copy, and nothing in it is wrong.
ViewsAreBooks ==
  \A s \in Symbol : Faithful(s) =>
    View(map_depthfull[s]) = hist[s][c_depthfull_lastu[s]]

LEMMA FaithfulView ==
  ASSUME IsFiniteSet(Price), Cardinality(Price) <= Depth
  PROVE  MirrorInv => ViewsAreBooks
<1> SUFFICES ASSUME MirrorInv, NEW s \in Symbol, Faithful(s)
             PROVE  View(map_depthfull[s]) = hist[s][c_depthfull_lastu[s]]
  BY DEF ViewsAreBooks
<1> DEFINE a == c_depthfull_lastu[s]
<1>1. /\ hist[s] \in Seq(Quote) /\ map_depthfull[s] \in Book
      /\ a \in Nat /\ base[s] \in Nat
  BY DEF MirrorInv, TypeInv, TypeOK, Book
<1>2. /\ base[s] \in 1 .. Len(hist[s]) /\ a <= Len(hist[s]) /\ base[s] <= a
      /\ Len(hist[s]) \in Nat
  BY <1>1 DEF Faithful, Mirrored, MirrorInv, Numbers
<1>3. hist[s][a] \in Quote /\ hist[s][base[s]] \in Quote
  BY <1>1, <1>2
<1>4. ASSUME NEW l \in Level PROVE map_depthfull[s][l].vol = hist[s][a][l]
  <2>1. CASE map_depthfull[s][l] # Absent
    BY <2>1, MirrorInvSound DEF MirrorSound, Faithful
  <2>2. CASE map_depthfull[s][l] = Absent
    <3>1. hist[s][a][l] = 0 \/ CutOff(s, l, a)
      BY <2>2, MirrorInvComplete DEF MirrorComplete, CutOff, Faithful
    <3>2. hist[s][base[s]][l] \in Nat
      BY <1>3, VolAssumption DEF Quote
    <3>3. CutOff(s, l, a) => hist[s][base[s]][l] = 0
      BY <3>2, NothingIsCut DEF CutOff
    <3>4. CutOff(s, l, a) => hist[s][a][l] = hist[s][base[s]][l]
      BY <1>1, <1>2 DEF CutOff
    <3> QED BY <2>2, <3>1, <3>3, <3>4 DEF Absent
  <2> QED BY <2>1, <2>2
<1>5. View(map_depthfull[s]) = [l \in Level |-> hist[s][a][l]]
  BY <1>4 DEF View
<1>6. \A q \in Quote : q = [l \in Level |-> q[l]]
  BY DEF Quote
<1>7. hist[s][a] = [l \in Level |-> hist[s][a][l]]
  BY <1>3, <1>6, Zenon
<1> QED BY <1>5, <1>7, Zenon

LEMMA FaithfulViewNext ==
  ASSUME IsFiniteSet(Price), Cardinality(Price) <= Depth
  PROVE  MirrorInv' => ViewsAreBooks'
BY FaithfulView, PTL

LEMMA SentStep ==
  ASSUME IsFiniteSet(Price), Cardinality(Price) <= Depth, SentInv, [Next]_vars
  PROVE  SentInv'
<1>0. MirrorInv' /\ TypeInv' /\ TypeOK /\ TypeOK'
  BY MirrorStep DEF SentInv, MirrorInv, TypeInv
<1>1. ASSUME NEW s \in Symbol, ExchangeUpdate(s) PROVE Top(msg)' /\ Top(sent)'
  <2>1. PICK q \in Quote : hist' = [hist EXCEPT ![s] = Append(@, q)]
    BY <1>1 DEF ExchangeUpdate, UncrossedQuote
  <2>2. \A r \in Symbol : /\ Len(hist[r]) \in Nat /\ Len(hist'[r]) \in Nat
                          /\ Len(hist[r]) <= Len(hist'[r])
                          /\ \A k \in 1 .. Len(hist[r]) : hist'[r][k] = hist[r][k]
    <3>1. hist \in [Symbol -> Seq(Quote) \ {<< >>}]
      BY <1>0 DEF TypeOK
    <3> QED BY <2>1, <3>1, HistoryGrows
  <2>3. sent' = None /\ msg' = msg
    BY <1>1 DEF ExchangeUpdate
  <2>4. ASSUME msg # None, msg.sound
        PROVE  /\ msg.updateid \in 1 .. Len(hist'[msg.symbol])
               /\ msg.book = Cut(hist'[msg.symbol][msg.updateid], Depth)
    <3>1. msg.symbol \in Symbol
      BY <1>0, <2>4 DEF TypeOK, Message
    <3>2. /\ msg.updateid \in 1 .. Len(hist[msg.symbol])
          /\ msg.book = Cut(hist[msg.symbol][msg.updateid], Depth)
      BY <2>4 DEF SentInv, Top
    <3>3. hist'[msg.symbol][msg.updateid] = hist[msg.symbol][msg.updateid]
      BY <2>2, <3>1, <3>2
    <3> QED BY <2>2, <3>1, <3>2, <3>3
  <2> QED BY <2>3, <2>4 DEF Top
<1>2. ASSUME NEW s \in Symbol, mf_parse_depth_full(s) PROVE Top(msg)' /\ Top(sent)'
  <2>1. /\ c_depthfull_lastu'[s] = feed[s] /\ base'[s] = base[s]
        /\ feed[s] \in 1 .. Len(hist[s])
        /\ hist' = hist /\ sent' = None
    BY <1>0, <1>2 DEF mf_parse_depth_full, TypeOK
  <2>2. msg' = [symbol |-> s, updateid |-> feed[s],
                book |-> Cut(View(map_depthfull'[s]), Depth),
                sound |-> Faithful(s)']
    BY <1>2 DEF mf_parse_depth_full
  <2>3. ASSUME msg'.sound PROVE View(map_depthfull'[s]) = hist'[s][feed[s]]
    <3>1. Faithful(s)'
      BY <2>2, <2>3, Zenon
    <3>2. (View(map_depthfull[s]) = hist[s][c_depthfull_lastu[s]])'
      BY <1>0, <3>1, FaithfulViewNext DEF ViewsAreBooks
    <3> QED BY <2>1, <3>2
  <2>4. msg'.symbol = s /\ msg'.updateid = feed[s]
        /\ msg'.book = Cut(View(map_depthfull'[s]), Depth)
    BY <2>2
  <2> QED BY <2>1, <2>3, <2>4 DEF Top
<1>3. CASE UNCHANGED <<hist, msg>> /\ sent' \in {None, sent}
  BY <1>0, <1>3 DEF SentInv, Top
<1>4. CASE Publish
  <2>1. hist' = hist /\ msg' = None /\ sent' \in {None, msg}
    BY <1>4 DEF Publish, Withhold, Send, RefuseCrossed, exchange
  <2> QED BY <1>0, <2>1 DEF SentInv, Top
<1>5. \/ \E s \in Symbol : ExchangeUpdate(s)
      \/ \E s \in Symbol : mf_parse_depth_full(s)
      \/ UNCHANGED <<hist, msg>> /\ sent' \in {None, sent}
      \/ Publish
  BY DEF SentInv, Next, Exchange, LoopThread, PingThread, ServerSubscribe, on_open,
         on_close, on_message_other, PingPoll, mf_clear_depthfull, RestAnswer, RestFail,
         cf_restparse_all_depthimage, RestDone, PingSettle, vars, exchange
<1> QED BY <1>0, <1>1, <1>2, <1>3, <1>4, <1>5 DEF SentInv

\* With images that hold the whole book, a message composed of a faithful copy is
\* exactly the first Depth levels of the exchange's book, also when the copy is
\* cleared or the flag changes before the message leaves (mf_parse_depth_full).
THEOREM SentIsTheTop ==
  ASSUME IsFiniteSet(Price), Cardinality(Price) <= Depth
  PROVE  Spec => []SentIsTopOfBook
<1>1. Init => SentInv
  BY MirrorInit DEF Init, SentInv, Top
<1>2. SentInv /\ [Next]_vars => SentInv'
  BY SentStep
<1>3. SentInv => SentIsTopOfBook
  BY DEF SentInv, Top, SentIsTopOfBook
<1> QED BY <1>1, <1>2, <1>3, PTL DEF Spec

----------------------------------------------------------------------------
(* Missing images.                                                         *)

\* While the flag is down, every copy has had its image; in the fetching loop, every
\* copy the loop has passed.
Flagged ==
  /\ ppc = "idle" => c_needflash_depthfull = 1
  /\ ppc = "poll" /\ c_needflash_depthfull = 0 => \A s \in Symbol : base[s] # 0
  /\ ppc = "settle" => \A s \in Symbol : base[s] # 0
  /\ ppc = "fetch" => \A s \in Symbol \ todo : base[s] # 0

FlagInv == TypeInv /\ Flagged

LEMMA FlagStep ==
  ASSUME RestFails = FALSE, FlagInv, [Next]_vars PROVE FlagInv'
<1>0. TypeInv' /\ TypeOK
  BY TypeStep DEF FlagInv, TypeInv
<1> USE DEF FlagInv, Flagged
<1>1. ASSUME NEW s \in Symbol, mf_parse_depth_full(s) PROVE Flagged'
  <2>1. \A r \in Symbol : base[r] # 0 => base'[r] # 0
    BY <1>0, <1>1 DEF mf_parse_depth_full, TypeOK
  <2>2. c_needflash_depthfull' = 0 => c_needflash_depthfull = 0
    BY <1>1 DEF mf_parse_depth_full
  <2>3. c_needflash_depthfull' = 1 \/ c_needflash_depthfull' = c_needflash_depthfull
    BY <1>1 DEF mf_parse_depth_full
  <2>4. UNCHANGED <<ppc, todo>>
    BY <1>1 DEF mf_parse_depth_full, ping
  <2> QED BY <2>1, <2>2, <2>3, <2>4
<1>2. CASE Publish
  BY <1>0, <1>2 DEF Publish, Withhold, Send, RefuseCrossed, ping, ghost
<1>3. CASE on_open
  BY <1>0, <1>3 DEF on_open, ghost
<1>4. CASE PingPoll
  BY <1>0, <1>4 DEF PingPoll, ghost
<1>5. CASE mf_clear_depthfull
  BY <1>0, <1>5 DEF mf_clear_depthfull
<1>6. CASE cf_restparse_all_depthimage
  <2>1. image.symbol \in Symbol /\ ppc = "fetch"
    BY <1>0, <1>6 DEF cf_restparse_all_depthimage, TypeOK, TypeInv, ImageKnown
  <2>2. PICK s \in Symbol : s = image.symbol
    BY <2>1
  <2>3. /\ todo' = todo \ {s} /\ base'[s] # 0 /\ ppc' = "fetch"
        /\ \A r \in Symbol \ {s} : base'[r] = base[r]
    BY <1>0, <1>6, <2>1, <2>2 DEF cf_restparse_all_depthimage, TypeOK
  <2> QED BY <1>0, <2>1, <2>3
<1>7. CASE RestDone
  BY <1>0, <1>7 DEF RestDone, ghost
<1>8. CASE PingSettle
  BY <1>0, <1>8 DEF PingSettle, ghost
<1>9. CASE UNCHANGED <<ppc, todo, base, c_needflash_depthfull>>
  BY <1>0, <1>9
<1>10. \/ \E s \in Symbol : mf_parse_depth_full(s)
       \/ Publish \/ on_open \/ PingPoll \/ mf_clear_depthfull
       \/ cf_restparse_all_depthimage \/ RestDone \/ PingSettle
       \/ UNCHANGED <<ppc, todo, base, c_needflash_depthfull>>
  BY DEF Next, Exchange, LoopThread, PingThread, ExchangeUpdate, ServerSubscribe,
         on_close, on_message_other, RestAnswer, RestFail, vars, ping, ghost
<1> QED BY <1>0, <1>1, <1>2, <1>3, <1>4, <1>5, <1>6, <1>7, <1>8, <1>9, <1>10

\* If no request fails, the flag of a copy without an image is up while the ping
\* thread waits (m_thread_ping, cf_restreq_all_depthimage).
THEOREM MissingImagesAreFlagged ==
  ASSUME RestFails = FALSE PROVE Spec => []FlagShowsMissingImage
<1>1. Init => FlagInv
  BY TypeInit DEF Init, FlagInv, Flagged
<1>2. FlagInv /\ [Next]_vars => FlagInv'
  BY FlagStep
<1>3. FlagInv => FlagShowsMissingImage
  BY DEF FlagInv, Flagged, TypeInv, TypeOK, FlagShowsMissingImage
<1> QED BY <1>1, <1>2, <1>3, PTL DEF Spec

----------------------------------------------------------------------------
(* Levels only move forward.                                               *)

Advances ==
  \A s \in Symbol, l \in Level :
    map_depthfull'[s][l] # Absent =>
      map_depthfull'[s][l].updateid >= map_depthfull[s][l].updateid

LEMMA AdvanceStep == TypeInv /\ [Next]_vars => Advances
<1> SUFFICES ASSUME TypeInv, [Next]_vars PROVE Advances
  OBVIOUS
<1>t. /\ map_depthfull \in [Symbol -> [Level -> Stored \cup {Absent}]]
      /\ feed \in [Symbol -> Nat]
  BY DEF TypeInv, TypeOK
<1>u. \A s \in Symbol, l \in Level : map_depthfull[s][l].updateid \in Nat
  BY <1>t DEF Stored, Absent
<1>1. ASSUME NEW s \in Symbol, mf_parse_depth_full(s) PROVE Advances
  <2> DEFINE T == Changed(hist[s][feed[s] - 1], hist[s][feed[s]])
             b == ApplyDiff(map_depthfull[s], feed[s], T, hist[s][feed[s]])
  <2>1. map_depthfull' = [map_depthfull EXCEPT ![s] = b]
    BY <1>1 DEF mf_parse_depth_full
  <2>2. ASSUME NEW l \in Level, b[l] # Absent
        PROVE  b[l].updateid >= map_depthfull[s][l].updateid
    <3> HIDE DEF T
    <3>1. \/ b[l] = map_depthfull[s][l]
          \/ /\ map_depthfull[s][l].updateid < feed[s]
             /\ b[l].updateid = feed[s]
      BY <2>2 DEF ApplyDiff
    <3> HIDE DEF b
    <3> QED BY <1>t, <1>u, <3>1
  <2> HIDE DEF b
  <2> QED BY <1>t, <1>u, <2>1, <2>2 DEF Advances
<1>2. CASE cf_restparse_all_depthimage
  <2>0. image.symbol \in Symbol /\ image.updateid \in Nat
    BY <1>2 DEF cf_restparse_all_depthimage, TypeInv, TypeOK
  <2>1. PICK s \in Symbol, id \in Nat : s = image.symbol /\ id = image.updateid
    BY <2>0
  <2> DEFINE img == Cut(hist[s][id], Depth)
             b   == ApplyImage(map_depthfull[s], id, img)
  <2>2. map_depthfull' = [map_depthfull EXCEPT ![s] = b]
    BY <1>2, <2>1 DEF cf_restparse_all_depthimage
  <2>3. ASSUME NEW l \in Level PROVE b[l].updateid >= map_depthfull[s][l].updateid
    <3> HIDE DEF img
    <3>1. \/ b[l] = map_depthfull[s][l]
          \/ map_depthfull[s][l].updateid < id /\ b[l].updateid = id
      BY DEF ApplyImage
    <3> HIDE DEF b
    <3> QED BY <1>u, <2>1, <3>1
  <2> HIDE DEF b
  <2> QED BY <1>t, <1>u, <2>2, <2>3 DEF Advances
<1>3. CASE mf_clear_depthfull
  BY <1>3 DEF mf_clear_depthfull, Empty, Advances
<1>4. CASE UNCHANGED map_depthfull
  BY <1>u, <1>4 DEF Advances
<1>5. \/ \E s \in Symbol : mf_parse_depth_full(s)
      \/ cf_restparse_all_depthimage
      \/ mf_clear_depthfull
      \/ UNCHANGED map_depthfull
  BY DEF Next, Exchange, LoopThread, PingThread, ExchangeUpdate, ServerSubscribe,
         on_open, on_close, on_message_other, Publish, PingPoll, RestAnswer,
         RestFail, RestDone, PingSettle, vars
<1> QED BY <1>1, <1>2, <1>3, <1>4, <1>5

\* No image and no increment takes a level that stays in a copy back to an
\* older update.
THEOREM LevelsOnlyAdvance == Spec => EntriesOnlyAdvance
<1>1. TypeInv /\ [Next]_vars => [Advances]_vars
  BY AdvanceStep
<1> QED BY <1>1, TypeInit, TypeStep, PTL DEF Spec, EntriesOnlyAdvance, Advances

----------------------------------------------------------------------------
(* Increments that are missed.                                             *)

\* What is missed comes after an increment, whose number is still there, on
\* whichever connection it came.
LEMMA MissStep ==
  ASSUME MirrorInv, [Next]_vars, NEW s \in Symbol, missed'[s], ~missed[s]
  PROVE  c_needflash_depthfull' = 1
<1>t. /\ missed \in [Symbol -> BOOLEAN] /\ c_depthfull_lastu \in [Symbol -> Nat]
      /\ first \in [Symbol -> Nat] /\ feed \in [Symbol -> Nat]
  BY DEF MirrorInv, TypeInv, TypeOK
<1>1. ASSUME NEW i \in Symbol, mf_parse_depth_full(i) PROVE c_needflash_depthfull' = 1
  <2>1. /\ missed' = [missed EXCEPT ![i] =
              @ \/ (first[i] # 0 /\ c_depthfull_lastu[i] # feed[i] - 1)]
        /\ c_needflash_depthfull' = IF LostData(i, feed[i]) THEN 1
                                    ELSE c_needflash_depthfull
    BY <1>1 DEF mf_parse_depth_full
  <2>2. i = s /\ first[s] # 0 /\ c_depthfull_lastu[s] # feed[s] - 1
    BY <1>t, <2>1
  <2>3. c_depthfull_lastu[s] # 0
    BY <1>t, <2>2 DEF MirrorInv, Numbers
  <2> QED BY <2>1, <2>2, <2>3 DEF LostData
<1>2. CASE mf_clear_depthfull
  BY <1>2 DEF mf_clear_depthfull, ForgetCopies
<1>3. CASE UNCHANGED missed
  BY <1>3
<1>4. \/ \E i \in Symbol : mf_parse_depth_full(i)
      \/ mf_clear_depthfull
      \/ UNCHANGED missed
  BY DEF Next, Exchange, LoopThread, PingThread, ExchangeUpdate, ServerSubscribe,
         on_open, on_close, on_message_other, Publish, PingPoll, RestAnswer,
         RestFail, cf_restparse_all_depthimage, RestDone, PingSettle, vars, ghost
<1> QED BY <1>1, <1>2, <1>3, <1>4

\* An increment that was lost between two others raises the flag when the next one
\* is applied, however many connections lie between them (mf_parse_depth_full).
THEOREM MissedIncrementsRaiseTheFlag == Spec => MissesAreNoticed
<1> DEFINE Noticed ==
      \A s \in Symbol : missed'[s] /\ ~missed[s] => c_needflash_depthfull' = 1
<1>1. MirrorInv /\ [Next]_vars => [Noticed]_vars
  BY MissStep
<1> QED BY <1>1, MirrorInit, MirrorStep, PTL DEF Spec, MissesAreNoticed, Noticed

----------------------------------------------------------------------------
(* How long a refresh takes.  That the ping thread goes on at all is a     *)
(* matter of fairness; how far it has to go is not.                        *)

\* The steps the ping thread has left until it lowers the flag: at each symbol one
\* for the answer and one for parsing it, or one when the request fails.
StepsLeft ==
  CASE ppc = "idle"   -> 2 * Cardinality(Symbol) + 4
    [] ppc = "poll"   -> 2 * Cardinality(Symbol) + 3
    [] ppc = "clear"  -> 2 * Cardinality(Symbol) + 2
    [] ppc = "fetch"  -> 2 * Cardinality(todo) + (IF image = None THEN 1 ELSE 0)
    [] ppc = "settle" -> 1

\* While the flag stays up every step of the ping thread brings the end of the
\* refresh nearer, and nothing the loop thread or the exchange does puts it off.
RefreshAdvances ==
  c_needflash_depthfull = 1 /\ c_needflash_depthfull' = 1 =>
    IF PingThread THEN StepsLeft' < StepsLeft ELSE StepsLeft' <= StepsLeft

LEMMA RefreshStep ==
  ASSUME IsFiniteSet(Symbol), TypeInv, TypeInv', [Next]_vars
  PROVE  RefreshAdvances
<1> DEFINE N == Cardinality(Symbol)
<1> SUFFICES ASSUME c_needflash_depthfull = 1, c_needflash_depthfull' = 1
             PROVE  IF PingThread THEN StepsLeft' < StepsLeft ELSE StepsLeft' <= StepsLeft
  BY DEF RefreshAdvances
<1>0. /\ N \in Nat /\ todo \subseteq Symbol
      /\ \A T : T \subseteq Symbol =>
           /\ IsFiniteSet(T) /\ Cardinality(T) \in Nat
           /\ \A s \in T : Cardinality(T \ {s}) = Cardinality(T) - 1
      /\ ppc \in {"idle", "poll", "clear", "fetch", "settle"}
  <2>1. todo \subseteq Symbol /\ ppc \in {"idle", "poll", "clear", "fetch", "settle"}
    BY DEF TypeInv, TypeOK
  <2>2. ASSUME NEW T, T \subseteq Symbol
        PROVE  /\ IsFiniteSet(T) /\ Cardinality(T) \in Nat
               /\ \A s \in T : Cardinality(T \ {s}) = Cardinality(T) - 1
    BY <2>2, FS_Subset, FS_CardinalityType, FS_RemoveElement
  <2> QED BY <2>1, <2>2
<1> HIDE DEF N
<1>1. CASE PingThread
  <2>1. CASE PingPoll
    BY <1>0, <2>1 DEF PingPoll, StepsLeft, N
  <2>2. CASE mf_clear_depthfull
    <3>1. ppc = "clear" /\ ppc' = "fetch" /\ todo' = Symbol
      BY <2>2 DEF mf_clear_depthfull
    <3>2. StepsLeft = 2 * N + 2 /\ StepsLeft' = 2 * N + (IF image' = None THEN 1 ELSE 0)
      BY <3>1 DEF StepsLeft, N
    <3> QED BY <1>0, <1>1, <3>2
  <2>3. ASSUME NEW s \in Symbol, RestAnswer(s) \/ RestFail(s)
        PROVE  StepsLeft' < StepsLeft
    <3>1. StepsLeft = 2 * Cardinality(todo) + 1
      BY <2>3 DEF RestAnswer, RestFail, StepsLeft
    <3>2. CASE RestAnswer(s)
      <4>1. ppc' = "fetch" /\ todo' = todo /\ image' # None
        BY <1>0, <3>2, NoneAssumption DEF RestAnswer, TypeInv, TypeOK, ImageKnown
      <4>2. StepsLeft' = 2 * Cardinality(todo) + 0
        BY <4>1 DEF StepsLeft
      <4> QED BY <1>0, <3>1, <4>2
    <3>3. CASE RestFail(s)
      <4>1. ppc' = "fetch" /\ s \in todo /\ todo' = todo \ {s} /\ image' = None
        BY <3>3 DEF RestFail
      <4>2. StepsLeft' = 2 * Cardinality(todo \ {s}) + 1
        BY <4>1 DEF StepsLeft
      <4> QED BY <1>0, <3>1, <4>1, <4>2
    <3> QED BY <2>3, <3>2, <3>3
  <2>4. CASE cf_restparse_all_depthimage
    <3>1. /\ ppc = "fetch" /\ ppc' = "fetch" /\ image # None /\ image' = None
          /\ image.symbol \in todo /\ todo' = todo \ {image.symbol}
      BY <2>4 DEF cf_restparse_all_depthimage, TypeInv, ImageKnown
    <3>2. /\ StepsLeft = 2 * Cardinality(todo) + 0
          /\ StepsLeft' = 2 * Cardinality(todo \ {image.symbol}) + 1
      BY <3>1 DEF StepsLeft
    <3> QED BY <1>0, <1>1, <3>1, <3>2
  <2>5. ~ RestDone /\ ~ PingSettle
    BY DEF RestDone, PingSettle
  <2> QED BY <1>1, <2>1, <2>2, <2>3, <2>4, <2>5 DEF PingThread
<1>2. CASE ~ PingThread
  <2>1. \/ UNCHANGED <<ppc, todo, image>>
        \/ ppc = "idle" /\ ppc' = "poll"
    BY <1>2 DEF Next, Exchange, ExchangeUpdate, ServerSubscribe, LoopThread, on_open,
                on_close, on_message_other, mf_parse_depth_full, Publish, vars, ping
  <2>2. CASE UNCHANGED <<ppc, todo, image>>
    <3>1. StepsLeft' = StepsLeft
      BY <2>2 DEF StepsLeft
    <3>2. StepsLeft \in Nat
      BY <1>0 DEF StepsLeft, N
    <3> QED BY <1>2, <3>1, <3>2
  <2>3. CASE ppc = "idle" /\ ppc' = "poll"
    BY <1>0, <1>2, <2>3 DEF StepsLeft, N
  <2> QED BY <2>1, <2>2, <2>3
<1> QED BY <1>1, <1>2

\* A refresh is over after at most 2 * Cardinality(Symbol) + 3 steps of the ping
\* thread, however many gaps are noticed, connections lost and requests answered
\* late meanwhile (m_thread_ping, cf_restreq_all_depthimage).
THEOREM RefreshesAreBounded ==
  ASSUME IsFiniteSet(Symbol) PROVE Spec => [][RefreshAdvances]_vars
<1>1. TypeInv /\ TypeInv' /\ [Next]_vars => RefreshAdvances
  BY RefreshStep
<1> QED BY <1>1, TypeInit, TypeStep, PTL DEF Spec

----------------------------------------------------------------------------
(* BinanceDepth implements DepthFeed: its initial states are initial       *)
(* states of the feed, and each of its steps is a step of the feed or      *)
(* leaves the feed alone.                                                  *)

\* The feed's own copies of the operators on books are those of DepthBook.
LEMMA SameOperators ==
  /\ Feed!Level = Level
  /\ Feed!Quote = Quote
  /\ Feed!Message = Message
  /\ \A q, n : Feed!Cut(q, n) = Cut(q, n)
  /\ \A q : Feed!TwoSided(q) <=> TwoSided(q)
  /\ \A q : Feed!Crossed(q) <=> Crossed(q)
<1>1. Feed!Level = Level /\ Feed!Quote = Quote /\ Feed!Message = Message
  BY DEF Feed!Level, Level, Feed!Side, Side, Feed!Quote, Quote, Feed!Message, Message
<1>2. \A q, n : Feed!Cut(q, n) = Cut(q, n)
  <2>1. \A S : Feed!Cardinality(S) = Cardinality(S)
    BY DEF Feed!Cardinality, Cardinality
  <2> QED BY <1>1, <2>1 DEF Feed!Cut, Cut, Feed!TopLevels, TopLevels, Feed!Ahead, Ahead
<1>3. \A q : Feed!TwoSided(q) <=> TwoSided(q)
  BY DEF Feed!TwoSided, TwoSided, Feed!Side, Side
<1>4. \A q : Feed!Crossed(q) <=> Crossed(q)
  BY DEF Feed!Crossed, Crossed
<1> QED BY <1>1, <1>2, <1>3, <1>4

LEMMA FeedInit == Init => Feed!Init
BY SameOperators DEF Init, UncrossedQuote, Feed!Init

\* The step that composes a message: the number it carries is newer than the
\* last one's, and if the copy is faithful, MirrorSound holds of it.
LEMMA ComposeDrafts ==
  ASSUME MirrorInv, MirrorInv', MirrorSound',
         NEW s \in Symbol, mf_parse_depth_full(s)
  PROVE  Feed!Draft(s)
<1> DEFINE u == feed[s]
           book == Cut(View(map_depthfull'[s]), Depth)
           snd  == Faithful(s)'
<1>1. /\ c_depthfull_lastu \in [Symbol -> Nat]
      /\ feed \in [Symbol -> Nat]
      /\ base \in [Symbol -> Nat]
      /\ map_depthfull' \in [Symbol -> Book]
      /\ msg' \in Message \cup {None}
  BY DEF MirrorInv, TypeInv, TypeOK, Book
<1>2. /\ msg = None
      /\ u # 0
      /\ u <= Len(hist[s])
      /\ c_depthfull_lastu' = [c_depthfull_lastu EXCEPT ![s] = u]
      /\ msg' = [symbol |-> s, updateid |-> u, book |-> book, sound |-> snd]
      /\ sent' = None
      /\ hist' = hist /\ base' = base
  BY DEF mf_parse_depth_full
<1>3. u \in c_depthfull_lastu[s] .. Len(hist[s])
  BY <1>1, <1>2 DEF MirrorInv, TypeInv, TypeOK, Numbers
<1>4. View(map_depthfull'[s]) \in Quote
  BY <1>1, ViewQuote
<1>5. book \in Quote
  BY <1>4, CutQuote
<1>6. msg' \in Message
  <2>1. snd \in BOOLEAN
    BY DEF Faithful, Mirrored
  <2>2. u \in Nat \ {0}
    BY <1>1, <1>2
  <2> HIDE DEF snd, u, book
  <2> QED BY <1>2, <1>5, <2>1, <2>2 DEF Message
<1>7. ASSUME snd, NEW l \in Level, book[l] > 0
      PROVE  book[l] = hist[s][u][l]
  <2>1. book[l] = View(map_depthfull'[s])[l]
    BY <1>7, CutShows
  <2>2. map_depthfull'[s][l].vol = book[l]
    BY <2>1 DEF View
  <2>3. map_depthfull'[s][l] # Absent
    BY <1>7, <2>2 DEF Absent
  <2>4. c_depthfull_lastu'[s] = u
    BY <1>1, <1>2
  <2>5. Mirrored(s)' /\ ~BroughtBack(s, l)'
    BY <1>7 DEF Faithful
  <2>6. map_depthfull'[s][l].vol = hist'[s][u][l]
    BY <2>3, <2>4, <2>5 DEF MirrorSound
  <2> QED BY <1>2, <2>2, <2>6
<1>8. \E q \in Quote : msg'.book = Cut(q, Depth)
  BY <1>2, <1>4
<1>9. msg'.sound => \A l \in Level : msg'.book[l] > 0
                                       => msg'.book[l] = hist[s][msg'.updateid][l]
  <2> HIDE DEF book, snd
  <2> QED BY <1>2, <1>7
<1>10. /\ msg'.symbol = s
       /\ msg'.updateid = u
  BY <1>2
<1> HIDE DEF u, book, snd
<1> QED BY <1>2, <1>3, <1>6, <1>8, <1>9, <1>10, SameOperators
        DEF Feed!Draft, Feed!Shows

\* Sending is the feed's Ship, holding back and refusing its Drop.
LEMMA PublishShipsOrDrops == Publish => Feed!Ship \/ Feed!Drop
<1> SUFFICES ASSUME Publish PROVE Feed!Ship \/ Feed!Drop
  OBVIOUS
<1>1. /\ msg # None /\ msg' = None
      /\ UNCHANGED <<hist, c_depthfull_lastu>>
  BY DEF Publish, exchange
<1>2. CASE Send
  BY <1>1, <1>2, SameOperators DEF Send, Feed!Ship
<1>3. CASE Withhold \/ RefuseCrossed
  BY <1>1, <1>3 DEF Withhold, RefuseCrossed, Feed!Drop
<1> QED BY <1>2, <1>3 DEF Publish

LEMMA FeedStep ==
  MirrorInv /\ MirrorInv' /\ MirrorSound' /\ [Next]_vars => [Feed!Next]_(Feed!feedVars)
<1> SUFFICES ASSUME MirrorInv, MirrorInv', MirrorSound', [Next]_vars
             PROVE  Feed!Next \/ UNCHANGED <<hist, c_depthfull_lastu, msg, sent>>
  BY DEF Feed!feedVars
<1>1. ASSUME NEW s \in Symbol, ExchangeUpdate(s) PROVE Feed!Move(s)
  BY <1>1, SameOperators DEF ExchangeUpdate, UncrossedQuote, Feed!Move
<1>2. ASSUME NEW s \in Symbol, mf_parse_depth_full(s) PROVE Feed!Draft(s)
  BY <1>2, ComposeDrafts
<1>3. CASE Publish
  BY <1>3, PublishShipsOrDrops DEF Feed!Next
<1>4. \/ \E s \in Symbol : ExchangeUpdate(s) \/ mf_parse_depth_full(s)
      \/ Publish
      \/ Feed!Idle
      \/ UNCHANGED vars
  BY DEF Next, Exchange, LoopThread, PingThread, ServerSubscribe,
         on_open, on_close, on_message_other, PingPoll, mf_clear_depthfull,
         RestAnswer, RestFail, cf_restparse_all_depthimage, RestDone, PingSettle,
         exchange, Feed!Idle
<1> QED BY <1>1, <1>2, <1>3, <1>4 DEF Feed!Next, vars, exchange

\* The client implements the abstract feed: whatever is lost, late or
\* overtaken, the messages of a symbol are about ever newer updates, two-sided
\* and uncrossed, and those composed of faithful copies show only levels the
\* exchange had.
THEOREM ImplementsFeed == Spec => FeedSpec
<1>1. MirrorInv => MirrorSound
  BY MirrorInvSound
<1>2. Spec => []MirrorInv
  BY MirrorInit, MirrorStep, PTL DEF Spec
<1>3. Spec => [](MirrorInv /\ MirrorSound)
  BY <1>1, <1>2, PTL
<1> QED BY <1>3, FeedInit, FeedStep, PTL DEF Spec, FeedSpec, Feed!Spec

----------------------------------------------------------------------------
(* What follows from being a feed (DepthFeed_proofs).                      *)

FeedFacts == INSTANCE DepthFeed_proofs WITH latest <- c_depthfull_lastu, draft <- msg

\* The two instances of DepthFeed are one.
LEMMA SameFeed == Feed!Spec => FeedFacts!Spec
<1>1. /\ FeedFacts!Level = Feed!Level /\ FeedFacts!Quote = Feed!Quote
      /\ FeedFacts!Message = Feed!Message
  BY DEF Feed!Level, FeedFacts!Level, Feed!Side, FeedFacts!Side, Feed!Quote,
         FeedFacts!Quote, Feed!Message, FeedFacts!Message
<1>2. \A q, n : FeedFacts!Cut(q, n) = Feed!Cut(q, n)
  <2>1. \A S : FeedFacts!Cardinality(S) = Feed!Cardinality(S)
    BY DEF Feed!Cardinality, FeedFacts!Cardinality
  <2> QED BY <1>1, <2>1 DEF Feed!Cut, FeedFacts!Cut, Feed!TopLevels, FeedFacts!TopLevels,
                            Feed!Ahead, FeedFacts!Ahead
<1>3. \A q : /\ FeedFacts!TwoSided(q) <=> Feed!TwoSided(q)
             /\ FeedFacts!Crossed(q) <=> Feed!Crossed(q)
  BY DEF Feed!TwoSided, FeedFacts!TwoSided, Feed!Side, FeedFacts!Side, Feed!Crossed,
         FeedFacts!Crossed
<1>4. Feed!Init => FeedFacts!Init
  BY <1>1 DEF Feed!Init, FeedFacts!Init
<1>5. ASSUME NEW s \in Symbol PROVE Feed!Move(s) => FeedFacts!Move(s)
  BY <1>1 DEF Feed!Move, FeedFacts!Move
<1>6. ASSUME NEW s \in Symbol PROVE Feed!Draft(s) => FeedFacts!Draft(s)
  BY <1>1, <1>2 DEF Feed!Draft, FeedFacts!Draft, Feed!Shows, FeedFacts!Shows
<1>7. Feed!Ship => FeedFacts!Ship
  BY <1>3 DEF Feed!Ship, FeedFacts!Ship
<1>8. (Feed!Drop => FeedFacts!Drop) /\ (Feed!Idle => FeedFacts!Idle)
  BY DEF Feed!Drop, FeedFacts!Drop, Feed!Idle, FeedFacts!Idle
<1>9. [Feed!Next]_(Feed!feedVars) => [FeedFacts!Next]_(FeedFacts!feedVars)
  BY <1>5, <1>6, <1>7, <1>8 DEF Feed!Next, FeedFacts!Next, Feed!feedVars, FeedFacts!feedVars
<1> QED BY <1>4, <1>9, PTL DEF Feed!Spec, FeedFacts!Spec

\* Every message the client sends can be used as it is: two sides that do not
\* cross, at most Depth levels each, of an update the exchange has made, although
\* the copy it was cut from may be stale, torn by a gap or crossed.
THEOREM MessagesAreUsable ==
  ASSUME IsFiniteSet(Price) PROVE Spec => []FeedFacts!SentIsUsable
<1>1. FeedFacts!IsFiniteSet(Price)
  BY DEF IsFiniteSet, FeedFacts!IsFiniteSet
<1>2. FeedFacts!Spec => []FeedFacts!SentIsUsable
  BY <1>1, FeedFacts!MessagesAreUsable, PriceAssumption, VolAssumption, DepthAssumption
<1> QED BY <1>2, ImplementsFeed, SameFeed, PTL DEF FeedSpec

\* The messages of a symbol never go back to an older update, across gaps,
\* refreshes and reconnects: neither mf_clear_depthfull nor on_close resets
\* c_depthfull_lastu.
THEOREM MessagesNeverGoBack ==
  Spec => []FeedFacts!SentIsLatest /\ [][FeedFacts!NumbersAdvance]_(FeedFacts!feedVars)
BY ImplementsFeed, SameFeed, FeedFacts!MessagesNeverGoBack, PriceAssumption,
   VolAssumption, DepthAssumption, PTL DEF FeedSpec
==============================================================================
