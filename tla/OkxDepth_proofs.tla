--------------------------- MODULE OkxDepth_proofs ---------------------------
(***************************************************************************)
(* What holds of OkxDepth for every set of symbols, prices and volumes,    *)
(* every Depth, CheckEvery and CheckLevels, every bound, and whether or    *)
(* not the exchange loses data and answers a second subscribe; in the end  *)
(* that the client implements DepthFeed and keeps what DepthFeed_proofs    *)
(* shows of it.                                                            *)
(***************************************************************************)
EXTENDS OkxDepth, DepthBook_proofs, SequenceTheorems

----------------------------------------------------------------------------
(* Types, and what the data under way is: books the exchange has had, in   *)
(* the order it had them, none older than the last one applied.            *)

FeedOrdered ==
  \A s \in Symbol :
    /\ last[s] <= Len(hist[s])
    /\ \A k \in 1 .. Len(down[s]) :
         /\ down[s][k].id <= Len(hist[s])
         /\ last[s] <= down[s][k].id
         /\ down[s][k].kind = "update" => down[s][k].id >= 2
         /\ \A j \in 1 .. k : down[s][j].id <= down[s][k].id

TypeInv == TypeOK /\ FeedOrdered

LEMMA EmptyQuote == EmptyBook \in Quote
BY VolAssumption DEF EmptyBook, Quote

LEMMA ApplyDataQuote ==
  ASSUME NEW b \in Quote, NEW T, NEW q \in Quote
  PROVE  ApplyData(b, T, q) \in Quote
BY DEF ApplyData, Quote

LEMMA TypeInit == Init => TypeInv
<1> SUFFICES ASSUME Init PROVE TypeInv
  OBVIOUS
<1>1. hist \in [Symbol -> Seq(Quote) \ {<< >>}]
  <2>1. \A q \in UncrossedQuote : <<q>> \in Seq(Quote) \ {<< >>}
    BY DEF UncrossedQuote
  <2>2. hist \in [Symbol -> {<<q>> : q \in UncrossedQuote}]
    BY DEF Init
  <2> QED BY <2>1, <2>2
<1>2. up \in [Symbol -> Seq({"subscribe", "unsubscribe"})]
      /\ down \in [Symbol -> Seq(Datum)]
  BY DEF Init
<1>3. FeedOrdered
  BY <1>1 DEF Init, FeedOrdered
<1>4. map_depthfull \in [Symbol -> Quote]
  BY EmptyQuote DEF Init
<1>5. 0 \in 0 .. CheckEvery - 1 /\ 0 \in 0 .. MaxOpen /\ 0 \in 0 .. MaxRefresh
  BY CheckAssumption, OkxBoundAssumption
<1>6. TypeOK
  BY <1>1, <1>2, <1>4, <1>5 DEF Init, TypeOK, Sync
<1> QED BY <1>3, <1>6 DEF TypeInv

\* The data of s grows by one datum that is the newest so far.
LEMMA PushDatum ==
  ASSUME TypeInv, NEW s \in Symbol, NEW d \in Datum,
         hist' \in [Symbol -> Seq(Quote) \ {<< >>}],
         \A r \in Symbol : Len(hist[r]) <= Len(hist'[r]),
         d.id = Len(hist'[s]),
         d.kind = "update" => d.id >= 2,
         down' = [down EXCEPT ![s] = Append(@, d)],
         last' = last
  PROVE  FeedOrdered' /\ down' \in [Symbol -> Seq(Datum)]
<1>1. /\ down \in [Symbol -> Seq(Datum)]
      /\ last \in [Symbol -> Nat]
      /\ hist \in [Symbol -> Seq(Quote) \ {<< >>}]
  BY DEF TypeInv, TypeOK
<1>2. down' \in [Symbol -> Seq(Datum)]
  BY <1>1
<1>3. ASSUME NEW r \in Symbol, NEW k \in 1 .. Len(down'[r])
      PROVE  /\ down'[r][k].id <= Len(hist'[r])
             /\ last[r] <= down'[r][k].id
             /\ down'[r][k].kind = "update" => down'[r][k].id >= 2
             /\ \A j \in 1 .. k : down'[r][j].id <= down'[r][k].id
  <2>1. Len(hist[r]) \in Nat /\ Len(hist'[r]) \in Nat /\ Len(hist[r]) <= Len(hist'[r])
    BY <1>1
  <2>2. \A i \in 1 .. Len(down[r]) : down[r][i].id \in Nat /\ down'[r][i] = down[r][i]
    <3>1. ASSUME NEW i \in 1 .. Len(down[r])
          PROVE  down[r][i] \in Datum /\ down'[r][i] = down[r][i]
      BY <1>1
    <3> QED BY <3>1 DEF Datum
  <2>3. last[r] \in Nat /\ last[r] <= Len(hist[r])
    BY <1>1 DEF TypeInv, FeedOrdered
  <2>4. CASE k \in 1 .. Len(down[r])
    BY <2>1, <2>2, <2>3, <2>4 DEF TypeInv, FeedOrdered
  <2>5. CASE k \notin 1 .. Len(down[r])
    <3>1. r = s /\ k = Len(down[s]) + 1 /\ down'[s][k] = d
      BY <1>1, <1>3, <2>5
    <3>2. \A j \in 1 .. Len(down[s]) : down'[s][j].id <= Len(hist[s])
      BY <2>2, <3>1 DEF TypeInv, FeedOrdered
    <3>3. \A j \in 1 .. k : j = k \/ j \in 1 .. Len(down[s])
      BY <1>1, <3>1
    <3> QED BY <2>1, <2>2, <2>3, <3>1, <3>2, <3>3
  <2> QED BY <2>4, <2>5
<1>4. \A r \in Symbol : last'[r] <= Len(hist'[r])
  BY <1>1 DEF TypeInv, FeedOrdered
<1> QED BY <1>2, <1>3, <1>4 DEF FeedOrdered

\* Steps that leave the feed alone, or empty it.
LEMMA FeedUnchanged ==
  ASSUME FeedOrdered, UNCHANGED <<hist, down, last>> PROVE FeedOrdered'
BY DEF FeedOrdered

LEMMA TypeStep == TypeInv /\ [Next]_vars => TypeInv'
<1> SUFFICES ASSUME TypeInv, [Next]_vars PROVE TypeInv'
  OBVIOUS
<1>0. TypeOK /\ FeedOrdered
  BY DEF TypeInv
<1> USE DEF TypeOK
<1>1. ASSUME NEW s \in Symbol, ExchangeUpdate(s) PROVE TypeInv'
  <2>1. PICK q \in Quote : hist' = [hist EXCEPT ![s] = Append(@, q)]
    BY <1>1 DEF ExchangeUpdate, UncrossedQuote
  <2>2. /\ hist' \in [Symbol -> Seq(Quote) \ {<< >>}]
        /\ \A r \in Symbol : Len(hist[r]) <= Len(hist'[r])
        /\ Len(hist'[s]) \in Nat /\ Len(hist'[s]) >= 2
    <3>1. /\ hist[s] \in Seq(Quote) /\ hist[s] # << >>
          /\ hist \in [Symbol -> Seq(Quote) \ {<< >>}]
      BY <1>0
    <3>2. /\ hist'[s] = Append(hist[s], q)
          /\ \A r \in Symbol \ {s} : hist'[r] = hist[r]
          /\ hist' = [hist EXCEPT ![s] = Append(hist[s], q)]
      BY <2>1, <3>1
    <3>3. Append(hist[s], q) \in Seq(Quote) \ {<< >>}
          /\ Len(Append(hist[s], q)) = Len(hist[s]) + 1
          /\ Len(hist[s]) \in Nat \ {0}
      BY <3>1
    <3>4. hist' \in [Symbol -> Seq(Quote) \ {<< >>}]
      BY <3>1, <3>2, <3>3
    <3>5. \A r \in Symbol : Len(hist[r]) \in Nat
      BY <3>1
    <3> QED BY <3>2, <3>3, <3>4, <3>5
  <2>3. FeedOrdered' /\ down' \in [Symbol -> Seq(Datum)]
    <3>1. CASE down' = [down EXCEPT ![s] =
                          Append(@, [kind |-> "update", id |-> Len(hist'[s])])]
      <4> DEFINE d == [kind |-> "update", id |-> Len(hist'[s])]
      <4>1. /\ d \in Datum /\ d.id = Len(hist'[s]) /\ d.id >= 2
            /\ down' = [down EXCEPT ![s] = Append(@, d)]
        BY <2>2, <3>1 DEF Datum
      <4>2. last' = last
        BY <1>1 DEF ExchangeUpdate, ghost
      <4> HIDE DEF d
      <4> QED BY <2>2, <4>1, <4>2, PushDatum
    <3>2. CASE down' = down
      <4>1. last' = last
        BY <1>1 DEF ExchangeUpdate, ghost
      <4>2. \A r \in Symbol : /\ Len(hist[r]) \in Nat /\ Len(hist'[r]) \in Nat
                              /\ last[r] \in Nat
        BY <1>0, <2>2
      <4>3. \A r \in Symbol : \A k \in 1 .. Len(down[r]) : down[r][k].id \in Nat
        <5>1. \A r \in Symbol : \A k \in 1 .. Len(down[r]) : down[r][k] \in Datum
          BY <1>0
        <5> QED BY <5>1 DEF Datum
      <4>4. FeedOrdered
        BY <1>0
      <4>5. \A r \in Symbol : Len(hist[r]) <= Len(hist'[r])
        BY <2>2
      <4>6. FeedOrdered'
        BY <3>2, <4>1, <4>2, <4>3, <4>4, <4>5 DEF FeedOrdered
      <4> QED BY <1>0, <3>2, <4>6
    <3> QED BY <1>1, <3>1, <3>2 DEF ExchangeUpdate
  <2> QED BY <1>0, <1>1, <2>2, <2>3 DEF ExchangeUpdate, conn, ping, ghost, TypeInv
<1>2. ASSUME NEW s \in Symbol, ServerRequest(s) PROVE TypeInv'
  <2>1. /\ up' \in [Symbol -> Seq({"subscribe", "unsubscribe"})]
        /\ subscribed' \in [Symbol -> BOOLEAN]
        /\ hist' = hist /\ last' = last
        /\ Len(hist[s]) \in Nat \ {0}
    BY <1>0, <1>2 DEF ServerRequest, ghost
  <2>2. FeedOrdered' /\ down' \in [Symbol -> Seq(Datum)]
    <3> DEFINE d == [kind |-> "snapshot", id |-> Len(hist[s])]
    <3>1. CASE down' = [down EXCEPT ![s] = Append(@, d)]
      <4>1. d \in Datum /\ d.id = Len(hist'[s]) /\ d.kind # "update"
        BY <2>1 DEF Datum
      <4>2. \A r \in Symbol : Len(hist[r]) <= Len(hist'[r])
        BY <1>0, <2>1
      <4> HIDE DEF d
      <4> QED BY <1>0, <2>1, <3>1, <4>1, <4>2, PushDatum
    <3>2. CASE down' = down
      BY <1>0, <2>1, <3>2, FeedUnchanged
    <3> QED BY <1>2, <3>1, <3>2 DEF ServerRequest
  <2> QED BY <1>0, <1>2, <2>1, <2>2 DEF ServerRequest, conn, ping, ghost, TypeInv
<1>3. CASE on_open
  <2>1. up' \in [Symbol -> Seq({"subscribe", "unsubscribe"})]
    BY <1>3 DEF on_open
  <2>2. FeedOrdered'
    BY <1>0, <1>3, FeedUnchanged DEF on_open, Clear
  <2>3. map_depthfull' \in [Symbol -> Quote] /\ sync' \in [Symbol -> Sync]
    BY <1>3, EmptyQuote DEF on_open, Clear, Sync
  <2>4. opens' \in 0 .. MaxOpen
    BY <1>0, <1>3, OkxBoundAssumption DEF on_open
  <2> QED BY <1>0, <1>3, <2>1, <2>2, <2>3, <2>4 DEF on_open, TypeInv
<1>4. CASE on_close
  <2>1. up' \in [Symbol -> Seq({"subscribe", "unsubscribe"})]
        /\ down' \in [Symbol -> Seq(Datum)]
    BY <1>4 DEF on_close
  <2>2. FeedOrdered'
    BY <1>0, <1>4 DEF on_close, FeedOrdered, ghost
  <2> QED BY <1>0, <1>4, <2>1, <2>2 DEF on_close, ping, ghost, TypeInv
<1>5. CASE on_message_other
  BY <1>0, <1>5, FeedUnchanged DEF on_message_other, exchange, ping, ghost, TypeInv
<1>6. ASSUME NEW s \in Symbol, mf_parse_depth_full(s) PROVE TypeInv'
  <2> DEFINE data    == Head(down[s])
             q       == hist[s][data.id]
             touched == IF data.kind = "snapshot" THEN {l \in Level : q[l] > 0}
                        ELSE Changed(hist[s][data.id - 1], q)
             b       == ApplyData(map_depthfull[s], touched, q)
  <2>1. /\ data \in Datum /\ data = down[s][1] /\ Len(down[s]) >= 1
        /\ data.id <= Len(hist[s])
        /\ down' = [down EXCEPT ![s] = Tail(@)]
    <3>1. down[s] # << >> /\ down' = [down EXCEPT ![s] = Tail(@)]
      BY <1>6 DEF mf_parse_depth_full
    <3>2. down[s] \in Seq(Datum)
      BY <1>0
    <3>3. Len(down[s]) \in Nat /\ Len(down[s]) >= 1 /\ Head(down[s]) = down[s][1]
          /\ Head(down[s]) \in Datum
      BY <3>1, <3>2
    <3>4. down[s][1].id <= Len(hist[s])
      BY <1>0, <3>3 DEF FeedOrdered
    <3> QED BY <3>1, <3>3, <3>4
  <2>2. data.id \in Nat \ {0} /\ q \in Quote
    BY <1>0, <2>1 DEF Datum
  <2>3. b \in Quote
    <3> HIDE DEF data, q, touched
    <3> QED BY <1>0, <2>2, ApplyDataQuote
  <2>4. map_depthfull' = [map_depthfull EXCEPT ![s] = b]
    BY <1>6 DEF mf_parse_depth_full
  <2>5. map_depthfull' \in [Symbol -> Quote] /\ map_depthfull'[s] = b
    <3> HIDE DEF b
    <3> QED BY <1>0, <2>3, <2>4
  <2>6. msg' \in Message /\ msg' # None
    <3>1. msg' = [symbol |-> s, updateid |-> data.id,
                  book |-> Cut(map_depthfull'[s], Depth),
                  sound |-> sync'[s] = "imaged"]
      BY <1>6 DEF mf_parse_depth_full
    <3>2. Cut(map_depthfull'[s], Depth) \in Quote
      BY <2>5, CutQuote
    <3> HIDE DEF data
    <3>3. (sync'[s] = "imaged") \in BOOLEAN
      OBVIOUS
    <3>4. msg' \in Message
      BY <2>2, <3>1, <3>2, <3>3 DEF Message
    <3> QED BY <3>4, NoMessageAssumption DEF Message
  <2>7. sync' \in [Symbol -> Sync]
    BY <1>0, <1>6 DEF mf_parse_depth_full, SyncAfter, Sync
  <2>8. m_recvcount_depth' \in 0 .. CheckEvery - 1
    BY <1>0, <1>6, CheckAssumption DEF mf_parse_depth_full
  <2>9. /\ last' = [last EXCEPT ![s] = data.id]
        /\ hist' = hist
    BY <1>6 DEF mf_parse_depth_full
  <2>10. down' \in [Symbol -> Seq(Datum)] /\ last' \in [Symbol -> Nat]
    BY <1>0, <2>1, <2>2, <2>9
  <2>11. FeedOrdered'
    <3>1. ASSUME NEW k \in 1 .. Len(down'[s])
          PROVE  k + 1 \in 1 .. Len(down[s]) /\ down'[s][k] = down[s][k + 1]
      BY <1>0, <2>1, <3>1
    <3>2. \A k \in 1 .. Len(down[s]) : down[s][k].id \in Nat
      <4>1. \A k \in 1 .. Len(down[s]) : down[s][k] \in Datum
        BY <1>0
      <4> QED BY <4>1 DEF Datum
    <3>3. \A k \in 1 .. Len(down'[s]) : \A j \in 1 .. k :
             j \in 1 .. Len(down'[s]) /\ j + 1 \in 1 .. k + 1
      BY <1>0, <2>10
    <3>4. \A k \in 1 .. Len(down'[s]) : data.id <= down'[s][k].id
      BY <1>0, <2>1, <3>1, <3>2 DEF FeedOrdered
    <3>5. last'[s] = data.id
      BY <1>0, <2>9
    <3>6. \A k \in 1 .. Len(down'[s]) : \A j \in 1 .. k :
             down'[s][j].id <= down'[s][k].id
      BY <1>0, <3>1, <3>3 DEF FeedOrdered
    <3>7. \A k \in 1 .. Len(down'[s]) :
             /\ down'[s][k].id <= Len(hist[s])
             /\ down'[s][k].kind = "update" => down'[s][k].id >= 2
      BY <1>0, <3>1 DEF FeedOrdered
    <3>8. \A r \in Symbol \ {s} : down'[r] = down[r] /\ last'[r] = last[r]
      BY <1>0, <2>1, <2>9
    <3> HIDE DEF data
    <3> QED BY <1>0, <2>1, <2>9, <3>4, <3>5, <3>6, <3>7, <3>8 DEF FeedOrdered
  <2> HIDE DEF data, q, touched, b
  <2> QED BY <1>0, <1>6, <2>5, <2>6, <2>7, <2>8, <2>9, <2>10, <2>11
          DEF mf_parse_depth_full, ping, TypeInv
<1>7. CASE Publish
  <2>1. /\ c_needflash_depthfull' \in {0, 1}
        /\ sent' \in Message \cup {None}
        /\ lpc' \in {"check", "idle"}
        /\ msg' \in Message \cup {None}
        /\ (msg' = None) = (lpc' = "idle")
    BY <1>0, <1>7 DEF Publish, OneSided, Send, RefuseCrossed
  <2>2. UNCHANGED <<hist, subscribed, up, down, m_connect_status, opens,
                    m_recvcount_depth, map_depthfull, ppc, refreshes, sync, last, torn>>
    BY <1>7 DEF Publish, exchange, conn, ping
  <2>3. FeedOrdered'
    BY <1>0, <2>2, FeedUnchanged
  <2> QED BY <1>0, <2>1, <2>2, <2>3 DEF TypeInv
<1>8. CASE CheckStart
  <2>1. FeedOrdered'
    BY <1>0, <1>8, FeedUnchanged DEF CheckStart, exchange, ghost
  <2> QED BY <1>0, <1>8, <2>1 DEF CheckStart, exchange, conn, ping, ghost, TypeInv
<1>9. CASE cf_check_depthfull
  <2>1. FeedOrdered'
    BY <1>0, <1>9, FeedUnchanged DEF cf_check_depthfull, exchange
  <2> QED BY <1>0, <1>9, <2>1 DEF cf_check_depthfull, exchange, conn, ping, TypeInv
<1>10. CASE PingPoll
  <2>1. FeedOrdered'
    BY <1>0, <1>10, FeedUnchanged DEF PingPoll, exchange, ghost
  <2> QED BY <1>0, <1>10, <2>1, OkxBoundAssumption
          DEF PingPoll, exchange, conn, ping, ghost, TypeInv
<1>11. CASE mf_unsubscribe_depth_all
  <2>1. up' \in [Symbol -> Seq({"subscribe", "unsubscribe"})]
    BY <1>0, <1>11 DEF mf_unsubscribe_depth_all, SendAll
  <2>2. FeedOrdered'
    BY <1>0, <1>11, FeedUnchanged DEF mf_unsubscribe_depth_all, ghost
  <2> QED BY <1>0, <1>11, <2>1, <2>2 DEF mf_unsubscribe_depth_all, conn, ghost, TypeInv
<1>12. CASE mf_clear_depthfull
  <2>1. FeedOrdered'
    BY <1>0, <1>12, FeedUnchanged DEF mf_clear_depthfull, exchange
  <2> QED BY <1>0, <1>12, <2>1, EmptyQuote
          DEF mf_clear_depthfull, Clear, exchange, conn, Sync, TypeInv
<1>13. CASE mf_subscribe_depth_all
  <2>1. up' \in [Symbol -> Seq({"subscribe", "unsubscribe"})]
    BY <1>0, <1>13 DEF mf_subscribe_depth_all, SendAll
  <2>2. FeedOrdered'
    BY <1>0, <1>13, FeedUnchanged DEF mf_subscribe_depth_all, ghost
  <2> QED BY <1>0, <1>13, <2>1, <2>2 DEF mf_subscribe_depth_all, conn, ghost, TypeInv
<1>14. CASE PingReset
  <2>1. FeedOrdered'
    BY <1>0, <1>14, FeedUnchanged DEF PingReset, exchange, ghost
  <2> QED BY <1>0, <1>14, <2>1 DEF PingReset, exchange, conn, ghost, TypeInv
<1>15. CASE UNCHANGED vars
  <2>1. FeedOrdered'
    BY <1>0, <1>15, FeedUnchanged DEF vars, exchange, ghost
  <2> QED BY <1>0, <1>15, <2>1 DEF vars, exchange, conn, ping, ghost, TypeInv
<1> QED BY <1>1, <1>2, <1>3, <1>4, <1>5, <1>6, <1>7, <1>8, <1>9, <1>10, <1>11,
           <1>12, <1>13, <1>14, <1>15
        DEF Next, Server, LoopThread, PingThread

\* Every reachable state has its type.
THEOREM TypeCorrect == Spec => []TypeOK
<1>1. TypeInv => TypeOK
  BY DEF TypeInv
<1> QED BY <1>1, TypeInit, TypeStep, PTL DEF Spec

----------------------------------------------------------------------------
(* Copies and messages.  MirrorExact is inductive once it is known that a  *)
(* copy nothing was applied to is empty.  What the loop thread does after  *)
(* it left the lock rests on Held: the copy it has just composed a message *)
(* of is still the exchange's book, or the ping thread has emptied it.     *)

Exact ==
  \A s \in Symbol :
    /\ sync[s] = "blank" => map_depthfull[s] = EmptyBook
    /\ sync[s] = "imaged" => /\ last[s] >= 1
                             /\ map_depthfull[s] = hist[s][last[s]]

NeverCrossed == \A s \in Symbol : \A k \in 1 .. Len(hist[s]) : ~Crossed(hist[s][k])

Held ==
  msg # None =>
    /\ msg.updateid <= Len(hist[msg.symbol])
    /\ msg.sound =>
         LET q == hist[msg.symbol][msg.updateid]
             b == map_depthfull[msg.symbol]
         IN /\ msg.book = Cut(q, Depth)
            /\ lpc \in {"publish", "check"} => b = q \/ b = EmptyBook
            /\ lpc = "walk" /\ ~torn => b = q

OkxInv == TypeInv /\ Exact /\ NeverCrossed /\ Held

LEMMA OkxInit == Init => OkxInv
<1> SUFFICES ASSUME Init PROVE OkxInv
  OBVIOUS
<1>1. Exact /\ Held
  BY DEF Init, Exact, Held
<1>2. NeverCrossed
  <2>1. ASSUME NEW s \in Symbol, NEW k \in 1 .. Len(hist[s])
        PROVE  ~Crossed(hist[s][k])
    <3>1. PICK q \in UncrossedQuote : hist[s] = <<q>>
      BY DEF Init
    <3>2. k = 1
      BY <3>1
    <3> QED BY <3>1, <3>2 DEF UncrossedQuote
  <2> QED BY <2>1 DEF NeverCrossed
<1> QED BY <1>1, <1>2, TypeInit DEF OkxInv

\* A snapshot fills an empty copy, and leaves the copy of the same book alone.
LEMMA SnapshotGives ==
  ASSUME NEW b \in Quote, NEW q \in Quote, b = EmptyBook \/ b = q
  PROVE  ApplyData(b, {l \in Level : q[l] > 0}, q) = q
<1>1. \A l \in Level : q[l] \in Nat
  BY VolAssumption DEF Quote
<1>2. \A l \in Level : ApplyData(b, {m \in Level : q[m] > 0}, q)[l] = q[l]
  BY <1>1 DEF ApplyData, EmptyBook
<1>3. ApplyData(b, {m \in Level : q[m] > 0}, q) \in Quote
  BY ApplyDataQuote
<1> QED BY <1>2, <1>3 DEF Quote

\* An update turns the book before it into the book after it.
LEMMA UpdateGives ==
  ASSUME NEW b \in Quote, NEW q \in Quote
  PROVE  ApplyData(b, Changed(b, q), q) = q
<1>1. \A l \in Level : ApplyData(b, Changed(b, q), q)[l] = q[l]
  BY DEF ApplyData, Changed
<1>2. ApplyData(b, Changed(b, q), q) \in Quote
  BY ApplyDataQuote
<1> QED BY <1>1, <1>2 DEF Quote

\* Steps that change neither the books nor the copies nor the loop thread.
LEMMA OkxUnchanged ==
  ASSUME OkxInv, TypeInv',
         UNCHANGED <<hist, map_depthfull, sync, last, lpc, msg, torn>>
  PROVE  OkxInv'
<1>1. Exact' /\ NeverCrossed'
  BY DEF OkxInv, Exact, NeverCrossed
<1>2. Held'
  BY DEF OkxInv, Held
<1> QED BY <1>1, <1>2 DEF OkxInv

\* The step that applies data.
LEMMA ParseStep ==
  ASSUME OkxInv, TypeInv', NEW s \in Symbol, mf_parse_depth_full(s)
  PROVE  OkxInv'
<1> DEFINE data    == Head(down[s])
           q       == hist[s][data.id]
           touched == IF data.kind = "snapshot" THEN {l \in Level : q[l] > 0}
                      ELSE Changed(hist[s][data.id - 1], q)
           b       == ApplyData(map_depthfull[s], touched, q)
<1>t. /\ hist \in [Symbol -> Seq(Quote) \ {<< >>}]
      /\ down \in [Symbol -> Seq(Datum)]
      /\ map_depthfull \in [Symbol -> Quote]
      /\ sync \in [Symbol -> Sync]
      /\ last \in [Symbol -> Nat]
  BY DEF OkxInv, TypeInv, TypeOK
<1>1. /\ map_depthfull' = [map_depthfull EXCEPT ![s] = b]
      /\ sync' = [sync EXCEPT ![s] = SyncAfter(s, data)]
      /\ last' = [last EXCEPT ![s] = data.id]
      /\ msg' = [symbol   |-> s,
                 updateid |-> data.id,
                 book     |-> Cut(map_depthfull'[s], Depth),
                 sound    |-> sync'[s] = "imaged"]
      /\ lpc' = "publish"
      /\ hist' = hist
      /\ down[s] # << >>
  BY DEF mf_parse_depth_full
<1>2. /\ data \in Datum
      /\ data.id <= Len(hist[s])
      /\ data.kind = "update" => data.id >= 2
  <2>1. /\ Len(down[s]) >= 1 /\ Len(down[s]) \in Nat
        /\ data = down[s][1] /\ data \in Datum
    BY <1>t, <1>1
  <2> HIDE DEF data
  <2> QED BY <2>1 DEF OkxInv, TypeInv, FeedOrdered
<1>3. /\ data.id \in Nat \ {0}
      /\ data.kind \in {"snapshot", "update"}
      /\ q \in Quote
  <2>1. data.id \in Nat \ {0} /\ data.kind \in {"snapshot", "update"}
    BY <1>2 DEF Datum
  <2> HIDE DEF data
  <2> QED BY <1>t, <1>2, <2>1
<1>4. sync'[s] = "imaged" => b = q
  <2> SUFFICES ASSUME sync'[s] = "imaged" PROVE b = q
    OBVIOUS
  <2>0. SyncAfter(s, data) = "imaged"
    <3> HIDE DEF data, b
    <3> QED BY <1>t, <1>1
  <2>1. CASE data.kind = "snapshot"
    <3>1. sync[s] = "blank" \/ (sync[s] = "imaged" /\ data.id = last[s])
      BY <2>0, <2>1 DEF SyncAfter
    <3>2. map_depthfull[s] = EmptyBook \/ map_depthfull[s] = q
      BY <3>1 DEF OkxInv, Exact
    <3> HIDE DEF data, q
    <3> QED BY <1>t, <1>3, <2>1, <3>2, SnapshotGives
  <2>2. CASE data.kind = "update"
    <3>1. sync[s] = "imaged" /\ data.id = last[s] + 1
      BY <2>0, <2>2 DEF SyncAfter
    <3>2. map_depthfull[s] = hist[s][last[s]]
      BY <3>1 DEF OkxInv, Exact
    <3>3. last[s] = data.id - 1
      <4> HIDE DEF data
      <4> QED BY <1>t, <3>1
    <3>4. touched = Changed(map_depthfull[s], q)
      BY <2>2, <3>2, <3>3
    <3> HIDE DEF data, q, touched
    <3> QED BY <1>t, <1>3, <3>4, UpdateGives
  <2> QED BY <1>3, <2>1, <2>2
<1>5. sync'[s] # "blank"
  <2> HIDE DEF b
  <2> QED BY <1>t, <1>1 DEF SyncAfter
<1> HIDE DEF data, q, touched, b
<1>6. Exact'
  <2>1. ASSUME NEW r \in Symbol
        PROVE  /\ sync'[r] = "blank" => map_depthfull'[r] = EmptyBook
               /\ sync'[r] = "imaged" => /\ last'[r] >= 1
                                         /\ map_depthfull'[r] = hist'[r][last'[r]]
    <3>1. CASE r = s
      BY <1>t, <1>1, <1>3, <1>4, <1>5, <3>1 DEF q
    <3>2. CASE r # s
      BY <1>t, <1>1, <3>2 DEF OkxInv, Exact
    <3> QED BY <3>1, <3>2
  <2> QED BY <2>1 DEF Exact
<1>7. NeverCrossed'
  BY <1>1 DEF OkxInv, NeverCrossed
<1>8. Held'
  <2>1. msg'.symbol = s /\ msg'.updateid = data.id
        /\ msg'.book = Cut(map_depthfull'[s], Depth)
        /\ msg'.sound = (sync'[s] = "imaged")
    BY <1>1
  <2>2. map_depthfull'[s] = b
    BY <1>t, <1>1
  <2> QED BY <1>1, <1>2, <1>4, <2>1, <2>2 DEF Held, q
<1> QED BY <1>6, <1>7, <1>8 DEF OkxInv

\* The step that starts to walk a copy: an emptied one is not deep enough.
LEMMA EmptyIsNotDeep == ~Deep(EmptyBook)
<1>1. \A p \in Price : EmptyBook[<<"ask", p>>] = 0
  BY DEF EmptyBook, Level, Side
<1>2. {p \in Price : EmptyBook[<<"ask", p>>] > 0} = {}
  BY <1>1
<1>3. ~(Cardinality({}) > CheckLevels)
  BY FS_EmptySet, CheckAssumption
<1> QED BY <1>2, <1>3 DEF Deep, Side

LEMMA OkxStep == OkxInv /\ [Next]_vars => OkxInv'
<1> SUFFICES ASSUME OkxInv, [Next]_vars PROVE OkxInv'
  OBVIOUS
<1>0. TypeInv'
  BY TypeStep DEF OkxInv
<1>t. /\ hist \in [Symbol -> Seq(Quote) \ {<< >>}]
      /\ msg \in Message \cup {None}
      /\ (msg = None) = (lpc = "idle")
      /\ last \in [Symbol -> Nat]
  BY DEF OkxInv, TypeInv, TypeOK
<1>1. ASSUME NEW s \in Symbol, ExchangeUpdate(s) PROVE OkxInv'
  <2>1. PICK q \in UncrossedQuote : hist' = [hist EXCEPT ![s] = Append(@, q)]
    BY <1>1 DEF ExchangeUpdate
  <2>2. q \in Quote /\ ~Crossed(q)
    BY DEF UncrossedQuote
  <2>3. \A r \in Symbol : /\ Len(hist[r]) \in Nat
                          /\ Len(hist'[r]) \in Nat
                          /\ Len(hist[r]) <= Len(hist'[r])
                          /\ \A k \in 1 .. Len(hist[r]) : hist'[r][k] = hist[r][k]
    BY <1>t, <2>1, <2>2
  <2>4. UNCHANGED <<map_depthfull, sync, last, lpc, msg, torn>>
    BY <1>1 DEF ExchangeUpdate, ghost
  <2>5. Exact'
    <3>1. \A r \in Symbol : last[r] <= Len(hist[r]) /\ last[r] \in Nat
      BY <1>t DEF OkxInv, TypeInv, FeedOrdered
    <3> QED BY <2>3, <2>4, <3>1 DEF OkxInv, Exact
  <2>6. NeverCrossed'
    <3>1. ASSUME NEW r \in Symbol, NEW k \in 1 .. Len(hist'[r])
          PROVE  ~Crossed(hist'[r][k])
      <4>1. CASE k \in 1 .. Len(hist[r])
        BY <2>3, <4>1 DEF OkxInv, NeverCrossed
      <4>2. CASE k \notin 1 .. Len(hist[r])
        <5>1. r = s /\ k = Len(hist[s]) + 1
          BY <1>t, <2>1, <3>1, <4>2
        <5>2. hist'[s][k] = q
          BY <1>t, <2>1, <5>1
        <5> QED BY <2>2, <5>1, <5>2
      <4> QED BY <4>1, <4>2
    <3> QED BY <3>1 DEF NeverCrossed
  <2>7. Held'
    <3>1. msg # None => /\ msg.symbol \in Symbol
                        /\ msg.updateid \in 1 .. Len(hist[msg.symbol])
      <4>1. msg # None => /\ msg.symbol \in Symbol
                          /\ msg.updateid \in Nat \ {0}
                          /\ msg.updateid <= Len(hist[msg.symbol])
        BY <1>t DEF OkxInv, Held, Message
      <4> QED BY <2>3, <4>1
    <3>2. msg # None => /\ msg.updateid <= Len(hist'[msg.symbol])
                        /\ hist'[msg.symbol][msg.updateid]
                             = hist[msg.symbol][msg.updateid]
      BY <2>3, <3>1
    <3> QED BY <2>4, <3>2 DEF OkxInv, Held
  <2> QED BY <1>0, <2>5, <2>6, <2>7 DEF OkxInv
<1>2. ASSUME NEW s \in Symbol, ServerRequest(s) PROVE OkxInv'
  BY <1>0, <1>2, OkxUnchanged DEF ServerRequest, ghost
<1>3. CASE on_open
  <2>1. /\ map_depthfull' = [s \in Symbol |-> EmptyBook]
        /\ sync' = [s \in Symbol |-> "blank"]
        /\ msg = None /\ msg' = None
        /\ hist' = hist
    BY <1>3, <1>t DEF on_open, Clear
  <2>2. Exact' /\ NeverCrossed' /\ Held'
    BY <2>1 DEF OkxInv, Exact, NeverCrossed, Held
  <2> QED BY <1>0, <2>2 DEF OkxInv
<1>4. CASE on_close
  BY <1>0, <1>4, OkxUnchanged DEF on_close, ghost
<1>5. CASE on_message_other
  BY <1>0, <1>5, OkxUnchanged DEF on_message_other, exchange, ghost
<1>6. ASSUME NEW s \in Symbol, mf_parse_depth_full(s) PROVE OkxInv'
  BY <1>0, <1>6, ParseStep
<1>7. CASE Publish
  <2>1. /\ UNCHANGED <<hist, map_depthfull, sync, last>>
        /\ lpc = "publish"
        /\ \/ lpc' = "check" /\ msg' = msg
           \/ msg' = None
    BY <1>7 DEF Publish, exchange
  <2>2. Exact' /\ NeverCrossed'
    BY <2>1 DEF OkxInv, Exact, NeverCrossed
  <2>3. Held'
    BY <2>1 DEF OkxInv, Held
  <2> QED BY <1>0, <2>2, <2>3 DEF OkxInv
<1>8. CASE CheckStart
  <2>1. /\ UNCHANGED <<hist, map_depthfull, sync, last>>
        /\ lpc = "check"
        /\ \/ lpc' = "walk" /\ msg' = msg /\ Deep(map_depthfull[msg.symbol])
           \/ msg' = None
    BY <1>8 DEF CheckStart, exchange, ghost
  <2>2. Exact' /\ NeverCrossed'
    BY <2>1 DEF OkxInv, Exact, NeverCrossed
  <2>3. Held'
    BY <2>1, EmptyIsNotDeep DEF OkxInv, Held
  <2> QED BY <1>0, <2>2, <2>3 DEF OkxInv
<1>9. CASE cf_check_depthfull
  <2>1. UNCHANGED <<hist, map_depthfull, sync, last>> /\ msg' = None
    BY <1>9 DEF cf_check_depthfull, exchange
  <2>2. Exact' /\ NeverCrossed' /\ Held'
    BY <2>1 DEF OkxInv, Exact, NeverCrossed, Held
  <2> QED BY <1>0, <2>2 DEF OkxInv
<1>10. CASE PingPoll
  BY <1>0, <1>10, OkxUnchanged DEF PingPoll, exchange, ghost
<1>11. CASE mf_unsubscribe_depth_all
  BY <1>0, <1>11, OkxUnchanged DEF mf_unsubscribe_depth_all, ghost
<1>12. CASE mf_clear_depthfull
  <2>1. /\ map_depthfull' = [s \in Symbol |-> EmptyBook]
        /\ sync' = [s \in Symbol |-> "blank"]
        /\ torn' = (torn \/ lpc = "walk")
        /\ UNCHANGED <<hist, last, lpc, msg>>
    BY <1>12 DEF mf_clear_depthfull, Clear, exchange
  <2>2. Exact' /\ NeverCrossed'
    BY <2>1 DEF OkxInv, Exact, NeverCrossed
  <2>3. msg # None => msg.symbol \in Symbol
    BY <1>t DEF Message
  <2>4. Held'
    BY <2>1, <2>3 DEF OkxInv, Held
  <2> QED BY <1>0, <2>2, <2>4 DEF OkxInv
<1>13. CASE mf_subscribe_depth_all
  BY <1>0, <1>13, OkxUnchanged DEF mf_subscribe_depth_all, ghost
<1>14. CASE PingReset
  BY <1>0, <1>14, OkxUnchanged DEF PingReset, exchange, ghost
<1>15. CASE UNCHANGED vars
  BY <1>0, <1>15, OkxUnchanged DEF vars, exchange, ghost
<1> QED BY <1>1, <1>2, <1>3, <1>4, <1>5, <1>6, <1>7, <1>8, <1>9, <1>10, <1>11,
           <1>12, <1>13, <1>14, <1>15
        DEF Next, Server, LoopThread, PingThread

\* A copy that was empty when its snapshot came is the exchange's book at the
\* last update applied, whatever was lost, cleared and subscribed again.
THEOREM CopiesAreExact == Spec => []MirrorExact
<1>1. OkxInv => MirrorExact
  BY DEF OkxInv, Exact, MirrorExact
<1> QED BY <1>1, OkxInit, OkxStep, PTL DEF Spec

----------------------------------------------------------------------------
(* What leaves the client, and its two checks.                             *)

SentTop == OkxInv /\ SentIsTopOfBook

LEMMA SentStep == SentTop /\ [Next]_vars => SentTop'
<1> SUFFICES ASSUME SentTop, [Next]_vars PROVE SentIsTopOfBook'
  BY OkxStep DEF SentTop
<1>1. CASE Publish /\ sent' = msg
  <2>1. msg # None /\ msg.sound => msg.book = Cut(hist[msg.symbol][msg.updateid], Depth)
    BY DEF SentTop, OkxInv, Held
  <2>2. hist' = hist
    BY <1>1 DEF Publish, exchange
  <2> QED BY <1>1, <2>1, <2>2 DEF SentIsTopOfBook
<1>2. CASE sent' = None
  BY <1>2 DEF SentIsTopOfBook
<1>3. CASE UNCHANGED vars
  BY <1>3 DEF vars, exchange, SentTop, SentIsTopOfBook
<1>4. \/ Publish /\ sent' = msg
      \/ sent' = None
      \/ UNCHANGED vars
  BY DEF Next, Server, LoopThread, PingThread, ExchangeUpdate, ServerRequest,
         on_open, on_close, on_message_other, mf_parse_depth_full, Publish,
         OneSided, Send, RefuseCrossed, CheckStart, cf_check_depthfull, PingPoll,
         mf_unsubscribe_depth_all, mf_clear_depthfull, mf_subscribe_depth_all,
         PingReset
<1> QED BY <1>1, <1>2, <1>3, <1>4

\* What is sent of an exact copy is the top of the exchange's book, even if the
\* ping thread clears the copy between composing and sending.
THEOREM SentIsTheTop == Spec => []SentIsTopOfBook
<1>1. Init => SentIsTopOfBook
  BY DEF Init, SentIsTopOfBook
<1>2. SentTop => SentIsTopOfBook
  BY DEF SentTop
<1> QED BY <1>1, <1>2, OkxInit, SentStep, PTL DEF Spec, SentTop

\* Cutting a book does not make its sides cross.
LEMMA CutUncrossed ==
  ASSUME NEW q, NEW n, ~Crossed(q) PROVE ~Crossed(Cut(q, n))
<1> SUFFICES ASSUME NEW a \in Price, NEW b \in Price,
                    Cut(q, n)[<<"ask", a>>] > 0, Cut(q, n)[<<"bid", b>>] > 0, a <= b
             PROVE  FALSE
  BY DEF Crossed
<1>1. <<"ask", a>> \in Level /\ <<"bid", b>> \in Level
  BY DEF Level, Side
<1>2. q[<<"ask", a>>] > 0 /\ q[<<"bid", b>>] > 0
  BY <1>1 DEF Cut, TopLevels
<1> QED BY <1>2 DEF Crossed

Alarm == c_needflash_depthfull = 0 /\ c_needflash_depthfull' = 1 => ~msg.sound \/ torn

LEMMA AlarmStep == OkxInv /\ [Next]_vars => Alarm
<1> SUFFICES ASSUME OkxInv, [Next]_vars,
                    c_needflash_depthfull = 0, c_needflash_depthfull' = 1,
                    msg.sound
             PROVE  torn
  BY DEF Alarm
<1>t. /\ (msg = None) = (lpc = "idle")
      /\ msg \in Message \cup {None}
  BY DEF OkxInv, TypeInv, TypeOK
<1>1. CASE Publish /\ RefuseCrossed
  <2>1. msg # None /\ Crossed(msg.book)
    BY <1>1, <1>t DEF Publish, RefuseCrossed
  <2>2. /\ msg.symbol \in Symbol
        /\ msg.updateid \in 1 .. Len(hist[msg.symbol])
        /\ msg.book = Cut(hist[msg.symbol][msg.updateid], Depth)
    <3>1. /\ msg.symbol \in Symbol /\ msg.updateid \in Nat \ {0}
          /\ msg.updateid <= Len(hist[msg.symbol])
          /\ msg.book = Cut(hist[msg.symbol][msg.updateid], Depth)
      BY <1>t, <2>1 DEF OkxInv, Held, Message
    <3>2. Len(hist[msg.symbol]) \in Nat
      BY <3>1 DEF OkxInv, TypeInv, TypeOK
    <3> QED BY <3>1, <3>2
  <2>3. ~Crossed(hist[msg.symbol][msg.updateid])
    BY <2>2 DEF OkxInv, NeverCrossed
  <2> QED BY <2>1, <2>2, <2>3, CutUncrossed
<1>2. CASE cf_check_depthfull
  <2>1. ~ChecksumMatches \/ torn
    BY <1>2 DEF cf_check_depthfull
  <2>2. msg # None /\ lpc = "walk"
    BY <1>2, <1>t DEF cf_check_depthfull
  <2>3. torn \/ map_depthfull[msg.symbol] = hist[msg.symbol][msg.updateid]
    BY <2>2 DEF OkxInv, Held
  <2> QED BY <2>1, <2>3 DEF ChecksumMatches
<1>3. \/ Publish /\ RefuseCrossed
      \/ cf_check_depthfull
      \/ c_needflash_depthfull' = c_needflash_depthfull
      \/ c_needflash_depthfull' = 0
  BY DEF Next, Server, LoopThread, PingThread, ExchangeUpdate, ServerRequest,
         on_open, on_close, on_message_other, mf_parse_depth_full, Publish,
         OneSided, Send, CheckStart, PingPoll,
         mf_unsubscribe_depth_all, mf_clear_depthfull, mf_subscribe_depth_all,
         PingReset, vars
<1> QED BY <1>1, <1>2, <1>3

\* Neither the test for a crossed book nor the checksum asks for a refresh of
\* a good copy, unless the copy was cleared while it was walked.
THEOREM AlarmsAreTrue == Spec => NoFalseAlarm
<1>1. OkxInv /\ [Next]_vars => [Alarm]_vars
  BY AlarmStep
<1> QED BY <1>1, OkxInit, OkxStep, PTL DEF Spec, NoFalseAlarm, Alarm

----------------------------------------------------------------------------
(* Requests.  StaysSubscribed is inductive with the types alone.           *)

LastRequest(s) == IF up[s] = << >> THEN subscribed[s] ELSE up[s][Len(up[s])] = "subscribe"

LEMMA LastOfSeq ==
  ASSUME NEW R, NEW q \in Seq(R), NEW x \in R
  PROVE  /\ Append(q, x) # << >>
         /\ Append(q, x)[Len(Append(q, x))] = x
         /\ q # << >> /\ Tail(q) = << >> => Len(q) = 1 /\ Head(q) = q[1]
<1>1. Len(Append(q, x)) = Len(q) + 1 /\ Append(q, x)[Len(q) + 1] = x
  OBVIOUS
<1>2. Append(q, x) # << >>
  BY <1>1
<1>3. ASSUME q # << >>, Tail(q) = << >> PROVE Len(q) = 1 /\ Head(q) = q[1]
  <2>1. Len(q) \in Nat /\ Len(q) # 0 /\ Head(q) = q[1]
    BY <1>3
  <2>2. Len(Tail(q)) = Len(q) - 1
    BY <1>3
  <2>3. Len(Tail(q)) = 0
    BY <1>3, EmptySeq
  <2>4. Len(q) = 1
    <3>1. Len(q) - 1 = 0
      BY <2>2, <2>3, Zenon
    <3> QED BY <2>1, <3>1
  <2> QED BY <2>1, <2>4
<1> QED BY <1>1, <1>2, <1>3

LEMMA RequestsStep == TypeInv /\ StaysSubscribed /\ [Next]_vars => StaysSubscribed'
<1> SUFFICES ASSUME TypeInv, StaysSubscribed, [Next]_vars,
                    Connected', ppc' \in {"poll", "unsubscribe", "reset"},
                    NEW r \in Symbol
             PROVE  LastRequest(r)'
  BY DEF StaysSubscribed, LastRequest
<1>t. up \in [Symbol -> Seq({"subscribe", "unsubscribe"})]
  BY DEF TypeInv, TypeOK
<1>0. ASSUME UNCHANGED <<up, subscribed>>,
             Connected, ppc \in {"poll", "unsubscribe", "reset"}
      PROVE  LastRequest(r)'
  BY <1>0 DEF StaysSubscribed, LastRequest
<1>1. ASSUME NEW s \in Symbol, ServerRequest(s) PROVE LastRequest(r)'
  <2>1. /\ up[s] # << >>
        /\ up' = [up EXCEPT ![s] = Tail(@)]
        /\ subscribed' = [subscribed EXCEPT ![s] = Head(up[s]) = "subscribe"]
        /\ UNCHANGED <<m_connect_status, ppc>>
    BY <1>1 DEF ServerRequest, conn, ping
  <2>2. LastRequest(r)
    BY <2>1 DEF StaysSubscribed, LastRequest, Connected
  <2>3. CASE r = s
    <3>1. up'[s] = Tail(up[s])
      BY <1>t, <2>1
    <3>2. CASE Tail(up[s]) = << >>
      <4>1. Len(up[s]) = 1 /\ Head(up[s]) = up[s][1]
        BY <1>t, <2>1, <3>2, LastOfSeq
      <4>2. subscribed'[s] = (Head(up[s]) = "subscribe")
        BY <2>1 DEF TypeInv, TypeOK
      <4> QED BY <2>1, <2>2, <2>3, <3>1, <3>2, <4>1, <4>2 DEF LastRequest
    <3>3. CASE Tail(up[s]) # << >>
      <4>1. Tail(up[s])[Len(Tail(up[s]))] = up[s][Len(up[s])]
        BY <1>t, <2>1, <3>3
      <4> QED BY <2>1, <2>2, <2>3, <3>1, <3>3, <4>1 DEF LastRequest
    <3> QED BY <3>2, <3>3
  <2>4. CASE r # s
    BY <1>t, <2>1, <2>2, <2>4 DEF LastRequest, TypeInv, TypeOK
  <2> QED BY <2>3, <2>4
<1>2. CASE on_open
  BY <1>2 DEF on_open, LastRequest
<1>3. CASE on_close
  BY <1>3 DEF on_close, Connected
<1>4. CASE mf_subscribe_depth_all
  <2>1. up'[r] = Append(up[r], "subscribe")
    BY <1>t, <1>4 DEF mf_subscribe_depth_all, SendAll, conn, Connected
  <2>2. up[r] \in Seq({"subscribe", "unsubscribe"})
    BY <1>t
  <2>3. up'[r] # << >> /\ up'[r][Len(up'[r])] = "subscribe"
    BY <2>1, <2>2, LastOfSeq
  <2> QED BY <2>3 DEF LastRequest
<1>5. CASE mf_unsubscribe_depth_all \/ mf_clear_depthfull
  BY <1>5 DEF mf_unsubscribe_depth_all, mf_clear_depthfull
<1>6. \/ \E s \in Symbol : ServerRequest(s)
      \/ on_open \/ on_close
      \/ mf_subscribe_depth_all
      \/ mf_unsubscribe_depth_all \/ mf_clear_depthfull
      \/ /\ UNCHANGED <<up, subscribed>>
         /\ Connected /\ ppc \in {"poll", "unsubscribe", "reset"}
  BY DEF Next, Server, LoopThread, PingThread, ExchangeUpdate,
         on_message_other, mf_parse_depth_full, Publish, CheckStart,
         cf_check_depthfull, PingPoll, PingReset, Connected, vars, exchange, conn, ping
<1> QED BY <1>0, <1>1, <1>2, <1>3, <1>4, <1>5, <1>6

\* However refreshes, drops and reconnects interleave, the last request on a
\* connection is a subscribe once the ping thread is through with its two.
THEOREM RefreshesKeepSubscriptions == Spec => []StaysSubscribed
<1>1. Init => StaysSubscribed
  BY DEF Init, StaysSubscribed, Connected
<1> QED BY <1>1, TypeInit, TypeStep, RequestsStep, PTL DEF Spec

----------------------------------------------------------------------------
(* OkxDepth implements DepthFeed.  The draft of the feed is the message    *)
(* the loop thread has composed and not yet decided about.                 *)

draft == IF lpc = "publish" THEN msg ELSE None

\* The feed's own copies of the operators on books are those of DepthBook.
LEMMA SameOperators ==
  /\ Feed!Level = Level
  /\ Feed!Quote = Quote
  /\ Feed!Message = Message
  /\ \A q, n : Feed!Cut(q, n) = Cut(q, n)
  /\ \A q : Feed!TwoSided(q) <=> TwoSided(q)
  /\ \A q : Feed!Crossed(q) <=> Crossed(q)
<1>1. Feed!Level = Level /\ Feed!Quote = Quote /\ Feed!Message = Message
  BY DEF Feed!Level, Level, Feed!Side, Side, Feed!Quote, Quote, Feed!Message, Message
<1>2. \A q, n : Feed!Cut(q, n) = Cut(q, n)
  <2>1. \A S : Feed!Cardinality(S) = Cardinality(S)
    BY DEF Feed!Cardinality, Cardinality
  <2> QED BY <1>1, <2>1 DEF Feed!Cut, Cut, Feed!TopLevels, TopLevels, Feed!Ahead, Ahead
<1>3. \A q : Feed!TwoSided(q) <=> TwoSided(q)
  BY DEF Feed!TwoSided, TwoSided, Feed!Side, Side
<1>4. \A q : Feed!Crossed(q) <=> Crossed(q)
  BY DEF Feed!Crossed, Crossed
<1> QED BY <1>1, <1>2, <1>3, <1>4

LEMMA FeedInit == Init => Feed!Init
BY SameOperators DEF Init, UncrossedQuote, Feed!Init

\* The step that composes a message: the feed's data is in order, and an exact
\* copy is the exchange's book.
LEMMA ComposeDrafts ==
  ASSUME OkxInv, OkxInv', NEW s \in Symbol, mf_parse_depth_full(s)
  PROVE  Feed!Draft(s)
<1> DEFINE id   == Head(down[s]).id
           book == Cut(map_depthfull'[s], Depth)
           snd  == sync'[s] = "imaged"
<1>1. /\ down \in [Symbol -> Seq(Datum)]
      /\ last \in [Symbol -> Nat]
      /\ map_depthfull' \in [Symbol -> Quote]
      /\ msg' \in Message \cup {None}
      /\ (msg = None) = (lpc = "idle")
      /\ (msg' = None) = (lpc' = "idle")
      /\ hist \in [Symbol -> Seq(Quote) \ {<< >>}]
  BY DEF OkxInv, TypeInv, TypeOK
<1>2. /\ lpc = "idle" /\ lpc' = "publish"
      /\ down[s] # << >>
      /\ last' = [last EXCEPT ![s] = id]
      /\ msg' = [symbol |-> s, updateid |-> id, book |-> book, sound |-> snd]
      /\ sent' = None
      /\ hist' = hist
  BY DEF mf_parse_depth_full
<1>3. id \in last[s] .. Len(hist[s])
  <2>1. /\ 1 \in 1 .. Len(down[s])
        /\ Head(down[s]) = down[s][1] /\ down[s][1] \in Datum
    BY <1>1, <1>2
  <2>2. down[s][1].id <= Len(hist[s]) /\ last[s] <= down[s][1].id
    BY <2>1 DEF OkxInv, TypeInv, FeedOrdered
  <2>3. down[s][1].id \in Nat
    BY <2>1 DEF Datum
  <2>4. Len(hist[s]) \in Nat /\ last[s] \in Nat
    BY <1>1
  <2> QED BY <2>1, <2>2, <2>3, <2>4
<1>4. map_depthfull'[s] \in Quote
  BY <1>1
<1>5. msg' \in Message /\ msg = None
  BY <1>1, <1>2
<1>6. ASSUME snd, NEW l \in Level, book[l] > 0
      PROVE  book[l] = hist[s][id][l]
  <2>1. map_depthfull'[s] = hist'[s][last'[s]]
    BY <1>6 DEF OkxInv, Exact
  <2>2. last'[s] = id
    <3> HIDE DEF id
    <3> QED BY <1>1, <1>2
  <2> QED BY <1>2, <1>6, <2>1, <2>2, CutShows
<1>7. \E q \in Quote : msg'.book = Cut(q, Depth)
  BY <1>2, <1>4
<1>8. msg'.symbol = s /\ msg'.updateid = id
  BY <1>2
<1>9. msg'.sound => \A l \in Level : msg'.book[l] > 0
                                       => msg'.book[l] = hist[s][id][l]
  <2> HIDE DEF book, snd, id
  <2> QED BY <1>2, <1>6
<1> HIDE DEF id, book, snd
<1>10. draft = None /\ draft' = msg'
  BY <1>2, <1>5 DEF draft
<1> QED BY <1>2, <1>3, <1>5, <1>7, <1>8, <1>9, <1>10, SameOperators
        DEF Feed!Draft, Feed!Shows, draft

\* Sending is the feed's Ship, anything else its Drop.
LEMMA PublishShipsOrDrops ==
  ASSUME OkxInv, Publish PROVE Feed!Ship \/ Feed!Drop
<1>1. /\ lpc = "publish" /\ lpc' \in {"check", "idle"}
      /\ UNCHANGED <<hist, last>>
  BY DEF Publish, exchange
<1>2. msg # None
  BY <1>1 DEF OkxInv, TypeInv, TypeOK
<1>3. draft = msg /\ draft' = None
  BY <1>1 DEF draft
<1>4. CASE Send
  BY <1>1, <1>2, <1>3, <1>4, SameOperators DEF Send, Feed!Ship, draft
<1>5. CASE OneSided \/ RefuseCrossed
  BY <1>1, <1>2, <1>3, <1>5 DEF OneSided, RefuseCrossed, Feed!Drop, draft
<1> QED BY <1>4, <1>5 DEF Publish

LEMMA FeedStep == OkxInv /\ OkxInv' /\ [Next]_vars => [Feed!Next]_(Feed!feedVars)
<1> SUFFICES ASSUME OkxInv, OkxInv', [Next]_vars
             PROVE  Feed!Next \/ UNCHANGED <<hist, last, draft, sent>>
  BY DEF Feed!feedVars, draft
<1>1. ASSUME NEW s \in Symbol, ExchangeUpdate(s) PROVE Feed!Move(s)
  BY <1>1, SameOperators DEF ExchangeUpdate, UncrossedQuote, Feed!Move, ghost
<1>2. ASSUME NEW s \in Symbol, mf_parse_depth_full(s) PROVE Feed!Draft(s)
  BY <1>2, ComposeDrafts
<1>3. CASE Publish
  BY <1>3, PublishShipsOrDrops DEF Feed!Next
<1>4. CASE CheckStart \/ cf_check_depthfull
  <2>1. /\ lpc \in {"check", "walk"} /\ lpc' \in {"walk", "idle"}
        /\ UNCHANGED <<hist, last>> /\ sent' = None
    BY <1>4 DEF CheckStart, cf_check_depthfull, exchange, ghost
  <2> QED BY <2>1 DEF Feed!Next, Feed!Idle
<1>5. CASE on_open \/ on_close \/ on_message_other \/ \E s \in Symbol : ServerRequest(s)
  <2>1. UNCHANGED <<hist, last, lpc, msg>> /\ sent' = None
    BY <1>5 DEF on_open, on_close, on_message_other, ServerRequest, Clear, exchange, ghost
  <2> QED BY <2>1 DEF Feed!Next, Feed!Idle
<1>6. CASE PingThread
  <2>1. UNCHANGED <<hist, last, lpc, msg>> /\ sent' = None
    BY <1>6 DEF PingThread, PingPoll, mf_unsubscribe_depth_all, mf_clear_depthfull,
                mf_subscribe_depth_all, PingReset, Clear, exchange, ghost
  <2> QED BY <2>1 DEF Feed!Next, Feed!Idle
<1>7. CASE UNCHANGED vars
  BY <1>7 DEF vars, exchange, ghost, draft
<1> QED BY <1>1, <1>2, <1>3, <1>4, <1>5, <1>6, <1>7
        DEF Feed!Next, Next, Server, LoopThread

\* The client implements the abstract feed: whatever is lost, cleared or
\* subscribed again, the messages of a symbol are about ever newer updates,
\* two-sided and uncrossed, and those composed of exact copies show only
\* levels the exchange had.
THEOREM ImplementsFeed == Spec => FeedSpec
<1>1. Spec => []OkxInv
  BY OkxInit, OkxStep, PTL DEF Spec
<1> QED BY <1>1, FeedInit, FeedStep, PTL DEF Spec, FeedSpec, Feed!Spec

----------------------------------------------------------------------------
(* What follows from being a feed (DepthFeed_proofs).                      *)

FeedFacts == INSTANCE DepthFeed_proofs
               WITH latest <- last, draft <- IF lpc = "publish" THEN msg ELSE None

\* The two instances of DepthFeed are one.
LEMMA SameFeed == Feed!Spec => FeedFacts!Spec
<1>1. /\ FeedFacts!Level = Feed!Level /\ FeedFacts!Quote = Feed!Quote
      /\ FeedFacts!Message = Feed!Message
  BY DEF Feed!Level, FeedFacts!Level, Feed!Side, FeedFacts!Side, Feed!Quote,
         FeedFacts!Quote, Feed!Message, FeedFacts!Message
<1>2. \A q, n : FeedFacts!Cut(q, n) = Feed!Cut(q, n)
  <2>1. \A S : FeedFacts!Cardinality(S) = Feed!Cardinality(S)
    BY DEF Feed!Cardinality, FeedFacts!Cardinality
  <2> QED BY <1>1, <2>1 DEF Feed!Cut, FeedFacts!Cut, Feed!TopLevels, FeedFacts!TopLevels,
                            Feed!Ahead, FeedFacts!Ahead
<1>3. \A q : /\ FeedFacts!TwoSided(q) <=> Feed!TwoSided(q)
             /\ FeedFacts!Crossed(q) <=> Feed!Crossed(q)
  BY DEF Feed!TwoSided, FeedFacts!TwoSided, Feed!Side, FeedFacts!Side, Feed!Crossed,
         FeedFacts!Crossed
<1>4. Feed!Init => FeedFacts!Init
  BY <1>1 DEF Feed!Init, FeedFacts!Init
<1>5. ASSUME NEW s \in Symbol PROVE Feed!Move(s) => FeedFacts!Move(s)
  BY <1>1 DEF Feed!Move, FeedFacts!Move
<1>6. ASSUME NEW s \in Symbol PROVE Feed!Draft(s) => FeedFacts!Draft(s)
  BY <1>1, <1>2 DEF Feed!Draft, FeedFacts!Draft, Feed!Shows, FeedFacts!Shows
<1>7. Feed!Ship => FeedFacts!Ship
  BY <1>3 DEF Feed!Ship, FeedFacts!Ship
<1>8. (Feed!Drop => FeedFacts!Drop) /\ (Feed!Idle => FeedFacts!Idle)
  BY DEF Feed!Drop, FeedFacts!Drop, Feed!Idle, FeedFacts!Idle
<1>9. [Feed!Next]_(Feed!feedVars) => [FeedFacts!Next]_(FeedFacts!feedVars)
  BY <1>5, <1>6, <1>7, <1>8 DEF Feed!Next, FeedFacts!Next, Feed!feedVars, FeedFacts!feedVars
<1> QED BY <1>4, <1>9, PTL DEF Feed!Spec, FeedFacts!Spec

\* Every message the client sends can be used as it is: two sides that do not
\* cross, at most Depth levels each, of an update the exchange has made, although
\* the copy it was cut from may lack a snapshot or an update.
THEOREM MessagesAreUsable ==
  ASSUME IsFiniteSet(Price) PROVE Spec => []FeedFacts!SentIsUsable
<1>1. FeedFacts!IsFiniteSet(Price)
  BY DEF IsFiniteSet, FeedFacts!IsFiniteSet
<1>2. FeedFacts!Spec => []FeedFacts!SentIsUsable
  BY <1>1, FeedFacts!MessagesAreUsable, PriceAssumption, VolAssumption, DepthAssumption
<1> QED BY <1>2, ImplementsFeed, SameFeed, PTL DEF FeedSpec

\* The messages of a symbol never go back to an older book, although the client
\* looks at no numbers: what is under way when mf_unsubscribe_depth_all or a drop
\* ends a subscription never follows what a new one brings.
THEOREM MessagesNeverGoBack ==
  Spec => []FeedFacts!SentIsLatest /\ [][FeedFacts!NumbersAdvance]_(FeedFacts!feedVars)
BY ImplementsFeed, SameFeed, FeedFacts!MessagesNeverGoBack, PriceAssumption,
   VolAssumption, DepthAssumption, PTL DEF FeedSpec
==============================================================================
