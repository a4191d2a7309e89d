------------------------------ MODULE OkxDepth ------------------------------
(***************************************************************************)
(* The incremental-depth mode of MyWebSocketMarket_Okx_f                   *)
(* (m_subinfo_depth_type = 2).  There is no REST image: the exchange opens *)
(* a subscription with a snapshot of the book and goes on with updates,    *)
(* and the client applies both in the same way.  It has no sequence        *)
(* numbers to go by; what it checks is that the book it sends does not     *)
(* cross and, at every tenth depth message, a checksum.  When one of them  *)
(* fails it raises c_needflash_depthfull, and the ping thread unsubscribes *)
(* everything, waits, clears the copies and subscribes again, on the same  *)
(* connection.                                                             *)
(*                                                                         *)
(* Threads and lock are those of BinanceDepth, with one difference:        *)
(* cf_check_depthfull walks the copies without m_cs_update_depth.          *)
(*                                                                         *)
(* The exchange and the network are external: requests and data each keep  *)
(* their order, and a drop loses what is under way.  With FeedLoses an     *)
(* update may be missing on a connection that lasts, which is what the     *)
(* client's two checks are there for.  Books are taken to have no more     *)
(* levels than a snapshot carries (400).                                   *)
(***************************************************************************)
EXTENDS DepthBook, Integers, Sequences

CONSTANTS
  Symbol,       \* the instruments of m_map_subinfo_depth
  None,         \* no message
  CheckEvery,   \* a checksum is looked at every so many depth messages (10)
  CheckLevels,  \* the checksum covers so many levels of each side (25)
  DupSnapshot,  \* external: a second subscribe is answered with a snapshot
  FeedLoses,    \* external: data may be missing without a drop
  MaxUpdate,    \* bound: updates the exchange makes to a book
  MaxTouch,     \* bound: levels one update changes
  MaxOpen,      \* bound: connections opened
  MaxRefresh    \* bound: refreshes the ping thread starts

ASSUME CheckAssumption == CheckEvery \in Nat \ {0} /\ CheckLevels \in Nat \ {0}
ASSUME FeedAssumption  == DupSnapshot \in BOOLEAN /\ FeedLoses \in BOOLEAN
ASSUME OkxBoundAssumption ==
  MaxUpdate \in Nat /\ MaxTouch \in Nat /\ MaxOpen \in Nat /\ MaxRefresh \in Nat

Datum == [kind : {"snapshot", "update"}, id : Nat \ {0}]
ASSUME NoMessageAssumption ==
  None \notin [symbol : Symbol, updateid : Nat, book : Quote, sound : BOOLEAN]

VARIABLES
  hist,                  \* external: the books of each symbol, by update number
  subscribed,            \* external: whether the exchange sends a symbol's data
  up,                    \* requests under way, for each symbol
  down,                  \* data under way, for each symbol
  m_connect_status,
  opens,                 \* how many connections were opened
  c_needflash_depthfull,
  m_recvcount_depth,     \* modulo CheckEvery, the only use made of it
  map_depthfull,         \* m_map_depthfull_ask and m_map_depthfull_bid
  ppc,                   \* where the ping thread is
  refreshes,             \* how many refreshes it started
  lpc,                   \* where the loop thread is in mf_parse_depth_full
  msg,                   \* the message composed under the lock, None between messages
  sent,                  \* what this step sent, None when it sent nothing
  sync,                  \* auxiliary: how a copy relates to the exchange
  last,                  \* auxiliary: the number of the last book or update applied
  torn                   \* auxiliary: a copy changed while it was walked

exchange == <<hist, subscribed, up, down>>
conn     == <<m_connect_status, opens>>
ping     == <<ppc, refreshes>>
ghost    == <<sync, last>>
vars     == <<exchange, conn, c_needflash_depthfull, m_recvcount_depth,
              map_depthfull, ping, lpc, msg, sent, ghost, torn>>

UncrossedQuote == {q \in Quote : ~Crossed(q)}
EmptyBook == [l \in Level |-> 0]
Sync == {"blank",    \* cleared, nothing applied since
         "imaged",   \* snapshot applied to a cleared copy, then every update
         "stale",    \* updates applied to a cleared copy, no snapshot
         "gap",      \* an update missed after a snapshot
         "mixed"}    \* snapshot applied to a copy that was not cleared

Connected == m_connect_status \in {2, 3}

Init ==
  /\ hist \in [Symbol -> {<<q>> : q \in UncrossedQuote}]
  /\ subscribed = [s \in Symbol |-> FALSE]
  /\ up = [s \in Symbol |-> << >>]
  /\ down = [s \in Symbol |-> << >>]
  /\ m_connect_status = 0
  /\ opens = 0
  /\ c_needflash_depthfull = 0
  /\ m_recvcount_depth = 0
  /\ map_depthfull = [s \in Symbol |-> EmptyBook]
  /\ ppc = "idle"
  /\ refreshes = 0
  /\ lpc = "idle"
  /\ msg = None
  /\ sent = None
  /\ sync = [s \in Symbol |-> "blank"]
  /\ last = [s \in Symbol |-> 0]
  /\ torn = FALSE

----------------------------------------------------------------------------
(* The exchange.                                                           *)

\* A book changes; a subscriber is told, unless the update gets lost.
ExchangeUpdate(s) ==
  /\ Len(hist[s]) < MaxUpdate
  /\ \E q \in UncrossedQuote :
       /\ Cardinality(Changed(hist[s][Len(hist[s])], q)) \in 1..MaxTouch
       /\ hist' = [hist EXCEPT ![s] = Append(@, q)]
  /\ \/ /\ subscribed[s]
        /\ down' = [down EXCEPT ![s] =
                      Append(@, [kind |-> "update", id |-> Len(hist'[s])])]
     \/ /\ ~subscribed[s] \/ FeedLoses
        /\ UNCHANGED down
  /\ sent' = None
  /\ UNCHANGED <<subscribed, up, conn, c_needflash_depthfull, m_recvcount_depth,
                 map_depthfull, ping, lpc, msg, ghost, torn>>

\* A request arrives.
ServerRequest(s) ==
  /\ up[s] # << >>
  /\ up' = [up EXCEPT ![s] = Tail(@)]
  /\ subscribed' = [subscribed EXCEPT ![s] = Head(up[s]) = "subscribe"]
  /\ down' = IF Head(up[s]) = "subscribe" /\ (DupSnapshot \/ ~subscribed[s])
             THEN [down EXCEPT ![s] =
                     Append(@, [kind |-> "snapshot", id |-> Len(hist[s])])]
             ELSE down
  /\ sent' = None
  /\ UNCHANGED <<hist, conn, c_needflash_depthfull, m_recvcount_depth,
                 map_depthfull, ping, lpc, msg, ghost, torn>>

----------------------------------------------------------------------------
(* What both threads use.                                                  *)

\* m_ws.send of cf_sub_unsub_all; without a connection nothing is sent and
\* nobody is told.
SendAll(request) ==
  up' = IF Connected THEN [s \in Symbol |-> Append(up[s], request)] ELSE up

\* mf_clear_depthfull
Clear ==
  /\ map_depthfull' = [s \in Symbol |-> EmptyBook]
  /\ sync' = [s \in Symbol |-> "blank"]

----------------------------------------------------------------------------
(* The loop thread.                                                        *)

\* Slip of on_open: mf_subscribe_all does not say that it is through.
on_open_unfinished ==
  /\ lpc = "idle"
  /\ m_connect_status \in {0, -1}
  /\ opens < MaxOpen
  /\ opens' = opens + 1
  /\ m_connect_status' = 1
  /\ Clear
  /\ up' = [s \in Symbol |-> <<"subscribe">>]
  /\ ppc' = IF ppc = "idle" THEN "poll" ELSE ppc
  /\ sent' = None
  /\ UNCHANGED <<hist, subscribed, down, c_needflash_depthfull,
                 m_recvcount_depth, refreshes, lpc, msg, last, torn>>

\* mf_subscribe_all ends with m_connect_status = 2; the handler runs to its
\* end before any other callback, and the requests go out on the new
\* connection.
on_open ==
  /\ lpc = "idle"
  /\ m_connect_status \in {0, -1}
  /\ opens < MaxOpen
  /\ opens' = opens + 1
  /\ m_connect_status' = 2
  /\ Clear
  /\ up' = [s \in Symbol |-> <<"subscribe">>]
  /\ ppc' = IF ppc = "idle" THEN "poll" ELSE ppc
  /\ sent' = None
  /\ UNCHANGED <<hist, subscribed, down, c_needflash_depthfull,
                 m_recvcount_depth, refreshes, lpc, msg, last, torn>>

on_close ==
  /\ lpc = "idle"
  /\ m_connect_status' = -1
  /\ subscribed' = [s \in Symbol |-> FALSE]
  /\ up' = [s \in Symbol |-> << >>]
  /\ down' = [s \in Symbol |-> << >>]
  /\ sent' = None
  /\ UNCHANGED <<hist, opens, c_needflash_depthfull, m_recvcount_depth,
                 map_depthfull, ping, lpc, msg, ghost, torn>>

\* on_message for anything but depth data: an acknowledgement, a pong, a trade.
on_message_other ==
  /\ lpc = "idle"
  /\ m_connect_status = 2
  /\ m_connect_status' = 3
  /\ sent' = None
  /\ UNCHANGED <<exchange, opens, c_needflash_depthfull, m_recvcount_depth,
                 map_depthfull, ping, lpc, msg, ghost, torn>>

\* Slip of ApplyData: a level that went to zero is not taken out.
ApplyDataKeepsZero(book, touched, q) ==
  [l \in Level |-> IF l \in touched /\ q[l] > 0 THEN q[l] ELSE book[l]]

\* The loops over "asks" and "bids".
ApplyData(book, touched, q) ==
  [l \in Level |-> IF l \in touched THEN q[l] ELSE book[l]]

\* How data changes what the copy of s is worth.
SyncAfter(s, data) ==
  IF data.kind = "snapshot"
  THEN IF sync[s] = "blank" \/ (sync[s] = "imaged" /\ data.id = last[s])
       THEN "imaged" ELSE "mixed"
  ELSE IF sync[s] = "blank" THEN "stale"
       ELSE IF sync[s] = "imaged" /\ data.id # last[s] + 1 THEN "gap"
       ELSE sync[s]

\* on_message for depth data, up to LeaveCriticalSection.  A snapshot lists
\* the levels that are there, an update those that changed.
mf_parse_depth_full(s) ==
  LET data    == Head(down[s])
      q       == hist[s][data.id]
      touched == IF data.kind = "snapshot" THEN {l \in Level : q[l] > 0}
                 ELSE Changed(hist[s][data.id - 1], q)
  IN
  /\ lpc = "idle"
  /\ Connected
  /\ down[s] # << >>
  /\ down' = [down EXCEPT ![s] = Tail(@)]
  /\ m_connect_status' = 3
  /\ m_recvcount_depth' = (m_recvcount_depth + 1) % CheckEvery
  /\ map_depthfull' = [map_depthfull EXCEPT ![s] = ApplyData(@, touched, q)]
  /\ sync' = [sync EXCEPT ![s] = SyncAfter(s, data)]
  /\ last' = [last EXCEPT ![s] = data.id]
  /\ msg' = [symbol   |-> s,
             updateid |-> data.id,
             book     |-> Cut(map_depthfull'[s], Depth),
             sound    |-> sync'[s] = "imaged"]
  /\ lpc' = "publish"
  /\ sent' = None
  /\ UNCHANGED <<hist, subscribed, up, opens, c_needflash_depthfull, ping, torn>>

\* After the lock: the message is sent, or refused because it is crossed.
\* Unlike the Binance client, nothing is held back while the flag is up.
OneSided ==
  /\ ~TwoSided(msg.book)
  /\ sent' = None
  /\ UNCHANGED c_needflash_depthfull

\* Slip of Send: the test ask0 > bid0 is left out.
SendUnchecked ==
  /\ TwoSided(msg.book)
  /\ sent' = msg
  /\ UNCHANGED c_needflash_depthfull

\* Slip of Send: the message is composed after the lock.
SendAnew ==
  /\ TwoSided(msg.book) /\ ~Crossed(msg.book)
  /\ sent' = [msg EXCEPT !.book = Cut(map_depthfull[msg.symbol], Depth)]
  /\ UNCHANGED c_needflash_depthfull

Send ==
  /\ TwoSided(msg.book) /\ ~Crossed(msg.book)
  /\ sent' = msg
  /\ UNCHANGED c_needflash_depthfull

RefuseCrossed ==
  /\ TwoSided(msg.book) /\ Crossed(msg.book)
  /\ sent' = None
  /\ c_needflash_depthfull' = 1

Publish ==
  /\ lpc = "publish"
  /\ OneSided \/ Send \/ RefuseCrossed
  /\ lpc' = IF m_recvcount_depth = 0 THEN "check" ELSE "idle"
  /\ msg' = IF m_recvcount_depth = 0 THEN msg ELSE None
  /\ UNCHANGED <<exchange, conn, m_recvcount_depth, map_depthfull, ping, sync,
                 last, torn>>

\* Both sides of a book have more than CheckLevels levels.
Deep(book) ==
  \A side \in Side :
    Cardinality({p \in Price : book[<<side, p>>] > 0}) > CheckLevels

\* Slip of CheckStart: the number of levels is not looked at.
CheckStartAlways ==
  /\ lpc = "check"
  /\ lpc' = "walk"
  /\ torn' = FALSE
  /\ sent' = None
  /\ UNCHANGED <<exchange, conn, c_needflash_depthfull, m_recvcount_depth,
                 map_depthfull, ping, msg, ghost>>

\* cf_check_depthfull starts: a copy that is not deep enough passes.
CheckStart ==
  /\ lpc = "check"
  /\ IF Deep(map_depthfull[msg.symbol])
     THEN lpc' = "walk" /\ UNCHANGED msg
     ELSE lpc' = "idle" /\ msg' = None
  /\ torn' = FALSE
  /\ sent' = None
  /\ UNCHANGED <<exchange, conn, c_needflash_depthfull, m_recvcount_depth,
                 map_depthfull, ping, ghost>>

\* ... and ends: the checksum of the first CheckLevels levels is compared with
\* the one the data carried.  If the copy was cleared under the walk, either
\* result may come out.
ChecksumMatches ==
  Cut(map_depthfull[msg.symbol], CheckLevels) =
    Cut(hist[msg.symbol][msg.updateid], CheckLevels)

cf_check_depthfull ==
  /\ lpc = "walk"
  /\ \/ /\ ChecksumMatches \/ torn
        /\ UNCHANGED c_needflash_depthfull
     \/ /\ ~ChecksumMatches \/ torn
        /\ c_needflash_depthfull' = 1
  /\ lpc' = "idle"
  /\ msg' = None
  /\ torn' = FALSE
  /\ sent' = None
  /\ UNCHANGED <<exchange, conn, m_recvcount_depth, map_depthfull, ping, sync,
                 last>>

----------------------------------------------------------------------------
(* The ping thread: m_thread_ping.                                         *)

PingPoll ==
  /\ ppc = "poll"
  /\ IF c_needflash_depthfull = 1 /\ refreshes < MaxRefresh
     THEN ppc' = "unsubscribe" /\ refreshes' = refreshes + 1
     ELSE UNCHANGED ping
  /\ sent' = None
  /\ UNCHANGED <<exchange, conn, c_needflash_depthfull, m_recvcount_depth,
                 map_depthfull, lpc, msg, ghost, torn>>

mf_unsubscribe_depth_all ==
  /\ ppc = "unsubscribe"
  /\ ppc' = "clear"
  /\ SendAll("unsubscribe")
  /\ sent' = None
  /\ UNCHANGED <<hist, subscribed, down, conn, c_needflash_depthfull,
                 m_recvcount_depth, map_depthfull, refreshes, lpc, msg, ghost, torn>>

\* mf_subscribe_depth_all, first half, after Sleep(2000)
mf_clear_depthfull ==
  /\ ppc = "clear"
  /\ ppc' = "subscribe"
  /\ Clear
  /\ torn' = (torn \/ lpc = "walk")
  /\ sent' = None
  /\ UNCHANGED <<exchange, conn, c_needflash_depthfull, m_recvcount_depth,
                 refreshes, lpc, msg, last>>

\* Slip: the ping thread subscribes again only when data has come in.
mf_subscribe_when_busy ==
  /\ ppc = "subscribe"
  /\ ppc' = "reset"
  /\ IF m_connect_status = 3 THEN SendAll("subscribe") ELSE UNCHANGED up
  /\ sent' = None
  /\ UNCHANGED <<hist, subscribed, down, conn, c_needflash_depthfull,
                 m_recvcount_depth, map_depthfull, refreshes, lpc, msg, ghost, torn>>

\* mf_subscribe_depth_all, second half
mf_subscribe_depth_all ==
  /\ ppc = "subscribe"
  /\ ppc' = "reset"
  /\ SendAll("subscribe")
  /\ sent' = None
  /\ UNCHANGED <<hist, subscribed, down, conn, c_needflash_depthfull,
                 m_recvcount_depth, map_depthfull, refreshes, lpc, msg, ghost, torn>>

\* Slip: the copies are cleared after the subscribe.
PingResetClears ==
  /\ ppc = "reset"
  /\ ppc' = "poll"
  /\ c_needflash_depthfull' = 0
  /\ Clear
  /\ torn' = (torn \/ lpc = "walk")
  /\ sent' = None
  /\ UNCHANGED <<exchange, conn, m_recvcount_depth, refreshes, lpc, msg, last>>

PingReset ==
  /\ ppc = "reset"
  /\ ppc' = "poll"
  /\ c_needflash_depthfull' = 0
  /\ sent' = None
  /\ UNCHANGED <<exchange, conn, m_recvcount_depth, map_depthfull, refreshes,
                 lpc, msg, ghost, torn>>

----------------------------------------------------------------------------
Server == \E s \in Symbol : ServerRequest(s)

LoopThread ==
  \/ \E s \in Symbol : mf_parse_depth_full(s)
  \/ Publish
  \/ CheckStart
  \/ cf_check_depthfull

PingThread ==
  \/ PingPoll
  \/ mf_unsubscribe_depth_all
  \/ mf_clear_depthfull
  \/ mf_subscribe_depth_all
  \/ PingReset

Next ==
  \/ \E s \in Symbol : ExchangeUpdate(s)
  \/ Server
  \/ on_open \/ on_close \/ on_message_other
  \/ LoopThread
  \/ PingThread

Spec == Init /\ [][Next]_vars

\* The exchange answers requests, the loop thread hands on what arrives, the
\* ping thread's sleeps end.  Nothing makes a connection come up or stay.
FairSpec == /\ Spec
            /\ WF_vars(Server)
            /\ WF_vars(LoopThread)
            /\ WF_vars(PingThread)
----------------------------------------------------------------------------
(* Properties.                                                             *)

Message == [symbol : Symbol, updateid : Nat \ {0}, book : Quote, sound : BOOLEAN]

TypeOK ==
  /\ hist \in [Symbol -> Seq(Quote) \ {<< >>}]
  /\ subscribed \in [Symbol -> BOOLEAN]
  /\ up \in [Symbol -> Seq({"subscribe", "unsubscribe"})]
  /\ down \in [Symbol -> Seq(Datum)]
  /\ m_connect_status \in {-1, 0, 2, 3}
  /\ opens \in 0 .. MaxOpen
  /\ c_needflash_depthfull \in {0, 1}
  /\ m_recvcount_depth \in 0 .. CheckEvery - 1
  /\ map_depthfull \in [Symbol -> Quote]
  /\ ppc \in {"idle", "poll", "unsubscribe", "clear", "subscribe", "reset"}
  /\ refreshes \in 0 .. MaxRefresh
  /\ lpc \in {"idle", "publish", "check", "walk"}
  /\ msg \in Message \cup {None}
  /\ (msg = None) = (lpc = "idle")
  /\ sent \in Message \cup {None}
  /\ sync \in [Symbol -> Sync]
  /\ last \in [Symbol -> Nat]
  /\ torn \in BOOLEAN

\* A copy that was empty when its snapshot came is exactly the exchange's book
\* at the last update, although it carries no numbers to compare: the
\* order of clear, subscribe, snapshot and updates is all there is.
MirrorExact ==
  \A s \in Symbol : sync[s] = "imaged" => map_depthfull[s] = hist[s][last[s]]

\* The two checks raise no false alarm: the flag goes up only for a copy that
\* missed something, or one that was cleared while it was walked.  Both
\* look at the copy after the lock, when the ping thread may have cleared it.
NoFalseAlarm ==
  [][c_needflash_depthfull = 0 /\ c_needflash_depthfull' = 1
       => ~msg.sound \/ torn]_vars

\* A message composed of an exact copy is the top of the exchange's book, even
\* if the ping thread cleared the copy before it was sent.
SentIsTopOfBook ==
  sent # None /\ sent.sound =>
    sent.book = Cut(hist[sent.symbol][sent.updateid], Depth)

\* The request that counts, the last one sent on this connection, is a
\* subscribe, except while the ping thread is between its two requests:
\* whatever on_open and a drop do in between, a refresh does not leave a
\* symbol unsubscribed.
StaysSubscribed ==
  Connected /\ ppc \in {"poll", "unsubscribe", "reset"} =>
    \A s \in Symbol :
      IF up[s] = << >> THEN subscribed[s]
      ELSE up[s][Len(up[s])] = "subscribe"

\* A cleared copy gets its snapshot if the connection lasts.
CopiesAreRefilled ==
  \A s \in Symbol :
    (Connected /\ sync[s] \in {"blank", "stale"})
      ~> (~Connected \/ sync[s] \in {"imaged", "mixed"})

\* MyWebSocketMarket.h: m_cs_update_depth is the lock of the depth update.  A
\* copy that cf_check_depthfull walks does not change under it.
WalkUnderLock == ~torn

\* What the client promises to its subscribers (DepthFeed), with the message
\* between composing and sending as the draft: although the data carries no
\* numbers the client looks at, no refresh and no reconnect lets a message
\* about an older book follow one about a newer book.
Feed == INSTANCE DepthFeed
          WITH latest <- last, draft <- IF lpc = "publish" THEN msg ELSE None
FeedSpec == Feed!Spec
============================================================================
