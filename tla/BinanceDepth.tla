---------------------------- MODULE BinanceDepth ----------------------------
(***************************************************************************)
(* The incremental-depth mode of MyWebSocketMarket_Binance_f               *)
(* (m_subinfo_depth_type = 2): how the client keeps a copy of each         *)
(* exchange book from the increments of the websocket and the images of    *)
(* the REST interface, and what it sends on.                               *)
(*                                                                         *)
(* Two threads work on the copy.  The loop thread of the websocket client  *)
(* runs on_open, on_close and on_message, one at a time.  The ping thread, *)
(* which on_open starts once, looks at c_needflash_depthfull every two     *)
(* seconds; when the flag is up it clears the copies and asks for a new    *)
(* image of every symbol.  m_cs_update_depth is held while a copy is       *)
(* changed, so an increment, an image and a clear are one step each; the   *)
(* flag is read and written outside the lock, so each of its uses is a     *)
(* step of its own.                                                        *)
(*                                                                         *)
(* The exchange is external.  It numbers the updates of a book 1, 2, ...;  *)
(* increment u leads from hist[s][u-1] to hist[s][u] (its "pu" is u-1).    *)
(* The connection delivers increments in order; a drop loses those it had  *)
(* not delivered.                                                          *)
(***************************************************************************)
EXTENDS DepthBook, Integers, Sequences

CONSTANTS
  Symbol,      \* the instruments of m_map_subinfo_depth
  None,        \* no image, no message
  MaxUpdate,   \* bound: updates the exchange makes to a book
  MaxTouch,    \* bound: levels one update changes
  MaxOpen,     \* bound: connections opened
  RestFails    \* whether a REST request may fail or time out

ASSUME NoneAssumption  == None \notin [symbol : Symbol, updateid : Nat]
ASSUME BoundAssumption == MaxUpdate \in Nat /\ MaxTouch \in Nat /\ MaxOpen \in Nat
ASSUME RestAssumption  == RestFails \in BOOLEAN

VARIABLES
  hist,                  \* external: the books of each symbol, by update number
  feed,                  \* external: next increment to be delivered, 0 = not subscribed
  m_connect_status,
  opens,                 \* how many connections were opened
  c_needflash_depthfull,
  c_depthfull_lastu,     \* 0 = no key in the map
  map_depthfull,         \* m_map_depthfull_ask and m_map_depthfull_bid
  ppc,                   \* where the ping thread is
  todo,                  \* the symbols its loop over m_map_subinfo_depth has left
  image,                 \* the REST answer it is about to parse
  msg,                   \* the message composed under the lock, not yet sent
  sent,                  \* what this step sent, None when it sent nothing
  base,                  \* auxiliary: the image merged since the clear, 0 = none
  late,                  \* auxiliary: c_depthfull_lastu when it was merged, if
                         \* the image was older than that, 0 if not
  first,                 \* auxiliary: the first increment since the clear, 0 = none
  missed                 \* auxiliary: an increment after that one was missed

exchange == <<hist, feed>>
conn     == <<m_connect_status, opens>>
ping     == <<ppc, todo, image>>
ghost    == <<base, late, first, missed>>
vars     == <<exchange, conn, c_needflash_depthfull, c_depthfull_lastu,
              map_depthfull, ping, msg, sent, ghost>>

----------------------------------------------------------------------------
(* The copy of a book: what STR_MYDEPTHFULL keeps of each level.           *)

Absent == [updateid |-> 0, vol |-> 0]        \* no such price in the map
Stored == [updateid : Nat \ {0}, vol : Vol \ {0}]
Empty  == [l \in Level |-> Absent]

\* The volumes a copy shows.
View(entries) == [l \in Level |-> entries[l].vol]

\* Slips of ApplyDiff: a level that went to zero is kept as an empty one; a new
\* level is not put in; an older increment overwrites.
ApplyDiffStoresZero(entries, u, touched, q) ==
  [l \in Level |-> IF l \in touched /\ entries[l].updateid < u
                   THEN [updateid |-> u, vol |-> q[l]] ELSE entries[l]]
ApplyDiffOnlyKnown(entries, u, touched, q) ==
  [l \in Level |->
     IF l \in touched /\ entries[l].updateid \in 1 .. u - 1
     THEN IF q[l] > 0 THEN [updateid |-> u, vol |-> q[l]] ELSE Absent
     ELSE entries[l]]
ApplyDiffAnyOrder(entries, u, touched, q) ==
  [l \in Level |->
     IF l \in touched
     THEN IF q[l] > 0 THEN [updateid |-> u, vol |-> q[l]] ELSE Absent
     ELSE entries[l]]
\* The loops of mf_parse_depth_full over the increment's asks and bids: u
\* is the increment's number, touched the levels it names, q their volumes.
ApplyDiff(entries, u, touched, q) ==
  [l \in Level |->
     IF l \in touched /\ entries[l].updateid < u
     THEN IF q[l] > 0 THEN [updateid |-> u, vol |-> q[l]] ELSE Absent
     ELSE entries[l]]

\* Slip of ApplyImage: the image overwrites what newer increments brought.
ApplyImageAnyOrder(entries, id, img) ==
  [l \in Level |->
     IF img[l] > 0 THEN [updateid |-> id, vol |-> img[l]] ELSE entries[l]]

\* The loops of cf_restparse_all_depthimage; an image only lists levels
\* that are there, and no level it does not list is taken out.
ApplyImage(entries, id, img) ==
  [l \in Level |->
     IF img[l] > 0 /\ entries[l].updateid < id
     THEN [updateid |-> id, vol |-> img[l]]
     ELSE entries[l]]

----------------------------------------------------------------------------
UncrossedQuote == {q \in Quote : ~Crossed(q)}

Init ==
  /\ hist \in [Symbol -> {<<q>> : q \in UncrossedQuote}]
  /\ feed = [s \in Symbol |-> 0]
  /\ m_connect_status = 0
  /\ opens = 0
  /\ c_needflash_depthfull = 1
  /\ c_depthfull_lastu = [s \in Symbol |-> 0]
  /\ map_depthfull = [s \in Symbol |-> Empty]
  /\ ppc = "idle"
  /\ todo = {}
  /\ image = None
  /\ msg = None
  /\ sent = None
  /\ base = [s \in Symbol |-> 0]
  /\ late = [s \in Symbol |-> 0]
  /\ first = [s \in Symbol |-> 0]
  /\ missed = [s \in Symbol |-> FALSE]

----------------------------------------------------------------------------
(* What a copy is worth, told from what was applied to it since the clear. *)

\* The copy holds an image, no increment is missing behind the first one, none
\* between image and increments, and the increments have reached the image;
\* whether they or the image came first does not matter.
Mirrored(s) ==
  /\ base[s] # 0
  /\ ~missed[s]
  /\ first[s] <= base[s] + 1
  /\ base[s] <= c_depthfull_lastu[s]

\* An increment newer than the image took level l out, the image that was merged
\* after it put the level back, and the exchange has not quoted it since: the
\* client does not remember what it has taken out.
BroughtBack(s, l) ==
  /\ late[s] # 0
  /\ map_depthfull[s][l].updateid = base[s]
  /\ l \in TopLevels(hist[s][base[s]], Depth)
  /\ \A u \in late[s] .. c_depthfull_lastu[s] : hist[s][u][l] = 0

\* A mirrored copy into which no old image brought a level back.
Faithful(s) == Mirrored(s) /\ \A l \in Level : ~BroughtBack(s, l)

----------------------------------------------------------------------------
(* The exchange.                                                           *)

\* A book changes.  The exchange never shows a crossed book.
ExchangeUpdate(s) ==
  /\ Len(hist[s]) < MaxUpdate
  /\ \E q \in UncrossedQuote :
       /\ Cardinality(Changed(hist[s][Len(hist[s])], q)) \in 1..MaxTouch
       /\ hist' = [hist EXCEPT ![s] = Append(@, q)]
  /\ sent' = None
  /\ UNCHANGED <<feed, conn, c_needflash_depthfull, c_depthfull_lastu,
                 map_depthfull, ping, msg, ghost>>

\* The SUBSCRIBE that on_open sent takes effect: the connection will carry
\* every increment from now on.
ServerSubscribe(s) ==
  /\ m_connect_status \in {2, 3}
  /\ feed[s] = 0
  /\ feed' = [feed EXCEPT ![s] = Len(hist[s]) + 1]
  /\ sent' = None
  /\ UNCHANGED <<hist, conn, c_needflash_depthfull, c_depthfull_lastu,
                 map_depthfull, ping, msg, ghost>>

----------------------------------------------------------------------------
(* The loop thread.  It composes a message under the lock and decides      *)
(* about it after unlocking, so its other callbacks wait for msg = None.   *)

on_open ==
  /\ msg = None
  /\ m_connect_status \in {0, -1}
  /\ opens < MaxOpen
  /\ opens' = opens + 1
  /\ m_connect_status' = 2          \* 1 until mf_subscribe_all is through
  /\ ppc' = IF ppc = "idle" THEN "poll" ELSE ppc
  /\ sent' = None
  /\ UNCHANGED <<exchange, c_needflash_depthfull, c_depthfull_lastu,
                 map_depthfull, todo, image, msg, ghost>>

\* Slip of on_close: the numbers of the last increments go with the connection.
on_close_forgets ==
  /\ msg = None
  /\ m_connect_status' = -1
  /\ feed' = [s \in Symbol |-> 0]
  /\ c_depthfull_lastu' = [s \in Symbol |-> 0]
  /\ sent' = None
  /\ UNCHANGED <<hist, opens, c_needflash_depthfull, map_depthfull, ping, msg, ghost>>

\* The connection is lost, and with it what it had not delivered; also the
\* callback of an attempt that never connected.
on_close ==
  /\ msg = None
  /\ m_connect_status' = -1
  /\ feed' = [s \in Symbol |-> 0]
  /\ sent' = None
  /\ UNCHANGED <<hist, opens, c_needflash_depthfull, c_depthfull_lastu,
                 map_depthfull, ping, msg, ghost>>

\* on_message for anything but an increment: an acknowledgement or a trade.
on_message_other ==
  /\ msg = None
  /\ m_connect_status = 2
  /\ m_connect_status' = 3
  /\ sent' = None
  /\ UNCHANGED <<exchange, opens, c_needflash_depthfull, c_depthfull_lastu,
                 map_depthfull, ping, msg, ghost>>

\* Slip of LostData: "pu" is not looked at.
LostDataNever(s, u) == FALSE

\* The number of the last increment is not the one before this one.
LostData(s, u) == c_depthfull_lastu[s] # 0 /\ c_depthfull_lastu[s] # u - 1

\* on_message for an increment, up to LeaveCriticalSection.
mf_parse_depth_full(s) ==
  LET u == feed[s] IN
  /\ msg = None
  /\ m_connect_status \in {2, 3}
  /\ u # 0
  /\ u <= Len(hist[s])
  /\ feed' = [feed EXCEPT ![s] = u + 1]
  /\ m_connect_status' = 3
  /\ c_needflash_depthfull' = IF LostData(s, u) THEN 1 ELSE c_needflash_depthfull
  /\ c_depthfull_lastu' = [c_depthfull_lastu EXCEPT ![s] = u]
  /\ map_depthfull' = [map_depthfull EXCEPT ![s] =
       ApplyDiff(@, u, Changed(hist[s][u - 1], hist[s][u]), hist[s][u])]
  /\ first' = [first EXCEPT ![s] = IF @ = 0 THEN u ELSE @]
  /\ missed' = [missed EXCEPT ![s] =
                  @ \/ (first[s] # 0 /\ c_depthfull_lastu[s] # u - 1)]
  /\ UNCHANGED <<hist, opens, ping, base, late>>
  /\ msg' = [symbol   |-> s,
             updateid |-> u,
             book     |-> Cut(View(map_depthfull'[s]), Depth),
             sound    |-> Faithful(s)']
  /\ sent' = None

\* The rest of mf_parse_depth_full, which reads the flag without the lock:
\* the message is held back, sent, or refused because it is crossed.
Withhold ==
  /\ ~TwoSided(msg.book) \/ c_needflash_depthfull = 1
  /\ sent' = None
  /\ UNCHANGED c_needflash_depthfull

\* Slip of Send: the test ask0 > bid0 is left out.
SendUnchecked ==
  /\ TwoSided(msg.book) /\ c_needflash_depthfull = 0
  /\ sent' = msg
  /\ UNCHANGED c_needflash_depthfull

Send ==
  /\ TwoSided(msg.book) /\ c_needflash_depthfull = 0
  /\ ~Crossed(msg.book)
  /\ sent' = msg
  /\ UNCHANGED c_needflash_depthfull

RefuseCrossed ==
  /\ TwoSided(msg.book) /\ c_needflash_depthfull = 0
  /\ Crossed(msg.book)
  /\ sent' = None
  /\ c_needflash_depthfull' = 1

Publish ==
  /\ msg # None
  /\ msg' = None
  /\ Withhold \/ Send \/ RefuseCrossed
  /\ UNCHANGED <<exchange, conn, c_depthfull_lastu, map_depthfull, ping, ghost>>

----------------------------------------------------------------------------
(* The ping thread: m_thread_ping and cf_restreq_all_depthimage.           *)

\* Slip of PingPoll: it refreshes only while messages come in.
PingPollConnected ==
  /\ ppc = "poll"
  /\ ppc' = IF c_needflash_depthfull = 1 /\ m_connect_status = 3
            THEN "clear" ELSE "poll"
  /\ sent' = None
  /\ UNCHANGED <<exchange, conn, c_needflash_depthfull, c_depthfull_lastu,
                 map_depthfull, todo, image, msg, ghost>>

PingPoll ==
  /\ ppc = "poll"
  /\ ppc' = IF c_needflash_depthfull = 1 THEN "clear" ELSE "poll"
  /\ sent' = None
  /\ UNCHANGED <<exchange, conn, c_needflash_depthfull, c_depthfull_lastu,
                 map_depthfull, todo, image, msg, ghost>>

\* Cleared copies hold neither image nor increments.
ForgetCopies ==
  /\ base' = [s \in Symbol |-> 0]
  /\ late' = [s \in Symbol |-> 0]
  /\ first' = [s \in Symbol |-> 0]
  /\ missed' = [s \in Symbol |-> FALSE]

\* Slip of mf_clear_depthfull: the copies are not emptied.
mf_clear_nothing ==
  /\ ppc = "clear"
  /\ ppc' = "fetch"
  /\ todo' = Symbol
  /\ ForgetCopies
  /\ sent' = None
  /\ UNCHANGED <<exchange, conn, c_needflash_depthfull, c_depthfull_lastu,
                 map_depthfull, image, msg>>

mf_clear_depthfull ==
  /\ ppc = "clear"
  /\ ppc' = "fetch"
  /\ todo' = Symbol
  /\ map_depthfull' = [s \in Symbol |-> Empty]
  /\ ForgetCopies
  /\ sent' = None
  /\ UNCHANGED <<exchange, conn, c_needflash_depthfull, c_depthfull_lastu,
                 image, msg>>

\* The REST server answers with the first Depth levels of its current book.
RestAnswer(s) ==
  /\ ppc = "fetch" /\ s \in todo /\ image = None
  /\ image' = [symbol |-> s, updateid |-> Len(hist[s])]
  /\ sent' = None
  /\ UNCHANGED <<exchange, conn, c_needflash_depthfull, c_depthfull_lastu,
                 map_depthfull, ppc, todo, msg, ghost>>

\* No answer within the ten seconds, or one that is not usable: the loop
\* goes on with the next symbol.
RestFail(s) ==
  /\ RestFails
  /\ ppc = "fetch" /\ s \in todo /\ image = None
  /\ todo' = todo \ {s}
  /\ sent' = None
  /\ UNCHANGED <<exchange, conn, c_needflash_depthfull, c_depthfull_lastu,
                 map_depthfull, ppc, image, msg, ghost>>

cf_restparse_all_depthimage ==
  /\ image # None
  /\ LET s  == image.symbol
         id == image.updateid
     IN /\ map_depthfull' = [map_depthfull EXCEPT ![s] =
                               ApplyImage(@, id, Cut(hist[s][id], Depth))]
        /\ todo' = todo \ {s}
        /\ base' = [base EXCEPT ![s] = id]
        /\ late' = [late EXCEPT ![s] = IF id < c_depthfull_lastu[s]
                                      THEN c_depthfull_lastu[s] ELSE 0]
  /\ image' = None
  /\ sent' = None
  /\ UNCHANGED <<exchange, conn, c_needflash_depthfull, c_depthfull_lastu,
                 ppc, msg, first, missed>>

\* Slip of RestDone: the requests are sent without waiting for the answers.
RestDoneEarly ==
  /\ ppc = "fetch" /\ image = None
  /\ c_needflash_depthfull' = 0
  /\ ppc' = "settle"
  /\ sent' = None
  /\ UNCHANGED <<exchange, conn, c_depthfull_lastu, map_depthfull, todo, image,
                 msg, ghost>>

\* The end of cf_restreq_all_depthimage ...
RestDone ==
  /\ ppc = "fetch" /\ todo = {}
  /\ c_needflash_depthfull' = 0
  /\ ppc' = "settle"
  /\ sent' = None
  /\ UNCHANGED <<exchange, conn, c_depthfull_lastu, map_depthfull, todo, image,
                 msg, ghost>>

\* ... and, two seconds later, of the refresh.
PingSettle ==
  /\ ppc = "settle"
  /\ c_needflash_depthfull' = 0
  /\ ppc' = "poll"
  /\ sent' = None
  /\ UNCHANGED <<exchange, conn, c_depthfull_lastu, map_depthfull, todo, image,
                 msg, ghost>>

----------------------------------------------------------------------------
Exchange == \E s \in Symbol : ExchangeUpdate(s) \/ ServerSubscribe(s)

LoopThread ==
  \/ on_open
  \/ on_close
  \/ on_message_other
  \/ \E s \in Symbol : mf_parse_depth_full(s)
  \/ Publish

PingThread ==
  \/ PingPoll
  \/ mf_clear_depthfull
  \/ \E s \in Symbol : RestAnswer(s) \/ RestFail(s)
  \/ cf_restparse_all_depthimage
  \/ RestDone
  \/ PingSettle

Next == Exchange \/ LoopThread \/ PingThread

Spec == Init /\ [][Next]_vars

\* The ping thread is never blocked: its sleeps end, its requests time out.
FairSpec == Spec /\ WF_vars(PingThread)
----------------------------------------------------------------------------
(* Properties.                                                             *)

Message == [symbol : Symbol, updateid : Nat \ {0}, book : Quote, sound : BOOLEAN]

TypeOK ==
  /\ hist \in [Symbol -> Seq(Quote) \ {<< >>}]
  /\ feed \in [Symbol -> Nat]
  /\ m_connect_status \in {-1, 0, 2, 3}
  /\ opens \in 0..MaxOpen
  /\ c_needflash_depthfull \in {0, 1}
  /\ c_depthfull_lastu \in [Symbol -> Nat]
  /\ map_depthfull \in [Symbol -> [Level -> Stored \cup {Absent}]]
  /\ ppc \in {"idle", "poll", "clear", "fetch", "settle"}
  /\ todo \subseteq Symbol
  /\ image \in [symbol : Symbol, updateid : Nat \ {0}] \cup {None}
  /\ msg \in Message \cup {None}
  /\ sent \in Message \cup {None}
  /\ base \in [Symbol -> Nat]
  /\ late \in [Symbol -> Nat]
  /\ first \in [Symbol -> Nat]
  /\ missed \in [Symbol -> BOOLEAN]

\* A late image never takes a level back to an older update, and an increment
\* the image already contains does not either: a level that stays in the
\* copy only moves forward.
EntriesOnlyAdvance ==
  [][\A s \in Symbol, l \in Level :
       map_depthfull'[s][l] # Absent =>
         map_depthfull'[s][l].updateid >= map_depthfull[s][l].updateid]_vars

\* A mirrored copy holds no level the exchange does not have at the last
\* increment, and none with another volume, in every order of the image and the
\* increments; the one exception is a level that an image older than them
\* brought back (cf_restparse_all_depthimage takes every price it does not find
\* for a new one).
MirrorSound ==
  \A s \in Symbol : Mirrored(s) =>
    \A l \in Level :
      map_depthfull[s][l] # Absent /\ ~BroughtBack(s, l) =>
        map_depthfull[s][l].vol = hist[s][c_depthfull_lastu[s]][l]

\* What a mirrored copy misses was behind the first Depth levels of the image and
\* did not change since, in every order of the image and the increments: REST
\* images are cut to Depth levels, increments are not.
MirrorComplete ==
  \A s \in Symbol : Mirrored(s) =>
    \A l \in Level : map_depthfull[s][l] = Absent =>
      \/ hist[s][c_depthfull_lastu[s]][l] = 0
      \/ /\ l \notin TopLevels(hist[s][base[s]], Depth)
         /\ \A u \in base[s] .. c_depthfull_lastu[s] :
              hist[s][u][l] = hist[s][base[s]][l]

\* On this side the last image was not full, or the copy still has Depth levels
\* that are no worse than the worst of the image.
Undiminished(s, side) ==
  LET img  == OfSide(TopLevels(hist[s][base[s]], Depth), side)
      kept == {l \in OfSide(Level, side) : /\ map_depthfull[s][l] # Absent
                                          /\ \E m \in img : l = m \/ Ahead(l, m)}
  IN  Cardinality(img) = Depth => Cardinality(kept) >= Depth

\* As long as no more levels went than came in the range the image covered, what
\* it cut off does no harm: the first Depth levels of a faithful copy are those
\* of the exchange, although the copy is not the exchange's book.
CopyShowsTop ==
  \A s \in Symbol :
    Faithful(s) /\ (\A side \in Side : Undiminished(s, side)) =>
      Cut(View(map_depthfull[s]), Depth) = Cut(hist[s][c_depthfull_lastu[s]], Depth)

\* A message composed of a faithful copy is exactly the first Depth levels of
\* the exchange's book (README.md: only the first "level" levels of the data
\* are sent), even if the ping thread cleared the copy before it left.
SentIsTopOfBook ==
  sent # None /\ sent.sound =>
    sent.book = Cut(hist[sent.symbol][sent.updateid], Depth)

\* A refresh that is asked for while the ping thread runs is carried through,
\* so that the messages are not held back for ever.
RefreshEnds ==
  (c_needflash_depthfull = 1 /\ ppc # "idle") ~> (c_needflash_depthfull = 0)

\* Of the message that was sent about symbol s this side is the exchange's.
RightSide(s, side) ==
  \A l \in OfSide(Level, side) : sent.book[l] = Cut(hist[s][sent.updateid], Depth)[l]

\* The same of every mirrored copy, whether its image was cut or older than the
\* increments, in its weakest form: a message that shows the copy as it still is
\* when the message leaves is not wrong both where an old image brought a level
\* back and where none did.
SentIsTopInAnyOrder ==
  sent # None =>
    LET s   == sent.symbol
        old == {side \in Side : \E l \in OfSide(Level, side) : BroughtBack(s, l)}
    IN  Mirrored(s) /\ sent.updateid = c_depthfull_lastu[s]
                    /\ sent.book = Cut(View(map_depthfull[s]), Depth)
          => \/ \A side \in old : RightSide(s, side)
             \/ \A side \in Side \ old : RightSide(s, side)

\* What would be sent of the copy of s is not the top of the exchange's book.
WrongTop(s) ==
  Cut(View(map_depthfull[s]), Depth) # Cut(hist[s][c_depthfull_lastu[s]], Depth)

\* MyWebSocketMarket_Binance_f.h: c_needflash_depthfull says whether the
\* incremental book needs a refresh.  While the ping thread waits, the flag is up
\* if a copy shows a wrong book because an increment between two others was
\* missed.
FlagShowsGap ==
  ppc = "poll" /\ (\E s \in Symbol : missed[s] /\ WrongTop(s))
    => c_needflash_depthfull = 1

\* The same for a copy that has no image.
FlagShowsMissingImage ==
  ppc = "poll" /\ (\E s \in Symbol : base[s] = 0) => c_needflash_depthfull = 1

\* An increment between the image and the first one was missed.
Hole(s) == base[s] # 0 /\ first[s] > base[s] + 1

\* The same for a refresh that left two copies in need of another: one that got no
\* image, and one that shows a wrong book because the first increment does not
\* meet its image.
FlagShowsUnmetImages ==
  /\ ppc = "poll"
  /\ \E s \in Symbol : base[s] = 0
  /\ \E s \in Symbol : Hole(s) /\ WrongTop(s)
  => c_needflash_depthfull = 1

\* An increment that a drop lost between two others does not pass unnoticed,
\* however many connections lie between them: c_depthfull_lastu outlives the
\* connection, and the first increment of the next one is compared with it.
MissesAreNoticed ==
  [][\A s \in Symbol : missed'[s] /\ ~missed[s] => c_needflash_depthfull' = 1]_vars

\* What the client promises to its subscribers (DepthFeed): every symbol's
\* messages are about ever newer updates, two-sided and not crossed, although
\* crossed copies exist and the flag may change between composing and
\* sending; and what was composed of a faithful copy shows only levels the
\* exchange had at that update.
Feed == INSTANCE DepthFeed WITH latest <- c_depthfull_lastu, draft <- msg
FeedSpec == Feed!Spec
============================================================================
