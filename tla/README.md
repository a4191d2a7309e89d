# A TLA+ model of data_websocket_client

data_websocket_client follows market data of crypto exchanges over websockets,
brings books and trades into one JSON format and sends them on over ZMQ PUB sockets.
This directory models the parts of it that are hard to test: how copies of the
exchanges' books are kept by two threads from data that may be missing, late or
reordered, how subscriptions are made and repeated, how connections come back and are
kept alive, how the program starts from its configuration, and how log lines reach
their files. TLC checks the models on small instances; TLAPS proves the most important
properties for every value of the constants.

Paths begin with `src/`, the repository's root. Two clients are in the code,
`MyWebSocketMarket_Binance_f` and `MyWebSocketMarket_Okx_f`; "B:57" and "O:57" stand
for line 57 of their `.cpp` files in `src/clients/`, "main:57" for `src/main.cpp`.

## 1. Inventory

### 1.1 Components

| component | state | operations | modelled by |
|---|---|---|---|
| Binance incremental depth | `m_map_depthfull_ask/bid`, `c_depthfull_lastu`, `c_needflash_depthfull`, `m_connect_status` | `on_open`, `on_close`, `on_message`, `mf_parse_depth_full`, `m_thread_ping`, `mf_clear_depthfull`, `cf_restreq_all_depthimage`, `cf_restparse_all_depthimage` | `BinanceDepth` |
| OKX incremental depth | the same maps and flag, `m_recvcount_depth` | the same callbacks, `cf_check_depthfull`, `mf_unsubscribe_depth_all`, `mf_subscribe_depth_all` | `OkxDepth` |
| Promise to ZMQ subscribers | what was sent | draft, send, drop | `DepthFeed` (abstract) |
| Subscription requests | `m_map_subinfo_depth/trade`, `m_cs_subscribe`, the array `doc` | `cf_sub_unsub_all` and its callers | `Subscription` |
| Logger | `m_Log_List`, `m_run`, the files | `mf_Add_Log`, `mf_Get_Log`, `mf_Run_Write_Log`, `mf_Write_Text` | `MyLogger`, promise: `LogBook` |
| Reconnection | hv's channel, its reconnect setting and timer | `open`, `startConnect`, `startReconnect` | `TcpClient` |
| Keepalive | `m_pingpong_ts`, `m_onmessage_ts` | `m_thread_ping`, the pong of `on_message`, `isConnected` and `send` | `Keepalive` |
| Bootstrap, configuration | `gcp_config`, `gcp_vec_mywebsocktmarket`, `gcp_map_zmqpublish` | `load_config`, `init_market`, `start_*` | `Startup` |
| Routing, limited depth, trades | none between messages | `on_message`, `mf_parse_depth`, `mf_parse_depth_limit`, `mf_parse_trade` | `Startup` (which channel, which parser, how many levels) |
| ZMQ publisher | the socket | `mf_Connect`, `mf_send` | `Startup`; its list and lock have no user |
| Checksum, string helpers | none | `cf_getCRC`, `gf_split3` | not modelled, see 5 |
| Example subscriber | none | `src/test/zmq_sub_demo.py` | not modelled |
| hv, libzmq, rapidjson, openssl | | | vendored, external |

### 1.2 Threads, locks and calls

* `main` starts the writing thread of the logger, reads the configuration, makes one
  client and one ZMQ socket per connection of the configuration, opens the clients,
  binds the sockets and sleeps for ever. The program ends by being killed.
* Each client has a **loop thread** (hv's), which runs `on_open`, `on_close` and
  `on_message`, never two at a time, and a **ping thread**, which `on_open` starts
  the first time and which never ends. Every two seconds it refreshes the copies if
  `c_needflash_depthfull` is up, and sends a pong (OKX: a ping) if the
  connection was quiet.
* `m_cs_update_depth` guards the copies, `m_cs_subscribe` a whole subscribe or
  unsubscribe call, `m_cs` the list of log lines. `c_needflash_depthfull`,
  `m_connect_status`, `m_pingpong_ts` and `m_recvcount_depth` are plain variables
  that no lock guards.
* Binance: the loop thread subscribes; increments arrive and are applied; the ping
  thread fetches REST images symbol by symbol, and they are merged into the copies
  by update number. OKX: a snapshot opens each subscription; the ping thread
  refreshes by unsubscribing, waiting, clearing and subscribing.
* Parsed messages go to `MyZmqPublish::mf_send` from the loop thread; log lines go
  to the logger from all threads.

### 1.3 What is hard, and what is then correct

* *A copy made from two sources.* Increments and images may meet in any order,
  increments can be missed over a reconnect. Correct: a copy that has an image and
  missed nothing is the exchange's book (`MirrorSound`, `MirrorComplete`,
  `MirrorExact`); where its image was cut, it still shows the exchange's first levels
  until levels are missing in the image's range (`CopyShowsTop`); levels never go
  backwards (`EntriesOnlyAdvance`). That it is so in every order of image and
  increments, `SentIsTopInAnyOrder`, fails: an image older than the increments it
  joins brings back levels they took out, and `MirrorSound` has to except those.
* *A lock left too early.* The message is composed under the lock and judged and
  sent after it; the OKX checksum is computed after it. Correct: what leaves is
  still right (`SentIsTopOfBook`, `FeedSpec`), checks raise no false alarm
  (`NoFalseAlarm`), nothing changes under a walk (`WalkUnderLock`, which fails).
* *One flag, two writers, all symbols.* Correct: an increment that is missed between
  two others raises the flag (`MissesAreNoticed`), a copy that is wrong for it stays
  flagged until a refresh repairs it (`FlagShowsGap`, which the code breaks), as does a
  copy without an image (`FlagShowsMissingImage`, while no request fails); after a
  failed request, or with an update missed between image and first increment, it does
  not (`FlagShowsUnmetImages`, which fails); and a refresh ends (`RefreshEnds`,
  `CopiesAreRefilled`).
* *Requests batch by batch over connections that break.* Correct: calls are not
  mixed, everything configured ends up subscribed (`CallsAreWhole`, `AllAskedFor`,
  `SubscribedInTheEnd`, `StaysSubscribed`), and the array of request documents is
  long enough (`DocsSuffice`).
* *Many threads, one list, kills.* Correct: each thread's lines stand in its order,
  once, and only unwritten ones are lost (`FilesInOrder`, `BookSpec`,
  `LinesAreWritten`).

* *A connection that goes and comes back.* Correct: attempts neither multiply nor die
  out (`OneAttempt`), the delay follows its law (`BackoffLaw`), an exchange that is
  back is reached in bounded time (`ReconnectSoon`) and again and again
  (`Reconnects`).
* *A keepalive on a stale clock, from two threads.* `m_thread_ping` reads the time,
  may refresh for minutes, then uses it; it stamps a pong whether it was sent or not;
  `on_message` sends and stamps too. Correct: an open websocket gets its pong in
  time (`PongOnTime`), and the stamp is never later than the last pong
  (`StampNotAhead`), whatever `isConnected` answers when the loop thread has just
  freed the channel it looks at.
* *A configuration nobody checks, and loop threads that run before `main` is done.*
  Correct: what races with `main` is over once the sockets are bound, and nothing
  ends the process after that (`SafeOnceStarted`); channel and parser, picked in
  different functions from fields that may be uninitialised, fit each other and the
  entry (`ForwardedAsConfigured`), and all that is asked for goes out
  (`EverythingArrives`). Three things that `src/README.md` says of an entry fail:
  `StartedAsConfigured`, `LevelsAsConfigured` and `SubscribedIsParsed`; so even
  `EntriesAreFollowed`, that one of them holds, does.

`PROJECT.json` lists these hazards with their lines. No property covers seven of
them, each with its reason there: symbols taking turns so that some are never
checked (O:669), half-open connections, the address resolved only once, files and
addresses that end the process at once (main:167, `MyZmqPublish.cpp`:78), the fixed
buffers of a log line, and the side of Binance trades (B:814).

## 2. The modules and the code

### 2.1 DepthBook

Shared by all depth modules. A level is a side and a price, a book (`Quote`) gives
each level a volume, zero for a level that is not there. `TopLevels(q, n)` are the
first `n` levels of both sides in the order of `StrCompare_Asc` and `StrCompare_Des`,
`Cut(q, n)` keeps only those: what `mf_parse_depth_full` sends, and what a REST image
or a checksum covers; `OfSide` picks one of the two maps. Prices are numbers: the
comparison by strings in the code is a comparison of numbers (`atof`), and two
spellings of one price do not occur in one feed.

### 2.2 BinanceDepth

A copy is a function from levels to `[updateid, vol]`, `Absent` where the map has no
entry. The exchange is external: `hist[s]` is the sequence of books of symbol `s`,
increment `u` is the change from `hist[s][u-1]` to `hist[s][u]`, its `pu` is `u-1`.
A connection delivers increments in order, a drop loses what was not delivered. A
REST answer is the book at some moment between request and parsing, cut to `Depth`
levels.

| action | code |
|---|---|
| `on_open`, `on_close`, `on_message_other` | B:32-116, B:77-81, B:412-458 |
| `mf_parse_depth_full` | B:561-748: the test of `pu`, the two loops over asks and bids, the message composed, all under the lock |
| `Publish` = `Withhold`, `Send` or `RefuseCrossed` | B:750-766: after the lock, reading the flag |
| `PingPoll`, `mf_clear_depthfull` | B:47-55, `MyWebSocketMarket.cpp`:135-144 |
| `RestAnswer`, `RestFail`, `cf_restparse_all_depthimage`, `RestDone` | B:119-241: one request per symbol; a failed one is skipped |
| `PingSettle` | B:56-57: `Sleep(2000)`, flag to 0 again |

`base`, `late`, `first` and `missed` are auxiliary and change no other variable. They
record what was applied to a copy since its last clear, and `mf_clear_depthfull` sets
them back (`ForgetCopies`): `base` is the update of the image, `late` the last
increment that was applied before an older image, `first` the first increment, and
`missed` says that one behind the first was lost. Three notions are told from them:

* `Mirrored(s)`: there is an image, nothing is missing between image and increments
  or among the increments, and the increments have reached the image. Whether the
  image or newer increments came first does not matter. Until the image is there, or
  while it is ahead of the increments, a copy is not mirrored; a copy that
  missed something between two increments never is until the next clear. A newer image
  may make it right again or not, since images take no level out, which is why the
  properties about the flag ask in addition whether the copy shows a wrong top
  (`WrongTop`).
* `BroughtBack(s, l)`: the one way in which a mirrored copy is wrong. An increment
  took level `l` out, an image older than it, merged after it, put `l` back (B:200-206
  take a price that is not in the map for a new one), and the exchange has not quoted
  `l` since. The code could compare the image with `c_depthfull_lastu`; it does not.
* `Faithful(s)`: mirrored, with no level brought back.

### 2.3 OkxDepth

As above, with these differences. Requests and data travel through `up` and `down`,
queues per symbol that keep their order; `ServerRequest` answers a subscribe with a
snapshot of the current book. With `FeedLoses` an update may be missing without a
drop. Snapshot and update are applied by the same loops (O:517-566). After the lock
is left, `Publish` sends or refuses, then `cf_check_depthfull` looks at the copy:
`CheckStart` takes the decision to walk (more than `CheckLevels` levels per side,
every `CheckEvery`-th message), the second step compares. If the ping thread clears
the copies in between, `torn` is set; the code walks freed nodes then, so either
verdict is possible. `cf_getCRC` is taken to give different tops of a book different
checksums.

The ping thread's refresh is five steps: `PingPoll`, `mf_unsubscribe_depth_all`,
`mf_clear_depthfull` and `mf_subscribe_depth_all` (after the sleep) and `PingReset`.
`SendAll` puts one request per symbol on its way in one step: how a call is split
into batches is the subject of `Subscription`.

### 2.4 DepthFeed

The abstract specification both depth modules implement: per symbol a draft about an
update at least as new as the last one, which is then shipped (only if two-sided and
not crossed) or dropped. A draft marked sound shows no level the exchange did not
have at that update. `BinanceDepth` maps `latest` to `c_depthfull_lastu` and `draft`
to `msg`; `OkxDepth` maps `latest` to the auxiliary `last`, and the draft ends when
the message is sent although the loop thread then goes on to check.

### 2.5 Subscription

`cf_sub_unsub_all` (O:182-318) as `Enter` (lock), `SendBatch`, `SendRest` and
`Leave`, run by the loop thread from `on_open` (depth, then trades) and by the ping
thread (unsubscribe depth, sleep, subscribe depth). `index` counts the documents of
the array `doc`; the document after a full batch is set up even when nothing is left.
`asked` is what has been asked for on the current connection, in the order of the
requests; a drop empties it. `m_ws.send` without a connection loses the request, and
nobody notices. The Binance client's `cf_sub_unsub_all` (B:247-387) is the same with
batches of 30 and numbered requests, and its ping thread never calls it:
`Resubscribes = FALSE`.

### 2.6 MyLogger and LogBook

`NewLine` builds a line outside the lock, `mf_Add_Log` puts it into the list,
`RunStart`, `mf_Get_Log`, `mf_Write_Text` and `WakeUp` are the writing thread,
`Kill` ends the process and starts it again with the same files. A file outside
`Openable` stands for a path that `ofstream` cannot open (the program does not make
the LOG directory), which nothing looks at. `LogBook` is the promise: lines are
accepted into one queue and written once each in that order. The refinement takes
the line that the writing thread holds as the head of the queue.

### 2.7 TcpClient and Keepalive

`TcpClient` is the vendored hv client as the constructor sets it up
(`MyWebSocketMarket.cpp`:29-33) and as the inline functions of its headers define it.
`Keepalive` extends it with the ping thread and gives the specification.

| action | code |
|---|---|
| `open`, `FirstAttempt` | `MyWebSocketMarket.cpp`:94, `TcpClient.h`:38-61, `EventLoopThread.h`:89-110: a failure here is never repeated |
| `on_connect`, `on_close`, `Reconnect` | `TcpClient.h`:70-132, `hloop.h`:614-634: status, delay, timer, next attempt |
| `on_open`, `Close`, `Replace`, `on_message` | the client's callbacks, B:32-43, B:77-81, B:448-452; `Replace` frees the old channel |
| `PingWake`, `RefreshEnds`, `PingTest`, `PingLook`, `PingSend`, `PingStamp` | B:47-72: the time read, the refresh, the comparison, `isConnected`, `send`, the stamp |
| `Tick` | time passes: nothing due is put off, and the ping thread moves on while it neither sleeps nor refreshes |
| `GoesDown`, `ComesUp`, `Cut` | external: the exchange and the network; `Cut` ends a connection before or after the upgrade, a refused upgrade included |

Points in time are kept as ages, which stop at `Horizon`: `m_pingpong_ts = 0` is the
age `Horizon`. At the point `look` the ping thread has loaded the channel pointer, and
`PingLook` asks that channel for its status (`isConnected`, `TcpClient.h`:143). When
`Replace` has freed the channel in between, `dangling` is set and either answer is
possible. `PingSend` is `WebSocketClient`'s `send`, which goes to `sendFrame`
(`WebSocketChannel.h`:87-100): it looks at the status of the TCP connection only, so
before the upgrade the frame goes out and is no pong. `failure` records the three ways
in which attempts stop for good: `open` finds no socket, the first attempt fails at
once inside the loop thread, the reconnect timer gets no socket. `quiet` and `waited`
are auxiliary clocks.

### 2.8 Startup

`config` is an arbitrary choice of an entry for each wsid: class, `isstart`, kind of
symbols, trade section, depth section, address. `isstart` is in the entries and in no
action, as no line of the program reads it. `main` goes through its three loops,
`init_market`, `start_websocket_market`, `start_websocket_zmq`/`Bound` (a bind takes
two steps), while the loop threads of opened markets run `on_open` (choice of the
channel, `cf_sub_unsub_all` B:263-290, O:203-230), `on_message` (choice of the
parser, B:462-474, O:382-395) and `mf_send`. `m_subinfo_depth_type` and
`m_subinfo_depth_level`, which the constructor leaves alone, hold any value until a
depth section sets them (`Garbage` for the level). An address outside `Bindable` is
one that `bind` throws for: it does not parse, or another process has it. What ends
the process is in `crash`: the exception or NULL dereference, or a bind that meets a
send on the same socket, which libzmq does not allow.

### 2.9 Which modules meet

`DepthBook` is extended by the depth modules. `BinanceDepth` and `OkxDepth`
instantiate `DepthFeed`, `MyLogger` instantiates `LogBook`, `Keepalive` extends
`TcpClient`. `MC*` modules extend one component for TLC, `*_proofs` modules extend
one component for TLAPS; `DepthFeed_proofs` and the proofs of both depth components
extend `DepthBook_proofs`, and the latter instantiate `DepthFeed_proofs` as they
instantiate `DepthFeed`. `BinanceDepth`, `OkxDepth`, `Subscription` and `Keepalive`
are views of the same two threads of a client: the depth modules keep the data and
take a call as one step per symbol, `Subscription` keeps the batches, the lock and
the drops between two batches, `Keepalive` keeps the time. In the first three a
connection comes and goes as it likes, which includes all that `TcpClient` does;
in `Keepalive` a refresh is any time up to `RefreshMax`.

## 3. Runs

`PROJECT.json` names the `MC` module and the configuration of each run; with two
workers each takes between some seconds and two minutes.

| run | states | properties | shows |
|---|---|---|---|
| `binance_refresh` | 1,626,000 | `TypeOK`, `SentIsTopOfBook`, `MirrorSound`, `EntriesOnlyAdvance`, `RefreshEnds` | images that hold the whole book, changes of volume, requests that fail: what is sent of a faithful copy is the top of the book, and no image overwrites what is newer |
| `binance_gap` | 3,264,000 | `MirrorSound`, `MirrorComplete`, `CopyShowsTop`, `FlagShowsMissingImage`, `FeedSpec`, `MissesAreNoticed` | drops, reconnects, missed increments, old images, images cut to `Depth` levels, which do no harm until levels are missing; the client implements `DepthFeed` |
| `okx_refresh` | 177,000 | `TypeOK`, `MirrorExact`, `StaysSubscribed`, `SentIsTopOfBook`, `NoFalseAlarm`, `FeedSpec`, `CopiesAreRefilled` | lost updates, books deep enough for the checksum, failed checks, drops, refreshes |
| `subscription_batches` | 11,000 | `TypeOK`, `CallsAreWhole`, `AllAskedFor`, `DocsSuffice`, `SubscribedInTheEnd` | full batches and rests of both channels, drops, refreshes |
| `connection` | 147,000 | `TypeOK`, `OneAttempt`, `BackoffLaw`, `ReconnectSoon`, `PongOnTime`, `StampNotAhead`, `Reconnects` | an exchange that goes and comes back or refuses the upgrade, no sockets, refreshes, two senders of pongs |
| `startup` | 487,000 | `TypeOK`, `ForwardedAsConfigured`, `SafeOnceStarted`, `EverythingArrives` | two entries of any kind, in order or with one of the flaws nothing checks for |
| `logger_files` | 35,000 | `TypeOK`, `FilesInOrder`, `BookSpec`, `LinesAreWritten` | two threads, three files of which one cannot be opened, a kill |

Five runs show disagreements between the code and what its comments and README say;
TLC finds each property violated. `binance_wrong_top`, `binance_failed_image`
and `startup_readme` show several in one behaviour each: their properties are
violated only when all of them meet.

| run | property | what happens |
|---|---|---|
| `binance_lost_flag` | `FlagShowsGap` | a drop and a reconnect during a refresh. After the clear increment 2 adds a bid, 3, which takes it out, is lost, and at 4 `mf_parse_depth_full` notices the gap and raises the flag. The image, at 4, does not list the bid and does not take it out; the ping thread lowers the flag (B:176, again at B:57) and waits. The copy still shows the bid. |
| `binance_failed_image` | `FlagShowsUnmetImages` | two symbols share the flag. The request of one fails (B:145-150), and its copy is built from increments alone. The image of the other is answered before the subscription takes effect: the update in between is in neither, and the first increment ever of a symbol is compared with nothing (B:584-598). The flag is lowered all the same. |
| `binance_wrong_top` | `SentIsTopInAnyOrder` | a message wrong in two ways at once, of a copy that missed nothing. The image is answered, the increment that takes an ask out is applied, then the image is merged and puts the ask back (B:200-206). The image was requested with `limit=level` (B:130): when its best bid goes, the bid that moves up was never stored, and the message shows one that came in behind it. |
| `okx_walk` | `WalkUnderLock` | the ping thread clears the maps between `LeaveCriticalSection` (O:646) and the end of the walk of `cf_check_depthfull`. |
| `startup_readme` | `EntriesAreFollowed` | an OKX entry with `isstart` 0, which `src/README.md`:66 says is not started, is opened; it asks for level 20 and sends 5 levels (`src/README.md`:53: the first `level` levels). Another, of level 1, subscribes to `bbo-tbt` (O:210), whose messages `on_message` drops (O:386). The property is the weakest form of the three statements: that no state contradicts them all. |

### 3.1 Bounds

Counters stop at the bounds named in each module, `MaxUpdate`, `MaxTouch`,
`MaxOpen`, `MaxRefresh`, `MaxDrop`, `MaxTrouble`, `MaxLine` and `MaxKill`; each is
in a guard of the action that counts: an update of the exchange, a connection that
opens or drops, a refresh, a line, a kill.

* `MaxUpdate = 4` with `MaxOpen = 2` is the least at which the Binance client
  notices a gap: the book starts as number 1, increment 2 is delivered, 3 is lost
  with the connection, 4 shows the gap. The runs about gaps use these values. An image
  that is older than an increment, or older than a subscription, needs neither a
  fourth update nor a second connection.
* `Price = {1, 2, 3, 4}` with `Depth = 1` and `MaxTouch = 2` in `binance_wrong_top`:
  the bids need three prices, one that goes, one that moves up and one behind it, and
  an ask lies ahead of them.
* `Price = {1, 2}`, `Depth = 2` and `Vol = {0, 1, 2}` in `binance_refresh`: images
  hold the whole book; of two volumes one can take the other's place, so that a late
  image that overwrote a newer volume would show. With `MaxTouch = 2` a level can go
  while another comes in one increment, and two prices are enough for crossed copies.
* `Price = {1, 2, 3}` with `Depth = 1` in `binance_gap`: of two levels of a side the
  image has one; a third may come ahead of it and outlive it while the one cut off is
  still missing. Without the condition `Undiminished`, `CopyShowsTop` fails there.
  `Vol = {0, 1}` is enough to tell presence from absence, which is what gaps, cuts and
  old images are about.
* The OKX checksum needs more than `CheckLevels` levels on each side, so two on each
  with `CheckLevels = 1`, hence four prices. `CheckEvery = 1` checks every message.
* Symbols meet only in the flag, the ping thread and the connection. Runs with one
  symbol keep the state space small, `binance_failed_image` has two, the proofs hold
  for any set of symbols.
* `Batch = 2` with five depth and three trade instruments gives two full batches and
  a rest, and one and a rest; `Docs = 3` is the least the assumption below allows.
* `connection` counts in units of two seconds, the sleep of the ping thread: delays of
  1 to 5 units double twice before they meet their limit, an attempt times out after
  5, a pong is due after 5, a refresh lasts up to 3. The 120 s of `on_message` are
  scaled down to 10 units, less than `LongestQuiet`: with the true value the two
  senders would only meet after a refresh of two minutes. `Horizon` is one more than
  `LongestQuiet`, so no age below the bounds is cut. `RetryMax = 5` is one more
  failure than the delays need to meet their limit; the counter itself is only logged
  and stops there, the delays go on.
* `startup` has two markets; entries interact only through an address they share,
  the first flaw that ends the process, and the order of the three loops, which two
  show. `MCEntry` has every kind of depth section with and without trades for both
  classes, and each flaw: an address that cannot be bound, an unknown class, a symbol
  that does not end in `-USDT`, a type that is not known; and an entry with `isstart`
  0. Levels are 1, one that OKX offers, and one it does not; `Garbage` has 0 and 5.

Deadlock is checked in every run but those of `Startup`, whose process may end.

### 3.2 Fairness

* `BinanceDepth`: weak fairness of the ping thread. It takes no lock that is held
  for long, its sleeps end and each REST request times out after ten seconds
  (B:142).
* `OkxDepth`: also of the exchange answering requests and of the loop thread
  handling what has arrived: hv's loop runs as long as the process.
* `MyLogger`: of the writing thread, and of a thread that has built a line.
* `Subscription`: of the steps of both threads; every sleep ends and
  `cf_sub_unsub_all` leaves its critical section on every path.
* `Keepalive`: of the threads, of time, of an exchange that is reachable accepting the
  connection, and of `Close`: a connection whose peer is gone is noticed, since the
  client writes to it every few seconds. The websocket's opening is strongly fair,
  since an exchange may refuse an upgrade but does not refuse every one for ever.
  `Reconnects` supposes an exchange that stays reachable from some time on, and
  sockets.
* `Startup`: weak fairness of `main`, `on_open` and `mf_send`; strong fairness of the
  messages of each kind of channel, because `mf_send` makes the loop thread busy in
  between: an exchange keeps sending on all channels.

In the other modules nothing is fair about the network: no connection has to come up
or last, and the exchange need not make another update. `CopiesAreRefilled` and
`SubscribedInTheEnd` are conditional on connections that last.

## 4. Proofs

All theorems hold for every set of symbols, prices, volumes, threads, files,
instruments and markets, all delays and periods and every bound, under the `ASSUME`s
of the modules.

* `DepthBook_proofs`, for any finite set of prices. `TopLevels` takes the levels that
  fewer than `n` are ahead of; the code counts while it walks a sorted map.
  `CutLeavesTheFirst` shows that both take the same number of levels, `n` a side or
  all there are: the levels of a side are numbered without gaps by how many are ahead
  of them (`RanksNumberASide`). `CutOfACut`: the first `n` levels of an image of `m`
  are those of the book, for `n` up to `m`.
* `DepthFeed_proofs`, of the abstract feed. `MessagesAreUsable`: what is sent is
  two-sided and uncrossed, has at most `Depth` levels a side, is about an update the
  exchange made, and if sound shows nothing the exchange did not have at it.
  `MessagesNeverGoBack`: a message carries the number kept for its symbol, and those
  numbers only grow.
* `BinanceDepth_proofs`. `TypeCorrect` rests on `TypeInv` = `TypeOK` and `ImageKnown`
  (the image in flight is one the exchange had). `MirroredCopiesAreSound` and
  `MirroredCopiesAreComplete` need `MirrorInv` = `TypeInv`, `Numbers` (how
  `c_depthfull_lastu`, `feed`, the length of `hist` and the auxiliaries are ordered),
  `WaitingImage` (an image about to be merged is no older than a copy that got no
  increment since the clear), `ToFetch` (a symbol the loop has not fetched yet has no
  image since the clear) and `Copies`, the heart. It holds of every copy into which
  nothing was missed so far, with or without an image (`Known`), since an image may
  still come to any of them and before or after increments. `Reflects`: an entry has
  the exchange's volume at the last increment and has had it since its label, or it is
  the image's and the increments are not there yet, or it was brought back. `Shown` is
  about what is not in the copy: without an image, levels that no increment named;
  with one, only what the exchange does not have or what was cut off and has not
  changed since. Neither theorem asks which of image and increments came first;
  completeness has no exception for it, soundness has the one the code makes,
  `BroughtBack`: the asks in `binance_wrong_top`. `LevelsOnlyAdvance` is an action
  property from `TypeInv`, `MissedIncrementsRaiseTheFlag` one from `Numbers`: what was
  applied since the clear has left its number in `c_depthfull_lastu`. `SentIsTheTop`
  (`SentInv`), of messages made of a faithful copy, assumes that all prices fit into
  an image, which makes a faithful copy the book and its top the book's; without that
  it does not hold, as the bids in `binance_wrong_top` show. `CutImagesSuffice` is its
  counterpart for any `Depth`: what a cut image left out comes behind everything the
  image had, so the first `Depth` levels of the copy are the exchange's as long as
  `Depth` of its levels are in the image's range; it joins `MirrorSound` and
  `MirrorComplete` with `DepthBook_proofs`. `MissingImagesAreFlagged` (`FlagInv`)
  assumes `RestFails = FALSE`, and follows which symbols the loop over the images has
  left while the flag is up. `RefreshesAreBounded` is the part of `RefreshEnds` that
  is not about fairness: every step of the ping thread during a refresh lowers
  `StepsLeft`, no other thread raises it, and it starts at two per symbol and three
  more. `ImplementsFeed`: each step of `BinanceDepth` is a step of `DepthFeed` or
  leaves its variables alone; the step that drafts needs `MirrorInv` for soundness.
  Through it `MessagesAreUsable` and `MessagesNeverGoBack` hold of the client's
  messages.
* `OkxDepth_proofs`. `TypeCorrect` from `TypeInv` = `TypeOK` and `FeedOrdered` (what
  is under way is ordered and not newer than the book). `CopiesAreExact` from
  `OkxInv`, which adds `Exact` (a cleared copy is empty, an imaged one is the book
  at the last update applied), `NeverCrossed` (of the exchange's books) and `Held`:
  a sound message in hand is the top of the exchange's book, and the copy it was
  made of is that book or has been emptied, and is that book while it is walked
  untorn. `SentIsTheTop`, `AlarmsAreTrue` and `RefreshesKeepSubscriptions` follow
  with it, and `ImplementsFeed`, `MessagesAreUsable` and `MessagesNeverGoBack` as for
  the other client: the number a message carries grows although this client reads
  none, because `FeedOrdered` holds over drops and new subscriptions.
* `MyLogger_proofs`. `TypeCorrect`; `ImplementsBook`, the refinement of `LogBook`;
  `LinesStayInOrder`, from `LineInv`: for every thread, what is in the files comes
  before what waits in the list, which comes before the line being added.
* `Subscription_proofs`. `TypeCorrect` includes mutual exclusion: a thread is in a
  call exactly if it holds `m_cs_subscribe`. `CallsTakeEffect` and
  `DocumentsSuffice` from `CallInv`, with `DocInv`: documents used times `Batch`
  plus what is left is at most the number of instruments. `EverythingIsAskedFor`
  adds `AskedInv`, which follows what is asked for through each point of both
  threads, over drops. All hold for both clients (`Resubscribes`, `Batch`).
* `Keepalive_proofs`. One invariant, `KeepInv`: `TypeOK`; `Phases`, which ties the
  loop thread, channel, timers and failure together and contains `OneAttempt`;
  `Waits`, the clock of a waiting exchange in each phase of an attempt
  (`ReconnectsSoon`: at worst it comes back when an attempt to the silent address
  has just begun); and `Pongs`, which relates `quiet`, `tsAge` and `nowAge` at each
  point of the ping thread. `PongOnTime` alone is not inductive: the bound adds up
  over a stamp that is a refresh old and a test that comes a refresh later.
  `DelaysFollowTheLaw` gives the exact delay after any number of failures, at the
  limit too: `LawDoubles` shows that one more failure is one more step of the law, and
  needs facts about the function `Pow2`. The module proves the induction
  on numbers that they rest on for sets of numbers and for functions, from the
  library's theorem that `<` is well-founded on `Nat`.
* `Startup_proofs`. `StartInv`: `TypeOK`; `MainFirst`, how far the threads may be for
  where `main` is, which includes that no socket is being bound once `main` sleeps;
  and `FromTheEntry`, which follows channels, messages in hand and messages out back to
  the fields of the market. `StartedProcessesRunOn` needs `MainFirst`: a message can
  end the process only while its socket is being bound. `ForwardsAsConfigured` needs
  `FromTheEntry`, since channel and parser are chosen in different steps, and holds for
  whatever the uninitialised fields contain.

### 4.1 Assumptions

On the exchanges: a book is never crossed; increments are numbered consecutively and
each names its predecessor; a REST answer and a snapshot are the current book;
requests on a connection are processed in order; a second subscribe is answered with a
snapshot when `DupSnapshot` (only liveness depends on it); an OKX book has at most as
many levels as a snapshot. On the configuration: `DocsAssumption`, fewer than `Docs *
Batch` (5000) instruments per channel; nothing in the code checks it, and one more
would write behind the array `doc`. On the vendored client: `BackoffAssumption`, the
delay has reached its limit before `RetryMax`, where the model stops counting
attempts; with 1 s and 10 s it has after four doublings, and the counter itself is
only logged. The theorems about how many levels a cut leaves and what rests on them
(`MessagesAreUsable`, `CutImagesSuffice`) say that the set of prices is finite,
`RefreshesAreBounded` that the set of symbols is; a configuration and a 64-bit price
leave no other case.

### 4.2 What is only model-checked

Liveness (`RefreshEnds`, `CopiesAreRefilled`, `LinesAreWritten`,
`SubscribedInTheEnd`, `Reconnects`, `EverythingArrives`), which needs fairness and
`ENABLED`, beyond these provers; `RefreshesAreBounded` gives the bound for the first.
And the violations: what the code does not do.

## 5. Not modelled

* JSON parsing and formatting, the names of instruments and their conversion,
  timestamps: no property is about them.
* Trades and limited depth beyond the choice of channel and parser: a message in, a
  message out, no state. Only the first element of a trade message is looked at.
* `cf_getCRC` and `gf_split3`. The first is a CRC32 by table in 32-bit arithmetic,
  beyond TLC's integers, and a pure function; `OkxDepth` takes it to tell different
  tops of a book apart. The second has no caller.
* Memory: that a walk over a cleared map is undefined behaviour shows as `torn` and
  an arbitrary verdict, not as a crash.
* `MyZmqPublish`: sending is the variable `sent` of the depth modules, `forwarded` of
  `Startup`. What libzmq does for slow or late subscribers is its own matter; the
  list, the lock and the writing loop of the class are called by nobody.
* hv beyond the inline functions of its headers: the event loop, the HTTP upgrade and
  DNS are compiled into the library. Connections that are half open without the
  operating system noticing are not modelled.
* The length of texts: `mf_Add_Log` copies the message and the path of a line into
  arrays of fixed size (`src/tools/MyStruct.h`:69-70), and lines are only model
  values here.
* What is under `src/include/` (json.hpp, rapidjson, openssl, zmq.hpp and most of hv):
  about 98% of the repository's lines, third-party, and used here as documented. Of
  it only the reconnecting client is modelled, since the repository's own behaviour
  depends on how it fails.
* Data races on plain `int`s: each read and write is one step, which is what the
  supported compiler and processor make of an aligned `int`.

## 6. Plan

Done: every component with state of its own is modelled, and every invariant, action
property and refinement that a run finds to hold is proved. What could follow:

1. A half-open connection as a peer that is neither alive nor noticed, with hv's
   `setPingInterval`, should the clients ever call it.
2. `Startup` composed with `TcpClient`: what a market that gave up its connection
   means for `EverythingArrives`.
3. The clear of the OKX copies against the counter `m_recvcount_depth` with several
   symbols, once it is known how messages of symbols alternate.
4. `cf_getCRC` on words of a few bits against division of polynomials.
