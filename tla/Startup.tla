------------------------------ MODULE Startup ------------------------------
(***************************************************************************)
(* From the configuration to the first messages on the ZMQ sockets:        *)
(* main() reads the configuration, makes a market and a publisher of every *)
(* entry of WSMarketConfig, opens all markets and then binds all sockets,  *)
(* one after the other.  The loop threads of the opened markets run        *)
(* meanwhile: on_open picks the channels to subscribe to, on_message picks *)
(* the parser for a message, and the parser sends.  What the full-depth    *)
(* parsers do with the books is the matter of BinanceDepth and OkxDepth.   *)
(*                                                                         *)
(* The configuration is arbitrary and nothing in it is checked.  The first *)
(* thing that goes wrong ends the whole process.  A socket that one thread *)
(* binds while another sends on it is undefined behaviour: it may crash.   *)
(***************************************************************************)
EXTENDS Integers

CONSTANTS
  Market,   \* the wsids
  Entry,    \* the entries a wsid may have in the configuration
  Bindable, \* external: the addresses that can be bound
  Garbage,  \* the numbers that uninitialised memory may hold
  None

VARIABLES
  config,                  \* what the file says of each wsid
  loaded,                  \* whether load_config read it (its result is ignored)
  main,                    \* where main() is
  todo,                    \* the markets its present loop has left
  m_subinfo_depth_type,    \* uninitialised until a depth section sets it
  m_subinfo_depth_level,   \* the same
  thread,                  \* the loop thread of a market
  channels,                \* what it subscribed to
  sending,                 \* what it is sending on its socket
  binding,                 \* the socket main is binding
  bound,                   \* the sockets bound
  forwarded,               \* what went out on a bound socket
  crash                    \* what ended the process

given   == <<config, loaded>>
depth   == <<m_subinfo_depth_type, m_subinfo_depth_level>>
threads == <<thread, channels, sending>>
sockets == <<binding, bound, forwarded>>
vars    == <<given, main, todo, depth, threads, sockets, crash>>

WsClass == {"binance-f", "okx-f", "unknown"}
Level   == Nat      \* 0 as the levels of a channel: the whole book
Trades  == [name |-> "trades", levels |-> 0]

\* An entry: isstart, which nobody reads; whether its symbols end in -USDT; whether
\* it has a trade section; its depth section (type "none": it has none); its address.
ASSUME EntryAssumption ==
  Entry \subseteq [wsclass : WsClass, isstart : BOOLEAN, usdt : BOOLEAN,
                   trade : BOOLEAN, type : {"none", "limit", "full", "other"},
                   level : Level, zmqstr : STRING]

ASSUME GarbageAssumption == Garbage \subseteq Level
ASSUME NoneAssumption == None \notin Market

Init ==
  /\ config \in [Market -> Entry]
  /\ loaded \in BOOLEAN
  /\ main = "init"
  /\ todo = Market
  /\ m_subinfo_depth_type = [m \in Market |-> 0]
  /\ m_subinfo_depth_level = [m \in Market |-> 0]
  /\ thread = [m \in Market |-> "off"]
  /\ channels = [m \in Market |-> {}]
  /\ sending = [m \in Market |-> None]
  /\ binding = None
  /\ bound = {}
  /\ forwarded = [m \in Market |-> {}]
  /\ crash = "none"

----------------------------------------------------------------------------
(* main().                                                                 *)

Fails(cause) ==
  /\ crash' = cause
  /\ UNCHANGED <<given, main, todo, depth, threads, sockets>>

\* main goes through its loops: over the entries, the markets, the publishers.
Done(m, next) ==
  /\ todo' = IF todo = {m} THEN Market ELSE todo \ {m}
  /\ main' = IF todo = {m} THEN next ELSE main

\* Slip of DepthTypes: a type that is not known is taken for a level.
DepthTypesLevel(m) ==
  CASE config[m].type = "limit" -> {1}
    [] config[m].type = "full"  -> {2}
    [] OTHER                    -> {config[m].level}

\* What m_subinfo_depth_type holds: without a type that is known, whatever was in
\* memory (0 stands for all values but 1 and 2).
DepthTypes(m) ==
  CASE config[m].type = "limit" -> {1}
    [] config[m].type = "full"  -> {2}
    [] OTHER                    -> {0, 1, 2}

\* What m_subinfo_depth_level holds.
DepthLevels(m) == IF config[m].type = "none" THEN Garbage ELSE {config[m].level}

\* For an unknown class create_websocket_market makes no market but NULL.
NoMarket(m) == config[m].wsclass = "unknown"

\* One entry.  Its depth and trade sections are written to the market.
init_market(m) ==
  /\ main = "init" /\ crash = "none"
  /\ m \in todo
  /\ IF ~loaded THEN Fails("config")
     ELSE IF NoMarket(m) /\ (config[m].type # "none" \/ config[m].trade)
     THEN Fails("null")
     ELSE /\ \E t \in DepthTypes(m) :
               m_subinfo_depth_type' = [m_subinfo_depth_type EXCEPT ![m] = t]
          /\ \E n \in DepthLevels(m) :
               m_subinfo_depth_level' = [m_subinfo_depth_level EXCEPT ![m] = n]
          /\ Done(m, "open")
          /\ UNCHANGED <<given, threads, sockets, crash>>

start_websocket_market(m) ==
  /\ main = "open" /\ crash = "none"
  /\ m \in todo
  /\ IF NoMarket(m) THEN Fails("null")
     ELSE /\ thread' = [thread EXCEPT ![m] = "opening"]
          /\ Done(m, "bind")
          /\ UNCHANGED <<given, depth, channels, sending, sockets, crash>>

\* bind throws for an address that cannot be bound (it does not parse, another
\* process has it) or that an earlier entry has taken.
CannotBind(m) ==
  \/ config[m].zmqstr \notin Bindable
  \/ \E n \in bound : config[n].zmqstr = config[m].zmqstr

\* Slip of start_websocket_zmq: main does not wait for the socket to be bound.
start_websocket_zmq_async(m) ==
  /\ main = "bind" /\ crash = "none"
  /\ m \in todo /\ binding = None
  /\ ~CannotBind(m)
  /\ binding' = m
  /\ Done(m, "sleep")
  /\ UNCHANGED <<given, depth, threads, bound, forwarded, crash>>

\* mf_Connect starts to bind.
start_websocket_zmq(m) ==
  /\ main = "bind" /\ crash = "none"
  /\ m \in todo /\ binding = None
  /\ \/ CannotBind(m) /\ Fails("bind")
     \/ sending[m] # None /\ Fails("race")
     \/ /\ ~CannotBind(m)
        /\ binding' = m
        /\ UNCHANGED <<given, main, todo, depth, threads, bound, forwarded, crash>>

Bound(m) ==
  /\ binding = m /\ m # None /\ crash = "none"
  /\ binding' = None
  /\ bound' = bound \cup {m}
  /\ Done(m, "sleep")
  /\ UNCHANGED <<given, depth, threads, forwarded, crash>>

----------------------------------------------------------------------------
(* The loop thread of a market.                                            *)

\* Slip of DepthChannel: limited OKX depth is taken from the channel books.
DepthChannelBooks(m) ==
  LET level == m_subinfo_depth_level[m] IN
  IF config[m].wsclass = "binance-f"
  THEN [name   |-> "depth",
        levels |-> IF m_subinfo_depth_type[m] = 2 THEN 0
                   ELSE IF level \in {5, 10, 20} THEN level ELSE 20]
  ELSE [name |-> "books", levels |-> 0]

\* The channel of cf_sub_unsub_all for depth.
DepthChannel(m) ==
  LET full == m_subinfo_depth_type[m] = 2
      level == m_subinfo_depth_level[m]
  IN
  IF config[m].wsclass = "binance-f"
  THEN [name   |-> "depth",
        levels |-> IF full THEN 0 ELSE IF level \in {5, 10, 20} THEN level ELSE 20]
  ELSE IF ~full /\ level = 1 THEN [name |-> "bbo-tbt", levels |-> 1]
  ELSE [name |-> "books", levels |-> IF full THEN 0 ELSE 5]

\* What the market subscribes to.  Without a depth section there are no symbols
\* to subscribe to, whatever m_subinfo_depth_type holds.
Channels(m) ==
  (IF config[m].type # "none" /\ m_subinfo_depth_type[m] \in {1, 2}
   THEN {DepthChannel(m)} ELSE {})
  \cup (IF config[m].trade THEN {Trades} ELSE {})

\* Slip of BadName: the test is made for both exchanges.
BadNameAnywhere(m) == ~config[m].usdt

\* mf_stdinstid2cnlinstid of the Binance client replaces "-USDT" at npos: on a
\* subscription, or else at the image requests of the ping thread on_open starts.
BadName(m) ==
  /\ config[m].wsclass = "binance-f" /\ ~config[m].usdt
  /\ config[m].type # "none" \/ config[m].trade

on_open(m) ==
  /\ thread[m] = "opening" /\ crash = "none"
  /\ IF BadName(m) THEN Fails("name")
     ELSE /\ thread' = [thread EXCEPT ![m] = "open"]
          /\ channels' = [channels EXCEPT ![m] = Channels(m)]
          /\ UNCHANGED <<given, main, todo, depth, sending, sockets, crash>>

\* mf_parse_depth.
DepthParser(m) ==
  CASE m_subinfo_depth_type[m] = 1 -> "limit"
    [] m_subinfo_depth_type[m] = 2 -> "full"
    [] OTHER                       -> "none"

\* Slip of Parser: channel = "books" instead of strstr(channel, "books").
ParserExact(m, ch) ==
  CASE ch.name = "trades"                            -> "trade"
    [] ch.name = "bbo-tbt" \/ (ch.name = "books" /\ ch.levels = 5) -> "none"
    [] OTHER -> DepthParser(m)

\* on_message: which parser a message gets.
Parser(m, ch) ==
  CASE ch.name = "trades"  -> "trade"
    [] ch.name = "bbo-tbt" -> "none"
    [] OTHER -> DepthParser(m)

\* What the parser makes of it: only the full-depth parsers cut the book.
Output(m, ch) ==
  [parser  |-> Parser(m, ch),
   channel |-> ch,
   levels  |-> IF Parser(m, ch) = "full" THEN m_subinfo_depth_level[m] ELSE ch.levels]

\* A message is parsed, and mf_send begins.
on_message(m, ch) ==
  /\ thread[m] = "open" /\ crash = "none"
  /\ ch \in channels[m]
  /\ sending[m] = None
  /\ Parser(m, ch) # "none"
  /\ \/ binding = m /\ Fails("race")
     \/ /\ sending' = [sending EXCEPT ![m] = Output(m, ch)]
        /\ UNCHANGED <<given, main, todo, depth, thread, channels, sockets, crash>>

\* mf_send ends.  Before the socket is bound nobody receives.
mf_send(m) ==
  /\ sending[m] # None /\ crash = "none"
  /\ sending' = [sending EXCEPT ![m] = None]
  /\ forwarded' = [forwarded EXCEPT ![m] =
                     IF m \in bound THEN @ \cup {sending[m]} ELSE @]
  /\ UNCHANGED <<given, main, todo, depth, thread, channels,
                 binding, bound, crash>>

----------------------------------------------------------------------------
MainThread ==
  \E m \in Market :
    init_market(m) \/ start_websocket_market(m) \/ start_websocket_zmq(m) \/ Bound(m)

Message(m) == \E ch \in channels[m] : on_message(m, ch)

LoopThread(m) == on_open(m) \/ Message(m) \/ mf_send(m)

Next == MainThread \/ \E m \in Market : LoopThread(m)

Spec == Init /\ [][Next]_vars

\* main goes on; a market opens; messages come on every channel.
FairSpec ==
  /\ Spec
  /\ WF_vars(MainThread)
  /\ \A m \in Market :
       /\ WF_vars(on_open(m))
       /\ WF_vars(mf_send(m))
       /\ SF_vars(\E ch \in channels[m] : ch = Trades /\ on_message(m, ch))
       /\ SF_vars(\E ch \in channels[m] : ch # Trades /\ on_message(m, ch))

----------------------------------------------------------------------------
(* Properties.                                                             *)

Channel == [name : {"depth", "books", "bbo-tbt", "trades"}, levels : Level]
Sent    == [parser : {"limit", "full", "trade"}, channel : Channel, levels : Level]

TypeOK ==
  /\ config \in [Market -> Entry]
  /\ loaded \in BOOLEAN
  /\ main \in {"init", "open", "bind", "sleep"}
  /\ todo \subseteq Market
  /\ m_subinfo_depth_type \in [Market -> {0, 1, 2}]
  /\ m_subinfo_depth_level \in [Market -> Level]
  /\ thread \in [Market -> {"off", "opening", "open"}]
  /\ channels \in [Market -> SUBSET Channel]
  /\ sending \in [Market -> Sent \cup {None}]
  /\ binding \in Market \cup {None}
  /\ bound \subseteq Market
  /\ forwarded \in [Market -> SUBSET Sent]
  /\ crash \in {"none", "config", "null", "bind", "name", "race"}

\* The markets are opened, and send, before their sockets are bound; but a process
\* that has bound them all and opened all its markets runs on, whatever the
\* configuration and whatever the loop threads do.
SafeOnceStarted ==
  [][main = "sleep" /\ (\A m \in Market : thread[m] = "open") => UNCHANGED crash]_vars

\* What goes out of a market was made by the parser its entry asks for, from the
\* channel that parser is for (full: the whole book, cut to the levels of the
\* entry; limit: a channel of some levels), although the channel is chosen in
\* cf_sub_unsub_all and the parser in on_message, and both from fields that stay
\* uninitialised without a depth section.
ForwardedAsConfigured ==
  \A m \in Market : \A f \in forwarded[m] :
    IF f.parser = "trade" THEN config[m].trade /\ f.channel = Trades
    ELSE /\ config[m].type # "none"
         /\ config[m].type \in {"limit", "full"} => f.parser = config[m].type
         /\ f.parser = "full" <=> f.channel.levels = 0
         /\ f.parser = "full" => f.levels = config[m].level

\* README.md: level means that the first that many levels are sent.  An exchange
\* has channels of a few numbers of levels only, and limited depth of any other
\* number is replaced by one of them.
LevelsAsConfigured ==
  \A m \in Market : \A f \in forwarded[m] :
    f.parser = config[m].type => f.levels = config[m].level

\* README.md: isstart 1 means start the entry, 0 do not start it.
StartedAsConfigured == \A m \in Market : ~config[m].isstart => thread[m] = "off"

\* README.md: depth is what to subscribe to, and what is sent.  What a market
\* subscribes to has a parser.
SubscribedIsParsed ==
  \A m \in Market : \A ch \in channels[m] : Parser(m, ch) # "none"

\* What README.md says of isstart, level and depth, in its weakest form: whatever
\* the program does, it does not contradict all three.
EntriesAreFollowed == StartedAsConfigured \/ LevelsAsConfigured \/ SubscribedIsParsed

\* The configuration is in order.  Depth of one level is excluded for OKX: its
\* messages are dropped.
InOrder ==
  /\ loaded
  /\ \A m \in Market :
       /\ ~NoMarket(m) /\ config[m].usdt /\ config[m].zmqstr \in Bindable
       /\ config[m].type # "other"
       /\ ~(config[m].wsclass = "okx-f" /\ config[m].type = "limit" /\ config[m].level = 1)
       /\ \A n \in Market \ {m} : config[n].zmqstr # config[m].zmqstr

Expected(m) ==
  (IF config[m].type = "none" THEN {} ELSE {config[m].type})
  \cup (IF config[m].trade THEN {"trade"} ELSE {})

\* With a configuration in order everything that it asks for goes out in the end,
\* unless a message meets the binding of its socket.
EverythingArrives ==
  InOrder ~> \/ crash = "race"
             \/ \A m \in Market : Expected(m) \subseteq {f.parser : f \in forwarded[m]}
============================================================================
