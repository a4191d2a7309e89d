---------------------------- MODULE Startup_proofs ----------------------------
(***************************************************************************)
(* Proofs about Startup, for every set of markets and every configuration: *)
(* types, that a process which has started runs on, and that what a market *)
(* sends is what its entry asks for.                                       *)
(*                                                                         *)
(* The invariant follows what is sent back to the entry: the messages come *)
(* from channels, the channels from m_subinfo_depth_type and _level, and   *)
(* those from the entry, once main has passed it.                          *)
(***************************************************************************)
EXTENDS Startup, TLAPS

\* What may go out of a market.
Outputs(m) == {Output(m, ch) : ch \in {c \in Channels(m) : Parser(m, c) # "none"}}

\* main has read the entry of m.
Read(m) == main = "init" => m \notin todo

\* Where main is when a loop thread runs, and while a socket is being bound.
MainFirst ==
  /\ \A m \in Market : Read(m) => /\ m_subinfo_depth_type[m] \in DepthTypes(m)
                                   /\ m_subinfo_depth_level[m] \in DepthLevels(m)
  /\ \A m \in Market : thread[m] # "off" => main # "init"
  /\ main = "open" => \A m \in todo : thread[m] = "off"
  /\ binding # None => main = "bind"

\* Where what a market sends comes from.
FromTheEntry ==
  \A m \in Market :
    /\ thread[m] # "open" => channels[m] = {}
    /\ channels[m] # {} \/ sending[m] # None \/ forwarded[m] # {} => main # "init"
    /\ channels[m] \subseteq Channels(m)
    /\ sending[m] # None => sending[m] \in Outputs(m)
    /\ forwarded[m] \subseteq Outputs(m)

StartInv == TypeOK /\ MainFirst /\ FromTheEntry

USE EntryAssumption, GarbageAssumption, NoneAssumption

----------------------------------------------------------------------------
(* What the entry makes of channels and messages.                          *)

LEMMA EntryFields ==
  ASSUME config \in [Market -> Entry], NEW m \in Market
  PROVE  /\ config[m].wsclass \in WsClass
         /\ config[m].type \in {"none", "limit", "full", "other"}
         /\ config[m].level \in Nat
BY DEF Level

LEMMA ChannelsType ==
  ASSUME TypeOK, NEW m \in Market
  PROVE  Channels(m) \subseteq Channel
<1>1. m_subinfo_depth_level[m] \in Nat
  BY DEF TypeOK, Level
<1>2. DepthChannel(m) \in Channel
  BY <1>1 DEF DepthChannel, Channel, Level
<1>3. Trades \in Channel
  BY DEF Trades, Channel, Level
<1> QED BY <1>2, <1>3 DEF Channels

LEMMA OutputsType ==
  ASSUME TypeOK, NEW m \in Market
  PROVE  Outputs(m) \subseteq Sent
<1> SUFFICES ASSUME NEW ch \in Channels(m), Parser(m, ch) # "none"
             PROVE  Output(m, ch) \in Sent
  BY DEF Outputs
<1>1. m_subinfo_depth_level[m] \in Nat
  BY DEF TypeOK, Level
<1>2. ch \in Channel /\ ch.levels \in Nat
  BY ChannelsType DEF Channel, Level
<1>3. Parser(m, ch) \in {"limit", "full", "trade"}
  BY DEF Parser, DepthParser
<1> QED BY <1>1, <1>2, <1>3 DEF Output, Sent, Level

\* Whatever the configuration and the channel, the parser gets what fits.
LEMMA OutputsAreConfigured ==
  ASSUME TypeOK, NEW m \in Market, m_subinfo_depth_type[m] \in DepthTypes(m),
         m_subinfo_depth_level[m] \in DepthLevels(m),
         NEW f \in Outputs(m)
  PROVE  IF f.parser = "trade" THEN config[m].trade /\ f.channel = Trades
         ELSE /\ config[m].type # "none"
              /\ config[m].type \in {"limit", "full"} => f.parser = config[m].type
              /\ f.parser = "full" <=> f.channel.levels = 0
              /\ f.parser = "full" => f.levels = config[m].level
<1>1. PICK ch \in Channels(m) : Parser(m, ch) # "none" /\ f = Output(m, ch)
  BY DEF Outputs
<1>2. f.parser = Parser(m, ch) /\ f.channel = ch
  BY <1>1 DEF Output
<1>3. CASE ch = Trades /\ config[m].trade
  <2>1. f.parser = "trade"
    BY <1>2, <1>3 DEF Parser, Trades
  <2> QED BY <2>1, <1>2, <1>3, Zenon
<1>4. CASE /\ config[m].type # "none"
           /\ m_subinfo_depth_type[m] \in {1, 2}
           /\ ch = DepthChannel(m)
  <2>1. f.parser # "trade"
    BY <1>2, <1>4 DEF Parser, DepthParser, DepthChannel
  <2>2. f.parser = IF m_subinfo_depth_type[m] = 1 THEN "limit" ELSE "full"
    BY <1>1, <1>2, <1>4 DEF Parser, DepthParser, DepthChannel
  <2>3. ASSUME config[m].type \in {"limit", "full"}
        PROVE  f.parser = config[m].type
    <3>1. m_subinfo_depth_type[m] = IF config[m].type = "limit" THEN 1 ELSE 2
      BY <2>3 DEF DepthTypes
    <3> QED BY <2>2, <2>3, <3>1
  <2>4. f.channel.levels = 0 <=> m_subinfo_depth_type[m] = 2
    BY <1>2, <1>4 DEF DepthChannel
  <2>5. f.parser = "full" <=> f.channel.levels = 0
    BY <1>4, <2>2, <2>4
  <2>6. ASSUME f.parser = "full" PROVE f.levels = config[m].level
    <3>1. m_subinfo_depth_level[m] = config[m].level
      BY <1>4 DEF DepthLevels
    <3> QED BY <1>1, <1>2, <2>6, <3>1 DEF Output
  <2> QED BY <1>4, <2>1, <2>3, <2>5, <2>6
<1>5. ch \in (IF config[m].type # "none" /\ m_subinfo_depth_type[m] \in {1, 2}
              THEN {DepthChannel(m)} ELSE {})
      \/ ch \in (IF config[m].trade THEN {Trades} ELSE {})
  BY <1>1 DEF Channels
<1> QED BY <1>3, <1>4, <1>5

----------------------------------------------------------------------------
(* The steps.                                                              *)

LEMMA StartInit == Init => StartInv
<1> SUFFICES ASSUME Init PROVE StartInv
  OBVIOUS
<1>1. TypeOK
  BY DEF Init, TypeOK, Level
<1>2. MainFirst
  BY DEF Init, MainFirst, Read
<1>3. FromTheEntry
  BY DEF Init, FromTheEntry
<1> QED BY <1>1, <1>2, <1>3 DEF StartInv

\* A step that leaves the configuration, the types and main's loops alone leaves the
\* derived operators alone.
LEMMA SameEntry ==
  ASSUME UNCHANGED <<config, depth>>, NEW m \in Market
  PROVE  /\ Channels(m)' = Channels(m)
         /\ Outputs(m)' = Outputs(m)
         /\ DepthTypes(m)' = DepthTypes(m)
         /\ DepthLevels(m)' = DepthLevels(m)
<1> USE DEF depth
<1>1. Channels(m)' = Channels(m)
  BY DEF Channels, DepthChannel
<1>2. \A c : Parser(m, c)' = Parser(m, c) /\ Output(m, c)' = Output(m, c)
  BY DEF Parser, DepthParser, Output
<1>3. Outputs(m)' = Outputs(m)
  BY <1>1, <1>2 DEF Outputs
<1> QED BY <1>1, <1>3 DEF DepthTypes, DepthLevels

\* When the process ends, nothing else changes.
LEMMA Crashes ==
  ASSUME StartInv, NEW cause \in {"config", "null", "bind", "name", "race"},
         Fails(cause)
  PROVE  StartInv'
<1> USE DEF StartInv, Fails, given, depth, threads, sockets
<1>1. TypeOK'
  BY DEF TypeOK
<1>2. MainFirst'
  BY DEF MainFirst, Read, DepthTypes, DepthLevels
<1>3. FromTheEntry'
  BY SameEntry DEF FromTheEntry
<1> QED BY <1>1, <1>2, <1>3

LEMMA InitStep == ASSUME StartInv, NEW m \in Market, init_market(m) PROVE StartInv'
<1> USE DEF StartInv, init_market
<1>1. CASE ~loaded /\ Fails("config")
  BY <1>1, Crashes
<1>2. CASE NoMarket(m) /\ Fails("null")
  BY <1>2, Crashes
<1>3. CASE /\ \E t \in DepthTypes(m) :
                m_subinfo_depth_type' = [m_subinfo_depth_type EXCEPT ![m] = t]
           /\ \E k \in DepthLevels(m) :
                m_subinfo_depth_level' = [m_subinfo_depth_level EXCEPT ![m] = k]
           /\ Done(m, "open")
           /\ UNCHANGED <<given, threads, sockets, crash>>
  <2> USE <1>3 DEF given, threads, sockets
  <2>1. PICK t \in DepthTypes(m) :
          m_subinfo_depth_type' = [m_subinfo_depth_type EXCEPT ![m] = t]
    OBVIOUS
  <2>2. PICK k \in DepthLevels(m) :
          m_subinfo_depth_level' = [m_subinfo_depth_level EXCEPT ![m] = k]
    OBVIOUS
  <2>3. t \in {0, 1, 2} /\ k \in Level
    BY EntryFields DEF DepthTypes, DepthLevels, TypeOK, Level
  <2>4. TypeOK'
    BY <2>1, <2>2, <2>3 DEF TypeOK, Done
  <2>5. MainFirst'
    <3>1. \A n \in Market :
            DepthTypes(n)' = DepthTypes(n) /\ DepthLevels(n)' = DepthLevels(n)
      BY DEF DepthTypes, DepthLevels
    <3>2. \A n \in Market : Read(n)' => /\ m_subinfo_depth_type'[n] \in DepthTypes(n)
                                        /\ m_subinfo_depth_level'[n] \in DepthLevels(n)
      BY <2>1, <2>2 DEF MainFirst, Read, Done, TypeOK
    <3> QED BY <3>1, <3>2 DEF MainFirst, Done
  <2>6. FromTheEntry'
    <3>1. \A n \in Market : channels[n] = {} /\ sending[n] = None /\ forwarded[n] = {}
      BY DEF FromTheEntry
    <3> QED BY <3>1 DEF FromTheEntry
  <2> QED BY <2>4, <2>5, <2>6
<1> QED BY <1>1, <1>2, <1>3

LEMMA OpenStep ==
  ASSUME StartInv, NEW m \in Market, start_websocket_market(m) PROVE StartInv'
<1> USE DEF StartInv, start_websocket_market
<1>1. CASE NoMarket(m) /\ Fails("null")
  BY <1>1, Crashes
<1>2. CASE /\ thread' = [thread EXCEPT ![m] = "opening"]
           /\ Done(m, "bind")
           /\ UNCHANGED <<given, depth, channels, sending, sockets,
                          crash>>
  <2> USE <1>2 DEF given, depth, sockets
  <2>1. TypeOK'
    BY DEF TypeOK, Done
  <2>2. MainFirst'
    <3>1. \A n \in Market :
            DepthTypes(n)' = DepthTypes(n) /\ DepthLevels(n)' = DepthLevels(n)
      BY DEF DepthTypes, DepthLevels
    <3>2. \A n \in Market : /\ m_subinfo_depth_type'[n] \in DepthTypes(n)'
                            /\ m_subinfo_depth_level'[n] \in DepthLevels(n)'
      BY <3>1 DEF MainFirst, Read
    <3> QED BY <3>2 DEF MainFirst, Done, TypeOK
  <2>3. FromTheEntry'
    <3>1. main' # "init"
      BY DEF Done
    <3>2. channels[m] = {}
      BY DEF FromTheEntry, MainFirst
    <3> QED BY <3>1, <3>2, SameEntry DEF FromTheEntry, TypeOK
  <2> QED BY <2>1, <2>2, <2>3
<1> QED BY <1>1, <1>2

LEMMA BindStep ==
  ASSUME StartInv, NEW m \in Market, start_websocket_zmq(m) PROVE StartInv'
<1> USE DEF StartInv, start_websocket_zmq
<1>1. CASE CannotBind(m) /\ Fails("bind")
  BY <1>1, Crashes
<1>2. CASE Fails("race")
  BY <1>2, Crashes
<1>3. CASE /\ binding' = m
           /\ UNCHANGED <<given, main, todo, depth, threads, bound,
                          forwarded, crash>>
  <2> USE <1>3 DEF given, depth, threads
  <2>1. TypeOK'
    BY DEF TypeOK
  <2>2. MainFirst'
    BY DEF MainFirst, Read, DepthTypes, DepthLevels
  <2>3. FromTheEntry'
    BY SameEntry DEF FromTheEntry
  <2> QED BY <2>1, <2>2, <2>3
<1> QED BY <1>1, <1>2, <1>3

LEMMA BoundStep == ASSUME StartInv, NEW m \in Market, Bound(m) PROVE StartInv'
<1> USE DEF StartInv, Bound, given, depth, threads
<1>1. TypeOK'
  BY DEF TypeOK, Done
<1>2. main = "bind"
  BY DEF MainFirst
<1>3. MainFirst'
  BY <1>2 DEF MainFirst, Read, DepthTypes, DepthLevels, Done
<1>4. FromTheEntry'
  BY <1>2, SameEntry DEF FromTheEntry, Done
<1> QED BY <1>1, <1>3, <1>4

LEMMA LoopStep ==
  ASSUME StartInv, NEW m \in Market, LoopThread(m) PROVE StartInv'
<1> USE DEF StartInv
<1>1. CASE on_open(m)
  <2> USE <1>1 DEF on_open
  <2>1. CASE BadName(m) /\ Fails("name")
    BY <2>1, Crashes
  <2>2. CASE /\ thread' = [thread EXCEPT ![m] = "open"]
             /\ channels' = [channels EXCEPT ![m] = Channels(m)]
             /\ UNCHANGED <<given, main, todo, depth, sending, sockets,
                            crash>>
    <3> USE <2>2 DEF given, depth, sockets
    <3>1. TypeOK'
      BY ChannelsType DEF TypeOK
    <3>2. MainFirst'
      BY DEF MainFirst, Read, DepthTypes, DepthLevels, TypeOK
    <3>3. FromTheEntry'
      BY SameEntry DEF FromTheEntry, MainFirst, TypeOK
    <3> QED BY <3>1, <3>2, <3>3
  <2> QED BY <2>1, <2>2
<1>2. CASE Message(m)
  <2>1. PICK ch \in channels[m] : on_message(m, ch)
    BY <1>2 DEF Message
  <2> USE <2>1 DEF on_message
  <2>2. CASE binding = m /\ Fails("race")
    BY <2>2, Crashes
  <2>3. CASE /\ sending' = [sending EXCEPT ![m] = Output(m, ch)]
             /\ UNCHANGED <<given, main, todo, depth, thread, channels,
                            sockets, crash>>
    <3> USE <2>3 DEF given, depth, sockets
    <3>1. Output(m, ch) \in Outputs(m)
      BY DEF Outputs, FromTheEntry
    <3>2. TypeOK'
      BY <3>1, OutputsType DEF TypeOK
    <3>3. MainFirst'
      BY DEF MainFirst, Read, DepthTypes, DepthLevels
    <3>4. FromTheEntry'
      BY <3>1, SameEntry DEF FromTheEntry, MainFirst, TypeOK
    <3> QED BY <3>2, <3>3, <3>4
  <2> QED BY <2>2, <2>3
<1>3. CASE mf_send(m)
  <2> USE <1>3 DEF mf_send, given, depth
  <2>1. TypeOK'
    BY DEF TypeOK
  <2>2. MainFirst'
    BY DEF MainFirst, Read, DepthTypes, DepthLevels
  <2>3. FromTheEntry'
    BY SameEntry DEF FromTheEntry, TypeOK
  <2> QED BY <2>1, <2>2, <2>3
<1> QED BY <1>1, <1>2, <1>3 DEF LoopThread

LEMMA StartStep == StartInv /\ [Next]_vars => StartInv'
<1> SUFFICES ASSUME StartInv, [Next]_vars PROVE StartInv'
  OBVIOUS
<1>1. CASE UNCHANGED vars
  <2> USE <1>1 DEF vars, given, depth, threads, sockets, StartInv
  <2>1. TypeOK'
    BY DEF TypeOK
  <2>2. MainFirst'
    BY DEF MainFirst, Read, DepthTypes, DepthLevels
  <2>3. FromTheEntry'
    BY SameEntry DEF FromTheEntry
  <2> QED BY <2>1, <2>2, <2>3
<1> QED BY <1>1, InitStep, OpenStep, BindStep, BoundStep, LoopStep DEF Next, MainThread

LEMMA StartInvariant == Spec => []StartInv
BY StartInit, StartStep, PTL DEF Spec

----------------------------------------------------------------------------
\* Whatever the configuration says, every reachable state of main, of the loop threads
\* and of the sockets has its type (init_market, on_open, on_message, mf_send).
THEOREM TypeCorrect == Spec => []TypeOK
<1>1. StartInv => TypeOK
  BY DEF StartInv
<1> QED BY <1>1, StartInvariant, PTL

\* A process that has bound all its sockets and opened all its markets runs on: no
\* order of the loop threads' sends meets a socket that is being bound any more
\* (main.cpp: start_websocket_market before start_websocket_zmq).
THEOREM StartedProcessesRunOn == Spec => SafeOnceStarted
<1> DEFINE Started == main = "sleep" /\ \A m \in Market : thread[m] = "open"
<1>1. StartInv /\ [Next]_vars => (Started => UNCHANGED crash)
  <2> SUFFICES ASSUME StartInv, [Next]_vars, Started PROVE UNCHANGED crash
    OBVIOUS
  <2>1. binding = None
    BY DEF StartInv, MainFirst
  <2>2. ASSUME MainThread PROVE UNCHANGED crash
    BY <2>1, <2>2 DEF MainThread, init_market, start_websocket_market,
                      start_websocket_zmq, Bound
  <2>3. ASSUME NEW m \in Market, LoopThread(m) PROVE UNCHANGED crash
    BY <2>1, <2>3 DEF LoopThread, on_open, Message, on_message, mf_send
  <2>4. CASE UNCHANGED vars
    BY <2>4 DEF vars
  <2> QED BY <2>2, <2>3, <2>4 DEF Next
<1>2. Spec => [][Started => UNCHANGED crash]_vars
  BY <1>1, StartInvariant, PTL DEF Spec
<1> QED BY <1>2 DEF SafeOnceStarted

\* What goes out of a market was made by the parser its entry asks for from the
\* channel that parser is for, and full depth is cut to the entry's levels, although
\* the channel is chosen in cf_sub_unsub_all and the parser in mf_parse_depth, from
\* fields that nobody sets without a depth section.
THEOREM ForwardsAsConfigured == Spec => []ForwardedAsConfigured
<1>1. StartInv => ForwardedAsConfigured
  <2> SUFFICES ASSUME StartInv, NEW m \in Market, NEW f \in forwarded[m]
               PROVE  IF f.parser = "trade" THEN config[m].trade /\ f.channel = Trades
                      ELSE /\ config[m].type # "none"
                           /\ config[m].type \in {"limit", "full"} =>
                                f.parser = config[m].type
                           /\ f.parser = "full" <=> f.channel.levels = 0
                           /\ f.parser = "full" => f.levels = config[m].level
    BY Zenon DEF ForwardedAsConfigured
  <2>1. /\ f \in Outputs(m)
        /\ m_subinfo_depth_type[m] \in DepthTypes(m)
        /\ m_subinfo_depth_level[m] \in DepthLevels(m)
    BY DEF StartInv, FromTheEntry, MainFirst, Read
  <2>2. TypeOK
    BY DEF StartInv
  <2> QED BY <2>1, <2>2, OutputsAreConfigured, Zenon
<1> QED BY <1>1, StartInvariant, PTL
===============================================================================
