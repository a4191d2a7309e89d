---------------------------- MODULE Subscription ----------------------------
(***************************************************************************)
(* Subscription requests, batch by batch.  Two threads make them: the loop *)
(* thread, which subscribes to everything in on_open, and, in the OKX      *)
(* client, the ping thread, which unsubscribes from and subscribes to the  *)
(* depth channel again when c_needflash_depthfull is up (the one of the    *)
(* Binance client asks for images instead).  cf_sub_unsub_all sends one    *)
(* request per Batch instruments, sleeps after each, and holds             *)
(* m_cs_subscribe all the while.  The connection may drop between any two  *)
(* batches; whether m_ws.send succeeded is never looked at.                *)
(*                                                                         *)
(* The exchange processes the requests of a connection in order, so asked  *)
(* stands for what it will send once it has processed all of them.  A map  *)
(* of instruments is the set of its keys: which of them share a batch      *)
(* depends on their names, and is left open.                               *)
(***************************************************************************)
EXTENDS Integers, FiniteSets

CONSTANTS
  m_map_subinfo_depth,  \* instruments whose depth is subscribed
  m_map_subinfo_trade,  \* instruments whose trades are subscribed
  Batch,                \* instruments per request, 50 (Binance: 30)
  Docs,                 \* length of the array doc, 100
  Resubscribes,         \* whether the ping thread subscribes again (OKX)
  None,                 \* no thread, no call
  MaxDrop,              \* bound: how often the connection drops
  MaxTrouble            \* bound: how often on_message asks for a refresh

ASSUME MapAssumption ==
  IsFiniteSet(m_map_subinfo_depth) /\ IsFiniteSet(m_map_subinfo_trade)
ASSUME BatchAssumption == Batch \in Nat \ {0} /\ Docs \in Nat \ {0}
\* Nothing checks it: the configuration must not list more instruments.
ASSUME DocsAssumption ==
  /\ Cardinality(m_map_subinfo_depth) < Docs * Batch
  /\ Cardinality(m_map_subinfo_trade) < Docs * Batch
ASSUME ClientAssumption == Resubscribes \in BOOLEAN
ASSUME DropAssumption == MaxDrop \in Nat /\ MaxTrouble \in Nat

Thread == {"loop", "ping"}
Subinfo == [depth |-> m_map_subinfo_depth, trade |-> m_map_subinfo_trade]
Channel == {"depth", "trade"}
Call == [op : {"subscribe", "unsubscribe"}, channel : Channel]
ASSUME NoCallAssumption == None \notin Call \cup Thread

\* A thread at one of these points calls cf_sub_unsub_all ...
Calls == [depth |-> [op |-> "subscribe", channel |-> "depth"],
          trade |-> [op |-> "subscribe", channel |-> "trade"],
          unsubscribe |-> [op |-> "unsubscribe", channel |-> "depth"],
          subscribe |-> [op |-> "subscribe", channel |-> "depth"]]

\* ... and goes on from it to the next.
Goto == [depth |-> "trade", trade |-> "opened",
         unsubscribe |-> "sleep", subscribe |-> "reset"]

VARIABLES
  up,                     \* external: the connection is up
  asked,                  \* channels and instruments asked for on it
  m_connect_status,
  c_needflash_depthfull,
  m_cs_subscribe,         \* the thread that holds it, or None
  pc,                     \* where each thread is
  call,                   \* the call of cf_sub_unsub_all it is in, or None
  todo,                   \* instruments of the call not sent yet
  index,                  \* documents it has completed
  whole,                  \* history: the connection was up all through the call
  drops, troubles         \* how often each happened

vars == <<up, asked, m_connect_status, c_needflash_depthfull, m_cs_subscribe,
          pc, call, todo, index, whole, drops, troubles>>
lockVars == <<m_cs_subscribe, call, todo, index>>

Everything == {"depth"} \X m_map_subinfo_depth \cup {"trade"} \X m_map_subinfo_trade

Init ==
  /\ up = FALSE
  /\ asked = {}
  /\ m_connect_status = 0
  /\ c_needflash_depthfull = 0
  /\ m_cs_subscribe = None
  /\ pc = [a \in Thread |-> IF a = "loop" THEN "idle" ELSE "off"]
  /\ call = [a \in Thread |-> None]
  /\ todo = [a \in Thread |-> {}]
  /\ index = [a \in Thread |-> 0]
  /\ whole = [a \in Thread |-> FALSE]
  /\ drops = 0
  /\ troubles = 0

----------------------------------------------------------------------------
(* cf_sub_unsub_all.                                                       *)

\* Slip of Enter: the lock is taken whoever holds it.
EnterAnyway(a) ==
  /\ pc[a] \in DOMAIN Calls
  /\ call[a] = None
  /\ m_cs_subscribe' = a
  /\ call' = [call EXCEPT ![a] = Calls[pc[a]]]
  /\ todo' = [todo EXCEPT ![a] = Subinfo[Calls[pc[a]].channel]]
  /\ index' = [index EXCEPT ![a] = 0]
  /\ whole' = [whole EXCEPT ![a] = up]
  /\ UNCHANGED <<up, asked, m_connect_status, c_needflash_depthfull, pc,
                 drops, troubles>>

\* Slip of Enter: index is kept from one call to the next.
EnterKeepsIndex(a) ==
  /\ pc[a] \in DOMAIN Calls
  /\ call[a] = None
  /\ m_cs_subscribe = None
  /\ m_cs_subscribe' = a
  /\ call' = [call EXCEPT ![a] = Calls[pc[a]]]
  /\ todo' = [todo EXCEPT ![a] = Subinfo[Calls[pc[a]].channel]]
  /\ whole' = [whole EXCEPT ![a] = up]
  /\ UNCHANGED <<up, asked, m_connect_status, c_needflash_depthfull, pc, index,
                 drops, troubles>>

\* EnterCriticalSection(&m_cs_subscribe), and the locals are set up.
Enter(a) ==
  /\ pc[a] \in DOMAIN Calls
  /\ call[a] = None
  /\ m_cs_subscribe = None
  /\ m_cs_subscribe' = a
  /\ call' = [call EXCEPT ![a] = Calls[pc[a]]]
  /\ todo' = [todo EXCEPT ![a] = Subinfo[Calls[pc[a]].channel]]
  /\ index' = [index EXCEPT ![a] = 0]
  /\ whole' = [whole EXCEPT ![a] = up]
  /\ UNCHANGED <<up, asked, m_connect_status, c_needflash_depthfull, pc,
                 drops, troubles>>

\* m_ws.send of thread a's request for the instruments insts: without a
\* connection it is lost.
Ask(a, insts) ==
  asked' = IF ~up THEN asked
           ELSE IF call[a].op = "subscribe"
                THEN asked \cup ({call[a].channel} \X insts)
                ELSE asked \ ({call[a].channel} \X insts)

\* A full batch; the document counter moves on to the next document, which the
\* instruments that are left, if any, go into.
SendBatch(a) ==
  /\ call[a] # None
  /\ \E insts \in SUBSET todo[a] :
       /\ Cardinality(insts) = Batch
       /\ Ask(a, insts)
       /\ todo' = [todo EXCEPT ![a] = @ \ insts]
  /\ index' = [index EXCEPT ![a] = @ + 1]
  /\ UNCHANGED <<up, m_connect_status, c_needflash_depthfull, m_cs_subscribe,
                 pc, call, whole, drops, troubles>>

\* Slip of SendRest: only full batches are sent.
SendRestNever(a) ==
  /\ call[a] # None
  /\ todo[a] # {} /\ Cardinality(todo[a]) < Batch
  /\ todo' = [todo EXCEPT ![a] = {}]
  /\ UNCHANGED <<up, asked, m_connect_status, c_needflash_depthfull,
                 m_cs_subscribe, pc, call, index, whole, drops, troubles>>

\* What is left when the loop over the map has ended.
SendRest(a) ==
  /\ call[a] # None
  /\ todo[a] # {} /\ Cardinality(todo[a]) < Batch
  /\ Ask(a, todo[a])
  /\ todo' = [todo EXCEPT ![a] = {}]
  /\ UNCHANGED <<up, m_connect_status, c_needflash_depthfull, m_cs_subscribe,
                 pc, call, index, whole, drops, troubles>>

\* Slip of Leave: LeaveCriticalSection is left out.
LeaveLocked(a) ==
  /\ call[a] # None
  /\ todo[a] = {}
  /\ call' = [call EXCEPT ![a] = None]
  /\ pc' = [pc EXCEPT ![a] = Goto[@]]
  /\ UNCHANGED <<up, asked, m_connect_status, c_needflash_depthfull,
                 m_cs_subscribe, todo, index, whole, drops, troubles>>

Leave(a) ==
  /\ call[a] # None
  /\ todo[a] = {}
  /\ m_cs_subscribe' = None
  /\ call' = [call EXCEPT ![a] = None]
  /\ pc' = [pc EXCEPT ![a] = Goto[@]]
  /\ UNCHANGED <<up, asked, m_connect_status, c_needflash_depthfull, todo,
                 index, whole, drops, troubles>>

cf_sub_unsub_all(a) == Enter(a) \/ SendBatch(a) \/ SendRest(a) \/ Leave(a)

----------------------------------------------------------------------------
(* The loop thread.                                                        *)

\* A connection is up; on_open begins to subscribe.
on_open ==
  /\ pc.loop = "idle"
  /\ m_connect_status \in {0, -1}
  /\ ~up
  /\ up' = TRUE
  /\ m_connect_status' = 1
  /\ pc' = [pc EXCEPT !.loop = "depth"]
  /\ UNCHANGED <<asked, c_needflash_depthfull, lockVars, whole, drops, troubles>>

\* mf_subscribe_all returns and, the first time, the ping thread is started.
on_open_return ==
  /\ pc.loop = "opened"
  /\ m_connect_status' = 2
  /\ pc' = [pc EXCEPT !.loop = "idle", !.ping = IF @ = "off" THEN "poll" ELSE @]
  /\ UNCHANGED <<up, asked, c_needflash_depthfull, lockVars, whole, drops,
                 troubles>>

on_close ==
  /\ pc.loop = "idle"
  /\ m_connect_status \in {2, 3}
  /\ ~up
  /\ m_connect_status' = -1
  /\ UNCHANGED <<up, asked, c_needflash_depthfull, lockVars, pc, whole, drops,
                 troubles>>

\* A message; it may show that the copies need a refresh.
on_message ==
  /\ pc.loop = "idle"
  /\ m_connect_status \in {2, 3}
  /\ up
  /\ m_connect_status' = 3
  /\ \/ UNCHANGED <<c_needflash_depthfull, troubles>>
     \/ /\ troubles < MaxTrouble
        /\ troubles' = troubles + 1
        /\ c_needflash_depthfull' = 1
  /\ UNCHANGED <<up, asked, lockVars, pc, whole, drops>>

----------------------------------------------------------------------------
(* The ping thread, m_thread_ping.                                         *)

PingPoll ==
  /\ Resubscribes
  /\ pc.ping = "poll"
  /\ c_needflash_depthfull = 1
  /\ pc' = [pc EXCEPT !.ping = "unsubscribe"]
  /\ UNCHANGED <<up, asked, m_connect_status, c_needflash_depthfull, lockVars,
                 whole, drops, troubles>>

\* Slip of PingWake: without a connection the subscription is left to on_open.
PingWakeConnected ==
  /\ pc.ping = "sleep"
  /\ pc' = [pc EXCEPT !.ping = IF m_connect_status = 3 THEN "subscribe"
                               ELSE "reset"]
  /\ UNCHANGED <<up, asked, m_connect_status, c_needflash_depthfull, lockVars,
                 whole, drops, troubles>>

\* Sleep(2000) ends.
PingWake ==
  /\ pc.ping = "sleep"
  /\ pc' = [pc EXCEPT !.ping = "subscribe"]
  /\ UNCHANGED <<up, asked, m_connect_status, c_needflash_depthfull, lockVars,
                 whole, drops, troubles>>

PingReset ==
  /\ pc.ping = "reset"
  /\ c_needflash_depthfull' = 0
  /\ pc' = [pc EXCEPT !.ping = "poll"]
  /\ UNCHANGED <<up, asked, m_connect_status, lockVars, whole, drops, troubles>>

----------------------------------------------------------------------------
\* The connection is lost, and with it all that was asked for on it.
Drop ==
  /\ up
  /\ drops < MaxDrop
  /\ drops' = drops + 1
  /\ up' = FALSE
  /\ asked' = {}
  /\ whole' = [a \in Thread |-> FALSE]
  /\ UNCHANGED <<m_connect_status, c_needflash_depthfull, lockVars, pc, troubles>>

LoopStep == on_open_return \/ on_close \/ cf_sub_unsub_all("loop")
PingStep == PingPoll \/ PingWake \/ PingReset \/ cf_sub_unsub_all("ping")

Next == on_open \/ on_message \/ LoopStep \/ PingStep \/ Drop

Spec == Init /\ [][Next]_vars

\* The threads go on: every Sleep ends, and the critical section is left on
\* every path.  Nothing makes a connection come up.
FairSpec == Spec /\ WF_vars(LoopStep) /\ WF_vars(PingStep)
----------------------------------------------------------------------------
(* Properties.                                                             *)

TypeOK ==
  /\ up \in BOOLEAN
  /\ asked \subseteq Everything
  /\ m_connect_status \in {-1, 0, 1, 2, 3}
  /\ c_needflash_depthfull \in {0, 1}
  /\ m_cs_subscribe \in Thread \cup {None}
  /\ pc \in [Thread -> {"idle", "depth", "trade", "opened", "off", "poll",
                        "unsubscribe", "sleep", "subscribe", "reset"}]
  /\ pc.loop \in {"idle", "depth", "trade", "opened"}
  /\ pc.ping \in {"off", "poll", "unsubscribe", "sleep", "subscribe", "reset"}
  /\ call \in [Thread -> Call \cup {None}]
  /\ \A a \in Thread : /\ (call[a] # None) = (m_cs_subscribe = a)
                       /\ call[a] # None => /\ pc[a] \in DOMAIN Calls
                                            /\ call[a] = Calls[pc[a]]
                                            /\ todo[a] \subseteq Subinfo[call[a].channel]
  /\ todo \in [Thread -> SUBSET (m_map_subinfo_depth \cup m_map_subinfo_trade)]
  /\ index \in [Thread -> Nat]
  /\ whole \in [Thread -> BOOLEAN]
  /\ drops \in 0 .. MaxDrop
  /\ troubles \in 0 .. MaxTrouble

\* A call that keeps its connection takes effect as a whole: what it has worked
\* off is asked for, or no longer asked for, and no other request gets between
\* its batches although it sleeps a second after each.
CallsAreWhole ==
  \A a \in Thread : call[a] # None /\ whole[a] =>
    \A i \in Subinfo[call[a].channel] \ todo[a] :
      (<<call[a].channel, i>> \in asked) <=> (call[a].op = "subscribe")

\* Whatever the ping thread was doing when connections broke and came back,
\* once on_open has returned on the connection that is up, and the ping thread
\* is not in the middle of a refresh, everything configured is asked for.
AllAskedFor ==
  /\ up
  /\ pc.loop = "idle"
  /\ pc.ping \in {"off", "reset", "poll"}
  => asked = Everything

\* cf_sub_unsub_all stays inside its array of documents.
DocsSuffice == \A a \in Thread : call[a] # None => index[a] < Docs

\* If the connection stays up from some time on, everything configured is asked
\* for from some time on: neither thread keeps the other out for ever, and no
\* refresh is left half done.
SubscribedInTheEnd == <>[]up => <>[](asked = Everything)
=============================================================================
