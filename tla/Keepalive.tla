----------------------------- MODULE Keepalive -----------------------------
(***************************************************************************)
(* The ping thread of a market as it keeps the connection alive, composed  *)
(* with the connection (TcpClient).                                        *)
(*                                                                         *)
(* The thread, started by the first on_open, wakes every two seconds,      *)
(* takes the time, carries out a refresh of the books if one is asked for, *)
(* and then compares the time it took at first with m_pingpong_ts: after   *)
(* ten seconds it sends a pong (OKX: a ping) and sets m_pingpong_ts to     *)
(* that early time.  The loop thread of the Binance client sends a pong of *)
(* its own when a message comes two minutes after the last one.  Neither   *)
(* looks at what m_ws.send returns, and the two threads share the channel  *)
(* without a lock: the loop thread frees it at the next attempt, and the   *)
(* ping thread may then ask a freed object whether it is connected.        *)
(*                                                                         *)
(* Points in time are kept as ages.  An age stops growing at Horizon; the  *)
(* age of m_pingpong_ts = 0 is Horizon.                                    *)
(***************************************************************************)
EXTENDS TcpClient

CONSTANTS
  PingAfter,      \* age of m_pingpong_ts after which the ping thread sends (10 s)
  PollEvery,      \* its Sleep (2 s)
  RefreshMax,     \* bound: time that a refresh takes
  FallbackAfter,  \* age after which on_message sends (120 s)
  Fallback,       \* whether on_message sends at all (Binance)
  Horizon         \* bound: ages that matter

\* The longest time between two pongs.
LongestQuiet == PingAfter + PollEvery + 2 * RefreshMax

ASSUME PeriodAssumption ==
  /\ PingAfter \in Nat /\ PollEvery \in Nat \ {0} /\ RefreshMax \in Nat
  /\ FallbackAfter \in Nat /\ Fallback \in BOOLEAN
ASSUME HorizonAssumption == Horizon \in Nat /\ LongestQuiet <= Horizon

VARIABLES
  ping,      \* where the ping thread is
  left,      \* what is left of its sleep or refresh
  nowAge,    \* how long ago it took nowts
  tsAge,     \* how long ago m_pingpong_ts is
  dangling,  \* the channel it has hold of was freed
  quiet      \* auxiliary: time since the last pong on this connection, or its start

pingVars == <<ping, left, nowAge, tsAge, dangling, quiet>>
vars     == <<tcpVars, pingVars>>

Init ==
  /\ ClientInit
  /\ ping = "off"
  /\ left = 0
  /\ nowAge = 0
  /\ tsAge = Horizon
  /\ dangling = FALSE
  /\ quiet = 0

----------------------------------------------------------------------------
(* The loop thread.                                                        *)

\* on_open: the first one starts the ping thread.
on_open ==
  /\ Upgrade
  /\ ping' = IF ping = "off" THEN "sleep" ELSE ping
  /\ quiet' = 0
  /\ UNCHANGED <<left, nowAge, tsAge, dangling>>

Close == on_close /\ quiet' = 0 /\ UNCHANGED <<ping, left, nowAge, tsAge, dangling>>

\* The new channel takes the place of the old one, which is freed: it was
\* closed, but the ping thread may have hold of it.
Replace ==
  /\ Reconnect
  /\ dangling' = IF failure' = "none" THEN ping = "look" ELSE dangling
  /\ UNCHANGED <<ping, left, nowAge, tsAge, quiet>>

\* on_message: a message comes long after the last pong.
on_message ==
  /\ upgraded /\ alive
  /\ Fallback /\ tsAge > FallbackAfter
  /\ tsAge' = 0
  /\ quiet' = 0
  /\ UNCHANGED <<tcpVars, ping, left, nowAge, dangling>>

----------------------------------------------------------------------------
(* The ping thread: m_thread_ping.                                         *)

\* It takes the time, and perhaps starts a refresh.
PingWake ==
  /\ ping = "sleep" /\ left = 0
  /\ nowAge' = 0
  /\ \/ ping' = "test" /\ UNCHANGED left
     \/ ping' = "refresh" /\ left' \in 1 .. RefreshMax
  /\ UNCHANGED <<tcpVars, tsAge, dangling, quiet>>

\* Slip of RefreshEnds: it sleeps before it looks at the time.
RefreshEndsEarly ==
  /\ ping = "refresh" /\ left = 0
  /\ ping' = "sleep"
  /\ left' = PollEvery
  /\ UNCHANGED <<tcpVars, nowAge, tsAge, dangling, quiet>>

RefreshEnds ==
  /\ ping = "refresh" /\ left = 0
  /\ ping' = "test"
  /\ UNCHANGED <<tcpVars, left, nowAge, tsAge, dangling, quiet>>

\* Slip of PingTest: the time is noted whether it is time to send or not.
PingTestStamps ==
  /\ ping = "test"
  /\ IF tsAge - nowAge > PingAfter
     THEN ping' = "look" /\ UNCHANGED left
     ELSE ping' = "sleep" /\ left' = PollEvery
  /\ tsAge' = nowAge
  /\ UNCHANGED <<tcpVars, nowAge, dangling, quiet>>

\* Time to send? then it takes hold of the channel.
PingTest ==
  /\ ping = "test"
  /\ IF tsAge - nowAge > PingAfter
     THEN ping' = "look" /\ UNCHANGED left
     ELSE ping' = "sleep" /\ left' = PollEvery
  /\ UNCHANGED <<tcpVars, nowAge, tsAge, dangling, quiet>>

\* isConnected, which knows of TCP only.  A freed channel may say anything.
PingLook ==
  /\ ping = "look"
  /\ \/ /\ channel = "CONNECTED" \/ dangling
        /\ ping' = "send" /\ UNCHANGED left
     \/ /\ channel # "CONNECTED" \/ dangling
        /\ ping' = "sleep" /\ left' = PollEvery
  /\ dangling' = FALSE
  /\ UNCHANGED <<tcpVars, nowAge, tsAge, quiet>>

\* m_ws.send, which builds a frame and writes it to the channel as long as that
\* is open: before the upgrade the frame goes out as well, but is no pong (it may
\* be what makes the exchange refuse, see Cut).
PingSend ==
  /\ ping = "send"
  /\ ping' = "stamp"
  /\ quiet' = 0
  /\ UNCHANGED <<tcpVars, left, nowAge, tsAge, dangling>>

\* m_pingpong_ts = nowts, sent or not.
PingStamp ==
  /\ ping = "stamp"
  /\ ping' = "sleep"
  /\ left' = PollEvery
  /\ tsAge' = nowAge
  /\ UNCHANGED <<tcpVars, nowAge, dangling, quiet>>

----------------------------------------------------------------------------
Older(a) == IF a < Horizon THEN a + 1 ELSE a

\* Time passes while the ping thread sleeps or refreshes.
Tick ==
  /\ ClientTick
  /\ ping = "off" \/ (ping \in {"sleep", "refresh"} /\ left > 0)
  /\ left' = IF ping = "off" THEN left ELSE left - 1
  /\ nowAge' = Older(nowAge)
  /\ tsAge' = Older(tsAge)
  /\ quiet' = IF upgraded THEN quiet + 1 ELSE quiet
  /\ UNCHANGED <<ping, dangling>>

Start == (open \/ FirstAttempt) /\ UNCHANGED pingVars

LoopThread ==
  \/ on_connect /\ UNCHANGED pingVars
  \/ on_open
  \/ Close
  \/ Replace
  \/ on_message

PingThread ==
  PingWake \/ RefreshEnds \/ PingTest \/ PingLook \/ PingSend \/ PingStamp

Environment == (GoesDown \/ ComesUp \/ Cut) /\ UNCHANGED pingVars

Next == Start \/ LoopThread \/ PingThread \/ Environment \/ Tick

Spec == Init /\ [][Next]_vars

\* The threads run; an attempt ends; a connection whose peer is gone is noticed,
\* because the client writes to it every few seconds; a reachable exchange
\* accepts the connection, and does not refuse the websocket for ever.
FairSpec ==
  /\ Spec
  /\ WF_vars(Start)
  /\ WF_vars(on_connect /\ UNCHANGED pingVars)
  /\ SF_vars(on_open)
  /\ WF_vars(Close)
  /\ WF_vars(Replace)
  /\ WF_vars(PingThread)
  /\ WF_vars(Tick)

----------------------------------------------------------------------------
(* Properties.                                                             *)

TypeOK ==
  /\ ClientTypeOK
  /\ ping \in {"off", "sleep", "refresh", "test", "look", "send", "stamp"}
  /\ left \in Nat
  /\ nowAge \in 0 .. Horizon
  /\ tsAge \in 0 .. Horizon
  /\ dangling \in BOOLEAN
  /\ quiet \in Nat

\* A websocket that is open is never without a pong for longer than PingAfter,
\* one sleep and two refreshes: although m_pingpong_ts is set to a time before
\* the refresh, is set when nothing was sent, and is set by both threads.
PongOnTime == quiet <= LongestQuiet

\* m_pingpong_ts is never later than the last pong that was sent on the
\* connection: what is stamped without being sent is forgotten with its
\* connection.
StampNotAhead == quiet <= tsAge
============================================================================
