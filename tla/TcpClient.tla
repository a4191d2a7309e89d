----------------------------- MODULE TcpClient -----------------------------
(***************************************************************************)
(* How the connection of a market comes up and comes back: the websocket   *)
(* client of the vendored hv library, as MyWebSocketMarket::open and the   *)
(* constructor use it (a reconnect after 1 s, doubled up to 10 s, without  *)
(* a limit of attempts).                                                   *)
(*                                                                         *)
(* open() makes a socket and starts the loop thread, which makes the first *)
(* attempt.  From then on everything happens in callbacks of that thread:  *)
(* an attempt ends in on_connect or in on_close; on_close sets a timer;    *)
(* the timer makes a socket and starts the next attempt.  Whether the      *)
(* exchange can be reached, and whether the peer of the present socket is  *)
(* alive, is up to the environment.  Times are in units of Tick.           *)
(*                                                                         *)
(* The module is composed with the ping thread in Keepalive, which gives   *)
(* the specification.                                                      *)
(***************************************************************************)
EXTENDS Integers, Sequences

CONSTANTS
  MinDelay,        \* m_reconn.min_delay
  MaxDelay,        \* m_reconn.max_delay
  ConnectTimeout,  \* HIO_DEFAULT_CONNECT_TIMEOUT
  RetryMax         \* bound: cur_retry_cnt, which is only logged, stops here

ASSUME DelayAssumption ==
  MinDelay \in Nat \ {0} /\ MaxDelay \in Nat /\ MinDelay <= MaxDelay
ASSUME TimeoutAssumption == ConnectTimeout \in Nat \ {0}
ASSUME RetryAssumption   == RetryMax \in Nat \ {0}

\* Powers of two, for the law of the delays.
Pow2[n \in Nat] == IF n = 0 THEN 1 ELSE 2 * Pow2[n - 1]

\* The longest delay is reached before the bound.
ASSUME BackoffAssumption == MinDelay * Pow2[RetryMax - 1] >= MaxDelay

VARIABLES
  reachable,      \* external: the exchange answers at the address open() found
  alive,          \* external: the peer of the present socket answers
  upgraded,       \* external: the websocket is open on the present connection
  loop_thread,
  channel,        \* the status of channel, NULL before there is one
  age,            \* how long the attempt under way has lasted
  cur_delay,      \* reconn_setting->cur_delay
  cur_retry_cnt,  \* reconn_setting->cur_retry_cnt
  timers,         \* what is left of the reconnect timers that are set
  failure,        \* auxiliary: what ended the attempts for good
  waited          \* auxiliary: how long a reachable exchange waits for us

peer     == <<reachable, alive>>
reconn   == <<cur_delay, cur_retry_cnt>>
tcpVars  == <<peer, upgraded, loop_thread, channel, age, reconn, timers,
              failure, waited>>

InProgress == channel \in {"CONNECTING", "CONNECTED"}

ClientInit ==
  /\ reachable \in BOOLEAN
  /\ alive = FALSE
  /\ upgraded = FALSE
  /\ loop_thread = "off"
  /\ channel = "NULL"
  /\ age = 0
  /\ cur_delay = 0 /\ cur_retry_cnt = 0
  /\ timers = << >>
  /\ failure = "none"
  /\ waited = 0

----------------------------------------------------------------------------
(* Starting.                                                               *)

\* MyWebSocketMarket::open.  The name may not resolve, or there may be no
\* socket: m_ws.open says so, and nobody looks.
open ==
  /\ loop_thread = "off" /\ failure = "none"
  /\ \/ /\ loop_thread' = "starting" /\ channel' = "OPENED"
        /\ UNCHANGED failure
     \/ /\ failure' = "open"
        /\ UNCHANGED <<loop_thread, channel>>
  /\ UNCHANGED <<peer, upgraded, age, reconn, timers, waited>>

\* Slip of startConnect: the new socket is not given the address.
startConnectNowhere ==
  /\ channel' = "CONNECTING"
  /\ alive' = FALSE
  /\ age' = 0

\* An attempt is under way, at an exchange that can be reached or not.
startConnect ==
  /\ channel' = "CONNECTING"
  /\ alive' = reachable
  /\ age' = 0

\* The first thing the loop thread does.  When connect() fails at once the
\* loop stops; later attempts, whose result is not looked at, only close.
FirstAttempt ==
  /\ loop_thread = "starting"
  /\ startConnect
  /\ \/ loop_thread' = "running" /\ UNCHANGED failure
     \/ ~reachable /\ loop_thread' = "stopped" /\ failure' = "first"
  /\ UNCHANGED <<reachable, upgraded, reconn, timers, waited>>

----------------------------------------------------------------------------
(* The callbacks of the loop thread.                                       *)

\* Slip of on_connect: the delay is not set back.
on_connect_counter ==
  /\ loop_thread = "running" /\ channel = "CONNECTING" /\ reachable
  /\ channel' = "CONNECTED"
  /\ alive' = TRUE
  /\ age' = 0
  /\ cur_retry_cnt' = 0
  /\ waited' = 0
  /\ UNCHANGED <<reachable, upgraded, loop_thread, cur_delay, timers, failure>>

\* TCP is connected: the delays start over.
on_connect ==
  /\ loop_thread = "running" /\ channel = "CONNECTING" /\ reachable
  /\ channel' = "CONNECTED"
  /\ alive' = TRUE
  /\ age' = 0
  /\ cur_delay' = 0 /\ cur_retry_cnt' = 0
  /\ waited' = 0
  /\ UNCHANGED <<reachable, upgraded, loop_thread, timers, failure>>

\* The exchange has agreed to the websocket: on_open of the client is called.
Upgrade ==
  /\ loop_thread = "running" /\ channel = "CONNECTED"
  /\ reachable /\ alive /\ ~upgraded
  /\ upgraded' = TRUE
  /\ UNCHANGED <<peer, loop_thread, channel, age, reconn, timers, failure, waited>>

\* Slips of NextDelay: no limit; straight to the limit.
NextDelayUnlimited(d) == IF 2 * d < MinDelay THEN MinDelay ELSE 2 * d
NextDelayAtOnce(d)    == IF d = 0 THEN MinDelay ELSE MaxDelay

\* reconn_setting_calc_delay with delay_policy 2.
NextDelay(d) ==
  LET doubled == IF 2 * d < MinDelay THEN MinDelay ELSE 2 * d
  IN  IF doubled > MaxDelay THEN MaxDelay ELSE doubled

\* reconn_setting_can_retry, with max_retry_cnt INFINITE.
OneMore(n) == IF n < RetryMax THEN n + 1 ELSE RetryMax

\* Slips of on_close: a connection that ends before the upgrade goes unnoticed; the
\* channel is not marked, so it can close again.
on_close_upgraded ==
  /\ loop_thread = "running" /\ (channel = "CONNECTING" \/ upgraded) /\ ~alive
  /\ channel' = "CLOSED"
  /\ upgraded' = FALSE
  /\ age' = 0
  /\ cur_retry_cnt' = OneMore(cur_retry_cnt)
  /\ cur_delay' = NextDelay(cur_delay)
  /\ timers' = Append(timers, cur_delay')
  /\ UNCHANGED <<peer, loop_thread, failure, waited>>
on_close_unmarked ==
  /\ loop_thread = "running" /\ InProgress /\ ~alive
  /\ upgraded' = FALSE
  /\ age' = 0
  /\ cur_retry_cnt' = OneMore(cur_retry_cnt)
  /\ cur_delay' = NextDelay(cur_delay)
  /\ timers' = Append(timers, cur_delay')
  /\ UNCHANGED <<peer, loop_thread, channel, failure, waited>>

\* The attempt has failed or timed out, or the connection is lost: on_close
\* of the client is called, and startReconnect sets a timer.
on_close ==
  /\ loop_thread = "running" /\ InProgress /\ ~alive
  /\ channel' = "CLOSED"
  /\ upgraded' = FALSE
  /\ age' = 0
  /\ cur_retry_cnt' = OneMore(cur_retry_cnt)
  /\ cur_delay' = NextDelay(cur_delay)
  /\ timers' = Append(timers, cur_delay')
  /\ UNCHANGED <<peer, loop_thread, failure, waited>>

\* The timer of startReconnect.  Without a socket its callback just returns.
Reconnect ==
  /\ loop_thread = "running" /\ timers # << >> /\ Head(timers) = 0
  /\ timers' = Tail(timers)
  /\ \/ startConnect /\ UNCHANGED failure
     \/ failure' = "socket" /\ UNCHANGED <<channel, alive, age>>
  /\ UNCHANGED <<reachable, upgraded, loop_thread, reconn, waited>>

----------------------------------------------------------------------------
(* The environment, and time.                                              *)

GoesDown ==
  /\ reachable
  /\ reachable' = FALSE /\ alive' = FALSE
  /\ waited' = 0
  /\ UNCHANGED <<upgraded, loop_thread, channel, age, reconn, timers, failure>>

ComesUp ==
  /\ ~reachable
  /\ reachable' = TRUE
  /\ UNCHANGED <<alive, upgraded, loop_thread, channel, age, reconn, timers,
                 failure, waited>>

\* The exchange ends a connection (Binance does so every day), or refuses the
\* upgrade, upon which the websocket client closes the channel.
Cut ==
  /\ channel = "CONNECTED" /\ alive
  /\ alive' = FALSE
  /\ UNCHANGED <<reachable, upgraded, loop_thread, channel, age, reconn, timers,
                 failure, waited>>

\* A reachable exchange waits for an attempt to get through.
Waiting == reachable /\ channel # "CONNECTED" /\ failure = "none"

\* Nothing that is due is put off: a timer that has run out, an attempt that
\* has timed out.
ClientTick ==
  /\ loop_thread = "running"
  /\ \A i \in DOMAIN timers : timers[i] > 0
  /\ channel = "CONNECTING" => age < ConnectTimeout
  /\ age' = IF channel = "CONNECTING" THEN age + 1 ELSE age
  /\ timers' = [i \in DOMAIN timers |-> timers[i] - 1]
  /\ waited' = IF Waiting THEN waited + 1 ELSE waited
  /\ UNCHANGED <<peer, upgraded, loop_thread, channel, reconn, failure>>

----------------------------------------------------------------------------
(* Properties of the connection, checked in the composition.               *)

ClientTypeOK ==
  /\ reachable \in BOOLEAN /\ alive \in BOOLEAN /\ upgraded \in BOOLEAN
  /\ loop_thread \in {"off", "starting", "running", "stopped"}
  /\ channel \in {"NULL", "OPENED", "CONNECTING", "CONNECTED", "CLOSED"}
  /\ age \in 0 .. ConnectTimeout
  /\ cur_delay \in 0 .. MaxDelay
  /\ cur_retry_cnt \in 0 .. RetryMax
  /\ timers \in Seq(0 .. MaxDelay)
  /\ failure \in {"none", "open", "first", "socket"}
  /\ waited \in Nat

\* There is always exactly one attempt, connection or timer, so attempts do
\* not multiply and never stop, until the one failure that startReconnect does
\* not survive (no socket in the timer's callback); then nothing is left.
OneAttempt ==
  loop_thread = "running" =>
    Len(timers) + (IF InProgress THEN 1 ELSE 0) = IF failure = "none" THEN 1 ELSE 0

\* hloop.h: min_delay=3s max_delay=60s delay_policy=2 => 3,6,12,24,48,60,60...
DelayAfter(n) ==
  LET d == MinDelay * Pow2[n - 1]
  IN  IF n = 0 THEN 0 ELSE IF d > MaxDelay THEN MaxDelay ELSE d

\* The delay is the one that belongs to the number of failures since the last
\* connection: the two are set back together and grow together.
BackoffLaw == cur_delay = DelayAfter(cur_retry_cnt)

\* A reachable exchange is never kept waiting longer than an attempt made
\* while it was down, the longest delay and one more attempt take.
ReconnectSoon == waited <= 2 * ConnectTimeout + MaxDelay

\* Unless a socket could not be had, the websocket opens again and again, as
\* long as the exchange is there, however often it cuts or refuses.
Reconnects ==
  <>[]reachable /\ [](failure = "none") => []<>upgraded
============================================================================
