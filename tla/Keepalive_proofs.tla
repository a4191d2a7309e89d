--------------------------- MODULE Keepalive_proofs ---------------------------
(***************************************************************************)
(* Proofs about Keepalive: types, one attempt at a time, the law of the    *)
(* delays, how soon a reachable exchange is reached and how long it may be *)
(* without a pong, for all delays, timeouts and periods.                   *)
(*                                                                         *)
(* The two bounds are sums over several waits, so the invariant says at    *)
(* each point how much of the sum is used up: Waits for the connection,    *)
(* Pongs for the ping thread.                                              *)
(***************************************************************************)
EXTENDS Keepalive, WellFoundedInduction, TLAPS

----------------------------------------------------------------------------
(* Numbers and recursion, for the powers of two in the law of the delays.  *)
(* The provers cannot instantiate an induction theorem about an operator;  *)
(* these are about a set of numbers and about a function, and rest on the  *)
(* library's fact that < is well-founded on Nat.                           *)

\* A set of natural numbers has a least one.
LEMMA LeastNumber ==
  ASSUME NEW S, S \subseteq Nat, S # {}
  PROVE  \E n \in S : \A k \in S : n <= k
<1> DEFINE Less == OpToRel(<, Nat)
<1>1. \A a, b \in Nat : a < b => <<a, b>> \in Less
  BY DEF OpToRel
<1>2. IsWellFoundedOn(Less, Nat)
  BY NatLessThanWellFounded
<1> HIDE DEF Less
<1>3. PICK n \in S : \A k \in S : ~ (<<k, n>> \in Less)
  BY <1>2, WFMin
<1>4. \A k \in S : n <= k
  <2>1. ASSUME NEW k \in S, k < n PROVE FALSE
    <3>1. k \in Nat /\ n \in Nat
      OBVIOUS
    <3>2. <<k, n>> \in Less
      BY <1>1, <2>1, <3>1
    <3> QED BY <1>3, <3>2
  <2>2. \A k \in S : k \in Nat /\ n \in Nat
    OBVIOUS
  <2> QED BY <2>1, <2>2
<1> QED BY <1>4

\* A set that holds 0 and with every number the next one holds all of them.
LEMMA NatSetInduction ==
  ASSUME NEW S, 0 \in S, \A n \in Nat : n \in S => n + 1 \in S
  PROVE  Nat \subseteq S
<1> DEFINE T == Nat \ S
<1> SUFFICES ASSUME T # {} PROVE FALSE
  OBVIOUS
<1>1. T \subseteq Nat
  OBVIOUS
<1> HIDE DEF T
<1>2. PICK n \in T : \A k \in T : n <= k
  BY <1>1, LeastNumber
<1>3. n \in Nat /\ n \notin S
  BY DEF T
<1>4. n # 0 /\ n - 1 \in Nat
  BY <1>3
<1>5. n - 1 \notin T
  BY <1>2, <1>3
<1>6. (n - 1) + 1 \in S
  BY <1>4, <1>5 DEF T
<1> QED BY <1>3, <1>6

\* The first n + 1 values of the function that starts with a and steps by step.
Starts(S, a, step, n) ==
  {g \in [0 .. n -> S] : g[0] = a /\ \A k \in 1 .. n : g[k] = step[g[k - 1]]}

LEMMA StartsExist ==
  ASSUME NEW S, NEW a \in S, NEW step \in [S -> S]
  PROVE  \A n \in Nat : Starts(S, a, step, n) # {}
<1> DEFINE Good == {n \in Nat : Starts(S, a, step, n) # {}}
<1>1. 0 \in Good
  <2>1. [k \in 0 .. 0 |-> a] \in Starts(S, a, step, 0)
    BY DEF Starts
  <2> QED BY <2>1
<1>2. ASSUME NEW n \in Nat, n \in Good PROVE n + 1 \in Good
  <2>1. PICK g : g \in Starts(S, a, step, n)
    BY <1>2
  <2> DEFINE h == [k \in 0 .. n + 1 |-> IF k = n + 1 THEN step[g[n]] ELSE g[k]]
  <2>2. g \in [0 .. n -> S] /\ g[0] = a /\ \A k \in 1 .. n : g[k] = step[g[k - 1]]
    BY <2>1 DEF Starts
  <2>3. \A k \in 0 .. n : g[k] \in S
    BY <2>2
  <2>4. h \in [0 .. n + 1 -> S]
    <3>1. ASSUME NEW k \in 0 .. n + 1
          PROVE  (IF k = n + 1 THEN step[g[n]] ELSE g[k]) \in S
      BY <2>3, k = n + 1 \/ k \in 0 .. n
    <3> QED BY <3>1
  <2>5. h[0] = a
    BY <2>2
  <2>6. ASSUME NEW k \in 1 .. n + 1 PROVE h[k] = step[h[k - 1]]
    <3>1. k - 1 \in 0 .. n /\ k - 1 \in 0 .. n + 1 /\ k - 1 # n + 1 /\ k \in 0 .. n + 1
      OBVIOUS
    <3>2. h[k - 1] = g[k - 1]
      BY <3>1
    <3>3. CASE k = n + 1
      BY <3>1, <3>2, <3>3
    <3>4. CASE k # n + 1
      <4>1. k \in 1 .. n
        BY <3>4
      <4> QED BY <2>2, <3>1, <3>2, <3>4, <4>1
    <3> QED BY <3>3, <3>4
  <2> HIDE DEF h
  <2>7. h \in Starts(S, a, step, n + 1)
    BY <2>4, <2>5, <2>6 DEF Starts
  <2> QED BY <2>7
<1> HIDE DEF Good
<1>3. Nat \subseteq Good
  BY <1>1, <1>2, NatSetInduction
<1> QED BY <1>3 DEF Good

LEMMA StartsAgree ==
  ASSUME NEW S, NEW a, NEW step, NEW m \in Nat, NEW n \in Nat, m <= n,
         NEW g \in Starts(S, a, step, m), NEW h \in Starts(S, a, step, n)
  PROVE  g[m] = h[m]
<1> DEFINE Good == {k \in Nat : k <= m => g[k] = h[k]}
<1>1. 0 \in Good
  BY DEF Starts
<1>2. ASSUME NEW k \in Nat, k \in Good PROVE k + 1 \in Good
  <2> SUFFICES ASSUME k + 1 <= m PROVE g[k + 1] = h[k + 1]
    OBVIOUS
  <2>1. g[k] = h[k]
    BY <1>2
  <2>2. k + 1 \in 1 .. m /\ k + 1 \in 1 .. n /\ (k + 1) - 1 = k
    OBVIOUS
  <2>3. g[k + 1] = step[g[k]] /\ h[k + 1] = step[h[k]]
    BY <2>2 DEF Starts
  <2> QED BY <2>1, <2>3
<1> HIDE DEF Good
<1>3. Nat \subseteq Good
  BY <1>1, <1>2, NatSetInduction
<1> QED BY <1>3 DEF Good

\* There is a function on Nat that starts with a and steps by step.
LEMMA NatRecursion ==
  ASSUME NEW S, NEW a \in S, NEW step \in [S -> S]
  PROVE  \E f \in [Nat -> S] :
           f[0] = a /\ \A n \in Nat : f[n + 1] = step[f[n]]
<1> DEFINE G(n) == CHOOSE g : g \in Starts(S, a, step, n)
           f == [n \in Nat |-> G(n)[n]]
<1>1. \A n \in Nat : G(n) \in Starts(S, a, step, n)
  BY StartsExist
<1> HIDE DEF G
<1>2. f \in [Nat -> S]
  <2>1. \A n \in Nat : G(n)[n] \in S
    BY <1>1 DEF Starts
  <2> QED BY <2>1
<1>3. f[0] = a
  BY <1>1 DEF Starts
<1>4. ASSUME NEW n \in Nat PROVE f[n + 1] = step[f[n]]
  <2>1. n + 1 \in Nat /\ n + 1 \in 1 .. n + 1 /\ (n + 1) - 1 = n /\ n <= n + 1
    OBVIOUS
  <2>2. G(n + 1)[n + 1] = step[G(n + 1)[n]]
    BY <1>1, <2>1 DEF Starts
  <2>3. G(n + 1)[n] = G(n)[n]
    BY <1>1, <2>1, StartsAgree
  <2> QED BY <2>1, <2>2, <2>3
<1> HIDE DEF f
<1> QED BY <1>2, <1>3, <1>4
----------------------------------------------------------------------------
(* The inductive invariant.                                                *)

\* Where the loop thread is, what is pending.
Phases ==
  /\ loop_thread = "off" => channel = "NULL"
  /\ loop_thread = "starting" => channel = "OPENED" /\ failure = "none"
  /\ loop_thread \in {"off", "starting", "stopped"} => timers = << >> /\ waited = 0
  /\ loop_thread = "stopped" => failure # "none"
  /\ loop_thread = "running" =>
       \/ failure = "none" /\ InProgress /\ timers = << >>
       \/ failure = "none" /\ channel = "CLOSED" /\ Len(timers) = 1
       \/ failure # "none" /\ channel = "CLOSED" /\ timers = << >>
  /\ upgraded => loop_thread = "running" /\ channel = "CONNECTED"

\* How much of the longest wait is behind us.
Waits ==
  /\ ReconnectSoon
  /\ (~reachable \/ channel = "CONNECTED") => waited = 0
  /\ channel = "CONNECTING" /\ failure = "none" =>
       waited <= age \/ (alive /\ waited <= ConnectTimeout + MaxDelay + age)
  /\ channel = "CLOSED" /\ failure = "none" =>
       waited <= ConnectTimeout + MaxDelay - timers[1]

\* The same for the longest time without a pong.
Pongs ==
  /\ PongOnTime /\ StampNotAhead
  /\ ~upgraded \/ ping \in {"off", "stamp"} => quiet = 0
  /\ dangling => ping = "look" /\ quiet = 0
  /\ ping = "off" => left = 0 /\ ~upgraded
  /\ ping = "sleep" =>
       /\ left <= PollEvery
       /\ \/ tsAge <= PingAfter + RefreshMax + (PollEvery - left)
          \/ quiet <= PollEvery - left
  /\ ping = "refresh" => nowAge + left <= RefreshMax
  /\ ping \in {"test", "look", "send", "stamp"} => nowAge <= RefreshMax
  /\ ping \in {"refresh", "test", "look", "send"} =>
       \/ tsAge <= PingAfter + RefreshMax + PollEvery + nowAge
       \/ quiet <= PollEvery + nowAge

\* TypeOK in two parts, for two provers.
Flags ==
  /\ reachable \in BOOLEAN /\ alive \in BOOLEAN /\ upgraded \in BOOLEAN
  /\ dangling \in BOOLEAN

Values ==
  /\ loop_thread \in {"off", "starting", "running", "stopped"}
  /\ channel \in {"NULL", "OPENED", "CONNECTING", "CONNECTED", "CLOSED"}
  /\ age \in 0 .. ConnectTimeout
  /\ cur_delay \in 0 .. MaxDelay
  /\ cur_retry_cnt \in 0 .. RetryMax
  /\ timers \in Seq(0 .. MaxDelay)
  /\ failure \in {"none", "open", "first", "socket"}
  /\ waited \in Nat
  /\ ping \in {"off", "sleep", "refresh", "test", "look", "send", "stamp"}
  /\ left \in Nat
  /\ nowAge \in 0 .. Horizon
  /\ tsAge \in 0 .. Horizon
  /\ quiet \in Nat

KeepInv == TypeOK /\ Phases /\ Waits /\ Pongs

USE DelayAssumption, TimeoutAssumption, RetryAssumption, PeriodAssumption,
    HorizonAssumption DEF LongestQuiet

----------------------------------------------------------------------------
LEMMA TypeParts == TypeOK <=> Flags /\ Values
BY Zenon DEF TypeOK, ClientTypeOK, Flags, Values

LEMMA KeepInit == Init => KeepInv
<1> SUFFICES ASSUME Init PROVE KeepInv
  OBVIOUS
<1> USE DEF Init, ClientInit
<1>1. TypeOK
  <2>1. Flags
    BY DEF Flags
  <2>2. Values
    BY DEF Values
  <2> QED BY <2>1, <2>2, TypeParts
<1>2. Phases
  BY DEF Phases
<1>3. Waits
  BY DEF Waits, ReconnectSoon
<1>4. Pongs
  BY DEF Pongs, PongOnTime, StampNotAhead
<1> QED BY <1>1, <1>2, <1>3, <1>4 DEF KeepInv

\* The delay stays within its limits.
LEMMA DelayInRange ==
  ASSUME NEW d \in 0 .. MaxDelay
  PROVE  NextDelay(d) \in 0 .. MaxDelay /\ NextDelay(d) >= 1
BY DEF NextDelay

\* When time passes every timer has some time left.
LEMMA TimersTick ==
  ASSUME timers \in Seq(0 .. MaxDelay), \A i \in DOMAIN timers : timers[i] > 0,
         NEW later, later = [i \in DOMAIN timers |-> timers[i] - 1]
  PROVE  later \in Seq(0 .. MaxDelay) /\ Len(later) = Len(timers)
<1>1. DOMAIN timers = 1 .. Len(timers) /\ Len(timers) \in Nat
  OBVIOUS
<1>2. \A i \in 1 .. Len(timers) : timers[i] \in 0 .. MaxDelay
  OBVIOUS
<1>3. \A i \in 1 .. Len(timers) : timers[i] - 1 \in 0 .. MaxDelay
  BY <1>1, <1>2
<1>4. later \in [1 .. Len(timers) -> 0 .. MaxDelay]
  BY <1>1, <1>3
<1> QED BY <1>1, <1>4

----------------------------------------------------------------------------
(* The steps.                                                              *)

LEMMA KeepFlags == ASSUME KeepInv, [Next]_vars PROVE Flags'
<1>0. Flags
  BY TypeParts DEF KeepInv
<1>1. CASE UNCHANGED tcpVars /\ (dangling' = FALSE \/ dangling' = dangling)
  BY <1>0, <1>1, Zenon DEF Flags, tcpVars, peer
<1>2. CASE UNCHANGED pingVars /\ (Start \/ on_connect \/ Environment)
  BY <1>0, <1>2, Zenon DEF Flags, pingVars, Start, open, FirstAttempt, startConnect,
     on_connect, Environment, GoesDown, ComesUp, Cut, peer
<1>3. CASE on_open \/ Close
  BY <1>0, <1>3, Zenon DEF Flags, on_open, Upgrade, Close, on_close, peer
<1>4. CASE Replace
  <2>1. (ping = "look") \in BOOLEAN
    OBVIOUS
  <2> QED BY <1>0, <1>4, <2>1, Zenon DEF Flags, Replace, Reconnect, startConnect
<1>5. CASE Tick
  BY <1>0, <1>5, Zenon DEF Flags, Tick, ClientTick, peer
<1>6. CASE on_message \/ PingThread \/ UNCHANGED vars
  <2>1. UNCHANGED tcpVars /\ (dangling' = FALSE \/ dangling' = dangling)
    BY <1>6, Zenon DEF on_message, PingThread, PingWake, RefreshEnds, PingTest, PingLook,
       PingSend, PingStamp, vars, pingVars
  <2> QED BY <1>1, <2>1
<1> QED BY <1>1, <1>2, <1>3, <1>4, <1>5, <1>6, Zenon
        DEF Next, LoopThread, Start, Environment

LEMMA KeepValues == ASSUME KeepInv, [Next]_vars PROVE Values'
<1> USE DEF Values
<1>0. Values /\ Phases /\ Pongs
  BY TypeParts DEF KeepInv
<1>1. CASE Start
  BY <1>0, <1>1 DEF Start, open, FirstAttempt, startConnect, pingVars, peer, reconn
<1>2. CASE on_connect /\ UNCHANGED pingVars
  BY <1>0, <1>2 DEF on_connect, pingVars
<1>3. CASE on_open
  BY <1>0, <1>3 DEF on_open, Upgrade, peer, reconn
<1>4. CASE Close
  <2>1. cur_delay' \in 0 .. MaxDelay
    BY <1>0, <1>4, DelayInRange DEF Close, on_close
  <2>2. timers' \in Seq(0 .. MaxDelay)
    BY <1>0, <1>4, <2>1 DEF Close, on_close
  <2>3. cur_retry_cnt' \in 0 .. RetryMax
    BY <1>0, <1>4 DEF Close, on_close, OneMore
  <2> QED BY <1>0, <1>4, <2>1, <2>2, <2>3 DEF Close, on_close, peer
<1>5. CASE Replace
  <2>1. timers' \in Seq(0 .. MaxDelay)
    BY <1>0, <1>5 DEF Replace, Reconnect
  <2> QED BY <1>0, <1>5, <2>1 DEF Replace, Reconnect, startConnect, reconn
<1>6. CASE on_message
  BY <1>0, <1>6 DEF on_message, tcpVars, peer, reconn
<1>7. CASE PingThread
  <2>1. UNCHANGED tcpVars
    BY <1>7 DEF PingThread, PingWake, RefreshEnds, PingTest, PingLook, PingSend, PingStamp
  <2> DEFINE Ok ==
        /\ left' \in Nat /\ nowAge' \in 0 .. Horizon /\ tsAge' \in 0 .. Horizon
        /\ quiet' \in Nat
        /\ ping' \in {"off", "sleep", "refresh", "test", "look", "send", "stamp"}
  <2>2. PingWake => Ok
    BY <1>0 DEF PingWake
  <2>3. RefreshEnds \/ PingTest => Ok
    BY <1>0 DEF RefreshEnds, PingTest
  <2>4. PingLook \/ PingSend \/ PingStamp => Ok
    BY <1>0 DEF PingLook, PingSend, PingStamp
  <2>5. Ok
    BY <1>7, <2>2, <2>3, <2>4 DEF PingThread
  <2> QED BY <1>0, <2>1, <2>5 DEF tcpVars, peer, reconn
<1>8. CASE Environment
  BY <1>0, <1>8 DEF Environment, GoesDown, ComesUp, Cut, pingVars, reconn
<1>9. CASE Tick
  <2>1. timers' \in Seq(0 .. MaxDelay)
    BY <1>0, <1>9, TimersTick DEF Tick, ClientTick
  <2>2. age' \in 0 .. ConnectTimeout /\ waited' \in Nat
    BY <1>0, <1>9 DEF Tick, ClientTick
  <2>3. left' \in Nat /\ nowAge' \in 0 .. Horizon /\ tsAge' \in 0 .. Horizon
        /\ quiet' \in Nat
    BY <1>0, <1>9 DEF Tick, Older
  <2> QED BY <1>0, <1>9, <2>1, <2>2, <2>3 DEF Tick, ClientTick, peer, reconn
<1>10. CASE UNCHANGED vars
  BY <1>0, <1>10 DEF vars, tcpVars, pingVars, peer, reconn
<1> QED BY <1>1, <1>2, <1>3, <1>4, <1>5, <1>6, <1>7, <1>8, <1>9, <1>10
        DEF Next, LoopThread

LEMMA KeepPhases == ASSUME KeepInv, [Next]_vars PROVE Phases'
<1> USE DEF Phases, InProgress
<1>0. /\ Phases
      /\ timers \in Seq(0 .. MaxDelay)
      /\ (~reachable \/ channel = "CONNECTED") => waited = 0
      /\ loop_thread \in {"off", "starting", "running", "stopped"}
  BY DEF KeepInv, TypeOK, ClientTypeOK, Waits
<1>1. CASE Start
  BY <1>0, <1>1 DEF Start, open, FirstAttempt, startConnect, peer, reconn
<1>2. CASE on_connect /\ UNCHANGED pingVars
  BY <1>0, <1>2 DEF on_connect
<1>3. CASE on_open
  BY <1>0, <1>3 DEF on_open, Upgrade
<1>4. CASE Close
  <2>1. timers = << >>
    BY <1>0, <1>4 DEF Close, on_close
  <2>2. Len(timers') = 1
    BY <1>4, <2>1 DEF Close, on_close
  <2> QED BY <1>0, <1>4, <2>2 DEF Close, on_close
<1>5. CASE Replace
  <2>1. channel = "CLOSED" /\ Len(timers) = 1 /\ failure = "none" /\ ~upgraded
    BY <1>0, <1>5 DEF Replace, Reconnect
  <2>2. timers' = << >>
    BY <1>0, <1>5, <2>1 DEF Replace, Reconnect
  <2> QED BY <1>0, <1>5, <2>1, <2>2 DEF Replace, Reconnect, startConnect
<1>6. CASE on_message
  BY <1>0, <1>6 DEF on_message, tcpVars
<1>7. CASE PingThread
  BY <1>0, <1>7 DEF PingThread, PingWake, RefreshEnds, PingTest, PingLook, PingSend,
                    PingStamp, tcpVars
<1>8. CASE Environment
  BY <1>0, <1>8 DEF Environment, GoesDown, ComesUp, Cut
<1>9. CASE Tick
  <2>1. Len(timers') = Len(timers) /\ timers' \in Seq(0 .. MaxDelay)
    BY <1>0, <1>9, TimersTick DEF Tick, ClientTick
  <2> QED BY <1>0, <1>9, <2>1 DEF Tick, ClientTick
<1>10. CASE UNCHANGED vars
  BY <1>0, <1>10 DEF vars, tcpVars
<1> QED BY <1>1, <1>2, <1>3, <1>4, <1>5, <1>6, <1>7, <1>8, <1>9, <1>10
        DEF Next, LoopThread

LEMMA KeepWaits == ASSUME KeepInv, [Next]_vars PROVE Waits'
<1> USE DEF Waits, ReconnectSoon
<1>0. /\ Waits /\ Phases
      /\ loop_thread \in {"off", "starting", "running", "stopped"}
      /\ reachable \in BOOLEAN /\ alive \in BOOLEAN
      /\ timers \in Seq(0 .. MaxDelay)
      /\ cur_delay \in 0 .. MaxDelay
      /\ age \in 0 .. ConnectTimeout
      /\ waited \in Nat
  BY DEF KeepInv, TypeOK, ClientTypeOK
<1>1. CASE Start
  BY <1>0, <1>1 DEF Start, open, FirstAttempt, startConnect, Phases, peer, reconn
<1>2. CASE on_connect /\ UNCHANGED pingVars
  BY <1>0, <1>2 DEF on_connect
<1>3. CASE on_open
  BY <1>0, <1>3 DEF on_open, Upgrade, peer
<1>4. CASE Close
  <2>1. timers = << >> /\ waited <= ConnectTimeout
    BY <1>0, <1>4 DEF Close, on_close, Phases, InProgress
  <2>2. timers'[1] \in 0 .. MaxDelay
    BY <1>0, <1>4, <2>1, DelayInRange DEF Close, on_close
  <2> QED BY <1>0, <1>4, <2>1, <2>2 DEF Close, on_close, peer
<1>5. CASE Replace
  <2>1. /\ channel = "CLOSED" /\ failure = "none"
        /\ waited <= ConnectTimeout + MaxDelay
    BY <1>0, <1>5 DEF Replace, Reconnect, Phases, InProgress
  <2> QED BY <1>0, <1>5, <2>1 DEF Replace, Reconnect, startConnect
<1>6. CASE on_message
  BY <1>0, <1>6 DEF on_message, tcpVars, peer
<1>7. CASE PingThread
  BY <1>0, <1>7 DEF PingThread, PingWake, RefreshEnds, PingTest, PingLook, PingSend,
                    PingStamp, tcpVars, peer
<1>8. CASE Environment
  <2>1. UNCHANGED <<channel, age, timers, failure>>
    BY <1>8 DEF Environment, GoesDown, ComesUp, Cut
  <2>2. CASE waited' = 0
    <3>1. channel = "CLOSED" /\ failure = "none" => timers[1] \in 0 .. MaxDelay
      BY <1>0 DEF Phases, InProgress
    <3> QED BY <1>0, <2>1, <2>2, <3>1
  <2>3. \/ waited' = 0
        \/ waited' = waited /\ reachable' = reachable /\ alive' = alive
        \/ channel = "CONNECTED" /\ waited' = waited /\ reachable' = reachable
    <3>1. CASE GoesDown
      BY <3>1 DEF GoesDown
    <3>2. CASE ComesUp
      BY <1>0, <3>2 DEF ComesUp
    <3>3. CASE Cut
      BY <3>3 DEF Cut
    <3> QED BY <1>8, <3>1, <3>2, <3>3 DEF Environment
  <2> QED BY <1>0, <2>1, <2>2, <2>3
<1>9. CASE Tick
  <2> USE <1>0, <1>9 DEF Tick, ClientTick, Waiting, peer
  <2>1. CASE channel = "CONNECTING"
    BY <2>1
  <2>2. CASE channel = "CLOSED" /\ failure = "none"
    <3>1. Len(timers) = 1
      BY <2>2 DEF Phases, InProgress
    <3>2. 1 \in DOMAIN timers
      BY <3>1
    <3>3. timers[1] \in 0 .. MaxDelay
      BY <3>2
    <3>4. timers'[1] = timers[1] - 1 /\ timers[1] > 0
      BY <3>2
    <3> QED BY <2>2, <3>3, <3>4
  <2>3. CASE channel # "CONNECTING" /\ ~(channel = "CLOSED" /\ failure = "none")
    BY <2>3 DEF Phases, InProgress
  <2> QED BY <2>1, <2>2, <2>3
<1>10. CASE UNCHANGED vars
  BY <1>0, <1>10 DEF vars, tcpVars, peer
<1> QED BY <1>1, <1>2, <1>3, <1>4, <1>5, <1>6, <1>7, <1>8, <1>9, <1>10
        DEF Next, LoopThread

LEMMA KeepPongs == ASSUME KeepInv, [Next]_vars PROVE Pongs'
<1> USE DEF Pongs, PongOnTime, StampNotAhead
<1>0. /\ Pongs
      /\ upgraded => loop_thread = "running" /\ channel = "CONNECTED"
      /\ ping \in {"off", "sleep", "refresh", "test", "look", "send", "stamp"}
      /\ left \in Nat /\ nowAge \in 0 .. Horizon /\ tsAge \in 0 .. Horizon
      /\ quiet \in Nat
      /\ dangling \in BOOLEAN /\ upgraded \in BOOLEAN
  BY DEF KeepInv, TypeOK, ClientTypeOK, Phases
<1>1. CASE Start \/ (on_connect /\ UNCHANGED pingVars) \/ Environment
  <2>1. UNCHANGED <<pingVars, upgraded>>
    BY <1>1 DEF Start, open, FirstAttempt, on_connect, Environment, GoesDown,
                ComesUp, Cut
  <2> QED BY <1>0, <2>1 DEF pingVars
<1>2. CASE on_open
  BY <1>0, <1>2 DEF on_open, Upgrade
<1>3. CASE Close
  BY <1>0, <1>3 DEF Close, on_close
<1>4. CASE Replace
  <2>1. ~upgraded
    <3>1. channel = "CLOSED"
      BY <1>4 DEF KeepInv, Phases, InProgress, Replace, Reconnect
    <3> QED BY <1>0, <3>1
  <2> QED BY <1>0, <1>4, <2>1 DEF Replace, Reconnect
<1>5. CASE on_message
  BY <1>0, <1>5 DEF on_message, tcpVars
<1>6. CASE PingWake
  BY <1>0, <1>6 DEF PingWake, tcpVars
<1>7. CASE RefreshEnds
  BY <1>0, <1>7 DEF RefreshEnds, tcpVars
<1>8. CASE PingTest
  BY <1>0, <1>8 DEF PingTest, tcpVars
<1>9. CASE PingLook
  BY <1>0, <1>9 DEF PingLook, tcpVars
<1>10. CASE PingSend
  BY <1>0, <1>10 DEF PingSend, tcpVars
<1>11. CASE PingStamp
  BY <1>0, <1>11 DEF PingStamp, tcpVars
<1>12. CASE Tick
  <2> USE <1>0, <1>12 DEF Tick, Older
  <2>0. UNCHANGED upgraded
    BY DEF ClientTick
  <2>1. CASE ping = "off"
    BY <2>0, <2>1
  <2>2. CASE ping = "sleep"
    BY <2>0, <2>2
  <2>3. CASE ping = "refresh"
    BY <2>0, <2>3
  <2> QED BY <2>1, <2>2, <2>3
<1>13. CASE UNCHANGED vars
  BY <1>0, <1>13 DEF vars, tcpVars, pingVars
<1> QED BY <1>1, <1>2, <1>3, <1>4, <1>5, <1>6, <1>7, <1>8, <1>9, <1>10, <1>11, <1>12,
           <1>13 DEF Next, LoopThread, PingThread

LEMMA KeepInvariant == Spec => []KeepInv
<1>0. Flags' /\ Values' => TypeOK'
  BY Zenon DEF TypeOK, ClientTypeOK, Flags, Values
<1>1. KeepInv /\ [Next]_vars => KeepInv'
  BY <1>0, KeepFlags, KeepValues, KeepPhases, KeepWaits, KeepPongs DEF KeepInv
<1> QED BY KeepInit, <1>1, PTL DEF Spec

----------------------------------------------------------------------------
\* Every state of the connection and of the ping thread has its type.
THEOREM TypeCorrect == Spec => []TypeOK
<1>1. KeepInv => TypeOK
  BY DEF KeepInv
<1> QED BY KeepInvariant, <1>1, PTL

\* There is always exactly one attempt, connection or timer, and after a timer
\* without a socket there is none (startReconnect, createsocket).
THEOREM AttemptsDoNotMultiply == Spec => []OneAttempt
<1>1. KeepInv => OneAttempt
  <2> SUFFICES ASSUME KeepInv, loop_thread = "running"
               PROVE  Len(timers) + (IF InProgress THEN 1 ELSE 0)
                        = IF failure = "none" THEN 1 ELSE 0
    BY DEF OneAttempt
  <2>1. CASE failure = "none" /\ InProgress /\ timers = << >>
    BY <2>1
  <2>2. CASE failure = "none" /\ ~InProgress /\ Len(timers) = 1
    BY <2>2
  <2>3. CASE failure # "none" /\ ~InProgress /\ timers = << >>
    BY <2>3
  <2> QED BY <2>1, <2>2, <2>3 DEF KeepInv, Phases, InProgress
<1> QED BY KeepInvariant, <1>1, PTL

\* A reachable exchange waits for at most two attempts and the longest delay
\* (reconn_setting_calc_delay, the connect timeout).
THEOREM ReconnectsSoon == Spec => []ReconnectSoon
<1>1. KeepInv => ReconnectSoon
  BY DEF KeepInv, Waits
<1> QED BY KeepInvariant, <1>1, PTL

\* An open websocket is without a pong for at most PingAfter, one sleep and two
\* refreshes (m_thread_ping, on_message).
THEOREM PongsAreOnTime == Spec => []PongOnTime
<1>1. KeepInv => PongOnTime
  BY DEF KeepInv, Pongs
<1> QED BY KeepInvariant, <1>1, PTL

\* m_pingpong_ts is not later than the last pong of the connection.
THEOREM StampsAreNotAhead == Spec => []StampNotAhead
<1>1. KeepInv => StampNotAhead
  BY DEF KeepInv, Pongs
<1> QED BY KeepInvariant, <1>1, PTL
----------------------------------------------------------------------------
(* The law of the delays.                                                  *)

\* The powers of two, which TcpClient defines by recursion.
LEMMA PowersOfTwo ==
  /\ \A n \in Nat : Pow2[n] \in Nat \ {0}
  /\ Pow2[0] = 1
  /\ \A n \in Nat : Pow2[n + 1] = 2 * Pow2[n]
<1> DEFINE Pos  == Nat \ {0}
           twice == [k \in Pos |-> 2 * k]
           Body(f) == [n \in Nat |-> IF n = 0 THEN 1 ELSE 2 * f[n - 1]]
<1>1. twice \in [Pos -> Pos] /\ 1 \in Pos
  OBVIOUS
<1>2. \A k \in Pos : twice[k] = 2 * k
  OBVIOUS
<1> HIDE DEF twice, Pos
<1>3. PICK f \in [Nat -> Pos] : f[0] = 1 /\ \A n \in Nat : f[n + 1] = twice[f[n]]
  BY <1>1, NatRecursion
<1>4. \A n \in Nat : f[n] = IF n = 0 THEN 1 ELSE 2 * f[n - 1]
  <2> SUFFICES ASSUME NEW n \in Nat, n # 0 PROVE f[n] = 2 * f[n - 1]
    BY <1>3
  <2>1. n - 1 \in Nat /\ (n - 1) + 1 = n
    OBVIOUS
  <2> QED BY <1>2, <1>3, <2>1
<1>5. f = Body(f)
  BY <1>3, <1>4
<1>6. Pow2 = CHOOSE g : g = Body(g)
  BY DEF Pow2
<1>7. Pow2 = Body(Pow2)
  <2> HIDE DEF Body
  <2> QED BY <1>5, <1>6
<1>8. \A n \in Nat : Pow2[n] = IF n = 0 THEN 1 ELSE 2 * Pow2[n - 1]
  BY <1>7
<1>9. \A n \in Nat : Pow2[n + 1] = 2 * Pow2[n]
  <2> SUFFICES ASSUME NEW n \in Nat PROVE Pow2[n + 1] = 2 * Pow2[n]
    OBVIOUS
  <2>1. n + 1 \in Nat /\ n + 1 # 0 /\ (n + 1) - 1 = n
    OBVIOUS
  <2> QED BY <1>8, <2>1
<1> DEFINE Good == {n \in Nat : Pow2[n] \in Nat \ {0}}
<1>10. 0 \in Good
  BY <1>8
<1>11. \A n \in Nat : n \in Good => n + 1 \in Good
  BY <1>9
<1> HIDE DEF Good
<1>12. Nat \subseteq Good
  BY <1>10, <1>11, NatSetInduction
<1> QED BY <1>8, <1>9, <1>12 DEF Good

LEMMA TwiceAProduct ==
  ASSUME NEW a \in Nat, NEW b \in Nat PROVE 2 * (a * b) = a * (2 * b)
OBVIOUS

\* The delay after one failure more: twice the delay, within the limits.
LEMMA LawDoubles ==
  ASSUME NEW n \in Nat
  PROVE  NextDelay(DelayAfter(n)) = DelayAfter(n + 1)
<1> DEFINE due == MinDelay * Pow2[n]
<1>1. due \in Nat /\ due >= MinDelay
  <2>1. Pow2[n] \in Nat /\ Pow2[n] >= 1
    BY PowersOfTwo
  <2>2. \A a, b \in Nat : b >= 1 => a * b \in Nat /\ a * b >= a
    OBVIOUS
  <2> QED BY <2>1, <2>2
<1>2. DelayAfter(n + 1) = IF due > MaxDelay THEN MaxDelay ELSE due
  <2>1. n + 1 # 0 /\ (n + 1) - 1 = n
    OBVIOUS
  <2> QED BY <2>1 DEF DelayAfter
<1>3. CASE n = 0
  <2>1. DelayAfter(n) = 0
    BY <1>3 DEF DelayAfter
  <2>2. due = MinDelay
    BY <1>3, PowersOfTwo
  <2> QED BY <1>2, <2>1, <2>2 DEF NextDelay
<1>4. CASE n # 0
  <2> DEFINE half == MinDelay * Pow2[n - 1]
  <2>1. n - 1 \in Nat /\ (n - 1) + 1 = n
    BY <1>4
  <2>2. Pow2[n - 1] \in Nat /\ Pow2[n] = 2 * Pow2[n - 1]
    BY <2>1, PowersOfTwo
  <2>3. half \in Nat
    <3>1. \A a, b \in Nat : a * b \in Nat
      OBVIOUS
    <3> QED BY <2>2, <3>1
  <2>4. due = 2 * half
    BY <2>2, TwiceAProduct
  <2>5. DelayAfter(n) = IF half > MaxDelay THEN MaxDelay ELSE half
    BY <1>4 DEF DelayAfter
  <2> HIDE DEF due, half
  <2> QED BY <1>1, <1>2, <2>3, <2>4, <2>5 DEF NextDelay
<1> QED BY <1>3, <1>4

\* From the bound of the counter on the delay is the longest.
LEMMA LawAtTheBound == DelayAfter(RetryMax) = MaxDelay
<1> DEFINE d == MinDelay * Pow2[RetryMax - 1]
<1>1. d >= MaxDelay /\ RetryMax # 0
  BY BackoffAssumption
<1>2. d \in Nat
  <2>1. RetryMax - 1 \in Nat
    OBVIOUS
  <2>2. Pow2[RetryMax - 1] \in Nat
    BY <2>1, PowersOfTwo
  <2>3. \A a, b \in Nat : a * b \in Nat
    OBVIOUS
  <2> QED BY <2>2, <2>3
<1>3. DelayAfter(RetryMax) = IF d > MaxDelay THEN MaxDelay ELSE d
  BY <1>1 DEF DelayAfter
<1> HIDE DEF d
<1> QED BY <1>1, <1>2, <1>3

\* One more failed attempt: on_close computes the delay and counts.
LEMMA LawAfterClose ==
  ASSUME cur_retry_cnt \in 0 .. RetryMax, BackoffLaw,
         cur_retry_cnt' = OneMore(cur_retry_cnt),
         cur_delay' = NextDelay(cur_delay)
  PROVE  BackoffLaw'
<1>1. cur_delay' = NextDelay(DelayAfter(cur_retry_cnt))
  BY DEF BackoffLaw
<1>2. CASE cur_retry_cnt < RetryMax
  <2>1. cur_retry_cnt' = cur_retry_cnt + 1
    BY <1>2 DEF OneMore
  <2>2. cur_delay' = DelayAfter(cur_retry_cnt + 1)
    BY <1>1, LawDoubles
  <2> QED BY <2>1, <2>2 DEF BackoffLaw, DelayAfter
<1>3. CASE cur_retry_cnt = RetryMax
  <2>1. cur_retry_cnt' = RetryMax
    BY <1>3 DEF OneMore
  <2>2. cur_delay' = MaxDelay
    BY <1>1, <1>3, LawAtTheBound DEF NextDelay
  <2>3. cur_delay' = DelayAfter(RetryMax)
    BY <2>2, LawAtTheBound
  <2> QED BY <2>1, <2>3 DEF BackoffLaw, DelayAfter
<1> QED BY <1>2, <1>3

LEMMA LawStep == ASSUME KeepInv, BackoffLaw, [Next]_vars PROVE BackoffLaw'
<1>0. cur_delay \in 0 .. MaxDelay /\ cur_retry_cnt \in 0 .. RetryMax
  BY DEF KeepInv, TypeOK, ClientTypeOK
<1>1. CASE Close
  BY <1>0, <1>1, LawAfterClose DEF Close, on_close
<1>2. CASE on_connect
  BY <1>2 DEF on_connect, BackoffLaw, DelayAfter
<1>3. CASE UNCHANGED reconn
  BY <1>3 DEF reconn, BackoffLaw, DelayAfter
<1>4. CASE Start \/ on_open \/ Replace \/ on_message
  <2>1. UNCHANGED reconn
    BY <1>4 DEF Start, open, FirstAttempt, on_open, Upgrade, Replace, Reconnect,
                on_message, tcpVars
  <2> QED BY <1>3, <2>1
<1>5. CASE PingThread \/ Environment \/ Tick
  <2>1. UNCHANGED reconn
    BY <1>5 DEF PingThread, PingWake, RefreshEnds, PingTest, PingLook, PingSend,
                PingStamp, Environment, GoesDown, ComesUp, Cut, Tick, ClientTick, tcpVars
  <2> QED BY <1>3, <2>1
<1>6. CASE UNCHANGED vars
  BY <1>3, <1>6 DEF vars, tcpVars
<1> QED BY <1>1, <1>2, <1>4, <1>5, <1>6 DEF Next, LoopThread

\* hloop.h: min_delay, twice that, four times that, ... up to max_delay and
\* max_delay from then on: the delay and the number of failures go together
\* (reconn_setting_calc_delay, reconn_setting_can_retry, on_connect).
THEOREM DelaysFollowTheLaw == Spec => []BackoffLaw
<1>1. Init => BackoffLaw
  BY DEF Init, ClientInit, BackoffLaw, DelayAfter
<1>2. KeepInv /\ BackoffLaw /\ [Next]_vars => BackoffLaw'
  BY LawStep
<1> QED BY KeepInvariant, <1>1, <1>2, PTL DEF Spec
==============================================================================
