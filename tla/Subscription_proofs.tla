------------------------ MODULE Subscription_proofs ------------------------
(***************************************************************************)
(* Theorems about Subscription: type correctness, requests that take       *)
(* effect as a whole, documents that suffice, and that everything          *)
(* configured is asked for once a connection is open.                      *)
(***************************************************************************)
EXTENDS Subscription, FiniteSetTheorems, TLAPS

\* The tables, entry by entry.
LEMMA Tables ==
  /\ DOMAIN Calls = {"depth", "trade", "unsubscribe", "subscribe"}
  /\ Calls["depth"] = [op |-> "subscribe", channel |-> "depth"]
  /\ Calls["trade"] = [op |-> "subscribe", channel |-> "trade"]
  /\ Calls["unsubscribe"] = [op |-> "unsubscribe", channel |-> "depth"]
  /\ Calls["subscribe"] = [op |-> "subscribe", channel |-> "depth"]
  /\ Goto["depth"] = "trade" /\ Goto["trade"] = "opened"
  /\ Goto["unsubscribe"] = "sleep" /\ Goto["subscribe"] = "reset"
  /\ Subinfo["depth"] = m_map_subinfo_depth
  /\ Subinfo["trade"] = m_map_subinfo_trade
BY DEF Calls, Goto, Subinfo

Calling == {"depth", "trade", "unsubscribe", "subscribe"}

LEMMA CallTypes ==
  /\ \A p \in Calling : /\ Calls[p] \in Call
                        /\ Calls[p].channel \in {"depth", "trade"}
                        /\ Calls[p].op \in {"subscribe", "unsubscribe"}
  /\ \A c \in Channel : /\ Subinfo[c] \subseteq m_map_subinfo_depth \cup m_map_subinfo_trade
                        /\ {c} \X Subinfo[c] \subseteq Everything
                        /\ IsFiniteSet(Subinfo[c])
                        /\ Cardinality(Subinfo[c]) \in Nat
                        /\ Cardinality(Subinfo[c]) < Docs * Batch
<1>1. \A p \in Calling : /\ Calls[p] \in Call
                         /\ Calls[p].channel \in {"depth", "trade"}
                         /\ Calls[p].op \in {"subscribe", "unsubscribe"}
  BY Tables DEF Calling, Call, Channel
<1>2. \A c \in Channel : /\ Subinfo[c] \subseteq m_map_subinfo_depth \cup m_map_subinfo_trade
                         /\ {c} \X Subinfo[c] \subseteq Everything
  BY Tables DEF Channel, Everything
<1>3. \A c \in Channel : /\ IsFiniteSet(Subinfo[c])
                         /\ Cardinality(Subinfo[c]) \in Nat
                         /\ Cardinality(Subinfo[c]) < Docs * Batch
  BY Tables, MapAssumption, DocsAssumption, FS_CardinalityType DEF Channel
<1> QED BY <1>1, <1>2, <1>3

----------------------------------------------------------------------------
(* Type correctness.                                                       *)

LEMMA TypeInit == Init => TypeOK
<1>1. 0 \in 0 .. MaxDrop /\ 0 \in 0 .. MaxTrouble
  BY DropAssumption
<1>2. ASSUME Init
      PROVE  /\ pc \in [Thread -> {"idle", "depth", "trade", "opened", "off",
                                  "poll", "unsubscribe", "sleep", "subscribe",
                                  "reset"}]
             /\ pc["loop"] = "idle" /\ pc["ping"] = "off"
  BY <1>2 DEF Init, Thread
<1>3. ASSUME Init
      PROVE  /\ \A a \in Thread : call[a] = None /\ m_cs_subscribe # a
             /\ call \in [Thread -> Call \cup {None}]
  BY <1>3, NoCallAssumption DEF Init
<1>4. ASSUME Init
      PROVE  /\ up \in BOOLEAN /\ asked \subseteq Everything
             /\ m_connect_status \in {-1, 0, 1, 2, 3}
             /\ c_needflash_depthfull \in {0, 1}
             /\ m_cs_subscribe \in Thread \cup {None}
             /\ todo \in [Thread -> SUBSET (m_map_subinfo_depth \cup m_map_subinfo_trade)]
             /\ index \in [Thread -> Nat]
             /\ whole \in [Thread -> BOOLEAN]
             /\ drops \in 0 .. MaxDrop
             /\ troubles \in 0 .. MaxTrouble
  BY <1>1, <1>4 DEF Init
<1> QED BY <1>2, <1>3, <1>4 DEF TypeOK

\* What Ask leaves in asked is configured.
LEMMA AskType ==
  ASSUME TypeOK, NEW a \in Thread, call[a] # None,
         NEW insts \in SUBSET todo[a], Ask(a, insts)
  PROVE  asked' \subseteq Everything
<1>1. pc[a] \in Calling /\ call[a] = Calls[pc[a]]
      /\ todo[a] \subseteq Subinfo[call[a].channel]
  BY Tables DEF TypeOK, Calling
<1>2. call[a].channel \in Channel
  BY <1>1, CallTypes DEF Channel
<1>3. {call[a].channel} \X insts \subseteq Everything
  BY <1>1, <1>2, CallTypes
<1> QED BY <1>3 DEF Ask, TypeOK

\* The critical section is entered and left in pairs.
LEMMA CallStep ==
  ASSUME TypeOK, NEW a \in Thread, cf_sub_unsub_all(a)
  PROVE  TypeOK'
<1> USE NoCallAssumption
<1>1. CASE Enter(a)
  <2>1. pc[a] \in Calling /\ Calls[pc[a]] \in Call /\ Calls[pc[a]] # None
    BY <1>1, Tables, CallTypes DEF Enter, Calling
  <2>2. Calls[pc[a]].channel \in Channel
    BY <2>1, CallTypes DEF Channel
  <2>3. Subinfo[Calls[pc[a]].channel] \subseteq m_map_subinfo_depth \cup m_map_subinfo_trade
    BY <2>2, CallTypes
  <2>4. /\ call' = [call EXCEPT ![a] = Calls[pc[a]]]
        /\ todo' = [todo EXCEPT ![a] = Subinfo[Calls[pc[a]].channel]]
        /\ call' \in [Thread -> Call \cup {None}]
        /\ todo' \in [Thread -> SUBSET (m_map_subinfo_depth \cup m_map_subinfo_trade)]
    BY <1>1, <2>1, <2>3 DEF Enter, TypeOK
  <2>5. a # None /\ \A b \in Thread : b # a => call[b] = None
    BY <1>1 DEF Enter, TypeOK
  <2>6. \A b \in Thread : /\ (call'[b] # None) = (m_cs_subscribe' = b)
                          /\ call'[b] # None =>
                               /\ pc'[b] \in DOMAIN Calls
                               /\ call'[b] = Calls[pc'[b]]
                               /\ todo'[b] \subseteq Subinfo[call'[b].channel]
    <3> TAKE b \in Thread
    <3>1. CASE b = a
      BY <1>1, <2>1, <2>4, <3>1 DEF Enter, TypeOK
    <3>2. CASE b # a
      BY <1>1, <2>4, <2>5, <3>2 DEF Enter, TypeOK
    <3> QED BY <3>1, <3>2
  <2>7. /\ index' \in [Thread -> Nat]
        /\ whole' \in [Thread -> BOOLEAN]
        /\ m_cs_subscribe' \in Thread \cup {None}
    BY <1>1 DEF Enter, TypeOK
  <2> QED BY <1>1, <2>4, <2>6, <2>7 DEF Enter, TypeOK
<1>2. ASSUME NEW insts \in SUBSET todo[a], call[a] # None, Ask(a, insts),
             todo' = [todo EXCEPT ![a] = @ \ insts],
             index' \in [Thread -> Nat],
             UNCHANGED <<up, m_connect_status, c_needflash_depthfull,
                         m_cs_subscribe, pc, call, whole, drops, troubles>>
      PROVE  TypeOK'
  <2>1. asked' \subseteq Everything
    BY <1>2, AskType
  <2>2. todo' \in [Thread -> SUBSET (m_map_subinfo_depth \cup m_map_subinfo_trade)]
    BY <1>2 DEF TypeOK
  <2>3. \A b \in Thread : todo'[b] \subseteq todo[b]
    BY <1>2 DEF TypeOK
  <2> QED BY <1>2, <2>1, <2>2, <2>3 DEF TypeOK
<1>3. CASE SendBatch(a)
  <2>1. PICK insts \in SUBSET todo[a] : /\ Ask(a, insts)
                                       /\ todo' = [todo EXCEPT ![a] = @ \ insts]
    BY <1>3 DEF SendBatch
  <2>2. index' \in [Thread -> Nat]
    BY <1>3 DEF SendBatch, TypeOK
  <2> QED BY <1>2, <1>3, <2>1, <2>2 DEF SendBatch
<1>4. CASE SendRest(a)
  <2>1. todo[a] \ todo[a] = {}
    OBVIOUS
  <2>2. todo' = [todo EXCEPT ![a] = @ \ todo[a]]
    BY <1>4, <2>1 DEF SendRest, TypeOK
  <2>3. index' \in [Thread -> Nat]
    BY <1>4 DEF SendRest, TypeOK
  <2> QED BY <1>2, <1>4, <2>2, <2>3 DEF SendRest
<1>5. CASE Leave(a)
  <2>1. pc[a] \in Calling
    BY <1>5, Tables DEF Leave, TypeOK, Calling
  <2>2. pc' = [pc EXCEPT ![a] = Goto[pc[a]]] /\ call' = [call EXCEPT ![a] = None]
    BY <1>5 DEF Leave
  <2>3. a = "loop" \/ a = "ping"
    BY DEF Thread
  <2>4. /\ pc' \in [Thread -> {"idle", "depth", "trade", "opened", "off", "poll",
                               "unsubscribe", "sleep", "subscribe", "reset"}]
        /\ pc'["loop"] \in {"idle", "depth", "trade", "opened"}
        /\ pc'["ping"] \in {"off", "poll", "unsubscribe", "sleep", "subscribe",
                            "reset"}
    BY <2>1, <2>2, <2>3, Tables DEF TypeOK, Thread, Calling
  <2>5. \A b \in Thread : b # a => call[b] = None
    BY <1>5 DEF Leave, TypeOK
  <2>6. \A b \in Thread : call'[b] = None /\ b # None
    BY <2>2, <2>5 DEF TypeOK
  <2>7. call' \in [Thread -> Call \cup {None}]
    BY <2>2 DEF TypeOK
  <2> QED BY <1>5, <2>4, <2>6, <2>7 DEF Leave, TypeOK
<1> QED BY <1>1, <1>3, <1>4, <1>5 DEF cf_sub_unsub_all

\* Outside a call, the points a thread passes are its own.
LEMMA TypeStep == ASSUME TypeOK, [Next]_vars PROVE TypeOK'
<1> USE NoCallAssumption
<1> DEFINE Points == {"idle", "depth", "trade", "opened", "off", "poll",
                      "unsubscribe", "sleep", "subscribe", "reset"}
<1>0. "loop" \in Thread /\ "ping" \in Thread
  BY DEF Thread
<1>1. CASE UNCHANGED vars
  BY <1>1 DEF TypeOK, vars
\* A step that moves threads which are not in a call.
<1>2. ASSUME UNCHANGED lockVars, asked' \subseteq Everything, up' \in BOOLEAN,
             m_connect_status' \in {-1, 0, 1, 2, 3},
             c_needflash_depthfull' \in {0, 1},
             whole' \in [Thread -> BOOLEAN],
             drops' \in 0 .. MaxDrop, troubles' \in 0 .. MaxTrouble,
             pc' \in [Thread -> Points],
             pc'["loop"] \in {"idle", "depth", "trade", "opened"},
             pc'["ping"] \in {"off", "poll", "unsubscribe", "sleep",
                              "subscribe", "reset"},
             \A b \in Thread : call[b] # None => pc'[b] = pc[b]
      PROVE  TypeOK'
  BY <1>2 DEF TypeOK, lockVars
<1>3. pc \in [Thread -> Points]
      /\ \A b \in Thread : call[b] # None => pc[b] \in Calling
  BY Tables DEF TypeOK, Calling
<1>4. CASE on_open
  <2>1. pc' = [pc EXCEPT !["loop"] = "depth"] /\ pc["loop"] \notin Calling
    BY <1>4 DEF on_open, Calling
  <2> QED BY <1>0, <1>2, <1>3, <1>4, <2>1 DEF on_open, TypeOK, Thread
<1>5. CASE on_open_return
  <2>1. /\ pc["loop"] \notin Calling
        /\ pc' = [pc EXCEPT !["loop"] = "idle",
                            !["ping"] = IF pc["ping"] = "off" THEN "poll"
                                        ELSE pc["ping"]]
    BY <1>5, <1>3 DEF on_open_return, Calling, Thread
  <2>2. pc["ping"] = "off" => call["ping"] = None
    BY <1>0, <1>3 DEF Calling
  <2> QED BY <1>0, <1>2, <1>3, <1>5, <2>1, <2>2
          DEF on_open_return, TypeOK, Thread
<1>6. CASE on_close
  BY <1>2, <1>3, <1>6 DEF on_close, TypeOK
<1>7. CASE on_message
  BY <1>2, <1>3, <1>7, DropAssumption DEF on_message, TypeOK
<1>8. CASE PingPoll \/ PingWake \/ PingReset
  <2>1. pc["ping"] \notin Calling
    BY <1>8 DEF PingPoll, PingWake, PingReset, Calling
  <2>2. \E p \in {"unsubscribe", "subscribe", "poll"} :
          pc' = [pc EXCEPT !["ping"] = p]
    BY <1>8 DEF PingPoll, PingWake, PingReset
  <2>3. /\ UNCHANGED <<up, asked, m_connect_status, lockVars, whole, drops, troubles>>
        /\ c_needflash_depthfull' \in {0, 1}
    BY <1>8 DEF PingPoll, PingWake, PingReset, TypeOK
  <2> QED BY <1>0, <1>2, <1>3, <2>1, <2>2, <2>3 DEF TypeOK, Thread
<1>9. CASE Drop
  <2>1. /\ UNCHANGED lockVars /\ asked' \subseteq Everything /\ up' \in BOOLEAN
        /\ pc' = pc
        /\ UNCHANGED <<m_connect_status, c_needflash_depthfull, troubles>>
    BY <1>9 DEF Drop
  <2>2. drops' \in 0 .. MaxDrop
    BY <1>9, DropAssumption DEF Drop, TypeOK
  <2>3. whole' \in [Thread -> BOOLEAN]
    BY <1>9 DEF Drop
  <2> QED BY <1>2, <2>1, <2>2, <2>3 DEF TypeOK
<1>10. ASSUME NEW a \in Thread, cf_sub_unsub_all(a) PROVE TypeOK'
  BY <1>10, CallStep
<1> QED BY <1>0, <1>1, <1>4, <1>5, <1>6, <1>7, <1>8, <1>9, <1>10
        DEF Next, LoopStep, PingStep

\* Subscription is type correct; in particular m_cs_subscribe is held by the
\* thread that is in cf_sub_unsub_all, and by no other.
THEOREM TypeCorrect == Spec => []TypeOK
<1>1. TypeOK /\ [Next]_vars => TypeOK'
  BY TypeStep
<1> QED BY TypeInit, <1>1, PTL DEF Spec

----------------------------------------------------------------------------
(* What a call has done so far.                                            *)

\* The documents a call has completed and what it has left to send make up no
\* more than the map it walks.
DocInv ==
  \A a \in Thread : call[a] # None =>
    index[a] * Batch + Cardinality(todo[a]) <= Cardinality(Subinfo[call[a].channel])

\* A call is not whole once the connection it began on is gone.
WholeInv == \A a \in Thread : whole[a] => up

CallInv == TypeOK /\ CallsAreWhole /\ DocInv /\ WholeInv

\* Where thread a stands inside a call.
LEMMA InCall ==
  ASSUME TypeOK, NEW a \in Thread, call[a] # None
  PROVE  /\ pc[a] \in Calling
         /\ call[a] = Calls[pc[a]]
         /\ call[a].channel \in Channel
         /\ call[a].op \in {"subscribe", "unsubscribe"}
         /\ todo[a] \subseteq Subinfo[call[a].channel]
         /\ IsFiniteSet(todo[a]) /\ Cardinality(todo[a]) \in Nat
         /\ \A b \in Thread : b # a => call[b] = None
<1>1. /\ pc[a] \in Calling
      /\ call[a] = Calls[pc[a]]
      /\ todo[a] \subseteq Subinfo[call[a].channel]
      /\ \A b \in Thread : b # a => call[b] = None
  BY Tables DEF TypeOK, Calling
<1>2. call[a].channel \in Channel /\ call[a].op \in {"subscribe", "unsubscribe"}
  BY <1>1, CallTypes DEF Channel
<1>3. IsFiniteSet(todo[a]) /\ Cardinality(todo[a]) \in Nat
  BY <1>1, <1>2, CallTypes, FS_Subset, FS_CardinalityType
<1> QED BY <1>1, <1>2, <1>3

\* A request of the thread that holds the lock: its instruments are worked off.
LEMMA SendStep ==
  ASSUME CallInv, TypeOK', NEW a \in Thread, call[a] # None,
         NEW insts \in SUBSET todo[a], Ask(a, insts),
         todo' = [todo EXCEPT ![a] = @ \ insts],
         \/ Cardinality(insts) = Batch /\ index' = [index EXCEPT ![a] = @ + 1]
         \/ index' = index,
         UNCHANGED <<up, call, whole>>
  PROVE  CallInv'
<1> DEFINE c == call[a].channel
<1>1. /\ c \in Channel /\ call[a].op \in {"subscribe", "unsubscribe"}
      /\ todo[a] \subseteq Subinfo[c]
      /\ IsFiniteSet(todo[a]) /\ Cardinality(todo[a]) \in Nat
      /\ \A b \in Thread : b # a => call[b] = None
  BY InCall DEF CallInv
<1>2. todo'[a] = todo[a] \ insts
  BY DEF CallInv, TypeOK
<1>3. CallsAreWhole'
  <2>1. SUFFICES ASSUME whole[a], NEW i \in Subinfo[c], i \notin todo'[a]
                 PROVE  (<<c, i>> \in asked') <=> (call[a].op = "subscribe")
    BY <1>1 DEF CallsAreWhole
  <2>2. CASE i \in insts
    <3>1. CASE up
      BY <2>2, <3>1, <1>1 DEF Ask
    <3>2. CASE ~up
      BY <2>1, <3>2 DEF CallInv, WholeInv
    <3> QED BY <3>1, <3>2 DEF CallInv, TypeOK
  <2>3. CASE i \notin insts
    <3>1. (<<c, i>> \in asked) <=> (call[a].op = "subscribe")
      BY <1>2, <2>1, <2>3 DEF CallInv, CallsAreWhole
    <3>2. (<<c, i>> \in asked') <=> (<<c, i>> \in asked)
      BY <2>3 DEF Ask
    <3> QED BY <3>1, <3>2
  <2> QED BY <2>2, <2>3
<1>4. DocInv'
  <2>1. SUFFICES index'[a] * Batch + Cardinality(todo'[a]) <= Cardinality(Subinfo[c])
    BY <1>1 DEF DocInv
  <2>2. IsFiniteSet(insts) /\ Cardinality(insts) \in Nat
    BY <1>1, FS_Subset, FS_CardinalityType
  <2>3. Cardinality(todo'[a]) = Cardinality(todo[a]) - Cardinality(insts)
    <3>1. todo[a] \cap insts = insts
      OBVIOUS
    <3> QED BY <1>1, <1>2, <3>1, FS_Difference
  <2>4. /\ index[a] \in Nat /\ Batch \in Nat
        /\ Cardinality(Subinfo[c]) \in Nat
        /\ index[a] * Batch + Cardinality(todo[a]) <= Cardinality(Subinfo[c])
    BY <1>1, BatchAssumption, CallTypes DEF CallInv, TypeOK, DocInv
  <2>5. CASE Cardinality(insts) = Batch /\ index' = [index EXCEPT ![a] = @ + 1]
    <3>1. index'[a] = index[a] + 1
      BY <2>5 DEF CallInv, TypeOK
    <3>2. (index[a] + 1) * Batch = index[a] * Batch + Batch
      BY <2>4
    <3> QED BY <1>1, <2>3, <2>4, <2>5, <3>1, <3>2
  <2>6. CASE index' = index
    BY <1>1, <2>2, <2>3, <2>4, <2>6
  <2> QED BY <2>5, <2>6
<1> QED BY <1>3, <1>4 DEF CallInv, WholeInv

\* SendBatch and SendRest are such requests.
LEMMA Sends ==
  ASSUME TypeOK, NEW a \in Thread, SendBatch(a) \/ SendRest(a)
  PROVE  \E insts \in SUBSET todo[a] :
           /\ Ask(a, insts)
           /\ todo' = [todo EXCEPT ![a] = @ \ insts]
           /\ \/ Cardinality(insts) = Batch /\ index' = [index EXCEPT ![a] = @ + 1]
              \/ index' = index
           /\ call[a] # None
           /\ UNCHANGED <<up, m_connect_status, c_needflash_depthfull,
                          m_cs_subscribe, pc, call, whole, drops, troubles>>
<1>1. CASE SendBatch(a)
  BY <1>1 DEF SendBatch
<1>2. CASE SendRest(a)
  <2>1. todo[a] \ todo[a] = {}
    OBVIOUS
  <2>2. todo' = [todo EXCEPT ![a] = @ \ todo[a]]
    BY <1>2, <2>1 DEF SendRest, TypeOK
  <2> QED BY <1>2, <2>2 DEF SendRest
<1> QED BY <1>1, <1>2

LEMMA CallInvStep == ASSUME CallInv, [Next]_vars PROVE CallInv'
<1>0. TypeOK'
  BY TypeStep DEF CallInv
<1>1. ASSUME UNCHANGED lockVars,
             \/ UNCHANGED <<asked, whole>> /\ (up => up')
             \/ whole' = [a \in Thread |-> FALSE]
      PROVE  CallInv'
  <2>1. CallsAreWhole'
    BY <1>1 DEF CallInv, CallsAreWhole, lockVars
  <2>2. DocInv'
    BY <1>1 DEF CallInv, DocInv, lockVars
  <2>3. WholeInv'
    BY <1>1 DEF CallInv, WholeInv
  <2> QED BY <1>0, <2>1, <2>2, <2>3 DEF CallInv
<1>2. CASE UNCHANGED vars
  BY <1>1, <1>2 DEF vars, lockVars
<1>3. CASE \/ on_open \/ on_message \/ on_open_return \/ on_close
           \/ PingPoll \/ PingWake \/ PingReset
  BY <1>1, <1>3 DEF on_open, on_message, on_open_return, on_close, PingPoll,
                    PingWake, PingReset
<1>4. CASE Drop
  BY <1>1, <1>4 DEF Drop
<1>5. ASSUME NEW a \in Thread, cf_sub_unsub_all(a) PROVE CallInv'
  <2>1. CASE Enter(a)
    <3> DEFINE c == Calls[pc[a]].channel
    <3>1. c \in Channel
      BY <2>1, Tables, CallTypes DEF Enter, Calling, Channel
    <3>2. /\ call'[a] = Calls[pc[a]]
          /\ todo'[a] = Subinfo[c]
          /\ index'[a] = 0
          /\ \A b \in Thread : b # a => call'[b] = None
      BY <2>1, NoCallAssumption DEF Enter, CallInv, TypeOK
    <3>3. CallsAreWhole'
      BY <3>2 DEF CallsAreWhole
    <3>4. 0 * Batch + Cardinality(Subinfo[c]) <= Cardinality(Subinfo[c])
      BY <3>1, CallTypes, BatchAssumption
    <3>5. DocInv'
      BY <3>2, <3>4 DEF DocInv
    <3>6. WholeInv'
      BY <2>1 DEF Enter, CallInv, TypeOK, WholeInv
    <3> QED BY <1>0, <3>3, <3>5, <3>6 DEF CallInv
  <2>2. CASE SendBatch(a) \/ SendRest(a)
    BY <1>0, <2>2, Sends, SendStep DEF CallInv
  <2>3. CASE Leave(a)
    <3>1. \A b \in Thread : call'[b] = None
      BY <2>3 DEF Leave, CallInv, TypeOK
    <3>2. WholeInv'
      BY <2>3 DEF Leave, CallInv, WholeInv
    <3> QED BY <1>0, <3>1, <3>2 DEF CallInv, CallsAreWhole, DocInv
  <2> QED BY <1>5, <2>1, <2>2, <2>3 DEF cf_sub_unsub_all
<1> QED BY <1>2, <1>3, <1>4, <1>5 DEF Next, LoopStep, PingStep, Thread

\* A call that keeps its connection takes effect as a whole, for any number of
\* instruments and any size of a batch.
THEOREM CallsTakeEffect == Spec => []CallsAreWhole
<1>1. Init => CallInv
  <2>1. Init => \A a \in Thread : call[a] = None /\ ~whole[a]
    BY DEF Init
  <2> QED BY <2>1, TypeInit DEF CallInv, CallsAreWhole, DocInv, WholeInv
<1>2. CallInv /\ [Next]_vars => CallInv'
  BY CallInvStep
<1>3. CallInv => CallsAreWhole
  BY DEF CallInv
<1> QED BY <1>1, <1>2, <1>3, PTL DEF Spec

\* With fewer than Docs * Batch instruments in each map, cf_sub_unsub_all stays
\* inside its array of documents; doc[index] is touched after a full batch even
\* when nothing is left, so Docs * Batch of them would be one too many.
THEOREM DocumentsSuffice == Spec => []DocsSuffice
<1>1. Init => CallInv
  <2>1. Init => \A a \in Thread : call[a] = None /\ ~whole[a]
    BY DEF Init
  <2> QED BY <2>1, TypeInit DEF CallInv, CallsAreWhole, DocInv, WholeInv
<1>2. CallInv /\ [Next]_vars => CallInv'
  BY CallInvStep
<1>3. CallInv => DocsSuffice
  <2>1. SUFFICES ASSUME CallInv, NEW a \in Thread, call[a] # None
                 PROVE  index[a] < Docs
    BY DEF DocsSuffice
  <2> DEFINE size == Cardinality(Subinfo[call[a].channel])
  <2>2. /\ call[a].channel \in Channel
        /\ Cardinality(todo[a]) \in Nat
    BY <2>1, InCall DEF CallInv
  <2>3. size \in Nat /\ size < Docs * Batch
    BY <2>2, CallTypes
  <2>4. index[a] * Batch + Cardinality(todo[a]) <= size
    BY <2>1 DEF CallInv, DocInv
  <2>5. index[a] \in Nat /\ Docs \in Nat /\ Batch \in Nat /\ Batch > 0
    BY <2>1, BatchAssumption DEF CallInv, TypeOK
  <2> HIDE DEF size
  <2>6. index[a] * Batch \in Nat /\ Docs * Batch \in Nat
    BY <2>5
  <2>7. index[a] * Batch < Docs * Batch
    BY <2>2, <2>3, <2>4, <2>6
  <2>8. index[a] >= Docs => index[a] * Batch >= Docs * Batch
    BY <2>5
  <2> QED BY <2>5, <2>6, <2>7, <2>8
<1> QED BY <1>1, <1>2, <1>3, PTL DEF Spec

----------------------------------------------------------------------------
(* What is asked for.                                                      *)

DepthAsked(missing) == {"depth"} \X (m_map_subinfo_depth \ missing) \subseteq asked
TradeAsked(missing) == {"trade"} \X (m_map_subinfo_trade \ missing) \subseteq asked

\* The loop thread has subscribed to the depth channel on this connection.
Past == pc["loop"] \in {"trade", "opened", "idle"}

\* Each call keeps what it is for: after the loop thread's subscription the
\* depth channel is complete but for a refresh of the ping thread in between,
\* and that refresh makes it complete again.
AskedInv ==
  /\ (pc["loop"] # "idle") = (m_connect_status = 1)
  /\ up =>
       /\ pc["loop"] = "idle" => m_connect_status \in {2, 3}
       /\ Past /\ pc["ping"] \in {"off", "poll", "reset"} => DepthAsked({})
       /\ Past /\ pc["ping"] = "subscribe" /\ call["ping"] # None
            => DepthAsked(todo["ping"])
       /\ pc["loop"] = "depth" /\ call["loop"] # None => DepthAsked(todo["loop"])
       /\ pc["loop"] = "trade" /\ call["loop"] # None => TradeAsked(todo["loop"])
       /\ pc["loop"] \in {"opened", "idle"} => TradeAsked({})

\* A request while the connection is up.
LEMMA AskedSend ==
  ASSUME TypeOK, AskedInv, NEW a \in Thread, call[a] # None,
         NEW insts \in SUBSET todo[a], Ask(a, insts),
         todo' = [todo EXCEPT ![a] = @ \ insts],
         UNCHANGED <<up, m_connect_status, pc, call>>
  PROVE  AskedInv'
<1>1. SUFFICES ASSUME up PROVE AskedInv'
  BY DEF AskedInv
<1>2. a = "loop" \/ a = "ping"
  BY DEF Thread
<1>3. /\ pc[a] \in Calling /\ call[a] = Calls[pc[a]]
      /\ \A b \in Thread : b # a => call[b] = None
  BY InCall
<1>4. todo'[a] = todo[a] \ insts /\ \A b \in Thread : b # a => todo'[b] = todo[b]
  BY DEF TypeOK
<1>5. "loop" \in Thread /\ "ping" \in Thread /\ "loop" # "ping"
  BY DEF Thread
<1>6. CASE a = "loop"
  <2>1. pc["loop"] \in {"depth", "trade"} /\ call["ping"] = None
    BY <1>3, <1>5, <1>6 DEF TypeOK, Calling
  <2>2. CASE pc["loop"] = "depth"
    <3>1. asked' = asked \cup ({"depth"} \X insts)
      BY <1>1, <1>3, <1>6, <2>2, Tables DEF Ask
    <3>2. DepthAsked(todo["loop"])
      BY <1>1, <1>6, <2>2 DEF AskedInv
    <3>3. DepthAsked(todo["loop"])'
      BY <1>4, <1>6, <3>1, <3>2 DEF DepthAsked
    <3>4. ~Past
      BY <2>2 DEF Past
    <3> QED BY <2>2, <3>3, <3>4 DEF AskedInv, Past
  <2>3. CASE pc["loop"] = "trade"
    <3>1. asked' = asked \cup ({"trade"} \X insts)
      BY <1>1, <1>3, <1>6, <2>3, Tables DEF Ask
    <3>2. TradeAsked(todo["loop"])
      BY <1>1, <1>6, <2>3 DEF AskedInv
    <3>3. TradeAsked(todo["loop"])'
      BY <1>4, <1>6, <3>1, <3>2 DEF TradeAsked
    <3>4. Past /\ pc["ping"] \in {"off", "poll", "reset"} => DepthAsked({})'
      BY <1>1, <3>1 DEF AskedInv, DepthAsked
    <3> QED BY <2>1, <2>3, <3>3, <3>4 DEF AskedInv, Past
  <2> QED BY <2>1, <2>2, <2>3
<1>7. CASE a = "ping"
  <2>1. pc["ping"] \in {"unsubscribe", "subscribe"} /\ call["loop"] = None
    BY <1>3, <1>5, <1>7 DEF TypeOK, Calling
  <2>2. CASE pc["ping"] = "unsubscribe"
    <3>1. asked' = asked \ ({"depth"} \X insts)
      BY <1>1, <1>3, <1>7, <2>2, Tables DEF Ask
    <3>2. pc["loop"] \in {"opened", "idle"} => TradeAsked({})'
      BY <1>1, <3>1 DEF AskedInv, TradeAsked
    <3> QED BY <1>1, <2>1, <2>2, <3>2 DEF AskedInv, Past
  <2>3. CASE pc["ping"] = "subscribe"
    <3>1. asked' = asked \cup ({"depth"} \X insts)
      BY <1>1, <1>3, <1>7, <2>3, Tables DEF Ask
    <3>2. Past => DepthAsked(todo["ping"])
      BY <1>1, <1>7, <2>3 DEF AskedInv
    <3>3. Past => DepthAsked(todo["ping"])'
      BY <1>4, <1>7, <3>1, <3>2 DEF DepthAsked
    <3>4. pc["loop"] \in {"opened", "idle"} => TradeAsked({})'
      BY <1>1, <3>1 DEF AskedInv, TradeAsked
    <3> QED BY <1>1, <2>1, <2>3, <3>3, <3>4 DEF AskedInv, Past
  <2> QED BY <2>1, <2>2, <2>3
<1> QED BY <1>2, <1>6, <1>7

LEMMA AskedStep == ASSUME TypeOK, AskedInv, [Next]_vars PROVE AskedInv'
<1> USE NoCallAssumption DEF DepthAsked, TradeAsked
<1>0. "loop" \in Thread /\ "ping" \in Thread /\ "loop" # "ping"
  BY DEF Thread
<1>1. CASE UNCHANGED vars
  BY <1>1 DEF AskedInv, Past, vars
<1>2. CASE on_open
  <2>1. /\ pc'["loop"] = "depth" /\ m_connect_status' = 1
        /\ call'["loop"] = None
    BY <1>0, <1>2, InCall, Tables DEF on_open, lockVars, TypeOK, Calling
  <2> QED BY <2>1 DEF AskedInv, Past
<1>3. CASE on_open_return
  <2>1. /\ pc["loop"] = "opened" /\ pc'["loop"] = "idle"
        /\ pc'["ping"] = IF pc["ping"] = "off" THEN "poll" ELSE pc["ping"]
        /\ m_connect_status' = 2
        /\ UNCHANGED <<up, asked, call, todo>>
    BY <1>0, <1>3 DEF on_open_return, TypeOK, lockVars
  <2> QED BY <2>1 DEF AskedInv, Past
<1>4. CASE on_close
  BY <1>4 DEF on_close, AskedInv, Past
<1>5. CASE on_message
  BY <1>5 DEF on_message, AskedInv, Past, lockVars
<1>6. CASE PingPoll \/ PingWake
  <2>1. /\ pc'["loop"] = pc["loop"]
        /\ pc'["ping"] \in {"unsubscribe", "subscribe"}
        /\ pc["ping"] \in {"poll", "sleep"}
        /\ UNCHANGED <<up, asked, m_connect_status, call, todo>>
    BY <1>0, <1>6 DEF PingPoll, PingWake, TypeOK, lockVars
  <2>2. call["ping"] = None
    BY <1>0, <2>1, InCall DEF Calling
  <2> QED BY <2>1, <2>2 DEF AskedInv, Past
<1>7. CASE PingReset
  <2>1. /\ pc'["loop"] = pc["loop"]
        /\ pc["ping"] = "reset" /\ pc'["ping"] = "poll"
        /\ UNCHANGED <<up, asked, m_connect_status, call, todo>>
    BY <1>0, <1>7 DEF PingReset, TypeOK, lockVars
  <2> QED BY <2>1 DEF AskedInv, Past
<1>8. CASE Drop
  BY <1>8 DEF Drop, AskedInv
<1>9. ASSUME NEW a \in Thread, Enter(a) PROVE AskedInv'
  <2>1. /\ pc[a] \in Calling
        /\ todo'[a] = Subinfo[Calls[pc[a]].channel]
        /\ call[a] = None /\ call'[a] = Calls[pc[a]]
        /\ \A b \in Thread : b # a => call'[b] = call[b] /\ todo'[b] = todo[b]
        /\ UNCHANGED <<up, asked, m_connect_status, pc>>
    BY <1>9, Tables DEF Enter, TypeOK, Calling
  <2>2. CASE a = "loop"
    <3>1. pc["loop"] = "depth" => todo'["loop"] = m_map_subinfo_depth
      BY <2>1, <2>2, Tables
    <3>2. pc["loop"] = "trade" => todo'["loop"] = m_map_subinfo_trade
      BY <2>1, <2>2, Tables
    <3> QED BY <1>0, <2>1, <2>2, <3>1, <3>2 DEF AskedInv, Past
  <2>3. CASE a = "ping"
    <3>1. pc["ping"] = "subscribe" => todo'["ping"] = m_map_subinfo_depth
      BY <2>1, <2>3, Tables
    <3> QED BY <1>0, <2>1, <2>3, <3>1 DEF AskedInv, Past
  <2> QED BY <2>2, <2>3 DEF Thread
<1>10. ASSUME NEW a \in Thread, SendBatch(a) \/ SendRest(a) PROVE AskedInv'
  <2>1. PICK insts \in SUBSET todo[a] :
           /\ Ask(a, insts)
           /\ todo' = [todo EXCEPT ![a] = @ \ insts]
           /\ call[a] # None
           /\ UNCHANGED <<up, m_connect_status, pc, call>>
    BY <1>10, Sends
  <2> QED BY <2>1, AskedSend
<1>11. ASSUME NEW a \in Thread, Leave(a) PROVE AskedInv'
  <2>1. /\ pc[a] \in Calling
        /\ pc'[a] = Goto[pc[a]]
        /\ todo[a] = {} /\ call[a] # None /\ call'[a] = None
        /\ \A b \in Thread : b # a => call'[b] = call[b] /\ pc'[b] = pc[b]
        /\ UNCHANGED <<up, asked, m_connect_status, todo>>
    BY <1>11, InCall DEF Leave, TypeOK
  <2>2. CASE a = "loop"
    <3>1. pc["loop"] \in {"depth", "trade"}
      BY <2>1, <2>2 DEF TypeOK, Calling
    <3>2. pc'["loop"] = IF pc["loop"] = "depth" THEN "trade" ELSE "opened"
      BY <2>1, <2>2, <3>1, Tables
    <3>3. call["ping"] = None /\ pc'["ping"] = pc["ping"]
      BY <1>0, <2>1, <2>2, InCall
    <3> QED BY <1>0, <2>1, <2>2, <3>1, <3>2, <3>3 DEF AskedInv, Past
  <2>3. CASE a = "ping"
    <3>1. pc["ping"] \in {"unsubscribe", "subscribe"}
      BY <2>1, <2>3 DEF TypeOK, Calling
    <3>2. pc'["ping"] = IF pc["ping"] = "unsubscribe" THEN "sleep" ELSE "reset"
      BY <2>1, <2>3, <3>1, Tables
    <3>3. call["loop"] = None /\ pc'["loop"] = pc["loop"]
      BY <1>0, <2>1, <2>3, InCall
    <3> QED BY <1>0, <2>1, <2>3, <3>1, <3>2, <3>3 DEF AskedInv, Past
  <2> QED BY <2>2, <2>3 DEF Thread
<1> QED BY <1>0, <1>1, <1>2, <1>3, <1>4, <1>5, <1>6, <1>7, <1>8, <1>9, <1>10,
           <1>11
        DEF Next, LoopStep, PingStep, cf_sub_unsub_all

\* Once a connection is open and no refresh is under way, everything configured
\* is asked for on it, for any maps of instruments and any number of drops.
THEOREM EverythingIsAskedFor == Spec => []AllAskedFor
<1>1. Init => TypeOK /\ AskedInv
  <2>1. Init => pc["loop"] = "idle" /\ pc["ping"] = "off"
    BY DEF Init, Thread
  <2> QED BY <2>1, TypeInit DEF Init, AskedInv
<1>2. TypeOK /\ AskedInv /\ [Next]_vars => (TypeOK /\ AskedInv)'
  BY TypeStep, AskedStep
<1>3. TypeOK /\ AskedInv => AllAskedFor
  <2>1. SUFFICES ASSUME TypeOK, AskedInv, up, pc["loop"] = "idle",
                        pc["ping"] \in {"off", "reset", "poll"}
                 PROVE  asked = Everything
    BY DEF AllAskedFor
  <2>2. DepthAsked({}) /\ TradeAsked({})
    BY <2>1 DEF AskedInv, Past
  <2>3. Everything \subseteq asked
    BY <2>2 DEF DepthAsked, TradeAsked, Everything
  <2> QED BY <2>1, <2>3 DEF TypeOK
<1> QED BY <1>1, <1>2, <1>3, PTL DEF Spec
=============================================================================
