--------------------------- MODULE MyLogger_proofs ---------------------------
(***************************************************************************)
(* Theorems about MyLogger: type correctness, the order of the lines in    *)
(* the files, and that it implements LogBook.                              *)
(***************************************************************************)
EXTENDS MyLogger, SequenceTheorems, TLAPS

----------------------------------------------------------------------------
(* Type correctness.                                                       *)

\* Every action keeps the types and the tie between wpc, newlog and m_run.
LEMMA TypeStep == ASSUME TypeOK, [Next]_vars PROVE TypeOK'
<1> USE NoLineAssumption, LogBoundAssumption
<1>1. CASE UNCHANGED vars
  BY <1>1 DEF TypeOK, vars
<1>2. ASSUME NEW t \in Thread, NewLine(t) PROVE TypeOK'
  <2>1. PICK f \in File : adding' = [adding EXCEPT ![t] =
                    [thread |-> t, number |-> made[t] + 1, file |-> f]]
    BY <1>2 DEF NewLine
  <2>2. [thread |-> t, number |-> made[t] + 1, file |-> f] \in Line
    BY DEF TypeOK, Line
  <2>3. adding' \in [Thread -> Line \cup {None}]
    BY <2>1, <2>2 DEF TypeOK
  <2>4. made' \in [Thread -> 0 .. MaxLine]
    BY <1>2 DEF TypeOK, NewLine
  <2> QED BY <1>2, <2>3, <2>4 DEF TypeOK, NewLine
<1>3. ASSUME NEW t \in Thread, mf_Add_Log(t) PROVE TypeOK'
  BY <1>3 DEF TypeOK, mf_Add_Log
<1>4. CASE RunStart
  BY <1>4 DEF TypeOK, RunStart
<1>5. CASE mf_Get_Log
  <2>1. CASE m_Log_List # << >>
    <3>1. Head(m_Log_List) \in Line /\ Tail(m_Log_List) \in Seq(Line)
      BY <2>1, HeadTailProperties DEF TypeOK
    <3> QED BY <1>5, <2>1, <3>1 DEF TypeOK, mf_Get_Log
  <2>2. CASE m_Log_List = << >>
    BY <1>5, <2>2 DEF TypeOK, mf_Get_Log
  <2> QED BY <2>1, <2>2
<1>6. CASE mf_Write_Text
  <2>1. newlog \in Line
    BY <1>6 DEF TypeOK, mf_Write_Text
  <2>2. newlog.file \in File
    BY <2>1 DEF Line
  <2>3. files' \in [File -> Seq(Line)]
    BY <1>6, <2>1, <2>2, AppendProperties DEF TypeOK, mf_Write_Text
  <2> QED BY <1>6, <2>3 DEF TypeOK, mf_Write_Text
<1>7. CASE WakeUp
  BY <1>7 DEF TypeOK, WakeUp
<1>8. CASE Kill
  <2>1. m_Log_List' \in Seq(Line)
    BY <1>8, EmptySeq DEF Kill
  <2>2. kills' \in 0 .. MaxKill
    BY <1>8 DEF TypeOK, Kill
  <2> QED BY <1>8, <2>1, <2>2 DEF TypeOK, Kill
<1> QED BY <1>1, <1>2, <1>3, <1>4, <1>5, <1>6, <1>7, <1>8
        DEF Next, Adding, Writer

LEMMA TypeInit == Init => TypeOK
BY LogBoundAssumption, NoLineAssumption, EmptySeq DEF Init, TypeOK

\* MyLogger is type correct; in particular the writing thread never leaves its
\* loop and holds a line exactly while it writes one.
THEOREM TypeCorrect == Spec => []TypeOK
<1>1. TypeOK /\ [Next]_vars => TypeOK'
  BY TypeStep
<1> QED BY TypeInit, <1>1, PTL DEF Spec

----------------------------------------------------------------------------
(* MyLogger implements LogBook.                                            *)

\* The refinement mapping for pending: what is written next stands first.
Waiting == IF newlog = None THEN m_Log_List ELSE <<newlog>> \o m_Log_List

\* Taking the head off and putting it back in front changes nothing.
LEMMA HeadAndTail ==
  ASSUME NEW S, NEW q \in Seq(S), q # << >>
  PROVE  <<Head(q)>> \o Tail(q) = q
<1>1. Len(<<Head(q)>> \o Tail(q)) = Len(q)
  BY HeadTailProperties
<1>2. \A i \in 1 .. Len(q) : (<<Head(q)>> \o Tail(q))[i] = q[i]
  BY HeadTailProperties
<1> QED BY <1>1, <1>2, HeadTailProperties, SeqEqual

\* A line put in front does not matter to one put at the end.
LEMMA FrontAndBack ==
  ASSUME NEW S, NEW q \in Seq(S), NEW x \in S, NEW y \in S
  PROVE  <<x>> \o Append(q, y) = Append(<<x>> \o q, y)
<1>1. Append(q, y) \in Seq(S) /\ <<x>> \o q \in Seq(S)
  OBVIOUS
<1>2. Len(<<x>> \o Append(q, y)) = Len(Append(<<x>> \o q, y))
  BY <1>1
<1>3. \A i \in 1 .. Len(<<x>> \o Append(q, y)) :
        (<<x>> \o Append(q, y))[i] = Append(<<x>> \o q, y)[i]
  BY <1>1
<1> QED BY <1>1, <1>2, <1>3, SeqEqual

LEMMA OneInFront ==
  ASSUME NEW S, NEW q \in Seq(S), NEW x \in S
  PROVE  /\ <<x>> \o q # << >>
         /\ Head(<<x>> \o q) = x
         /\ Tail(<<x>> \o q) = q
<1>1. <<x>> \o q \in Seq(S) /\ Len(<<x>> \o q) = Len(q) + 1
  OBVIOUS
<1>2. <<x>> \o q # << >>
  BY <1>1, EmptySeq
<1>3. Head(<<x>> \o q) = x
  BY <1>1
<1>4. Tail(<<x>> \o q) \in Seq(S) /\ Len(Tail(<<x>> \o q)) = Len(q)
  BY <1>1, <1>2, HeadTailProperties
<1>5. \A i \in 1 .. Len(q) : Tail(<<x>> \o q)[i] = q[i]
  BY <1>1, <1>2, HeadTailProperties
<1>6. Tail(<<x>> \o q) = q
  BY <1>4, <1>5, SeqEqual
<1> QED BY <1>2, <1>3, <1>6

\* Every step of MyLogger is one of LogBook or leaves pending and files alone.
LEMMA BookStep ==
  ASSUME TypeOK, [Next]_vars
  PROVE  [Book!Next]_(Book!bookVars)
<1> USE NoLineAssumption
<1> DEFINE p == Waiting
<1>0. SUFFICES \/ UNCHANGED <<Waiting, files>>
               \/ /\ Waiting' # << >>
                  /\ Waiting'[Len(Waiting')] \in Line
                  /\ Waiting' = Append(Waiting, Waiting'[Len(Waiting')])
                  /\ UNCHANGED files
               \/ Book!Write
               \/ Waiting' = << >> /\ UNCHANGED files
  BY DEF Book!Next, Book!bookVars, Book!Accept, Book!Kill, Book!Line, Line,
         Waiting
<1>1. CASE UNCHANGED vars
  BY <1>1 DEF vars, Waiting
<1>2. ASSUME NEW t \in Thread, NewLine(t) PROVE UNCHANGED <<Waiting, files>>
  BY <1>2 DEF NewLine, Waiting
<1>3. ASSUME NEW t \in Thread, mf_Add_Log(t)
      PROVE  /\ Waiting' # << >>
             /\ Waiting'[Len(Waiting')] \in Line
             /\ Waiting' = Append(Waiting, Waiting'[Len(Waiting')])
             /\ UNCHANGED files
  <2>1. adding[t] \in Line
    BY <1>3 DEF TypeOK, mf_Add_Log
  <2>2. Waiting \in Seq(Line)
    BY DEF Waiting, TypeOK
  <2>3. Waiting' = Append(Waiting, adding[t])
    <3>1. CASE newlog = None
      BY <1>3, <3>1 DEF mf_Add_Log, Waiting
    <3>2. CASE newlog # None
      <4>1. newlog \in Line
        BY <3>2 DEF TypeOK
      <4> QED BY <1>3, <2>1, <3>2, <4>1, FrontAndBack
              DEF mf_Add_Log, Waiting, TypeOK
    <3> QED BY <3>1, <3>2
  <2>4. /\ Append(Waiting, adding[t]) # << >>
        /\ Append(Waiting, adding[t])[Len(Append(Waiting, adding[t]))] = adding[t]
    BY <2>1, <2>2, AppendProperties, EmptySeq
  <2>5. Waiting' # << >> /\ Waiting'[Len(Waiting')] = adding[t]
    BY <2>3, <2>4
  <2> QED BY <1>3, <2>1, <2>3, <2>5 DEF mf_Add_Log
<1>4. CASE RunStart
  BY <1>4 DEF RunStart, Waiting
<1>5. CASE mf_Get_Log
  <2>1. newlog = None
    BY <1>5 DEF TypeOK, mf_Get_Log
  <2>2. CASE m_Log_List # << >>
    <3>1. Head(m_Log_List) \in Line
      BY <2>2, HeadTailProperties DEF TypeOK
    <3>2. Waiting' = <<Head(m_Log_List)>> \o Tail(m_Log_List)
      BY <1>5, <2>2, <3>1 DEF mf_Get_Log, Waiting
    <3>3. Waiting' = m_Log_List
      BY <2>2, <3>2, HeadAndTail DEF TypeOK
    <3> QED BY <1>5, <2>1, <3>3 DEF mf_Get_Log, Waiting
  <2>3. CASE m_Log_List = << >>
    BY <1>5, <2>1, <2>3 DEF mf_Get_Log, Waiting
  <2> QED BY <2>2, <2>3
<1>6. CASE mf_Write_Text
  <2>1. newlog \in Line /\ newlog # None
    BY <1>6 DEF TypeOK, mf_Write_Text
  <2>2. /\ Waiting # << >>
        /\ Head(Waiting) = newlog
        /\ Tail(Waiting) = m_Log_List
    BY <2>1, OneInFront DEF Waiting, TypeOK
  <2>3. Waiting' = Tail(Waiting)
    BY <1>6, <2>2 DEF mf_Write_Text, Waiting
  <2>4. files' = IF newlog.file \in Openable
                 THEN [files EXCEPT ![newlog.file] = Append(@, newlog)]
                 ELSE files
    BY <1>6 DEF mf_Write_Text
  <2> QED BY <2>2, <2>3, <2>4 DEF Book!Write, Waiting
<1>7. CASE WakeUp
  BY <1>7 DEF WakeUp, Waiting
<1>8. CASE Kill
  BY <1>8 DEF Kill, Waiting
<1> QED BY <1>1, <1>2, <1>3, <1>4, <1>5, <1>6, <1>7, <1>8
        DEF Next, Adding, Writer

\* MyLogger implements LogBook: whatever the interleaving of the threads, lines
\* are written once each in the order in which they were put into the list,
\* and a kill loses only lines that were not written yet.
THEOREM ImplementsBook == Spec => BookSpec
<1>1. Init => Book!Init
  BY DEF Init, Book!Init
<1>2. TypeOK /\ [Next]_vars => [Book!Next]_(Book!bookVars)
  BY BookStep
<1> QED BY <1>1, <1>2, TypeCorrect, PTL DEF Spec, BookSpec, Book!Spec

----------------------------------------------------------------------------
(* The order of the lines.                                                 *)

\* What a line's number says of another line of the same thread.
Before(a, b) == a.thread = b.thread => a.number < b.number

Ordered(q) == \A i, j \in 1 .. Len(q) : i < j => Before(q[i], q[j])
AllBefore(q, r) ==
  \A i \in 1 .. Len(q) : \A j \in 1 .. Len(r) : Before(q[i], r[j])
Made(q) == \A i \in 1 .. Len(q) : q[i].number <= made[q[i].thread]

\* The inductive invariant: along the way from the thread that made it to the
\* file, a line never overtakes an older one of the same thread.
LineInv ==
  /\ TypeOK
  /\ \A t \in Thread :
       adding[t] # None => /\ adding[t].thread = t
                          /\ adding[t].number <= made[t]
                          /\ AllBefore(Waiting, <<adding[t]>>)
                          /\ \A f \in File : AllBefore(files[f], <<adding[t]>>)
  /\ Made(Waiting) /\ Ordered(Waiting)
  /\ \A f \in File : /\ Made(files[f])
                     /\ Ordered(files[f])
                     /\ AllBefore(files[f], Waiting)

LEMMA BeforeOne ==
  ASSUME NEW q, NEW x
  PROVE  AllBefore(q, <<x>>) <=> \A i \in 1 .. Len(q) : Before(q[i], x)
<1>1. 1 .. Len(<<x>>) = {1} /\ <<x>>[1] = x
  OBVIOUS
<1> QED BY <1>1 DEF AllBefore

LEMMA WaitingType == TypeOK => Waiting \in Seq(Line)
BY DEF TypeOK, Waiting

\* The line a thread has just made is newer than all others of the thread.
LEMMA NewLineStep ==
  ASSUME LineInv, NEW t \in Thread, NewLine(t), TypeOK'
  PROVE  LineInv'
<1> USE NoLineAssumption
<1>1. PICK g \in File : adding' = [adding EXCEPT ![t] =
                    [thread |-> t, number |-> made[t] + 1, file |-> g]]
  BY DEF NewLine
<1> DEFINE new == [thread |-> t, number |-> made[t] + 1, file |-> g]
<1>2. /\ UNCHANGED <<Waiting, files>>
      /\ made' = [made EXCEPT ![t] = @ + 1]
      /\ made \in [Thread -> Nat]
      /\ adding' = [adding EXCEPT ![t] = new]
      /\ adding \in [Thread -> Line \cup {None}]
  <2>1. made \in [Thread -> Nat] /\ adding \in [Thread -> Line \cup {None}]
    BY LogBoundAssumption DEF LineInv, TypeOK
  <2> QED BY <1>1, <2>1 DEF NewLine, Waiting
<1>3. ASSUME NEW q \in Seq(Line), Made(q)
      PROVE  AllBefore(q, <<new>>)
            /\ \A i \in 1 .. Len(q) : q[i].number <= made'[q[i].thread]
  <2>1. \A i \in 1 .. Len(q) : q[i] \in Line
    OBVIOUS
  <2>2. \A i \in 1 .. Len(q) : /\ q[i].thread \in Thread
                              /\ q[i].number \in Nat
                              /\ q[i].number <= made[q[i].thread]
    BY <1>3, <2>1 DEF Made, Line
  <2>3. \A i \in 1 .. Len(q) : Before(q[i], new)
    BY <1>2, <2>2 DEF Before
  <2>4. \A i \in 1 .. Len(q) : q[i].number <= made'[q[i].thread]
    BY <1>2, <2>2
  <2> QED BY <2>3, <2>4, BeforeOne
<1>4. Waiting \in Seq(Line) /\ \A f \in File : files[f] \in Seq(Line)
  BY WaitingType DEF LineInv, TypeOK
<1>5. AllBefore(Waiting, <<new>>) /\ Made(Waiting)'
  BY <1>2, <1>3, <1>4 DEF LineInv, Made
<1>6. \A f \in File : AllBefore(files[f], <<new>>) /\ Made(files[f])'
  BY <1>2, <1>3, <1>4 DEF LineInv, Made
<1>7. new.thread = t /\ new.number = made'[t]
  BY <1>2
<1>8. \A s \in Thread : s # t => adding'[s] = adding[s] /\ made'[s] = made[s]
  BY <1>2
<1>9. adding'[t] = new
  BY <1>2
<1>10. ASSUME NEW s \in Thread, adding'[s] # None
       PROVE  /\ adding'[s].thread = s
              /\ adding'[s].number <= made'[s]
              /\ AllBefore(Waiting, <<adding'[s]>>)
              /\ \A f \in File : AllBefore(files[f], <<adding'[s]>>)
  <2>1. CASE s = t
    <3>1. made'[t] \in Nat
      BY <1>2
    <3> QED BY <2>1, <3>1, <1>5, <1>6, <1>7, <1>9
  <2>2. CASE s # t
    BY <2>2, <1>8, <1>10 DEF LineInv
  <2> QED BY <2>1, <2>2
<1>12. Ordered(Waiting)' /\ \A f \in File : Ordered(files[f])'
                                         /\ AllBefore(files[f], Waiting)'
  BY <1>2 DEF LineInv, Ordered, AllBefore
<1>13. \A s \in Thread : adding'[s] # None =>
          /\ AllBefore(Waiting', <<adding'[s]>>)
          /\ \A f \in File : AllBefore(files'[f], <<adding'[s]>>)
  BY <1>2, <1>10
<1> HIDE DEF new
<1> QED BY <1>5, <1>6, <1>10, <1>12, <1>13 DEF LineInv

\* A line put into the list is newer than those of its thread in front of it.
LEMMA AddStep ==
  ASSUME LineInv, NEW t \in Thread, mf_Add_Log(t), TypeOK'
  PROVE  LineInv'
<1> USE NoLineAssumption
<1> DEFINE new == adding[t]
<1>1. new \in Line
  BY DEF LineInv, TypeOK, mf_Add_Log
<1>2. Waiting \in Seq(Line) /\ \A f \in File : files[f] \in Seq(Line)
  BY WaitingType DEF LineInv, TypeOK
<1>3. Waiting' = Append(Waiting, new)
  <2>1. CASE newlog = None
    BY <2>1 DEF mf_Add_Log, Waiting
  <2>2. CASE newlog # None
    BY <1>1, <2>2, FrontAndBack DEF mf_Add_Log, Waiting, TypeOK, LineInv
  <2> QED BY <2>1, <2>2
<1>4. UNCHANGED <<files, made>> /\ adding' = [adding EXCEPT ![t] = None]
  BY DEF mf_Add_Log
<1>5. /\ new.thread = t /\ new.number <= made[t]
      /\ AllBefore(Waiting, <<new>>)
      /\ \A f \in File : AllBefore(files[f], <<new>>)
  BY DEF LineInv, mf_Add_Log
<1> HIDE DEF new
<1>6. /\ Waiting' \in Seq(Line)
      /\ Len(Waiting') = Len(Waiting) + 1
      /\ Len(Waiting) \in Nat
      /\ \A i \in 1 .. Len(Waiting) : Waiting'[i] = Waiting[i]
      /\ Waiting'[Len(Waiting')] = new
  BY <1>1, <1>2, <1>3, AppendProperties
<1>7. \A i \in 1 .. Len(Waiting') :
        i \in 1 .. Len(Waiting) \/ i = Len(Waiting')
  BY <1>6
<1>8. Made(Waiting)'
  <2>1. \A i \in 1 .. Len(Waiting') : Waiting'[i].number <= made[Waiting'[i].thread]
    BY <1>5, <1>6, <1>7 DEF LineInv, Made
  <2> QED BY <2>1, <1>4 DEF Made
<1>9. Ordered(Waiting)'
  <2>1. \A i \in 1 .. Len(Waiting) : Before(Waiting[i], new)
    BY <1>5 DEF AllBefore
  <2>2. ASSUME NEW i \in 1 .. Len(Waiting'), NEW j \in 1 .. Len(Waiting'), i < j
        PROVE  Before(Waiting'[i], Waiting'[j])
    <3>1. i \in 1 .. Len(Waiting)
      BY <2>2, <1>6
    <3>2. CASE j \in 1 .. Len(Waiting)
      BY <2>2, <3>1, <3>2, <1>6 DEF LineInv, Ordered
    <3>3. CASE j = Len(Waiting')
      BY <3>1, <3>3, <2>1, <1>6
    <3> QED BY <3>2, <3>3, <1>7
  <2> QED BY <2>2 DEF Ordered
<1>10. \A f \in File : AllBefore(files'[f], Waiting')
  <2>1. SUFFICES ASSUME NEW f \in File, NEW i \in 1 .. Len(files[f]),
                        NEW j \in 1 .. Len(Waiting')
                 PROVE  Before(files[f][i], Waiting'[j])
    BY <1>4 DEF AllBefore
  <2>2. CASE j \in 1 .. Len(Waiting)
    BY <2>2, <1>6 DEF LineInv, AllBefore
  <2>3. CASE j = Len(Waiting')
    <3>1. Before(files[f][i], new)
      BY <1>5 DEF AllBefore
    <3> QED BY <2>3, <3>1, <1>6
  <2> QED BY <2>2, <2>3, <1>7
<1>11. ASSUME NEW s \in Thread, adding'[s] # None
       PROVE  /\ s # t
              /\ adding'[s] = adding[s]
              /\ adding[s].thread = s
              /\ adding[s].number <= made[s]
              /\ \A f \in File : AllBefore(files[f], <<adding[s]>>)
              /\ AllBefore(Waiting', <<adding[s]>>)
  <2>1. s # t /\ adding'[s] = adding[s]
    BY <1>4, <1>11 DEF LineInv, TypeOK
  <2>2. /\ adding[s].thread = s
        /\ adding[s].number <= made[s]
        /\ \A f \in File : AllBefore(files[f], <<adding[s]>>)
        /\ AllBefore(Waiting, <<adding[s]>>)
    BY <2>1, <1>11 DEF LineInv
  <2>3. Before(new, adding[s])
    BY <2>1, <2>2, <1>5 DEF Before
  <2>4. AllBefore(Waiting', <<adding[s]>>)
    BY <2>2, <2>3, <1>6, <1>7 DEF AllBefore
  <2> QED BY <2>1, <2>2, <2>4
<1> QED BY <1>4, <1>8, <1>9, <1>10, <1>11 DEF LineInv, Made, Ordered

\* A line written goes behind the older ones of its thread in the file, and
\* leaves the newer ones waiting.
LEMMA WriteStep ==
  ASSUME LineInv, mf_Write_Text, TypeOK'
  PROVE  LineInv'
<1> USE NoLineAssumption
<1>1. newlog \in Line /\ newlog # None
  BY DEF LineInv, TypeOK, mf_Write_Text
<1>2. /\ Waiting \in Seq(Line) /\ m_Log_List \in Seq(Line)
      /\ \A f \in File : files[f] \in Seq(Line)
  BY WaitingType DEF LineInv, TypeOK
<1>3. /\ Waiting = <<newlog>> \o m_Log_List
      /\ Waiting' = m_Log_List
      /\ UNCHANGED <<made, adding>>
  BY <1>1 DEF mf_Write_Text, Waiting
<1>4. /\ Len(Waiting) = Len(m_Log_List) + 1
      /\ Len(m_Log_List) \in Nat
      /\ Waiting[1] = newlog
      /\ \A i \in 1 .. Len(m_Log_List) : Waiting[i + 1] = m_Log_List[i]
  BY <1>1, <1>2, <1>3
<1>5. 1 \in 1 .. Len(Waiting)
      /\ \A i \in 1 .. Len(m_Log_List) : i + 1 \in 1 .. Len(Waiting)
  BY <1>4
<1>6. Made(m_Log_List) /\ Ordered(m_Log_List)
  <2>1. ASSUME NEW i \in 1 .. Len(m_Log_List), NEW j \in 1 .. Len(m_Log_List),
               i < j
        PROVE  Before(m_Log_List[i], m_Log_List[j])
    <3>1. i + 1 < j + 1
      BY <2>1
    <3>2. Before(Waiting[i + 1], Waiting[j + 1])
      BY <1>5, <3>1 DEF LineInv, Ordered
    <3> QED BY <3>2, <1>4
  <2>2. \A i \in 1 .. Len(m_Log_List) :
          m_Log_List[i].number <= made[m_Log_List[i].thread]
    BY <1>4, <1>5 DEF LineInv, Made
  <2> QED BY <2>1, <2>2 DEF Made, Ordered
<1>7. \A q : AllBefore(q, Waiting) => AllBefore(q, m_Log_List)
  BY <1>4, <1>5 DEF AllBefore
<1>8. \A r : AllBefore(Waiting, r) => AllBefore(m_Log_List, r)
  BY <1>4, <1>5 DEF AllBefore
<1>9. newlog.number <= made[newlog.thread]
  BY <1>4, <1>5 DEF LineInv, Made
<1>10. \A i \in 1 .. Len(m_Log_List) : Before(newlog, m_Log_List[i])
  <2> TAKE i \in 1 .. Len(m_Log_List)
  <2>1. 1 < i + 1
    OBVIOUS
  <2> QED BY <2>1, <1>4, <1>5 DEF LineInv, Ordered
<1>11. ASSUME NEW f \in File
       PROVE  \/ files'[f] = files[f]
              \/ files'[f] = Append(files[f], newlog)
  <2>1. files \in [File -> Seq(Line)] /\ newlog.file \in File
    BY <1>1 DEF LineInv, TypeOK, Line
  <2> QED BY <2>1 DEF mf_Write_Text
<1>12. ASSUME NEW f \in File
       PROVE  /\ Made(files'[f])
              /\ Ordered(files'[f])
              /\ AllBefore(files'[f], m_Log_List)
              /\ \A s \in Thread : adding[s] # None =>
                   AllBefore(files'[f], <<adding[s]>>)
  <2>1. /\ Made(files[f]) /\ Ordered(files[f])
        /\ AllBefore(files[f], Waiting)
        /\ \A s \in Thread : adding[s] # None =>
             AllBefore(files[f], <<adding[s]>>)
    BY DEF LineInv
  <2>2. CASE files'[f] = files[f]
    <3>1. AllBefore(files[f], m_Log_List)
      BY <2>1, <1>7
    <3> QED BY <2>1, <2>2, <3>1
  <2>3. CASE files'[f] = Append(files[f], newlog)
    <3> DEFINE q == files[f]
               r == files'[f]
    <3>1. /\ Len(q) \in Nat /\ Len(r) = Len(q) + 1
          /\ \A i \in 1 .. Len(q) : r[i] = q[i]
          /\ r[Len(r)] = newlog
      BY <2>3, <1>1, <1>2, AppendProperties
    <3>2. \A i \in 1 .. Len(r) : i \in 1 .. Len(q) \/ i = Len(r)
      BY <3>1
    <3>3. Made(q) /\ Ordered(q) /\ AllBefore(q, Waiting)
      BY <2>1
    <3>4. \A s \in Thread : adding[s] # None => AllBefore(q, <<adding[s]>>)
      BY <2>1
    <3>5. \A s \in Thread : adding[s] # None => Before(newlog, adding[s])
      <4>1. \A s \in Thread : adding[s] # None => AllBefore(Waiting, <<adding[s]>>)
        BY DEF LineInv
      <4> QED BY <4>1, <1>4, <1>5, BeforeOne
    <3> HIDE DEF q, r
    <3>6. Made(r)
      BY <3>1, <3>2, <3>3, <1>9 DEF Made
    <3>7. \A i \in 1 .. Len(q) : Before(q[i], newlog)
      BY <3>3, <1>4, <1>5 DEF AllBefore
    <3>8. Ordered(r)
      <4>1. SUFFICES ASSUME NEW i \in 1 .. Len(r), NEW j \in 1 .. Len(r), i < j
                     PROVE  Before(r[i], r[j])
        BY DEF Ordered
      <4>2. i \in 1 .. Len(q)
        BY <4>1, <3>1
      <4>3. CASE j \in 1 .. Len(q)
        BY <4>1, <4>2, <4>3, <3>1, <3>3 DEF Ordered
      <4>4. CASE j = Len(r)
        BY <4>2, <4>4, <3>1, <3>7
      <4> QED BY <4>3, <4>4, <3>2
    <3>9. AllBefore(r, m_Log_List)
      <4>1. AllBefore(q, m_Log_List)
        BY <3>3, <1>7
      <4> QED BY <4>1, <3>1, <3>2, <1>10 DEF AllBefore
    <3>10. \A s \in Thread : adding[s] # None => AllBefore(r, <<adding[s]>>)
      BY <3>1, <3>2, <3>4, <3>5, BeforeOne
    <3> QED BY <3>6, <3>8, <3>9, <3>10 DEF r
  <2> QED BY <2>2, <2>3, <1>11
<1>13. \A s \in Thread : adding[s] # None =>
          /\ adding[s].thread = s
          /\ adding[s].number <= made[s]
          /\ AllBefore(m_Log_List, <<adding[s]>>)
  BY <1>8 DEF LineInv
<1> QED BY <1>3, <1>6, <1>12, <1>13 DEF LineInv, Made, Ordered

LEMMA LineStep == ASSUME LineInv, [Next]_vars PROVE LineInv'
<1> USE NoLineAssumption
<1>1. TypeOK'
  BY TypeStep DEF LineInv
<1>2. ASSUME UNCHANGED <<made, adding, Waiting, files>> PROVE LineInv'
  BY <1>1, <1>2 DEF LineInv, Made, Ordered, AllBefore, Before
<1>3. CASE UNCHANGED vars
  BY <1>2, <1>3 DEF vars, Waiting
<1>4. ASSUME NEW t \in Thread, NewLine(t) PROVE LineInv'
  BY <1>1, <1>4, NewLineStep
<1>5. ASSUME NEW t \in Thread, mf_Add_Log(t) PROVE LineInv'
  BY <1>1, <1>5, AddStep
<1>6. CASE RunStart \/ WakeUp
  BY <1>2, <1>6 DEF RunStart, WakeUp, Waiting
<1>7. CASE mf_Get_Log
  <2>1. newlog = None
    BY <1>7 DEF LineInv, TypeOK, mf_Get_Log
  <2>2. CASE m_Log_List # << >>
    <3>1. Head(m_Log_List) \in Line
      BY <2>2, HeadTailProperties DEF LineInv, TypeOK
    <3>2. Waiting' = <<Head(m_Log_List)>> \o Tail(m_Log_List)
      BY <1>7, <2>2, <3>1 DEF mf_Get_Log, Waiting
    <3>3. Waiting' = m_Log_List
      BY <2>2, <3>2, HeadAndTail DEF LineInv, TypeOK
    <3> QED BY <1>2, <1>7, <2>1, <3>3 DEF mf_Get_Log, Waiting
  <2>3. CASE m_Log_List = << >>
    BY <1>2, <1>7, <2>1, <2>3 DEF mf_Get_Log, Waiting
  <2> QED BY <2>2, <2>3
<1>8. CASE mf_Write_Text
  BY <1>1, <1>8, WriteStep
<1>9. CASE Kill
  <2>1. Waiting' = << >> /\ Len(<< >>) = 0
    BY <1>9, EmptySeq DEF Kill, Waiting
  <2>2. UNCHANGED <<made, files>> /\ \A t \in Thread : adding'[t] = None
    BY <1>9 DEF Kill
  <2>3. Made(Waiting)' /\ Ordered(Waiting)'
        /\ \A f \in File : AllBefore(files'[f], Waiting')
    BY <2>1 DEF Made, Ordered, AllBefore
  <2>4. \A f \in File : Made(files[f])' /\ Ordered(files'[f])
    BY <2>2 DEF LineInv, Made, Ordered
  <2> QED BY <1>1, <2>2, <2>3, <2>4 DEF LineInv
<1> QED BY <1>3, <1>4, <1>5, <1>6, <1>7, <1>8, <1>9
        DEF Next, Adding, Writer

\* A thread's lines stand in every file in the order the thread made them,
\* none of them twice.
THEOREM LinesStayInOrder == Spec => []FilesInOrder
<1>1. Init => LineInv
  <2>1. ASSUME Init PROVE Len(<< >>) = 0 /\ Waiting = << >>
    BY <2>1, EmptySeq DEF Init, Waiting
  <2> QED BY <2>1, TypeInit DEF Init, LineInv, Made, Ordered, AllBefore
<1>2. LineInv /\ [Next]_vars => LineInv'
  BY LineStep
<1>3. LineInv => FilesInOrder
  BY DEF LineInv, Ordered, Before, FilesInOrder
<1> QED BY <1>1, <1>2, <1>3, PTL DEF Spec
=============================================================================
