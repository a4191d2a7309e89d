------------------------------- MODULE MyLogger -------------------------------
(***************************************************************************)
(* MyLogger: the loop threads and ping threads of all clients, and main,   *)
(* add lines to one list; the thread that runs mf_Run_Write_Log takes them *)
(* out and appends each to its file.  m_cs is held while the list is       *)
(* changed and at no other time, so putting a line into the list, taking   *)
(* one out and writing it are steps of their own.                          *)
(*                                                                         *)
(* A line is told apart by the thread that made it and its number there.   *)
(* The process may be killed at any point (main never returns, so that is  *)
(* how it ends) and started again; the files stay, the rest is lost.       *)
(***************************************************************************)
EXTENDS Naturals, Sequences, FiniteSets

CONSTANTS
  Thread,    \* the threads that log
  File,      \* m_logfile of the logger and of each client
  Openable,  \* external: the files that can be opened for appending
  None,      \* no line
  MaxLine,   \* bound: lines each thread makes
  MaxKill    \* bound: how often the process is killed

ASSUME OpenableAssumption == Openable \subseteq File
ASSUME LogBoundAssumption == MaxLine \in Nat /\ MaxKill \in Nat

Line == [thread : Thread, number : Nat, file : File]
ASSUME NoLineAssumption == None \notin Line

VARIABLES
  made,         \* how many lines each thread has made
  adding,       \* the line mf_Add_Log has filled and not yet put into the list
  m_Log_List,
  m_run,
  wpc,          \* where the writing thread is
  newlog,       \* the line it has taken out of the list
  files,        \* what the files hold
  kills         \* how often the process was killed

vars == <<made, adding, m_Log_List, m_run, wpc, newlog, files, kills>>

Init ==
  /\ made = [t \in Thread |-> 0]
  /\ adding = [t \in Thread |-> None]
  /\ m_Log_List = << >>
  /\ m_run = 0
  /\ wpc = "start"
  /\ newlog = None
  /\ files = [f \in File |-> << >>]
  /\ kills = 0

----------------------------------------------------------------------------
(* Adding a line.                                                          *)

\* mf_Add_Log(logstr, ...): the line is built outside the lock ...
NewLine(t) ==
  /\ adding[t] = None
  /\ made[t] < MaxLine
  /\ made' = [made EXCEPT ![t] = @ + 1]
  /\ \E f \in File :
       adding' = [adding EXCEPT ![t] =
                    [thread |-> t, number |-> made[t] + 1, file |-> f]]
  /\ UNCHANGED <<m_Log_List, m_run, wpc, newlog, files, kills>>

\* Slip of mf_Add_Log: push_front.
mf_Add_Log_front(t) ==
  /\ adding[t] # None
  /\ m_Log_List' = <<adding[t]>> \o m_Log_List
  /\ adding' = [adding EXCEPT ![t] = None]
  /\ UNCHANGED <<made, m_run, wpc, newlog, files, kills>>

\* ... and mf_Add_Log(loginfo) puts it into the list under the lock.
mf_Add_Log(t) ==
  /\ adding[t] # None
  /\ m_Log_List' = Append(m_Log_List, adding[t])
  /\ adding' = [adding EXCEPT ![t] = None]
  /\ UNCHANGED <<made, m_run, wpc, newlog, files, kills>>

----------------------------------------------------------------------------
(* The writing thread, mf_Run_Write_Log.                                   *)

RunStart ==
  /\ wpc = "start"
  /\ wpc' = "get"
  /\ m_run' = 1
  /\ UNCHANGED <<made, adding, m_Log_List, newlog, files, kills>>

\* Slip of mf_Get_Log: pop_front is left out.
mf_Get_Log_stays ==
  /\ wpc = "get"
  /\ IF m_Log_List # << >>
     THEN newlog' = Head(m_Log_List) /\ wpc' = "write"
     ELSE newlog' = None /\ wpc' = "sleep"
  /\ UNCHANGED <<made, adding, m_Log_List, m_run, files, kills>>

\* The oldest line, or NULL when there is none; then the thread sleeps.
mf_Get_Log ==
  /\ wpc = "get"
  /\ IF m_Log_List # << >>
     THEN /\ newlog' = Head(m_Log_List)
          /\ m_Log_List' = Tail(m_Log_List)
          /\ wpc' = "write"
     ELSE /\ newlog' = None
          /\ wpc' = "sleep"
          /\ UNCHANGED m_Log_List
  /\ UNCHANGED <<made, adding, m_run, files, kills>>

\* Slip of mf_Write_Text: the file is opened without std::ios::app.
mf_Write_Text_truncates ==
  /\ wpc = "write"
  /\ files' = IF newlog.file \in Openable
              THEN [files EXCEPT ![newlog.file] = <<newlog>>]
              ELSE files
  /\ newlog' = None
  /\ wpc' = "get"
  /\ UNCHANGED <<made, adding, m_Log_List, m_run, kills>>

\* Whether the file could be opened is not looked at.
mf_Write_Text ==
  /\ wpc = "write"
  /\ files' = IF newlog.file \in Openable
              THEN [files EXCEPT ![newlog.file] = Append(@, newlog)]
              ELSE files
  /\ newlog' = None
  /\ wpc' = "get"
  /\ UNCHANGED <<made, adding, m_Log_List, m_run, kills>>

\* Slip of WakeUp: the loop is left when the list was empty.
WakeUpStops ==
  /\ wpc = "sleep"
  /\ wpc' = "stopped"
  /\ UNCHANGED <<made, adding, m_Log_List, m_run, newlog, files, kills>>

\* Sleep(200) ends; nobody resets m_run.
WakeUp ==
  /\ wpc = "sleep"
  /\ wpc' = IF m_run = 1 THEN "get" ELSE "stopped"
  /\ UNCHANGED <<made, adding, m_Log_List, m_run, newlog, files, kills>>

----------------------------------------------------------------------------
\* The process is killed and started again.
Kill ==
  /\ kills < MaxKill
  /\ kills' = kills + 1
  /\ adding' = [t \in Thread |-> None]
  /\ m_Log_List' = << >>
  /\ m_run' = 0
  /\ wpc' = "start"
  /\ newlog' = None
  /\ UNCHANGED <<made, files>>

Adding == \E t \in Thread : NewLine(t) \/ mf_Add_Log(t)
Writer == RunStart \/ mf_Get_Log \/ mf_Write_Text \/ WakeUp

Next == Adding \/ Writer \/ Kill

Spec == Init /\ [][Next]_vars

\* main starts the writing thread before anything is logged and nothing blocks
\* it; a thread that has built a line puts it into the list.
FairSpec == /\ Spec
            /\ WF_vars(Writer)
            /\ \A t \in Thread : WF_vars(mf_Add_Log(t))
----------------------------------------------------------------------------
(* Properties.                                                             *)

TypeOK ==
  /\ made \in [Thread -> 0 .. MaxLine]
  /\ adding \in [Thread -> Line \cup {None}]
  /\ m_Log_List \in Seq(Line)
  /\ m_run \in {0, 1}
  /\ wpc \in {"start", "get", "write", "sleep"}
  /\ newlog \in Line \cup {None}
  /\ (newlog # None) = (wpc = "write")
  /\ (m_run = 0) = (wpc = "start")
  /\ files \in [File -> Seq(Line)]
  /\ kills \in 0 .. MaxKill

\* A thread's lines stand in a file in the order the thread made them, and
\* none stands there twice, whatever the other threads log in between and
\* whenever the process was killed.
FilesInOrder ==
  \A f \in File : \A i, j \in 1 .. Len(files[f]) :
    i < j /\ files[f][i].thread = files[f][j].thread
      => files[f][i].number < files[f][j].number

\* MyLogger implements LogBook, with the line the writing thread holds as the
\* first of the pending ones: lines are written in the order in which they
\* were put into the list, and a kill loses only lines not yet written.
Book == INSTANCE LogBook
          WITH pending <- IF newlog = None THEN m_Log_List
                          ELSE <<newlog>> \o m_Log_List
BookSpec == Book!Spec

\* A line put together for a file that can be opened is in the file some day,
\* unless the process is killed first.
LinesAreWritten ==
  \A t \in Thread, n \in 1 .. MaxLine, f \in Openable, k \in 0 .. MaxKill :
    LET line == [thread |-> t, number |-> n, file |-> f]
    IN (adding[t] = line /\ kills = k)
         ~> (kills > k \/ \E i \in 1 .. Len(files[f]) : files[f][i] = line)
=============================================================================
