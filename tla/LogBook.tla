------------------------------- MODULE LogBook -------------------------------
(***************************************************************************)
(* What MyLogger promises to the threads that log: an abstract             *)
(* specification.  Lines are accepted one at a time and written in that    *)
(* order, each once, at the end of the file they are for.  A file that     *)
(* cannot be opened swallows its lines.  When the process is killed, the   *)
(* accepted lines that were not written are lost, and nothing else.        *)
(***************************************************************************)
EXTENDS Naturals, Sequences

CONSTANTS
  Thread,    \* the threads that log
  File,      \* the files they log to
  Openable   \* the files that can be opened

VARIABLES
  pending,   \* the lines accepted and not yet written
  files      \* what the files hold

bookVars == <<pending, files>>

\* Lines are told apart by who made them and when.
Line == [thread : Thread, number : Nat, file : File]

Init ==
  /\ pending = << >>
  /\ files = [f \in File |-> << >>]

\* The new line is read off the list it ends, so that any line may be it.
Accept ==
  /\ pending' # << >>
  /\ LET line == pending'[Len(pending')]
     IN /\ line \in Line
        /\ pending' = Append(pending, line)
  /\ UNCHANGED files

Write ==
  /\ pending # << >>
  /\ pending' = Tail(pending)
  /\ LET line == Head(pending)
     IN files' = IF line.file \in Openable
                 THEN [files EXCEPT ![line.file] = Append(@, line)]
                 ELSE files

Kill ==
  /\ pending' = << >>
  /\ UNCHANGED files

Next == Accept \/ Write \/ Kill

Spec == Init /\ [][Next]_bookVars
=============================================================================
