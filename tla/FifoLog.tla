------------------------------ MODULE FifoLog ------------------------------
(***************************************************************************)
(* What an asynchronous log promises: the file is at any time a prefix of  *)
(* what was logged, in that order and nothing twice, and closing the log   *)
(* leaves nothing behind.                                                  *)
(***************************************************************************)
EXTENDS Naturals, Sequences, SequencesExt

CONSTANT Entries

VARIABLES
  log,    \* what the program logged
  file,   \* what is in the file
  closed  \* the log was closed

vars == <<log, file, closed>>

Init == log = <<>> /\ file = <<>> /\ closed = FALSE

Log(e) == /\ ~closed
          /\ log' = Append(log, e)
          /\ UNCHANGED <<file, closed>>

Write == /\ ~closed
         /\ file' \in {SubSeq(log, 1, n) : n \in Len(file) .. Len(log)}
         /\ UNCHANGED <<log, closed>>

Close == /\ file = log
         /\ closed' = TRUE
         /\ UNCHANGED <<log, file>>

Next == (\E e \in Entries : Log(e)) \/ Write \/ Close

Spec == Init /\ [][Next]_vars
=============================================================================
