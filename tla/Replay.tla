------------------------------- MODULE Replay -------------------------------
(***************************************************************************)
(* What a trace replay promises its consumer (spec.md sections 4.2, 6 and  *)
(* 8): the recorded transactions are handed over one at a time, in file    *)
(* order, none skipped and none invented, and once the trace is exhausted  *)
(* (or the sequence's transaction budget is spent) the sequence stops the  *)
(* driver.  Each element of Trace is whatever identifies one recorded      *)
(* transaction to the detailed model (there: the stream positions of its   *)
(* bytes).                                                                 *)
(***************************************************************************)
EXTENDS Naturals, Sequences

CONSTANTS
  Trace,            \* the recorded transactions, in file order
  MaxTransactions   \* the sequence's transaction budget

VARIABLES
  replayed,         \* the transactions handed to the driver so far
  closed            \* the sequence has sent the stop marker

vars == <<replayed, closed>>

Init ==
  /\ replayed = << >>
  /\ closed = FALSE

(* Hand the next recorded transaction to the driver. *)
Send ==
  /\ ~closed
  /\ Len(replayed) < Len(Trace)
  /\ Len(replayed) < MaxTransactions
  /\ replayed' = Append(replayed, Trace[Len(replayed) + 1])
  /\ UNCHANGED closed

(* Stop, only once every transaction was replayed or the budget is spent. *)
Close ==
  /\ ~closed
  /\ Len(replayed) = Len(Trace) \/ Len(replayed) = MaxTransactions
  /\ closed' = TRUE
  /\ UNCHANGED replayed

Next == Send \/ Close

Spec == Init /\ [][Next]_vars /\ WF_vars(Next)

\* the safety part of Spec
SafeSpec == Init /\ [][Next]_vars

\* what WF_vars(Next) yields: the replay ends
Ends == <>closed

=============================================================================
