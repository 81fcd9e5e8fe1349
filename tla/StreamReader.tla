---------------------------- MODULE StreamReader ----------------------------
(***************************************************************************)
(* What the terminal stream promises, without sequence numbers, windows,   *)
(* queues, checkpoints or connections: an append-only log of output, and   *)
(* for every terminal a view that is always a prefix of the log.  A view   *)
(* grows until it is the log; it may be rebuilt from nothing.              *)
(***************************************************************************)
EXTENDS Naturals, Sequences, SequencesExt

CONSTANT Readers

VARIABLES log, view

Init == log = <<>> /\ view = [r \in Readers |-> <<>>]

Produce == IsStrictPrefix(log, log') /\ UNCHANGED view

Advance(r) ==
  /\ IsStrictPrefix(view[r], view'[r]) /\ IsPrefix(view'[r], log)
  /\ view' = [view EXCEPT ![r] = view'[r]]
  /\ UNCHANGED log

Rebuild(r) ==
  /\ view' = [view EXCEPT ![r] = <<>>]
  /\ UNCHANGED log

Next == Produce \/ \E r \in Readers : Advance(r) \/ Rebuild(r)

Safety == Init /\ [][Next]_<<log, view>>
Spec == Safety /\ \A r \in Readers : <>[](view[r] = log)
=============================================================================
