---------------------------- MODULE MCWebMirror ----------------------------
(* Instances of WebMirror for TLC: how often each fault may happen. *)
EXTENDS WebMirror

AnyFault == [f \in Faults |-> 1]
=============================================================================
