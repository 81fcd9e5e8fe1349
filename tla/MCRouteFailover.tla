-------------------------- MODULE MCRouteFailover --------------------------
(***************************************************************************)
(* Instances of RouteFailover for TLC.                                     *)
(***************************************************************************)
EXTENDS RouteFailover

CONSTANTS a, b  \* providers
AloneQueue == <<a>>
PairQueue == <<a, b>>
=============================================================================
