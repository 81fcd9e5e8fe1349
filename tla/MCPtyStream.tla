---------------------------- MODULE MCPtyStream ----------------------------
(***************************************************************************)
(* Instances of PtyStream for TLC.                                         *)
(***************************************************************************)
EXTENDS PtyStream

CONSTANTS t, w  \* a desktop terminal and the Web bridge's observer
=============================================================================
