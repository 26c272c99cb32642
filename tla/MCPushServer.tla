---------------------------- MODULE MCPushServer ----------------------------
(* PushServer for TLC.                                                     *)
EXTENDS PushServer, TLC

=============================================================================
