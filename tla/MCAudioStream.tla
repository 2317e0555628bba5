---------------------------- MODULE MCAudioStream ----------------------------
(* Instances of AudioStream for TLC. *)
EXTENDS AudioStream

MCPushes == {4, 7}
=============================================================================
