--------------------------- MODULE MCRemoteActions ---------------------------
(* Instances of RemoteActions for TLC. *)
EXTENDS RemoteActions
=============================================================================
