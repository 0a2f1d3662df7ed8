---------------------------- MODULE MCVoiceRegistry ----------------------------
(***************************************************************************)
(* The instance of MCSynthesisSettings behind the registry of the gRPC     *)
(* server.                                                                 *)
(***************************************************************************)
EXTENDS MCSynthesisSettings, VoiceRegistry
=============================================================================
