---------------------------- MODULE MCVoiceRecorder ----------------------------
(* A small instance of VoiceRecorder for TLC. *)
EXTENDS VoiceRecorder
===============================================================================
