----------------------------- MODULE MCVoicePlayer -----------------------------
(* A small instance of VoicePlayer for TLC. *)
EXTENDS VoicePlayer
===============================================================================
