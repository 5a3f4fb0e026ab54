-------------------------- MODULE MCWhisperProvider --------------------------
(* A small instance of WhisperProvider for TLC.                            *)
EXTENDS WhisperProvider

=============================================================================
