--------------------------- MODULE MCSettingsDialog ---------------------------
(* A small instance of SettingsDialog for TLC.                             *)
EXTENDS SettingsDialog

=============================================================================
