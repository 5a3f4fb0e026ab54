--------------------------- MODULE MCSettingsStore ---------------------------
(* A small instance of SettingsStore for TLC.  Nothing compares UUIDs      *)
(* but for equality, so they are interchangeable.                          *)
EXTENDS SettingsStore, TLC

Symmetry == Permutations(Id)

=============================================================================
