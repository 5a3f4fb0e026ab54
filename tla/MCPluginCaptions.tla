-------------------------- MODULE MCPluginCaptions --------------------------
(* A small instance of PluginCaptions for TLC: of a configuration only     *)
(* enabled matters, and a new slot is enabled.                             *)
EXTENDS PluginCaptions

On  == [enabled |-> TRUE]
Off == [enabled |-> FALSE]

MCConfigs == {On, Off}

=============================================================================
