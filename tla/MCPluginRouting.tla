-------------------------- MODULE MCPluginRouting --------------------------
(* A small instance of PluginRouting for TLC.                              *)
EXTENDS PluginRouting, TLC

CONSTANTS e1, e2, u1, u2

SmallEntries   == {e1, e2}
SmallServices  == {u1, u2}
SmallEndpoints == {"Backup", "Both"}

(* A project with the outputs of its entry, for Backup, and one without    *)
(* outputs, for both slots.  The dialog makes the other ones of them.      *)
SmallProjects ==
    {[endpoint |-> p, entry |-> e,
      outputs |-> [r \in {"Primary", "Backup"} |->
                     [enabled |-> r = "Backup" \/ p = "Both",
                      to      |-> IF p = "Both" THEN NoEntry ELSE e]]]
       : p \in SmallEndpoints, e \in SmallEntries}

SmallEdits == {[enabled |-> TRUE, to |-> e] : e \in SmallEntries}

Symmetry == Permutations({e1, e2}) \cup Permutations({u1, u2})

=============================================================================
