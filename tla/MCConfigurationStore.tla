------------------------ MODULE MCConfigurationStore ------------------------
(* Instances of ConfigurationStore for TLC.                                *)
EXTENDS ConfigurationStore, TLC

CONSTANTS k1, k2, v, w, c1, c2

MCSingle == {k1 :> v}
MCBatch == {k1 :> v @@ k2 :> v}
MCProfiles == {{k2}}
MCArchives == {k1 :> v @@ k2 :> v}
MCLegacy == k1 :> Unset @@ k2 :> w
MCAsks == c1 :> {"edit", "undo", "import"} @@ c2 :> Kinds
MigrationAsks == [c \in Callers |-> {"edit", "migrate", "rollback-migration"}]
CallersAlike == Permutations(Callers)
=============================================================================
