------------------------- MODULE MCConfigurationSync -------------------------
(* Instances of ConfigurationSync for TLC.                                 *)
EXTENDS ConfigurationSync, TLC

CONSTANTS shared, own, v, w

MCEdits == {shared :> v @@ own :> v}
MCReset == {shared :> v, shared :> Unset}
MCProfiles == {{own}}
MCArchives == {shared :> w @@ own :> w}
MCAsks == [u \in UIs |-> {"edit", "remove"}]
ResetAsks == [u \in UIs |-> {"edit"}]
UIsAlike == Permutations(UIs)
MCLegacy == shared :> Unset @@ own :> Unset
=============================================================================
