--------------------------- MODULE MCModuleStore ---------------------------
(* Instances of the module store for TLC. *)
EXTENDS ModuleStore

\* A new version, and a first version that needs zygisk.
TwoPackages == {{"new"}, {"old", "zygisk"}}
=============================================================================
