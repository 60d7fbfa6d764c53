----------------------------- MODULE MCDenyList -----------------------------
(* Instances of the deny list for TLC. *)
EXTENDS DenyList

\* Nothing is claimed of the maps once two threads have raced on them.
Untorn == ~torn
=============================================================================
