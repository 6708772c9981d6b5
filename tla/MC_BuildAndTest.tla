-------------------------- MODULE MC_BuildAndTest --------------------------
(* Two host configs: one can pass while the other fails. *)
EXTENDS BuildAndTest

CONSTANTS h1, h2

MCHostConfigs == {h1, h2}

=============================================================================
