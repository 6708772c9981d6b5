---------------------------- MODULE MC_TplBuild ----------------------------
(* Two specs and two host configs.  In MCConfigOf the specs have different *)
(* compilers; in MCSharedConfigOf both have the same compiler (and differ  *)
(* only in variants), so uberenv writes one host config for both.          *)
EXTENDS TplBuild, TLC

CONSTANTS h1, h2, s1, s2

MCHostConfigs == {h1, h2}

MCSpecList == <<s1, s2>>

MCConfigOf == (s1 :> h1) @@ (s2 :> h2)

MCSharedConfigOf == (s1 :> h1) @@ (s2 :> h1)

=============================================================================
