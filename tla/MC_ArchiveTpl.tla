---------------------------- MODULE MC_ArchiveTpl ----------------------------
(* Two specs, two host configs; s2's compiler spec carries variants.        *)
(* MCConfigOf: different compilers.  MCSharedConfigOf: one compiler, the    *)
(* specs differ only in variants, so uberenv writes one host config.        *)
EXTENDS ArchiveTpl, TLC

CONSTANTS h1, h2, s1, s2

MCHostConfigs == {h1, h2}

MCSpecList == <<s1, s2>>

MCConfigOf == (s1 :> h1) @@ (s2 :> h2)

MCSharedConfigOf == (s1 :> h1) @@ (s2 :> h1)

MCVariantSpecs == {s2}

=============================================================================
