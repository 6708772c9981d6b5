---------------------------- MODULE MC_ArchiveSrc ----------------------------
(* Two host configs, two runs of the job over two seconds. *)
EXTENDS ArchiveSrc

CONSTANTS h1, h2

MCHostConfigs == {h1, h2}

=============================================================================
