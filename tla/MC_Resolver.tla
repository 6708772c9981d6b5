---------------------------- MODULE MC_Resolver ----------------------------
(* One machine and one system type, so that a table may hold either key,   *)
(* both or neither; two spec lists of different lengths.                   *)
EXTENDS Resolver

MCMachines == {"quartz"}

MCSysTypes == {"toss_3_x86_64_ib"}

MCSpecEntries == {<<"gcc@4.9.3">>, <<"clang@3.9.1", "intel@17.0.0">>}

=============================================================================
