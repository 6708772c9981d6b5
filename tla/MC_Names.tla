------------------------------ MODULE MC_Names ------------------------------
(* Compiler names of up to three characters, each variant ordering, with  *)
(* and without a dependency part.  Two machines; hostnames with no, one,   *)
(* two and three trailing digits; three system types (with digits and a   *)
(* dash); compilers with and without dots in the version.                  *)
EXTENDS Names

MCCompilerChars == {"g", "@", "4"}

MCVariants == {<<>>, <<"~", "c">>, <<"+", "m">>,
               <<"+", "m", "~", "c">>, <<"~", "c", "+", "m">>}

MCDeps == {<<>>, <<"^", "o">>}

\* specs.json entries such as "gcc@4.9.3~cuda ^openmpi"
SpaceSep == <<" ">>

\* spec 8's example "%gcc@4.9.3^openmpi"
NoSep == <<>>

MCMachines == {<<"q">>, <<"r", "z">>}

MCNodeNumbers == {<<>>, <<"1">>, <<"1", "0">>, <<"7", "1", "2">>}

MCSysTypes == {<<"t">>, <<"b", "_", "3">>, <<"t", "_", "4", "-", "x">>}

MCCompilers == {<<"g", "@", "4", ".", "9">>, <<"c", "@", "1">>, <<"i", "+">>,
                <<"c", "@", "1", ".", "0", ".", "0">>}

=============================================================================
