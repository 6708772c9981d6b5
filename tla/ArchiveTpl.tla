------------------------------ MODULE ArchiveTpl ------------------------------
(***************************************************************************)
(* archive_tpl_logs (with copy_build_dir_files and copy_if_exists) run     *)
(* over the filesystem that full_build_and_test_of_tpls (module TplBuild)  *)
(* leaves behind.  The TPL job calls it once the orchestrator returned; if *)
(* the orchestrator raised, the job dies with it and nothing is archived.  *)
(*                                                                         *)
(* File names are abstracted to what the globs of the code can tell apart: *)
(*  - the spack log of spec s exists when uberenv ran for s;               *)
(*  - the configure log of host config h is output.log.<root>.configure.txt *)
(*    where <root> = <machine>-<sys_type>-<compiler> ends in h's compiler; *)
(*  - the build dir of h is build-<root>.                                  *)
(* A spec s decoded from its spack log (get_spec_from_tpl_log) is its       *)
(* compiler spec: the compiler of ConfigOf[s], followed by variants when s  *)
(* is in VariantSpecs.  get_compiler_from_spec strips the variants (both    *)
(* decodings are checked on strings in module Names).                      *)
(***************************************************************************)
EXTENDS Naturals, Sequences

CONSTANTS HostConfigs, NoHC, SpecList, ConfigOf,
          VariantSpecs   \* specs whose compiler spec carries ~/+ variants

VARIABLES
    pc, found, todo, cur, stage, ok, bad, logs, status, info, dirs,
    normalized, ret,
    tpc, specs, specIdx, specLogs, sharedMirror, mirror, tret,
    apc,        \* "idle" (orchestrator running), "specs", "done"
    atodo,      \* tpl logs the archive loop has still to visit
    archive,    \* archive[s]: files in archive_dir/<spec>
    archInfo,   \* info.json was copied into archive_dir
    archivedFrom, \* archivedFrom[s]: host config whose build dir was copied
    archNorm    \* set_axom_group_and_perms(archive_dir) ran

TB == INSTANCE TplBuild
BT == INSTANCE BuildAndTest

tbVars == <<pc, found, todo, cur, stage, ok, bad, logs, status, info, dirs,
            normalized, ret, tpc, specs, specIdx, specLogs, sharedMirror,
            mirror, tret>>
archVars == <<apc, atodo, archive, archInfo, archivedFrom, archNorm>>
vars == <<tbVars, archVars>>

SpecNames == TB!SpecNames

ASSUME VariantSpecs \subseteq SpecNames

\* glob(tpl_build_dir/output.log.spack.tpl.build.*): one log per spec
\* uberenv ran for.
TplLogs == {s \in SpecNames : specLogs[s] # "absent"}

\* glob(root/"output.log.*-" + spec + ".configure.txt") finds the configure
\* log of h: it exists and h's root ends with "-" + the full compiler spec,
\* which a root (ending in a bare compiler) does only without variants.
ConfigLogMatches(s, h) ==
    /\ logs[h]["configure"] # "absent"
    /\ ConfigOf[s] = h
    /\ s \notin VariantSpecs

\* Mutant: the build dir glob uses the full spec, like the config log glob.
BuildDirMatchesFullSpec(s, h) ==
    /\ BT!BuildDir(h) \in dirs
    /\ ConfigOf[s] = h
    /\ s \notin VariantSpecs

\* glob(root/"build-*-" + get_compiler_from_spec(spec)): the build dir of
\* the host config named after the spec's compiler, when it exists.
BuildDirMatches(s, h) ==
    /\ BT!BuildDir(h) \in dirs
    /\ ConfigOf[s] = h

TypeOK ==
    /\ TB!TypeOK
    /\ apc \in {"idle", "specs", "done"}
    /\ atodo \subseteq SpecNames
    /\ archive \in [SpecNames -> SUBSET BT!ArchiveFiles]
    /\ archInfo \in BOOLEAN
    /\ archivedFrom \in [SpecNames -> HostConfigs \cup {NoHC}]
    /\ archNorm \in BOOLEAN

Init ==
    /\ TB!Init
    /\ apc = "idle"
    /\ atodo = {}
    /\ archive = [s \in SpecNames |-> {}]
    /\ archInfo = FALSE
    /\ archivedFrom = [s \in SpecNames |-> NoHC]
    /\ archNorm = FALSE

-----------------------------------------------------------------------------
\* A step of the TPL orchestrator.
TplStep ==
    /\ apc = "idle"
    /\ TB!Next
    /\ UNCHANGED archVars

\* The orchestrator returned: the job calls archive_tpl_logs, which makes
\* archive_dir, copies tpl_build_dir/info.json and globs the spack logs.
StartArchive ==
    /\ apc = "idle"
    /\ tpc = "done"
    /\ apc' = "specs"
    /\ archInfo' = (TB!Prefix \in info)
    /\ atodo' = TplLogs
    /\ UNCHANGED <<tbVars, archive, archivedFrom, archNorm>>

\* One iteration of the loop over the spack logs, in glob order: copy the
\* spack log, the first matching configure log, and the files of the first
\* matching build dir into archive_dir/<spec>.
ArchiveSpec(s) ==
    /\ apc = "specs"
    /\ s \in atodo
    /\ LET cfg == {h \in HostConfigs : ConfigLogMatches(s, h)}
           bld == {h \in HostConfigs : BuildDirMatches(s, h)}
       IN /\ archive' = [archive EXCEPT ![s] =
                           @ \cup {"spack_log"}
                             \cup (IF cfg # {} THEN {"config_log"} ELSE {})
                             \cup UNION {BT!BuildDirFiles(h) : h \in bld}]
          /\ archivedFrom' = [archivedFrom EXCEPT ![s] =
                                IF bld # {} THEN CHOOSE h \in bld : TRUE
                                            ELSE @]
    /\ atodo' = atodo \ {s}
    /\ UNCHANGED <<tbVars, apc, archInfo, archNorm>>

\* The loop is over: set_axom_group_and_perms(archive_dir).
FinishArchive ==
    /\ apc = "specs"
    /\ atodo = {}
    /\ archNorm' = TRUE
    /\ apc' = "done"
    /\ UNCHANGED <<tbVars, atodo, archive, archInfo, archivedFrom>>

Next ==
    \/ TplStep
    \/ StartArchive
    \/ \E s \in SpecNames : ArchiveSpec(s)
    \/ FinishArchive

Spec == Init /\ [][Next]_vars /\ WF_vars(Next)

-----------------------------------------------------------------------------
(* Properties. *)

\* The TPL orchestrator's own properties, over the whole TPL job (module
\* TplBuild): spec builds are fail-fast and the host configs are built only
\* against a complete TPL install.
SpecsFailFast == TB!SpecsFailFast

\* When full_build_and_test_of_tpls returns, prefix and mirror perms are
\* normalized and its return code and prefix status agree with the spec
\* and host-config outcomes (module TplBuild).
TplOutcome == TB!TplOutcome

\* Once archive_tpl_logs is done, the archive of every spec uberenv ran for
\* tells that spec's story: its spack log is there, success.json is there
\* exactly when its host config passed every stage, failed.json exactly when
\* that host config failed, and the ctest outputs exactly when its tests ran.
\* This goes through the whole chain: TPL fail-fast, the host configs uberenv
\* generated, the pipeline's status files and the archive's build dir glob.
TplArchiveReflectsRun ==
    apc = "done" =>
        /\ archInfo
        /\ \A s \in TplLogs :
             LET h == ConfigOf[s] IN
             /\ "spack_log" \in archive[s]
             /\ ("success" \in archive[s]) <=> (h \in ok)
             /\ ("failed" \in archive[s]) <=> (h \in bad)
             /\ ("test_xml" \in archive[s]) <=> (logs[h]["test"] # "absent")

\* Spec 4.9: the configure log of a spec's host config is archived with
\* the other well-known logs of that spec (the code notes "there should only
\* be one of these per spec").
ArchiveHasConfigLog ==
    apc = "done" =>
        \A s \in TplLogs :
            logs[ConfigOf[s]]["configure"] # "absent" => "config_log" \in archive[s]

\* Spec 5: each spec gets its own namespace keyed by its identifier, so no
\* two specs' archives hold the results of the same build dir.
OwnBuildDir ==
    \A s, t \in SpecNames :
        s # t /\ archivedFrom[s] # NoHC => archivedFrom[s] # archivedFrom[t]

=============================================================================
