------------------------------ MODULE TplBuild ------------------------------
(***************************************************************************)
(* The TPL orchestrator full_build_and_test_of_tpls, with the helpers it   *)
(* calls (uberenv_create_mirror, write_build_info, uberenv_install_tpls),  *)
(* composed with the multi-config orchestrator of module BuildAndTest,     *)
(* which it calls on the freshly built prefix.                             *)
(*                                                                         *)
(* The prefix builds_dir/<timestamp> is BuildAndTest's Prefix; the TPL     *)
(* steps and the host-config steps share its filesystem variables.  The    *)
(* locals of build_and_test_host_configs start in their entry state and    *)
(* only move once the call is made (tpc = "host_configs").                *)
(***************************************************************************)
EXTENDS Naturals, Sequences

CONSTANTS
    HostConfigs,   \* host configs uberenv may generate into the prefix
    NoHC,
    SpecList,      \* specs.json entry for this machine, in file order
    ConfigOf       \* ConfigOf[s]: the host config uberenv writes for spec s,
                   \* <machine>-<sys_type>-<compiler>.cmake

VARIABLES
    pc, found, todo, cur, stage, ok, bad, logs, status, info, dirs,
    normalized, ret,   \* those of BuildAndTest
    tpc,           \* where full_build_and_test_of_tpls is
    specs,         \* get_specs_for_current_machine()
    specIdx,       \* index of the next spec of the install loop
    specLogs,      \* specLogs[s]: output.log.spack.tpl.build.<s>.txt by exit code
    sharedMirror,  \* whether the shared mirror directory exists
    mirror,        \* mirror_dir chosen by the orchestrator
    tret           \* return value: 0, or 1 for any non-zero code

BT == INSTANCE BuildAndTest

btVars == <<pc, found, todo, cur, stage, ok, bad, logs, status, info, dirs,
            normalized, ret>>
tplVars == <<tpc, specs, specIdx, specLogs, sharedMirror, mirror, tret>>
vars == <<btVars, tplVars>>

Prefix == BT!Prefix

SharedMirror == BT!SharedMirror
LocalMirror == BT!LocalMirror

SpecNames == {SpecList[i] : i \in 1..Len(SpecList)}

ASSUME ConfigOf \in [SpecNames -> HostConfigs]

\* get_specs_for_current_machine: the list of specs.json under the machine
\* name (or else the system type), each prefixed with '%'.
MachineSpecs == {SubSeq(SpecList, 1, n) : n \in 0..Len(SpecList)}

\* The failure branch of uberenv_install_tpls: log_failure(prefix, ...).
LogTplFailure == BT!LogStatus(Prefix, "failed")

\* uberenv --create-mirror creates the prefix before it does anything that
\* can fail, unless it fails first ("failed_early"); its exit code is
\* only printed as a WARNING.
CreateMirrorResults == {"ok", "failed", "failed_early"}

TypeOK ==
    /\ BT!TypeOK
    /\ tpc \in {"start", "specs", "host_configs", "done", "raised"}
    /\ specs \in MachineSpecs
    /\ specIdx \in 1..Len(SpecList) + 1
    /\ specLogs \in [SpecNames -> BT!LogStates]
    /\ sharedMirror \in BOOLEAN
    /\ mirror \in {SharedMirror, LocalMirror, NoHC}
    /\ tret \in {0, 1}

\* The machine's entry of specs.json is any prefix of SpecList (possibly
\* empty); the shared mirror may or may not exist; no directory exists yet.
Init ==
    /\ BT!InitCall
    /\ found = {}
    /\ logs = [h \in HostConfigs |-> [s \in BT!StageNames |-> "absent"]]
    /\ status = [d \in BT!Dirs |-> {}]
    /\ info = {}
    /\ dirs = {}
    /\ normalized = {}
    /\ tpc = "start"
    /\ specs \in MachineSpecs
    /\ specIdx = 1
    /\ specLogs = [s \in SpecNames |-> "absent"]
    /\ sharedMirror \in BOOLEAN
    /\ mirror = NoHC
    /\ tret = 0

-----------------------------------------------------------------------------
\* Choose the mirror, run uberenv --create-mirror into prefix, then
\* write_build_info(prefix/info.json), which raises if there is no prefix.
CreateMirror ==
    /\ tpc = "start"
    /\ mirror' = IF sharedMirror THEN SharedMirror ELSE LocalMirror
    /\ \E r \in CreateMirrorResults :
         LET ds == IF r = "failed_early" THEN dirs ELSE dirs \cup {Prefix}
         IN /\ dirs' = ds
            /\ IF Prefix \in ds
                 THEN /\ info' = info \cup {Prefix}
                      /\ tpc' = "specs"
                 ELSE /\ tpc' = "raised"
                      /\ UNCHANGED info
    /\ UNCHANGED <<pc, found, todo, cur, stage, ok, bad, logs, status,
                   normalized, ret, specs, specIdx, specLogs, sharedMirror,
                   tret>>

\* Mutant: a failed spec build skips the permission fix-up of the early exit.
InstallSpecNoPerms ==
    /\ tpc = "specs"
    /\ specIdx <= Len(specs)
    /\ \E r \in BT!StageResults :
         /\ specLogs' = [specLogs EXCEPT ![specs[specIdx]] = r]
         /\ IF r = "ok"
              THEN /\ specIdx' = specIdx + 1
                   /\ UNCHANGED <<tpc, status, normalized, tret>>
              ELSE /\ status' = BT!LogStatus(Prefix, "failed")
                   /\ tret' = 1
                   /\ tpc' = "done"
                   /\ UNCHANGED <<specIdx, normalized>>
    /\ UNCHANGED <<pc, found, todo, cur, stage, ok, bad, logs, info, dirs, ret,
                   specs, sharedMirror, mirror>>

\* Mutant: a failed spec does not end the loop (fail-continue).
InstallSpecNoReturn ==
    /\ tpc = "specs"
    /\ specIdx <= Len(specs)
    /\ \E r \in BT!StageResults :
         /\ specLogs' = [specLogs EXCEPT ![specs[specIdx]] = r]
         /\ specIdx' = specIdx + 1
         /\ status' = IF r = "ok" THEN status ELSE BT!LogStatus(Prefix, "failed")
         /\ UNCHANGED <<tpc, normalized, tret>>
    /\ UNCHANGED <<pc, found, todo, cur, stage, ok, bad, logs, info, dirs, ret,
                   specs, sharedMirror, mirror>>

\* uberenv_install_tpls(prefix, spec, mirror_dir): uberenv logs to
\* prefix/output.log.spack.tpl.build.<spec>.txt; on a non-zero exit it
\* calls log_failure(prefix), and the orchestrator normalizes the perms of
\* prefix and mirror and returns the code at once (fail-fast across specs).
InstallSpec ==
    /\ tpc = "specs"
    /\ specIdx <= Len(specs)
    /\ \E r \in BT!StageResults :
         /\ specLogs' = [specLogs EXCEPT ![specs[specIdx]] = r]
         /\ IF r = "ok"
              THEN /\ specIdx' = specIdx + 1
                   /\ UNCHANGED <<tpc, status, normalized, tret>>
              ELSE /\ status' = LogTplFailure
                   /\ normalized' = BT!SetPerms({Prefix, mirror})
                   /\ tret' = 1
                   /\ tpc' = "done"
                   /\ UNCHANGED specIdx
    /\ UNCHANGED <<pc, found, todo, cur, stage, ok, bad, logs, info, dirs, ret,
                   specs, sharedMirror, mirror>>

\* Every spec installed: call build_and_test_host_configs(prefix, ...).
\* Its glob finds the host configs uberenv wrote into the prefix, one per
\* compiler: specs that share a compiler share (overwrite) one file.
CallHostConfigs ==
    /\ tpc = "specs"
    /\ specIdx > Len(specs)
    /\ tpc' = "host_configs"
    /\ found' = {ConfigOf[specs[i]] : i \in 1..Len(specs)}
    /\ UNCHANGED <<pc, todo, cur, stage, ok, bad, logs, status, info, dirs,
                   normalized, ret, specs, specIdx, specLogs, sharedMirror,
                   mirror, tret>>

\* A step of build_and_test_host_configs.
HostConfigsStep ==
    /\ tpc = "host_configs"
    /\ BT!Next
    /\ UNCHANGED tplVars

\* It returned: normalize prefix and mirror perms, return its result.
AfterHostConfigs ==
    /\ tpc = "host_configs"
    /\ pc = "done"
    /\ normalized' = BT!SetPerms({Prefix, mirror})
    /\ tret' = ret
    /\ tpc' = "done"
    /\ UNCHANGED <<pc, found, todo, cur, stage, ok, bad, logs, status, info,
                   dirs, ret, specs, specIdx, specLogs, sharedMirror, mirror>>

\* It raised: there is no try/finally, the exception leaves the function.
HostConfigsRaised ==
    /\ tpc = "host_configs"
    /\ pc = "raised"
    /\ tpc' = "raised"
    /\ UNCHANGED <<btVars, specs, specIdx, specLogs, sharedMirror, mirror, tret>>

Next ==
    \/ CreateMirror
    \/ InstallSpec
    \/ CallHostConfigs
    \/ HostConfigsStep
    \/ AfterHostConfigs
    \/ HostConfigsRaised

Spec == Init /\ [][Next]_vars /\ WF_vars(Next)

-----------------------------------------------------------------------------
(* Properties. *)

SpecFailed == \E i \in 1..Len(specs) : specLogs[specs[i]] = "failed"

\* Fail-fast across specs: a spec is built only after every earlier spec
\* built, and the host configs are built and tested only against a
\* complete set of TPLs (every spec of the machine succeeded).
SpecsFailFast ==
    /\ \A i, j \in 1..Len(specs) :
         i < j /\ specLogs[specs[j]] # "absent" => specLogs[specs[i]] = "ok"
    /\ (tpc = "host_configs" \/ pc # "start") =>
         \A i \in 1..Len(specs) : specLogs[specs[i]] = "ok"

\* When full_build_and_test_of_tpls returns: the prefix and the mirror it
\* used had their perms normalized, the return code is 0 exactly when every
\* spec built and the host-config aggregate is success, and the prefix
\* holds failed.json exactly when a spec failed or no host config was found.
TplOutcome ==
    tpc = "done" =>
        /\ {Prefix, mirror} \subseteq normalized
        /\ (tret = 0) <=> (~SpecFailed /\ "success" \in status[BT!TestRoot])
        /\ ("failed" \in status[Prefix])
              <=> (SpecFailed \/ (pc = "done" /\ found = {}))

\* Spec 4.8: once the prefix exists and the spec loop has begun, the perms
\* of prefix and mirror are eventually normalized whatever the outcome of
\* the spec builds and of the host-config builds (the call at the end of
\* full_build_and_test_of_tpls, after which set_group_and_perms runs).
EventuallyPermsNormalized ==
    (tpc = "specs") ~> ({Prefix, mirror} \subseteq normalized)

=============================================================================
