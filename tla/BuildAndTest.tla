---------------------------- MODULE BuildAndTest ----------------------------
(***************************************************************************)
(* The multi-config orchestrator build_and_test_host_configs and the      *)
(* single-config pipeline build_and_test_host_config it calls, from       *)
(* src/scripts/llnl_scripts/llnl_lc_build_tools.py.                        *)
(*                                                                         *)
(* The program is one sequential thread.  A step of this module is one     *)
(* external command (configure, make, make test, make docs, make install)  *)
(* together with all the Python that runs between its return and the next *)
(* external command whose result matters.  Command exit codes are chosen   *)
(* nondeterministically; the content of a file is abstracted to the exit  *)
(* code it records.  The filesystem is the set of directories that exist, *)
(* the status files (success.json / failed.json), info.json, the per-stage *)
(* log files and the directories whose group/permissions were normalized. *)
(***************************************************************************)
EXTENDS Naturals, FiniteSets, Sequences

CONSTANTS
    HostConfigs,   \* host-config files that may sit in the host-configs dir
    NoHC           \* the hc field of a directory that belongs to no config

ASSUME NoHC \notin HostConfigs

VARIABLES
    pc,          \* where the thread of control is
    found,       \* result of get_host_configs_for_current_machine (the glob)
    todo,        \* host configs the for-loop has not reached yet
    cur,         \* host config whose pipeline is running
    stage,       \* index into Stages of the next command of that pipeline
    ok, bad,     \* the lists ok and bad of build_and_test_host_configs
    logs,        \* logs[h][s]: the log file of stage s of h, by exit code
    status,      \* status[d]: the status files present in directory d
    info,        \* directories holding an info.json
    dirs,        \* directories that exist
    normalized,  \* directories set_axom_group_and_perms was run on
    ret          \* return value of build_and_test_host_configs

vars == <<pc, found, todo, cur, stage, ok, bad, logs, status, info, dirs,
          normalized, ret>>

-----------------------------------------------------------------------------
(* Directories. *)

Dir(k, h) == [kind |-> k, hc |-> h]

Prefix == Dir("prefix", NoHC)

\* get_build_and_test_root(prefix, timestamp)
TestRoot == Dir("test_root", NoHC)

\* get_build_dir(test_root, host_config): test_root/build-<root>
BuildDir(h) == Dir("build", h)

\* test_root/install-<root>
InstallDir(h) == Dir("install", h)

\* get_shared_tpl_mirror_dir() and builds_dir/mirror, which only the TPL
\* orchestrator that calls this one touches.
SharedMirror == Dir("shared_mirror", NoHC)
LocalMirror == Dir("local_mirror", NoHC)

Dirs == {Prefix, TestRoot} \cup {BuildDir(h) : h \in HostConfigs}
                           \cup {InstallDir(h) : h \in HostConfigs}

-----------------------------------------------------------------------------
(* Commands and files. *)

\* The commands of the pipeline, in the order the code runs them.
Stages == <<"configure", "build", "test", "docs", "install">>

StageNames == {Stages[i] : i \in 1..Len(Stages)}

\* sexe returns the exit code of the command; only zero / non-zero is
\* observed by the callers.
StageResults == {"ok", "failed"}

\* config-build.py creates the build directory before it runs cmake; it can
\* fail after creating it ("failed") or before ("failed_early").
ConfigureResults == {"ok", "failed", "failed_early"}

LogStates == {"absent"} \cup StageResults

StatusFiles == {"success", "failed"}

\* log_success / log_failure: json.dump into open(pjoin(dir, <s>.json), "w").
\* The open raises IOError when the directory does not exist; the caller
\* decides with CanLog whether the step completes or raises.
CanLog(d, ds) == d \in ds

LogStatus(d, s) == [status EXCEPT ![d] = @ \cup {s}]

\* set_axom_group_and_perms: chgrp, chmod g+rwX, chmod a+rX, each
\* best-effort; the result of each command is ignored.
SetPerms(ds) == normalized \cup ds

\* What copy_build_dir_files can copy out of a build dir: its status files,
\* the make logs of the stages after configure, and the ctest outputs
\* (Testing/Temporary/LastTest*.log, Testing/*/Test.xml); the archival
\* code adds the spack log and the configure log.
ArchiveFiles ==
    {"spack_log", "config_log", "success", "failed", "last_test", "test_xml"}
        \cup (StageNames \ {"configure"})

\* copy_build_dir_files(build_dir): copy_if_exists of each file that is
\* there; the build dir's info.json is never written, and the ctest
\* outputs exist once "make test ARGS=-T Test" ran.
BuildDirFiles(h) ==
    status[BuildDir(h)]
        \cup {st \in StageNames \ {"configure"} : logs[h][st] # "absent"}
        \cup (IF logs[h]["test"] # "absent" THEN {"last_test", "test_xml"}
                                           ELSE {})

-----------------------------------------------------------------------------
TypeOK ==
    /\ pc \in {"start", "loop", "stage", "done", "raised"}
    /\ found \subseteq HostConfigs
    /\ todo \subseteq found
    /\ cur \in HostConfigs \cup {NoHC}
    /\ stage \in 1..Len(Stages)
    /\ ok \subseteq found /\ bad \subseteq found
    /\ logs \in [HostConfigs -> [StageNames -> LogStates]]
    /\ status \in [Dirs -> SUBSET StatusFiles]
    /\ info \subseteq Dirs
    /\ dirs \subseteq Dirs
    /\ normalized \subseteq Dirs \cup {SharedMirror, LocalMirror}
    /\ ret \in {0, 1}

\* The locals of build_and_test_host_configs when it is entered; the glob
\* may find any subset of the host configs.
InitCall ==
    /\ pc = "start"
    /\ found \in SUBSET HostConfigs
    /\ todo = {}
    /\ cur = NoHC
    /\ stage = 1
    /\ ok = {} /\ bad = {}
    /\ ret = 0

\* The filesystem of a fresh run: the prefix exists, nothing else does.
InitFS ==
    /\ logs = [h \in HostConfigs |-> [s \in StageNames |-> "absent"]]
    /\ status = [d \in Dirs |-> {}]
    /\ info = {}
    /\ dirs = {Prefix}
    /\ normalized = {}

Init == InitCall /\ InitFS

-----------------------------------------------------------------------------
(* build_and_test_host_configs, before the loop. *)

\* No host config matched the machine name: log_failure(prefix), return 1.
NoHostConfigs ==
    /\ pc = "start"
    /\ found = {}
    /\ CanLog(Prefix, dirs)
    /\ status' = LogStatus(Prefix, "failed")
    /\ ret' = 1
    /\ pc' = "done"
    /\ UNCHANGED <<found, todo, cur, stage, ok, bad, logs, info, dirs,
                   normalized>>

\* os.mkdir(test_root), write_build_info(test_root/info.json), ok = bad = [].
StartRun ==
    /\ pc = "start"
    /\ found # {}
    /\ TestRoot \notin dirs
    /\ dirs' = dirs \cup {TestRoot}
    /\ info' = info \cup {TestRoot}
    /\ todo' = found
    /\ pc' = "loop"
    /\ UNCHANGED <<found, cur, stage, ok, bad, logs, status, normalized, ret>>

-----------------------------------------------------------------------------
(* The loop body: one pipeline per host config. *)

\* Mutant: the failure branch calls log_success instead of log_failure.
FailConfigLogsSuccess(h, ds) ==
    /\ bad' = bad \cup {h}
    /\ IF CanLog(BuildDir(h), ds)
         THEN /\ status' = LogStatus(BuildDir(h), "success")
              /\ pc' = "loop"
         ELSE /\ pc' = "raised"
              /\ UNCHANGED status

\* The pipeline of h returned non-zero: bad.append(h), then
\* log_failure(build_dir), which raises when build_dir was never created.
FailConfig(h, ds) ==
    /\ bad' = bad \cup {h}
    /\ IF CanLog(BuildDir(h), ds)
         THEN /\ status' = LogStatus(BuildDir(h), "failed")
              /\ pc' = "loop"
         ELSE /\ pc' = "raised"
              /\ UNCHANGED status

\* The loop moves past h.
NextTodo(h) == todo \ {h}

\* The for-loop takes the next host config h and runs config-build.py,
\* logging to test_root/output.log.<root>.configure.txt.
RunConfigure(h) ==
    /\ pc = "loop"
    /\ h \in todo
    /\ todo' = NextTodo(h)
    /\ \E r \in ConfigureResults :
         LET ds == IF r = "failed_early" THEN dirs ELSE dirs \cup {BuildDir(h)}
         IN /\ dirs' = ds
            /\ logs' = [logs EXCEPT ![h]["configure"] =
                                      IF r = "ok" THEN "ok" ELSE "failed"]
            /\ IF r = "ok"
                 THEN /\ cur' = h
                      /\ stage' = 2
                      /\ pc' = "stage"
                      /\ UNCHANGED <<bad, status>>
                 ELSE /\ FailConfig(h, ds)
                      /\ UNCHANGED <<cur, stage>>
    /\ UNCHANGED <<found, ok, info, normalized, ret>>

\* Mutant: a stage's "if res != 0: return res" is missing.
RunStageNoReturn ==
    /\ pc = "stage"
    /\ stage \in 2..4
    /\ \E r \in StageResults :
         /\ logs' = [logs EXCEPT ![cur][Stages[stage]] = r]
         /\ stage' = stage + 1
         /\ UNCHANGED <<pc, bad, status>>
    /\ UNCHANGED <<found, todo, cur, ok, info, dirs, normalized, ret>>

\* make, make test, make docs in build_dir, each logging to its own file in
\* build_dir; a non-zero exit returns it at once.
RunStage ==
    /\ pc = "stage"
    /\ stage \in 2..4
    /\ \E r \in StageResults :
         /\ logs' = [logs EXCEPT ![cur][Stages[stage]] = r]
         /\ IF r = "ok"
              THEN /\ stage' = stage + 1
                   /\ UNCHANGED <<pc, bad, status>>
              ELSE /\ FailConfig(cur, dirs)
                   /\ UNCHANGED stage
    /\ UNCHANGED <<found, todo, cur, ok, info, dirs, normalized, ret>>

\* make install; on success the sanity-check ls commands (results ignored),
\* set_axom_group_and_perms on build_dir and install_dir, return 0, and the
\* caller's ok.append(h) and log_success(build_dir).
RunInstall ==
    /\ pc = "stage"
    /\ stage = 5
    /\ \E r \in StageResults :
         /\ logs' = [logs EXCEPT ![cur]["install"] = r]
         /\ IF r = "ok"
              THEN /\ dirs' = dirs \cup {InstallDir(cur)}
                   /\ normalized' = SetPerms({BuildDir(cur), InstallDir(cur)})
                   /\ ok' = ok \cup {cur}
                   /\ status' = LogStatus(BuildDir(cur), "success")
                   /\ pc' = "loop"
                   /\ UNCHANGED bad
              ELSE /\ FailConfig(cur, dirs)
                   /\ UNCHANGED <<dirs, normalized, ok>>
    /\ UNCHANGED <<found, todo, cur, stage, info, ret>>

\* Mutant: the overall status is success as soon as one config succeeded.
FinishAnyOk ==
    /\ pc = "loop"
    /\ todo = {}
    /\ status' = LogStatus(TestRoot, IF ok = {} THEN "failed" ELSE "success")
    /\ ret' = IF bad # {} THEN 1 ELSE 0
    /\ pc' = "done"
    /\ UNCHANGED <<found, todo, cur, stage, ok, bad, logs, info, dirs,
                   normalized>>

\* Mutant: returns the number of failed configs instead of 1.
FinishReturnsCount ==
    /\ pc = "loop"
    /\ todo = {}
    /\ status' = LogStatus(TestRoot, IF bad # {} THEN "failed" ELSE "success")
    /\ ret' = Cardinality(bad)
    /\ pc' = "done"
    /\ UNCHANGED <<found, todo, cur, stage, ok, bad, logs, info, dirs,
                   normalized>>

\* After the loop: log_failure(test_root) if bad is non-empty, else
\* log_success(test_root); return 1 if bad is non-empty, else 0.
Finish ==
    /\ pc = "loop"
    /\ todo = {}
    /\ status' = LogStatus(TestRoot, IF bad # {} THEN "failed" ELSE "success")
    /\ ret' = IF bad # {} THEN 1 ELSE 0
    /\ pc' = "done"
    /\ UNCHANGED <<found, todo, cur, stage, ok, bad, logs, info, dirs,
                   normalized>>

Next ==
    \/ NoHostConfigs
    \/ StartRun
    \/ \E h \in HostConfigs : RunConfigure(h)
    \/ RunStage
    \/ RunInstall
    \/ Finish

\* One thread that always continues once the command it waits on returns.
Spec == Init /\ [][Next]_vars /\ WF_vars(Next)

-----------------------------------------------------------------------------
(* Properties. *)

\* build_and_test_host_config is fail-fast: a stage's command runs, and its
\* log file appears, only when every earlier stage of the same host config
\* exited with zero.
FailFast ==
    \A h \in HostConfigs, j \in 2..Len(Stages) :
        logs[h][Stages[j]] # "absent" => logs[h][Stages[j - 1]] = "ok"

\* The status file the orchestrator writes into a build dir agrees with the
\* logs of that config's pipeline: success.json exactly when every stage
\* succeeded, which is also exactly when its build and install dirs had
\* their permissions normalized; failed.json only after a failing stage;
\* never both.
StatusReflectsPipeline ==
    \A h \in HostConfigs :
        LET st == status[BuildDir(h)]
            allOk == \A s \in StageNames : logs[h][s] = "ok"
        IN /\ ("success" \in st) <=> allOk
           /\ ({BuildDir(h), InstallDir(h)} \subseteq normalized) <=> allOk
           /\ ("failed" \in st) => \E s \in StageNames : logs[h][s] = "failed"
           /\ st # StatusFiles

\* When build_and_test_host_configs returns normally, every discovered
\* config was attempted, the aggregate status in test_root is success
\* exactly when every build dir holds success.json and failed exactly when
\* some build dir holds failed.json, and the return code is 0 exactly when
\* the aggregate is success.  With no host configs it returns 1 after
\* writing failed.json into the prefix.
AggregateOutcome ==
    pc = "done" =>
        IF found = {}
        THEN ret = 1 /\ "failed" \in status[Prefix]
        ELSE /\ ok \cup bad = found
             /\ ("success" \in status[TestRoot])
                    <=> \A h \in found : "success" \in status[BuildDir(h)]
             /\ ("failed" \in status[TestRoot])
                    <=> \E h \in found : "failed" \in status[BuildDir(h)]
             /\ (ret = 0) <=> ("success" \in status[TestRoot])

\* Spec 4.7: the orchestrator attempts every host config and records an
\* aggregate status even when some configs fail (no early abort across
\* configs).
EventuallyReports == <>(pc = "done")

=============================================================================
