------------------------------ MODULE ArchiveSrc ------------------------------
(***************************************************************************)
(* The source-build job over time: runs of build_and_test_host_configs     *)
(* (module BuildAndTest) in one source prefix, each followed by            *)
(* archive_src_logs(prefix, job_name, timestamp).  The prefix (a checkout  *)
(* that CI jobs reuse) and the archive tree persist from run to run; the   *)
(* locals of a run do not.                                                 *)
(*                                                                         *)
(* A run is named by its timestamp, get_timestamp() at one-second          *)
(* resolution: the next run starts in the same second (same timestamp,    *)
(* same checkout, so the same host configs) or later (the next timestamp, *)
(* with the checkout possibly updated).  A later timestamp names a fresh   *)
(* build/test root; the same timestamp names the same one.  The job may be *)
(* killed (batch time limit, node failure) at any point before it ends.   *)
(***************************************************************************)
EXTENDS Naturals

CONSTANTS HostConfigs, NoHC,
          MaxTs,     \* timestamps are 1..MaxTs, in seconds
          MaxRuns    \* runs of the job in the behaviour

VARIABLES
    pc, found, todo, cur, stage, ok, bad, logs, status, info, dirs,
    normalized, ret,
    jpc,       \* the job: "run", "archive", "archived", "ended"
    ts,        \* timestamp of the current run
    runs,      \* runs started so far
    atodo,     \* build dirs the archive loop has still to visit
    archTop,   \* archTop[t]: files copied into archive_dir of timestamp t
    archSpec,  \* archSpec[t][h]: files in archive_dir/<spec of h's build dir>
    archNorm   \* archive dirs set_axom_group_and_perms ran on

BT == INSTANCE BuildAndTest

btVars == <<pc, found, todo, cur, stage, ok, bad, logs, status, info, dirs,
            normalized, ret>>
fsVars == <<logs, status, info, dirs, normalized>>
archVars == <<atodo, archTop, archSpec, archNorm>>
vars == <<btVars, jpc, ts, runs, archVars>>

Timestamps == 1..MaxTs

Prefix == BT!Prefix

TypeOK ==
    /\ BT!TypeOK
    /\ jpc \in {"run", "archive", "archived", "ended"}
    /\ ts \in Timestamps
    /\ runs \in 1..MaxRuns
    /\ atodo \subseteq HostConfigs
    /\ archTop \in [Timestamps -> SUBSET (BT!StatusFiles \cup {"info"})]
    /\ archSpec \in [Timestamps -> [HostConfigs -> SUBSET BT!ArchiveFiles]]
    /\ archNorm \subseteq Timestamps

Init ==
    /\ BT!Init
    /\ jpc = "run"
    /\ ts = 1
    /\ runs = 1
    /\ atodo = {}
    /\ archTop = [t \in Timestamps |-> {}]
    /\ archSpec = [t \in Timestamps |-> [h \in HostConfigs |-> {}]]
    /\ archNorm = {}

-----------------------------------------------------------------------------
ArchiveDir(t) == t

\* A step of build_and_test_host_configs.
RunStep ==
    /\ jpc = "run"
    /\ BT!Next
    /\ UNCHANGED <<jpc, ts, runs, archVars>>

\* build_and_test_host_configs: os.mkdir(test_root) raises OSError, as a
\* run of the same second already made that root.
TestRootExists ==
    /\ jpc = "run"
    /\ pc = "start"
    /\ found # {}
    /\ BT!TestRoot \in dirs
    /\ pc' = "raised"
    /\ UNCHANGED <<found, todo, cur, stage, ok, bad, fsVars, ret, jpc, ts, runs,
                   archVars>>

\* build_and_test_host_configs raised: the exception ends the job.
JobDies ==
    /\ jpc = "run"
    /\ pc = "raised"
    /\ jpc' = "ended"
    /\ UNCHANGED <<btVars, ts, runs, archVars>>

\* The job is killed between two steps; what is on disk stays.
Killed ==
    /\ jpc \in {"run", "archive"}
    /\ jpc' = "ended"
    /\ UNCHANGED <<btVars, ts, runs, archVars>>

\* archive_src_logs: makedirs(archive_dir) unless it exists, copy
\* prefix/info.json, prefix/failed.json and prefix/success.json if they
\* exist, glob test_root/build-*.
StartArchive ==
    /\ jpc = "run"
    /\ pc = "done"
    /\ archTop' = [archTop EXCEPT ![ArchiveDir(ts)] =
                     @ \cup status[Prefix]
                       \cup (IF Prefix \in info THEN {"info"} ELSE {})]
    /\ atodo' = {h \in HostConfigs : BT!BuildDir(h) \in dirs}
    /\ jpc' = "archive"
    /\ UNCHANGED <<btVars, ts, runs, archSpec, archNorm>>

\* One iteration over the build dirs, in glob order: the spec is the build
\* dir's name after "build-<machine>-<sys_type>-" (h's compiler, for a
\* host config named <machine>-<sys_type>-<compiler>.cmake); copy the
\* configure log test_root/output.log.<root>.configure.txt, which exists
\* once config-build.py ran, and copy_build_dir_files.
ArchiveBuildDir(h) ==
    /\ jpc = "archive"
    /\ h \in atodo
    /\ archSpec' = [archSpec EXCEPT ![ArchiveDir(ts)][h] =
                      @ \cup (IF logs[h]["configure"] # "absent"
                                THEN {"config_log"} ELSE {})
                        \cup BT!BuildDirFiles(h)]
    /\ atodo' = atodo \ {h}
    /\ UNCHANGED <<btVars, jpc, ts, runs, archTop, archNorm>>

\* The loop is over: set_axom_group_and_perms(archive_dir).
FinishArchive ==
    /\ jpc = "archive"
    /\ atodo = {}
    /\ archNorm' = archNorm \cup {ArchiveDir(ts)}
    /\ jpc' = "archived"
    /\ UNCHANGED <<btVars, ts, runs, atodo, archTop, archSpec>>

\* The job runs again.  In the same second the checkout is the same, so the
\* glob finds the same host configs, and the build/test root of that
\* timestamp is the one on disk.  Later, the checkout may have changed,
\* and the new root and its build dirs do not exist yet; only the prefix
\* and what is in it carry over.
NextRun ==
    /\ jpc \in {"archived", "ended"}
    /\ runs < MaxRuns
    /\ runs' = runs + 1
    /\ jpc' = "run"
    /\ pc' = "start" /\ todo' = {} /\ cur' = NoHC /\ stage' = 1
    /\ ok' = {} /\ bad' = {} /\ ret' = 0
    /\ \/ /\ ts' = ts
          /\ UNCHANGED <<found, fsVars>>
       \/ /\ ts < MaxTs
          /\ ts' = ts + 1
          /\ found' \in SUBSET HostConfigs
          /\ logs' = [h \in HostConfigs |-> [s \in BT!StageNames |-> "absent"]]
          /\ status' = [d \in BT!Dirs |-> IF d = Prefix THEN status[Prefix] ELSE {}]
          /\ info' = info \cap {Prefix}
          /\ dirs' = dirs \cap {Prefix}
          /\ normalized' = {}
    /\ UNCHANGED archVars

Next ==
    \/ RunStep
    \/ TestRootExists
    \/ JobDies
    \/ Killed
    \/ StartArchive
    \/ \E h \in HostConfigs : ArchiveBuildDir(h)
    \/ FinishArchive
    \/ NextRun

Spec == Init /\ [][Next]_vars

-----------------------------------------------------------------------------
(* Properties. *)

\* The status the current run reported: failed.json in the prefix when no
\* host config was found, else the aggregate in its build/test root.
RunStatus == IF found = {} THEN {"failed"} ELSE status[BT!TestRoot]

ArchivedStatusIsCurrent ==
    jpc = "archive" => archTop[ArchiveDir(ts)] \cap BT!StatusFiles \subseteq RunStatus

=============================================================================
