------------------------------ MODULE BuildInfo ------------------------------
(***************************************************************************)
(* The build info record: build_info(job_name) and write_build_info, which *)
(* build_and_test_host_configs and full_build_and_test_of_tpls call to     *)
(* write <root>/info.json (modules BuildAndTest and TplBuild record only   *)
(* that the file exists; this module is about what it says).              *)
(*                                                                         *)
(* The record reads the environment (USER, SYS_TYPE, the hostname) and the *)
(* checkout through two git queries run by sexe with ret_output=True, so   *)
(* stderr is merged into the output.  Strings are sequences of one-        *)
(* character strings; a word of git's fixed text, a branch name and a      *)
(* commit id are one element each (none contains whitespace).  The state   *)
(* is the environment and checkout the job runs in, and what was written.  *)
(***************************************************************************)
EXTENDS Naturals, Sequences, SequencesExt, PyStr

CONSTANTS
    Users,      \* values of USER
    SysTypes,   \* values of SYS_TYPE
    Machines,   \* get_machine_name() of the host
    Branches,   \* branch names
    Shas,       \* commit ids
    Unset       \* an environment variable that is not set

VARIABLES
    env,       \* [user, sysType, machine]
    checkout,  \* the state of the checkout git is run in
    ipc,       \* "start", "written", or "raised"
    info       \* the record written to info.json

vars == <<env, checkout, ipc, info>>

\* The sentinel string "unknown", one word.
Unknown == <<"unknown">>

Whitespace == {" ", "\t", "\n"}

Envs == [user : Users \cup {Unset}, sysType : SysTypes \cup {Unset},
         machine : Machines]

\* On a branch; HEAD detached at a commit (what a CI checkout of a commit
\* or tag gives); a branch with no commit yet; not a git repository.
Checkouts ==
    [kind : {"branch"}, branch : Branches, sha : Shas]
    \cup [kind : {"detached"}, sha : Shas]
    \cup [kind : {"unborn"}, branch : Branches]
    \cup [kind : {"norepo"}]

NotARepo == <<"fatal:", " ", "not", " ", "a", " ", "git", " ", "repository", "\n">>

-----------------------------------------------------------------------------
(* The code. *)

\* sexe('git branch -a | grep "*"', ret_output=True): grep keeps the line
\* git marks with '*' and exits 1 when there is none; git's error goes to
\* the merged stderr.
GitBranchQuery(co) ==
    CASE co.kind = "branch" ->
           <<0, <<"*", " ", co.branch, "\n">>>>
      [] co.kind = "detached" ->
           <<0, <<"*", " ", "(HEAD", " ", "detached", " ", "at", " ", co.sha, ")", "\n">>>>
      [] co.kind = "unborn" -> <<1, <<>>>>
      [] co.kind = "norepo" -> <<1, NotARepo>>

\* sexe('git rev-parse --verify HEAD', ret_output=True)
GitRevParse(co) ==
    CASE co.kind \in {"branch", "detached"} -> <<0, <<co.sha, "\n">>>>
      [] co.kind = "unborn" ->
           <<128, <<"fatal:", " ", "Needed", " ", "a", " ", "single", " ", "revision", "\n">>>>
      [] co.kind = "norepo" -> <<128, NotARepo>>

\* build_info: out.strip(); if rc == 0 and out != "": out.split()[1].
\* The whole result, for the IndexError case: <<ok, value>>.
BranchFromQuery(q) ==
    LET out == PyStrip(q[2], Whitespace)
        words == PySplit(out, Whitespace)
    IN IF q[1] # 0 \/ out = <<>> THEN <<TRUE, Unknown>>
       ELSE IF Len(words) < 2 THEN <<FALSE, Unknown>>
       ELSE <<TRUE, words[2]>>

\* build_info: out.strip(); if rc == 0 and out != "": out.
ShaFromQuery(q) ==
    LET out == PyStrip(q[2], Whitespace)
    IN IF q[1] = 0 /\ out # <<>> THEN out ELSE Unknown

\* get_platform: SYS_TYPE if it is set, else get_machine_name().
GetPlatform(e) == IF e.sysType # Unset THEN e.sysType ELSE e.machine

\* write_build_info(ofile, job_name): build_info raises KeyError on
\* os.environ["USER"] before any query, IndexError on split()[1]; else
\* the record is dumped to ofile.
WriteBuildInfo ==
    /\ ipc = "start"
    /\ LET br == BranchFromQuery(GitBranchQuery(checkout)) IN
       IF env.user = Unset \/ ~br[1]
         THEN /\ ipc' = "raised"
              /\ UNCHANGED info
         ELSE /\ ipc' = "written"
              /\ info' = [built_by |-> env.user,
                          built_from_branch |-> br[2],
                          built_from_sha1 |-> ShaFromQuery(GitRevParse(checkout)),
                          platform |-> GetPlatform(env)]
    /\ UNCHANGED <<env, checkout>>

-----------------------------------------------------------------------------
Init ==
    /\ env \in Envs
    /\ checkout \in Checkouts
    /\ ipc = "start"
    /\ info = Unknown

Next == WriteBuildInfo

Spec == Init /\ [][Next]_vars

-----------------------------------------------------------------------------
(* Properties. *)

\* The commit checked out, if there is one.
HeadSha(co) == IF co.kind \in {"branch", "detached"} THEN {<<co.sha>>} ELSE {}

\* The branch checked out, if HEAD is on one.
HeadBranch(co) == IF co.kind \in {"branch", "unborn"} THEN {<<co.branch>>} ELSE {}

\* Spec 3 and 4.2: the info record written by write_build_info is true of
\* the checkout and environment it was built in, values the version-control
\* queries cannot give being the sentinel "unknown": the branch is the
\* checked-out branch (parsed from git's marker line) and the commit is HEAD
\* (git's error text is never taken for one).
BuildInfoIsTrue ==
    ipc = "written" =>
        /\ info.built_from_branch \in HeadBranch(checkout) \cup {Unknown}
        /\ info.built_from_sha1 \in HeadSha(checkout) \cup {Unknown}

=============================================================================
