------------------------------- MODULE Names -------------------------------
(***************************************************************************)
(* The string helpers that name TPL logs and read specs back out of them:  *)
(* the log file name built by uberenv_install_tpls, get_spec_from_tpl_log  *)
(* and get_compiler_from_spec, used by archive_tpl_logs to find the spec's *)
(* archive directory and build directory.                                  *)
(*                                                                         *)
(* A string is a sequence of one-character strings; the fixed literal      *)
(* "output.log.spack.tpl.build." is one element standing for its          *)
(* characters, so len("output.log.spack.tpl.build.%") is Len(LogPrefix)+1. *)
(* Python's find and slicing are modelled with their -1 and negative-index *)
(* semantics.  The state is one spec string of the machine's specs.json,   *)
(* and the model walks through all of them.                               *)
(*                                                                         *)
(* The helpers that name host configs and build dirs: get_machine_name,   *)
(* get_host_config_root, get_build_dir and get_spec_from_build_dir, which  *)
(* archive_src_logs uses to read the spec back out of a build dir name.    *)
(* Host configs are named <machine>-<sys_type>-<compiler>.cmake, <machine> *)
(* being the hostname without its node number (as get_machine_name, and    *)
(* uberenv, compute it); the literals "build-" and "cmake" are one element *)
(* each.  That part of the state is the host the job runs on, its          *)
(* SYS_TYPE, and the compiler of one of its host configs.                  *)
(***************************************************************************)
EXTENDS Naturals, Integers, Sequences, SequencesExt, PyStr

CONSTANTS
    CompilerChars,   \* characters of a compiler name and version
    MaxCompilerLen,  \* longest compiler name
    Variants,        \* variant strings (~x, +y) that may follow the compiler
    Deps,            \* dependency parts ("^x") that may follow the variants
    DepSep,          \* what separates the variants from "^" in specs.json
    Machines,        \* machine names (hostnames without node numbers)
    NodeNumbers,     \* digit strings a hostname ends with (<<>> for none)
    SysTypes,        \* values of SYS_TYPE
    Compilers        \* compiler specs of host configs, e.g. gcc@4.9.3

VARIABLES
    spec,   \* [compiler, variants, dep] of the spec under test
    host,   \* socket.gethostname()
    sys,    \* os.environ["SYS_TYPE"], also the sys_type in host config names
    comp    \* the compiler of a host config of this machine

vars == <<spec, host, sys, comp>>

Digits == {"0", "1", "2", "3", "4", "5", "6", "7", "8", "9"}

Hosts == {m \o n : m \in Machines, n \in NodeNumbers}

-----------------------------------------------------------------------------
(* The code. *)

\* The spec as it appears in the specs list: '%' + the specs.json entry.
SpecString(sp) ==
    <<"%">> \o sp.compiler \o sp.variants
            \o (IF sp.dep = <<>> THEN <<>> ELSE DepSep \o sp.dep)

LogPrefix == <<"output.log.spack.tpl.build.">>

\* uberenv_install_tpls: basename of the spack log of a spec.
TplLogName(s) == LogPrefix \o ReplaceAll(s, " ", "_") \o <<".", "t", "x", "t">>

\* Mutant: the character before '^' is kept (basename[:index]).
GetSpecFromTplLogKeepSep(name) ==
    LET b == PySlice(name, Len(LogPrefix) + 1, -4)
        index == PyFind(b, "^")
    IN IF index > -1 THEN PySlice(b, 0, index) ELSE b

\* get_spec_from_tpl_log: strip prefix, '%' and ".txt", cut one character
\* before the first '^'.
GetSpecFromTplLog(name) ==
    LET b == PySlice(name, Len(LogPrefix) + 1, -4)
        index == PyFind(b, "^")
    IN IF index > -1 THEN PySlice(b, 0, index - 1) ELSE b

\* One iteration of the loop over ['~', '+'].
CutAt(compiler, c) ==
    LET index == PyFind(compiler, c)
    IN IF index # -1 THEN PySlice(compiler, 0, index) ELSE compiler

\* Mutant: only '~' is looked for.
GetCompilerFromSpecTildeOnly(s) == FoldLeft(CutAt, s, <<"~">>)

\* get_compiler_from_spec
GetCompilerFromSpec(s) == FoldLeft(CutAt, s, <<"~", "+">>)

\* get_machine_name: socket.gethostname().rstrip('1234567890')
GetMachineName(hostname) == PyRStrip(hostname, Digits)

\* The name of a host config for machine m, system type st, compiler c.
HostConfigFile(m, st, c) == m \o <<"-">> \o st \o <<"-">> \o c \o <<".", "cmake">>

\* Mutant: os.path.splitext cut at the first '.' rather than the last.
GetHostConfigRootFirstDot(f) ==
    LET i == PyFind(f, ".") IN IF i > 0 THEN PySlice(f, 0, i) ELSE f

\* get_host_config_root: os.path.splitext(os.path.basename(f))[0]
GetHostConfigRoot(f) ==
    LET i == PyRFind(f, ".") IN IF i > 0 THEN PySlice(f, 0, i) ELSE f

\* basename of get_build_dir(test_root, host_config): "build-" + root
BuildDirName(root) == <<"build-">> \o root

\* get_spec_from_build_dir: the basename after "build-<machine>-<sys_type>-"
GetSpecFromBuildDir(name) ==
    LET base == <<"build-">> \o GetMachineName(host) \o <<"-">> \o sys \o <<"-">>
    IN PySlice(name, Len(base), Len(name))

-----------------------------------------------------------------------------
Specs ==
    [compiler : BoundedSeq(CompilerChars, MaxCompilerLen) \ {<<>>},
     variants : Variants,
     dep : Deps]

TypeOK == spec \in Specs /\ host \in Hosts /\ sys \in SysTypes /\ comp \in Compilers

Init ==
    /\ spec \in Specs
    /\ host \in Hosts
    /\ sys \in SysTypes
    /\ comp \in Compilers

\* Move to another spec of the table.
NextSpec ==
    /\ spec' \in Specs
    /\ UNCHANGED <<host, sys, comp>>

\* Any other host, environment and host config.
NextHost ==
    /\ host' \in Hosts
    /\ sys' \in SysTypes
    /\ comp' \in Compilers
    /\ UNCHANGED spec

Next == NextSpec \/ NextHost

Spec == Init /\ [][Next]_vars

-----------------------------------------------------------------------------
(* Properties. *)

\* archive_tpl_logs names a spec's archive directory with
\* get_spec_from_tpl_log applied to the log uberenv_install_tpls wrote for
\* it: this recovers the compiler spec (compiler and variants, without '%'
\* and without the dependency part), as spec 4.9 and 8 describe.
TplLogRoundTrip ==
    GetSpecFromTplLog(TplLogName(SpecString(spec)))
        = spec.compiler \o spec.variants

\* get_compiler_from_spec of that compiler spec is the compiler alone: the
\* prefix before the first '~' or '+', whichever comes first.
CompilerFromSpec ==
    GetCompilerFromSpec(spec.compiler \o spec.variants) = spec.compiler

\* archive_src_logs names a build's archive dir get_spec_from_build_dir of
\* the build dir, which build_and_test_host_config named after the host
\* config root: for a host config of this machine that is the compiler
\* again, also for compilers whose version has dots.
SpecFromBuildDirRoundTrip ==
    LET f == HostConfigFile(GetMachineName(host), sys, comp)
    IN GetSpecFromBuildDir(BuildDirName(GetHostConfigRoot(f))) = comp

=============================================================================
