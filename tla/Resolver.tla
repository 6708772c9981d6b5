------------------------------ MODULE Resolver ------------------------------
(***************************************************************************)
(* The machine/spec resolver: get_system_type and                          *)
(* get_specs_for_current_machine, which reads scripts/uberenv/specs.json   *)
(* (a table from machine names and system types to lists of specs) and     *)
(* picks the list of the machine, or else of the system type.  TplBuild   *)
(* takes its result to be some prefix of one list (MachineSpecs); this    *)
(* module is about which list, and when the lookup raises.                *)
(*                                                                         *)
(* A spec string is one element; '%' + spec is the sequence <<"%", spec>>. *)
(* The state is the environment (the machine name, SYS_TYPE possibly      *)
(* unset), the table, and the outcome of one call.                        *)
(***************************************************************************)
EXTENDS Naturals, Sequences

CONSTANTS
    Machines,     \* get_machine_name() of the host
    SysTypes,     \* values of SYS_TYPE
    SpecEntries,  \* lists a specs.json key may map to
    Unset         \* SYS_TYPE is not set

VARIABLES
    env,    \* [machine, sysType]
    table,  \* specs.json: a function from its keys to spec lists
    rpc,    \* "start", "done", or "raised"
    specs   \* the returned list

vars == <<env, table, rpc, specs>>

Envs == [machine : Machines, sysType : SysTypes \cup {Unset}]

\* Every specs.json over these keys: each key present or absent.
Tables == UNION {[K -> SpecEntries] : K \in SUBSET (Machines \cup SysTypes)}

-----------------------------------------------------------------------------
(* The code. *)

\* specs = ['%' + spec for spec in specs]
Marked(l) == [i \in 1..Len(l) |-> <<"%", l[i]>>]

\* get_system_type: os.environ["SYS_TYPE"], a KeyError when it is unset.
SysTypeKnown(e) == e.sysType # Unset

\* get_specs_for_current_machine: sys_type = get_system_type() first, then
\* specs_json[machine_name] if the machine is a key, else
\* specs_json[sys_type] (a KeyError when it is not).
GetSpecsForCurrentMachine ==
    /\ rpc = "start"
    /\ IF ~SysTypeKnown(env)
         THEN /\ rpc' = "raised"
              /\ UNCHANGED specs
         ELSE IF env.machine \in DOMAIN table
         THEN /\ specs' = Marked(table[env.machine])
              /\ rpc' = "done"
         ELSE IF env.sysType \in DOMAIN table
         THEN /\ specs' = Marked(table[env.sysType])
              /\ rpc' = "done"
         ELSE /\ rpc' = "raised"
              /\ UNCHANGED specs
    /\ UNCHANGED <<env, table>>

-----------------------------------------------------------------------------
Init ==
    /\ env \in Envs
    /\ table \in Tables
    /\ rpc = "start"
    /\ specs = <<>>

Next == GetSpecsForCurrentMachine

Spec == Init /\ [][Next]_vars

-----------------------------------------------------------------------------
(* Properties. *)

\* Spec 4.3: the system type is SYS_TYPE if present, else the machine name.
SystemType(e) == IF e.sysType # Unset THEN e.sysType ELSE e.machine

\* The list spec 4.3 resolves to: the machine's, or else the system type's.
Resolved(e, t) ==
    IF e.machine \in DOMAIN t THEN t[e.machine] ELSE t[SystemType(e)]

\* Spec 4.3: the spec list is the machine's entry of specs.json, or else the
\* system type's, each spec prefixed with '%'; the lookup fails only when
\* neither key is in the table.
SpecsResolved ==
    LET known == {env.machine, SystemType(env)} \cap DOMAIN table # {} IN
    /\ rpc = "raised" => ~known
    /\ rpc = "done" => specs = Marked(Resolved(env, table))

=============================================================================
