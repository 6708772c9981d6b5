---------------------------- MODULE MC_BuildInfo ----------------------------
(* One user, one system type, one machine; a plain and a namespaced branch *)
(* name; one commit.  USER and SYS_TYPE may each be unset.                 *)
EXTENDS BuildInfo

MCUsers == {"axomdev"}

MCSysTypes == {"toss_3_x86_64_ib"}

MCMachines == {"quartz"}

MCBranches == {"develop", "feature/x"}

MCShas == {"1a2b3c4"}

=============================================================================
