------------------------------ MODULE MCQueue -------------------------------
(***************************************************************************)
(* CommandQueue for TLC: commands c1 to c5, in issue order but for ties.   *)
(* In queue_skip c1 and c3 claim one key.  In queue_live each of two keys  *)
(* is claimed by two documents, of which one composes an entry.  In        *)
(* queue_entries c1 is an approval of p1, and one key is claimed by three  *)
(* documents: a second approval of p1, an approval of p2, a proposal of the*)
(* same intent, and a rejection of p1.                                     *)
(***************************************************************************)
EXTENDS CommandQueue

CONSTANTS k1, k2, k3, c1, c2, c3, c4, c5, p1, p2, i1

Each(a, b, c, d, e) ==
    [x \in Commands |-> CASE x = c1 -> a [] x = c2 -> b [] x = c3 -> c [] x = c4 -> d
                          [] OTHER -> e]

MCKey == Each(k1, k2, k3, k2, k2)
MCSharedKey == Each(k1, k2, k1, k2, k2)
MCPairedKey == Each(k1, k2, k1, k2, k1)
MCHalts == Each("halt", "resume_all", "halt", "halt", "halt")
MCPauses == Each("pause_entries", "resume_entries", "pause_entries", "compose_entry",
                 "compose_entry")
MCFlatten == Each("approve_entry", "flatten", "backup_state", "halt", "halt")
MCEntries == Each("approve_entry", "approve_entry", "compose_entry", "approve_entry",
                  "reject_entry")
MCIssued == Each(1, 2, 3, 2, 2)
MCExpires == Each(3, 3, 4, 4, 4)
MCSoon == Each(2, 3, 4, 4, 4)
MCProposal == Each(p1, p1, p1, p2, p1)
MCIntent == [p \in Proposals |-> i1]
=============================================================================
