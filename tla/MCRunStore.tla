----------------------------- MODULE MCRunStore -----------------------------
(***************************************************************************)
(* Instance of RunStore: three programs under two pids, and one kill or    *)
(* one power failure.                                                      *)
(***************************************************************************)
EXTENDS RunStore

CONSTANTS p1, p2, m1, m2

\* No store yet, or one that waits for its launch.
MCStarts ==
    {<<>>,
     << "PLANNED", "CAPTURING", "CAPTURE_COMPLETE", "INSPECTION_RUNNING", "INSPECTED",
        "AMENDMENT_PENDING_OWNER", "AMENDMENT_READY", "BARS_READY" >>}
MCTargets == {"CAPTURING", "BARS_CAPTURING"}

\* Pids are interchangeable, and so are manifests.
MCSymmetry == Permutations(Procs) \cup Permutations(Manifests)
=============================================================================
