--------------------------- MODULE PipelineAbstract ---------------------------
(***************************************************************************)
(* What the coordinator of a deploy run promises (spec 4.6, with the      *)
(* stage contracts of 4.1-4.5 and the invariant of section 3).  Preparing *)
(* runs a platform-specific subset of the sub-stages, each once, in any   *)
(* order that respects what the spec requires to come first; Packaging    *)
(* starts only when every sub-stage of the subset has completed; a        *)
(* failure in any state ends the run in Failed and skips what remains; a  *)
(* package is produced only in the step from Packaging to Done.  (Idle,   *)
(* the state before prepare() is called, precedes Init here.)             *)
(*                                                                         *)
(* Nothing here names a deploy script: the order is the spec's, and a     *)
(* script implements this module only if its own stage list is one of    *)
(* the orders the spec allows.                                             *)
(***************************************************************************)
VARIABLES
    state,     \* "Preparing", "Packaging", "Done" or "Failed"
    plan,      \* the sub-stages this platform runs
    done,      \* the sub-stages completed so far
    packaged   \* whether the run produced a package

vars == <<state, plan, done, packaged>>

\* The sub-stages of Preparing: make install and the removal of build-only
\* files (4.1), stripping and permission reset (4.2), signing (4.3),
\* build-info.txt (4.4) and the installer target (4.5).
SubStages ==
    {"install", "resolve", "strip", "perms", "remove", "buildinfo", "sign"}

\* Section 3: packaging needs a stripped, provenance-stamped layout, so
\* every platform's subset strips and writes build-info.txt.
Mandatory == {"strip", "buildinfo"}

(***************************************************************************)
(* <<a, s>> \in Requires: when both run, a completes before s starts.      *)
(* 4.1-4.4 work on the staged tree, which make install creates; a         *)
(* signature covers the bundle only if nothing in it changes afterwards,   *)
(* so every stage that changes the tree precedes signing.                  *)
(***************************************************************************)
TreeStages == {"strip", "perms", "remove", "buildinfo"}

Requires ==
    {<<"install", s>> : s \in TreeStages \cup {"sign"}}
        \cup {<<s, "sign">> : s \in TreeStages}

\* The sub-stages s may start after: each prerequisite in the plan is done.
Ready(s) == \A a \in plan : <<a, s>> \in Requires => a \in done

Init ==
    /\ state = "Preparing"
    /\ plan \in {P \in SUBSET SubStages : Mandatory \subseteq P}
    /\ done = {}
    /\ packaged = FALSE

\* A sub-stage of the plan that has not run and whose prerequisites have
\* completes; after the last one the run moves on to Packaging.
CompleteStage ==
    /\ state = "Preparing"
    /\ \E s \in plan \ done :
          /\ Ready(s)
          /\ done' = done \cup {s}
    /\ state' = IF done' = plan THEN "Packaging" ELSE "Preparing"
    /\ UNCHANGED <<plan, packaged>>

\* An irrecoverable failure: the remaining stages never run.
Fail ==
    /\ state \in {"Preparing", "Packaging"}
    /\ state' = "Failed"
    /\ UNCHANGED <<plan, done, packaged>>

\* Packaging ends, with or without a package.
Finish ==
    /\ state = "Packaging"
    /\ state' = "Done"
    /\ packaged' \in BOOLEAN
    /\ UNCHANGED <<plan, done>>

Next == CompleteStage \/ Fail \/ Finish

Spec == Init /\ [][Next]_vars

=============================================================================
