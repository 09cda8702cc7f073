--------------------------- MODULE MCStrategySweeps ---------------------------
(***************************************************************************)
(* StrategySweeps with interchangeable rows and tasks, and beside it       *)
(* StrategyVersions.  The two share no state, so that nothing is lost when *)
(* only one of them moves.                                                 *)
(***************************************************************************)
EXTENDS StrategySweeps, TLC

CONSTANTS Fits, Rollbacks, NoFit

VARIABLES live, versions, active, step, found, number, target, seen, raced, apart,
    history   \* whether it is the version history that moves

V == INSTANCE StrategyVersions
versionVars == <<live, versions, active, step, found, number, target, seen, raced, apart>>

MCInit == Init /\ V!Init /\ history \in BOOLEAN
MCNext == \/ ~history /\ Next /\ UNCHANGED <<versionVars, history>>
          \/ history /\ V!Next /\ UNCHANGED <<vars, history>>
MCSpec == MCInit /\ [][MCNext]_<<vars, versionVars, history>>

\* StrategyVersions: one version is active at any time, ...
OneActive == V!OneActive
\* ... and it is the one that serves.
ServedIsActive == V!ServedIsActive

Symmetry == Permutations(Sweeps) \cup Permutations(Tasks)
=============================================================================
