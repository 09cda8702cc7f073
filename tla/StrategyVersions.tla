--------------------------- MODULE StrategyVersions ---------------------------
(***************************************************************************)
(* The persona weights of one strategy template and their version history: *)
(* fits (a production sweep that ends, a walk-forward fold that is         *)
(* promoted, POST /strategies/{id}/learn) write the map and then record a  *)
(* version of it; POST /strategies/{id}/versions/{id}/rollback does both   *)
(* for a version there was.                                                *)
(*                                                                         *)
(* Each has a session of its own, at READ COMMITTED.  A map is abstracted  *)
(* to the fit it is from.                                                  *)
(***************************************************************************)
EXTENDS Integers, Sequences

CONSTANTS
    Fits,        \* calls of learn_weights_for_strategy, and promotions
    Rollbacks,   \* calls of rollback_to_version
    NoFit        \* the map a template starts with

VARIABLES
    \* the template's persona_weights; strategy_versions: what each number holds, and
    \* the numbers whose status is "active"
    live, versions, active,
    \* each caller: where it is, the versions it has found active; a fit: its number; a
    \* rollback: its target, and the map that the template had
    step, found, number, target, seen,
    \* history: whether the last version is from a rollback before whose commit another
    \* was recorded, and whether the map may have been written past its version
    raced, apart

verVars  == <<live, versions, active>>
callVars == <<step, found, number, target, seen>>
vars == <<verVars, callVars, raced, apart>>

Callers == Fits \cup Rollbacks
Maps == Fits \cup {NoFit}

Init ==
    /\ live = NoFit /\ versions = <<>> /\ active = {}
    /\ step = [c \in Callers |-> "new"] /\ found = [c \in Callers |-> {}]
    /\ number = [f \in Fits |-> 0]
    /\ target = [r \in Rollbacks |-> 0] /\ seen = [r \in Rollbacks |-> NoFit]
    /\ raced = FALSE /\ apart = FALSE

Goes(c, s) == step' = [step EXCEPT ![c] = s]
\* Callers between their first and their last step.
Busy == {c \in Callers : step[c] \notin {"new", "done"}}

\* A new version, in place of the versions that caller c has found active.
Added(c, w) ==
    /\ versions' = Append(versions, w)
    /\ active' = (active \ found[c]) \cup {Len(versions) + 1}

\* set_persona_weights commits the map.
Writes(f) ==
    /\ step[f] = "new"
    /\ live' = f /\ apart' = (Busy # {})
    /\ Goes(f, "number")
    /\ UNCHANGED <<versions, active, found, number, target, seen, raced>>
\* record_version, in the next transaction, reads the last number and supersedes what
\* is active; ...
Numbers(f) ==
    /\ step[f] = "number"
    /\ number' = [number EXCEPT ![f] = Len(versions) + 1]
    /\ found' = [found EXCEPT ![f] = active]
    /\ Goes(f, "insert")
    /\ UNCHANGED <<verVars, target, seen, raced, apart>>
\* ... then it inserts the version.  The unique constraint lets a number in once: who
\* comes second loses the whole transaction, and its error is only logged.
Fresh_Unchecked(f) == TRUE                               \* mutant
Fresh(f) == number[f] = Len(versions) + 1
Inserts(f) ==
    /\ step[f] = "insert" /\ Fresh(f)
    /\ Added(f, f) /\ raced' = FALSE
    /\ Goes(f, "done")
    /\ UNCHANGED <<live, found, number, target, seen, apart>>
Loses(f) ==
    /\ step[f] = "insert" /\ ~Fresh(f)
    /\ Goes(f, "done") /\ apart' = TRUE
    /\ UNCHANGED <<verVars, found, number, target, seen, raced>>

\* rollback_to_version: a version that is not active is read, and the template, and
\* the versions that are active are to be marked.  This waits for whoever has marked
\* them and not committed; what is recorded meanwhile it does not find.
Marks(r) == \E n \in 1..Len(versions) \ active :
    /\ step[r] = "new"
    /\ target' = [target EXCEPT ![r] = n]
    /\ seen' = [seen EXCEPT ![r] = live]
    /\ found' = [found EXCEPT ![r] = active]
    /\ Goes(r, "marked")
    /\ UNCHANGED <<verVars, number, raced, apart>>
\* Then the map (which is only written if it differs from what was read), and a new
\* version under the number that is the next by now, in one commit.
Restored_Nothing(r) == live                              \* mutant
Restored(r) ==
    LET w == versions[target[r]] IN IF w = seen[r] THEN live ELSE w
RollsBack(r) ==
    /\ step[r] = "marked"
    /\ Added(r, versions[target[r]])
    /\ live' = Restored(r)
    /\ raced' = (found[r] # active)
    /\ apart' = (Busy # {r} \/ found[r] # active \/ seen[r] # live)
    /\ Goes(r, "done")
    /\ UNCHANGED <<found, number, target, seen>>

\* The process dies, or the database fails: the open transaction is gone.
Dies(c) ==
    /\ c \in Busy
    /\ Goes(c, "done") /\ apart' = (apart \/ c \in Fits)
    /\ UNCHANGED <<verVars, found, number, target, seen, raced>>

Next ==
    \/ \E f \in Fits : Writes(f) \/ Numbers(f) \/ Inserts(f) \/ Loses(f)
    \/ \E r \in Rollbacks : Marks(r) \/ RollsBack(r)
    \/ \E c \in Callers : Dies(c)

Spec == Init /\ [][Next]_vars

-----------------------------------------------------------------------------
(* Properties.                                                             *)

\* Every variable keeps its type.
TypeOK ==
    /\ live \in Maps /\ versions \in Seq(Maps) /\ active \subseteq 1..Len(versions)
    /\ step \in [Callers -> {"new", "number", "insert", "marked", "done"}]
    /\ found \in [Callers -> SUBSET (1..Len(versions))]
    /\ number \in [Fits -> Nat]
    /\ target \in [Rollbacks -> 0..Len(versions)] /\ seen \in [Rollbacks -> Maps]
    /\ raced \in BOOLEAN /\ apart \in BOOLEAN

\* "Exactly one active version" at any time (record_version), however fits and rollbacks
\* record theirs at once; but for a rollback that had set out before the version before
\* its own was recorded: it has not found that version, and leaves it active.
OneActive == raced \/ \A m, n \in active : m = n

\* The active version is the one that serves ("currently serving predictions", the
\* comment of strategy_versions.status): also after a failure between map and version,
\* the next fit or rollback that runs alone brings the two together again.
ServedIsActive ==
    (\A f \in Fits : f \notin Busy) /\ ~apart => \A n \in active : live = versions[n]
=============================================================================
