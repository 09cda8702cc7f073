--------------------------- MODULE DiscussionRound ---------------------------
(***************************************************************************)
(* One AI round-table discussion of FinceptWeb: its database row, the      *)
(* transcript, the owner's daily AI quota, and everything that acts on     *)
(* them concurrently -- POST /round requests and the detached background   *)
(* tasks they leave behind, mid-round interjections kept in the memory of  *)
(* one uvicorn worker, follow-up questions, free-form injections,          *)
(* conclude requests, edits, deletion, crashes of a worker, and time.      *)
(*                                                                         *)
(* A step is the code between two awaits that another actor can observe:   *)
(* a row read, a committed statement, a Redis round trip.  An HTTP refusal *)
(* (404, 409, 429) that changes nothing is the action not being taken.     *)
(***************************************************************************)
EXTENDS Integers, Sequences, FiniteSets

CONSTANTS
    Runs,         \* POST /round requests, each with its background task
    Workers,      \* uvicorn worker processes
    Questions,    \* POST /interject requests
    Injectors,    \* POST /inject requests
    Concluders,   \* POST /conclude requests
    Editors,      \* PATCH requests that change the roster
    RosterSizes,  \* roster lengths the owner may choose
    Limit,        \* daily AI quota
    MaxPending,   \* _MAX_PENDING_INTERJECTIONS
    TurnMax,      \* longest persona turn: timeout * _MAX_TURN_ATTEMPTS, in ticks
    GatherMax,    \* longest gather_market_context, in ticks
    StaleAfter,   \* _stale_threshold_seconds, in ticks
    Faults,       \* which of "crash", "db", "delete" may happen
    SerialPosts,  \* TRUE: the owner posts /round one at a time
    MaxRounds,    \* bound on the rounds explored
    MaxCrashes    \* bound on the crashes explored

ASSUME SizesAssumption ==
    /\ Workers # {}
    /\ RosterSizes \subseteq Nat \ {0}
    /\ RosterSizes # {}
    /\ Limit \in Nat
    /\ MaxPending \in Nat \ {0}
    /\ TurnMax \in Nat /\ GatherMax \in Nat /\ StaleAfter \in Nat
    /\ MaxRounds \in Nat /\ MaxCrashes \in Nat
    /\ SerialPosts \in BOOLEAN
    /\ Faults \subseteq {"crash", "db", "delete"}

Persona == "persona"   \* what a run is doing when it is not answering a question
ASSUME PersonaAssumption == Persona \notin Questions

VARIABLES
    \* the discussions row
    exists, status, round, age, roster, concluded,
    \* the discussion_turns rows, and the Redis counter ai:requests:<user>
    turns, used,
    \* each /round request, then its background task: where it is, the worker
    \* it runs in, its round and next turn_index, ticks spent in this step
    pc, at, rnd, idx, spent,
    \* what it still has to do: roster turns left, drained interjections, and
    \* whom it is asking for
    left, ahead, doing,
    \* what it reserved and what turn_ends it has counted
    cost, completed,
    \* _PENDING_INTERJECTIONS in each worker's memory; each interjection
    pending, ask, askAt, askRound,
    \* each inject request and the round it read
    inj, injRound,
    \* each conclude request and the status it read
    con, conAt, conSaw,
    \* each PATCH request
    ed,
    \* history: whether rounds may overlap -- two requests were opening one, or a
    \* round was found stale before its first reply, or a conclusion fell into one
    \* -- and the replies beyond what their round was charged for
    raced, unpaid,
    crashes

rowVars == <<exists, status, round, age, roster, concluded>>
dbVars  == <<rowVars, turns, used>>
taskVars == <<pc, at, rnd, idx, spent>>
workVars == <<left, ahead, doing>>
billVars == <<cost, completed>>
runVars  == <<taskVars, workVars, billVars>>
askVars  == <<pending, ask, askAt, askRound>>
injVars  == <<inj, injRound>>
conVars  == <<con, conAt, conSaw>>
histVars == <<raced, unpaid>>
vars == <<dbVars, runVars, askVars, injVars, conVars, ed, histVars, crashes>>

Statuses == {"draft", "running", "done"}
Kinds    == {Persona, "question", "answer", "inject"}
RunPcs   == {"idle", "recover", "reserve", "spawned", "gather", "boundary",
             "question", "speak", "ending", "refund"}
AskPcs   == {"new", "admitted", "queued", "asking", "answered", "refused",
             "lost", "followQ", "followA", "followed"}

\* Inside run_round, between the round's opening UPDATE and its finally block.
Live(r) == pc[r] \in {"gather", "boundary", "question", "speak", "ending"}
\* Quota was reserved for the request and is not settled yet.
Reserved(r) == Live(r) \/ pc[r] \in {"spawned", "refund"}
\* Between reading the row and the round's opening UPDATE.
Opening(r) == pc[r] \in {"recover", "reserve", "spawned"}

Minus(a, b) == IF a > b THEN a - b ELSE 0    \* cache_decr never goes below 0

Turn(n, i, k) == [round |-> n, idx |-> i, kind |-> k]
Indices(n) == {t.idx : t \in {u \in turns : u.round = n}}
Free_NoConstraint(n, i) == TRUE                        \* mutant
\* ix_discussion_turns_lookup (unique) admits a turn at <<n, i>>.
Free(n, i) == i \notin Indices(n)
\* max(turn_index) + 1 of round n, or 0 when the round has no turn.
IsNext(n, i) == IF Indices(n) = {} THEN i = 0
                ELSE i - 1 \in Indices(n) /\ \A j \in Indices(n) : j < i
NextIn(n) == {0} \cup {j + 1 : j \in Indices(n)}

Init ==
    /\ exists = TRUE /\ status = "draft" /\ round = 0 /\ age = 0
    /\ roster \in RosterSizes /\ concluded = FALSE
    /\ turns = {} /\ used = 0
    /\ pc = [r \in Runs |-> "idle"]
    /\ at = [r \in Runs |-> CHOOSE w \in Workers : TRUE]
    /\ rnd = [r \in Runs |-> 0] /\ idx = [r \in Runs |-> 0]
    /\ spent = [r \in Runs |-> 0] /\ left = [r \in Runs |-> 0]
    /\ ahead = [r \in Runs |-> <<>>] /\ doing = [r \in Runs |-> Persona]
    /\ cost = [r \in Runs |-> 0] /\ completed = [r \in Runs |-> 0]
    /\ pending = [w \in Workers |-> <<>>]
    /\ ask = [q \in Questions |-> "new"]
    /\ askAt = [q \in Questions |-> CHOOSE w \in Workers : TRUE]
    /\ askRound = [q \in Questions |-> 0]
    /\ inj = [i \in Injectors |-> "new"] /\ injRound = [i \in Injectors |-> 0]
    /\ con = [c \in Concluders |-> "new"]
    /\ conAt = [c \in Concluders |-> CHOOSE w \in Workers : TRUE]
    /\ conSaw = [c \in Concluders |-> "draft"]
    /\ ed = [e \in Editors |-> "new"] /\ raced = FALSE /\ unpaid = 0 /\ crashes = 0

-----------------------------------------------------------------------------
(* POST /round, in the request: read the row, recover it if it is stale,   *)
(* reserve quota, start the background task.                               *)

Stale_OneTurn == status = "running" /\ age > TurnMax   \* mutant
Stale_Never == FALSE                                   \* mutant
\* The row is RUNNING and updated_at has been silent past the threshold.
Stale == status = "running" /\ age > StaleAfter

\* A runner that has committed no reply yet.
Silent(r) == Live(r) /\ completed[r] = 0

RequestRound(r, w) ==
    /\ pc[r] = "idle"
    /\ exists
    /\ SerialPosts => \A s \in Runs : ~Opening(s)
    /\ status = "running" => Stale
    /\ pc' = [pc EXCEPT ![r] = IF Stale THEN "recover" ELSE "reserve"]
    /\ at' = [at EXCEPT ![r] = w]
    /\ cost' = [cost EXCEPT ![r] = roster]
    /\ raced' = (raced \/ \E s \in Runs : Opening(s) \/ Silent(s))
    /\ UNCHANGED <<dbVars, rnd, idx, spent, workVars, completed, askVars,
                   injVars, conVars, ed, unpaid, crashes>>

\* UPDATE discussions SET status = 'draft', updated_at = now WHERE id = ...
ResetRow ==
    /\ status' = IF exists THEN "draft" ELSE status
    /\ age' = IF exists THEN 0 ELSE age
    /\ UNCHANGED <<exists, round, roster, concluded>>

\* force_reset_status: unconditional.
ForceReset(r) ==
    /\ pc[r] = "recover"
    /\ ResetRow
    /\ pc' = [pc EXCEPT ![r] = "reserve"]
    /\ UNCHANGED <<turns, used, at, rnd, idx, spent, workVars, billVars,
                   askVars, injVars, conVars, ed, histVars, crashes>>

\* The task is over: its locals go with it.
Settled(r) ==
    /\ pc' = [pc EXCEPT ![r] = "idle"]
    /\ spent' = [spent EXCEPT ![r] = 0]
    /\ idx' = [idx EXCEPT ![r] = 0]
    /\ rnd' = [rnd EXCEPT ![r] = 0]
    /\ left' = [left EXCEPT ![r] = 0]
    /\ ahead' = [ahead EXCEPT ![r] = <<>>]
    /\ doing' = [doing EXCEPT ![r] = Persona]
    /\ cost' = [cost EXCEPT ![r] = 0]
    /\ completed' = [completed EXCEPT ![r] = 0]
    /\ UNCHANGED at

\* _check_quota(cost) reserves all of it ...  (MaxRounds bounds the model.)
Reserve(r) ==
    /\ pc[r] = "reserve"
    /\ used + cost[r] <= Limit /\ round < MaxRounds
    /\ used' = used + cost[r]
    /\ pc' = [pc EXCEPT ![r] = "spawned"]
    /\ UNCHANGED <<rowVars, turns, at, rnd, idx, spent, workVars, billVars,
                   askVars, injVars, conVars, ed, histVars, crashes>>

\* ... or answers 429.
QuotaSpent(r) ==
    /\ pc[r] = "reserve"
    /\ used + cost[r] > Limit \/ round >= MaxRounds
    /\ Settled(r)
    /\ UNCHANGED <<dbVars, askVars, injVars, conVars, ed, histVars, crashes>>

-----------------------------------------------------------------------------
(* The detached task: run_round under _run_in_background.                  *)

\* Mutant: the new round number stays on the entity and never reaches the row.
BeginRound_InMemory(r) ==
    /\ pc[r] = "spawned" /\ exists
    /\ status' = "running" /\ age' = 0
    /\ pc' = [pc EXCEPT ![r] = "gather"]
    /\ rnd' = [rnd EXCEPT ![r] = round + 1]
    /\ left' = [left EXCEPT ![r] = roster]
    /\ UNCHANGED <<exists, round, roster, concluded, turns, used, at, idx, spent,
                   ahead, doing, billVars, askVars, injVars, conVars, ed, histVars, crashes>>

\* The row is read again and one atomic UPDATE opens the round.  The status is
\* not looked at.
BeginRound(r) ==
    /\ pc[r] = "spawned" /\ exists
    /\ round' = round + 1 /\ status' = "running" /\ age' = 0
    /\ pc' = [pc EXCEPT ![r] = "gather"]
    /\ rnd' = [rnd EXCEPT ![r] = round + 1]
    /\ left' = [left EXCEPT ![r] = roster]
    /\ UNCHANGED <<exists, roster, concluded, turns, used, at, idx, spent, ahead,
                   doing, billVars, askVars, injVars, conVars, ed, histVars, crashes>>

\* The discussion was deleted meanwhile.
NothingToRun(r) ==
    /\ pc[r] = "spawned" /\ ~exists
    /\ pc' = [pc EXCEPT ![r] = "refund"]
    /\ UNCHANGED <<dbVars, at, rnd, idx, spent, workVars, billVars, askVars,
                   injVars, conVars, ed, histVars, crashes>>

\* gather_market_context returns, or raises and abandons the round.
GatherEnds(r) ==
    /\ pc[r] = "gather"
    /\ \E next \in {"boundary", "ending"} : pc' = [pc EXCEPT ![r] = next]
    /\ spent' = [spent EXCEPT ![r] = 0]
    /\ UNCHANGED <<dbVars, at, rnd, idx, workVars, billVars, askVars, injVars,
                   conVars, ed, histVars, crashes>>

\* drain_interjections at a boundary of r: what its worker has queued.
Drained(r) == pending[at[r]]

\* Mutant: the queue is read and not emptied.
Drain_Kept(r) ==
    /\ pc[r] = "boundary"
    /\ ask' = [q \in Questions |->
                 IF \E k \in 1..Len(Drained(r)) : Drained(r)[k] = q
                 THEN "asking" ELSE ask[q]]
    /\ UNCHANGED <<dbVars, at, rnd, idx, spent, billVars, pending, askAt, askRound,
                   injVars, conVars, ed, histVars, crashes>>
\* A turn boundary drains this worker's queue in front of what is left and
\* takes the next item, with no await in between.
Drain(r) ==
    /\ pc[r] = "boundary"
    /\ pending' = IF Drained(r) = <<>> THEN pending
                  ELSE [pending EXCEPT ![at[r]] = <<>>]
    /\ ask' = [q \in Questions |->
                 IF \E k \in 1..Len(Drained(r)) : Drained(r)[k] = q
                 THEN "asking" ELSE ask[q]]
    /\ UNCHANGED <<dbVars, at, rnd, idx, spent, billVars, askAt, askRound,
                   injVars, conVars, ed, histVars, crashes>>
Waiting(r) == Drained(r) \o ahead[r]

TakeQuestion(r) ==
    /\ Drain(r)
    /\ Waiting(r) # <<>>
    /\ pc' = [pc EXCEPT ![r] = "question"]
    /\ doing' = [doing EXCEPT ![r] = Head(Waiting(r))]
    /\ ahead' = [ahead EXCEPT ![r] = Tail(Waiting(r))]
    /\ UNCHANGED left

TakePersona(r) ==
    /\ Drain(r)
    /\ Waiting(r) = <<>> /\ left[r] > 0
    /\ pc' = [pc EXCEPT ![r] = "speak"]
    /\ left' = [left EXCEPT ![r] = @ - 1]
    /\ UNCHANGED <<doing, ahead>>

RoundSpoken(r) ==
    /\ Drain(r)
    /\ Waiting(r) = <<>> /\ left[r] = 0
    /\ pc' = [pc EXCEPT ![r] = "ending"]
    /\ UNCHANGED workVars

\* The owner's question is committed on its own, before it is answered.
\* updated_at is not touched.
CommitQuestion(r) ==
    /\ pc[r] = "question"
    /\ exists /\ Free(rnd[r], idx[r])
    /\ turns' = turns \cup {Turn(rnd[r], idx[r], "question")}
    /\ pc' = [pc EXCEPT ![r] = "speak"]
    /\ idx' = [idx EXCEPT ![r] = @ + 1]
    /\ UNCHANGED <<rowVars, used, at, rnd, spent, workVars, billVars, askVars,
                   injVars, conVars, ed, histVars, crashes>>

\* updated_at = now, in the transaction of the turn.
AgeAfterTurn == 0

\* A turn row (a reply, a salvaged partial or an ABSTAIN placeholder after the
\* retries) of kind k and the updated_at bump are one commit.
CommitRow(r, k) ==
    /\ pc[r] = "speak"
    /\ exists /\ Free(rnd[r], idx[r])
    /\ turns' = turns \cup {Turn(rnd[r], idx[r], k)}
    /\ age' = AgeAfterTurn
    /\ pc' = [pc EXCEPT ![r] = "boundary"]
    /\ idx' = [idx EXCEPT ![r] = @ + 1]
    /\ spent' = [spent EXCEPT ![r] = 0]
    /\ UNCHANGED <<exists, status, round, roster, concluded, used, at, rnd, left,
                   ahead, cost, pending, askAt, askRound, injVars, conVars, ed,
                   raced, crashes>>

\* _run_in_background counts the turn_end of a roster turn ...
CommitReply(r) ==
    /\ CommitRow(r, Persona)
    /\ doing[r] = Persona
    /\ completed' = [completed EXCEPT ![r] = @ + 1]
    /\ unpaid' = IF completed[r] < cost[r] THEN unpaid ELSE unpaid + 1
    /\ UNCHANGED <<doing, ask>>

\* ... and not that of the answer to an interjection.
CommitAnswer(r) ==
    /\ CommitRow(r, "answer")
    /\ doing[r] # Persona
    /\ doing' = [doing EXCEPT ![r] = Persona]
    /\ ask' = [ask EXCEPT ![doing[r]] = "answered"]
    /\ UNCHANGED <<completed, unpaid>>

Lose(S) == [q \in Questions |-> IF q \in S THEN "lost" ELSE ask[q]]
\* Interjections a round had drained and will no longer answer.
Dropped(r) ==
    {q \in Questions : \/ doing[r] = q
                       \/ \E k \in 1..Len(ahead[r]) : ahead[r][k] = q}

\* A commit raises: the slot is taken, the discussion is gone, or the database
\* fails.  The round is abandoned and the drained interjections with it.  The
\* session is not rolled back, so the UPDATE of run_round's finally raises as well
\* and is only logged: the row stays as it is.
CommitFails(r) ==
    /\ pc[r] \in {"question", "speak"}
    /\ ~exists \/ ~Free(rnd[r], idx[r]) \/ "db" \in Faults
    /\ pc' = [pc EXCEPT ![r] = "refund"]
    /\ spent' = [spent EXCEPT ![r] = 0]
    /\ left' = [left EXCEPT ![r] = 0]
    /\ ahead' = [ahead EXCEPT ![r] = <<>>]
    /\ doing' = [doing EXCEPT ![r] = Persona]
    /\ ask' = Lose(Dropped(r))
    /\ UNCHANGED <<dbVars, at, rnd, idx, billVars, pending, askAt, askRound,
                   injVars, conVars, ed, histVars, crashes>>

\* run_round's finally: the status is reset whatever it is by now.  A reset
\* that raises is only logged.
EndRound(r) ==
    /\ pc[r] = "ending"
    /\ ResetRow \/ ("db" \in Faults /\ UNCHANGED rowVars)
    /\ pc' = [pc EXCEPT ![r] = "refund"]
    /\ UNCHANGED <<turns, used, at, rnd, idx, spent, workVars, billVars, askVars,
                   injVars, conVars, ed, histVars, crashes>>

Refund_AllOfIt(r) ==                                    \* mutant
    /\ pc[r] = "refund"
    /\ used' = Minus(used, cost[r])
    /\ Settled(r)
    /\ UNCHANGED <<rowVars, turns, askVars, injVars, conVars, ed, histVars, crashes>>
Refund_OnlyIfDue(r) ==                                  \* mutant
    /\ pc[r] = "refund" /\ cost[r] > completed[r]
    /\ used' = Minus(used, cost[r] - completed[r])
    /\ Settled(r)
    /\ UNCHANGED <<rowVars, turns, askVars, injVars, conVars, ed, histVars, crashes>>
\* _run_in_background's finally: the unspent remainder goes back.
Refund(r) ==
    /\ pc[r] = "refund"
    /\ used' = Minus(used, Minus(cost[r], completed[r]))
    /\ Settled(r)
    /\ UNCHANGED <<rowVars, turns, askVars, injVars, conVars, ed, histVars, crashes>>

-----------------------------------------------------------------------------
(* POST /interject.                                                        *)

\* Mid-round: status and the serving worker's capacity are checked, then one
\* request is charged.
AskAdmit(q, w) ==
    /\ ask[q] = "new"
    /\ exists /\ status = "running"
    /\ Len(pending[w]) < MaxPending
    /\ used + 1 <= Limit
    /\ used' = used + 1
    /\ ask' = [ask EXCEPT ![q] = "admitted"]
    /\ askAt' = [askAt EXCEPT ![q] = w]
    /\ UNCHANGED <<rowVars, turns, runVars, pending, askRound, injVars, conVars,
                   ed, histVars, crashes>>

\* After the charge, queue_interjection checks the capacity again: it queues
\* the question or the request is refunded.
AskEnqueue(q) ==
    /\ ask[q] = "admitted"
    /\ Len(pending[askAt[q]]) < MaxPending
    /\ pending' = [pending EXCEPT ![askAt[q]] = Append(@, q)]
    /\ ask' = [ask EXCEPT ![q] = "queued"]
    /\ UNCHANGED <<dbVars, runVars, askAt, askRound, injVars, conVars, ed, histVars, crashes>>

AskRefuse(q) ==
    /\ ask[q] = "admitted"
    /\ Len(pending[askAt[q]]) >= MaxPending
    /\ used' = Minus(used, 1)
    /\ ask' = [ask EXCEPT ![q] = "refused"]
    /\ UNCHANGED <<rowVars, turns, runVars, pending, askAt, askRound, injVars,
                   conVars, ed, histVars, crashes>>

\* Concluded: one follow-up question and answer on the row as it was read.
FollowAdmit(q, w) ==
    /\ ask[q] = "new"
    /\ exists /\ status = "done" /\ concluded
    /\ used + 1 <= Limit
    /\ used' = used + 1
    /\ ask' = [ask EXCEPT ![q] = "followQ"]
    /\ askAt' = [askAt EXCEPT ![q] = w]
    /\ askRound' = [askRound EXCEPT ![q] = round]
    /\ UNCHANGED <<rowVars, turns, runVars, pending, injVars, conVars, ed, histVars, crashes>>

\* Append a turn of kind k at max + 1 of round n (a collision is retried with a
\* fresh max).
AppendTo(n, k) == \E i \in NextIn(n) : /\ IsNext(n, i)
                                       /\ turns' = turns \cup {Turn(n, i, k)}

\* inject_user_message for the question, which also touches updated_at ...
FollowQuestion(q) ==
    /\ ask[q] = "followQ"
    /\ exists
    /\ AppendTo(askRound[q], "question")
    /\ age' = 0
    /\ ask' = [ask EXCEPT ![q] = "followA"]
    /\ UNCHANGED <<exists, status, round, roster, concluded, used, runVars,
                   pending, askAt, askRound, injVars, conVars, ed, histVars, crashes>>

\* ... then the answer, after the LLM.
FollowAnswer(q) ==
    /\ ask[q] = "followA"
    /\ exists
    /\ AppendTo(askRound[q], "answer")
    /\ ask' = [ask EXCEPT ![q] = "followed"]
    /\ UNCHANGED <<rowVars, used, runVars, pending, askAt, askRound, injVars,
                   conVars, ed, histVars, crashes>>

\* The LLM fails twice or a commit raises: the request is refunded; a question
\* already committed stays.
FollowFails(q) ==
    /\ ask[q] \in {"followQ", "followA"}
    /\ used' = Minus(used, 1)
    /\ ask' = [ask EXCEPT ![q] = "refused"]
    /\ UNCHANGED <<rowVars, turns, runVars, pending, askAt, askRound, injVars,
                   conVars, ed, histVars, crashes>>

-----------------------------------------------------------------------------
(* POST /inject, POST /conclude, PATCH and DELETE.                         *)

\* The row is read and checked ...
InjectRead(i) ==
    /\ inj[i] = "new"
    /\ exists /\ status # "running" /\ round >= 1
    /\ inj' = [inj EXCEPT ![i] = "read"]
    /\ injRound' = [injRound EXCEPT ![i] = round]
    /\ UNCHANGED <<dbVars, runVars, askVars, conVars, ed, histVars, crashes>>

\* ... and the turn committed later, at max + 1 of the round that was read,
\* or not at all: the discussion is gone, or every retry collided.
InjectCommit(i) ==
    /\ inj[i] = "read"
    /\ \/ /\ exists
          /\ AppendTo(injRound[i], "inject")
          /\ age' = 0
       \/ UNCHANGED <<turns, age>>
    /\ inj' = [inj EXCEPT ![i] = "done"]
    /\ UNCHANGED <<exists, status, round, roster, concluded, used, runVars,
                   askVars, injRound, conVars, ed, histVars, crashes>>

\* No status check: only a round must have been opened.
ConcludeStart(c, w) ==
    /\ con[c] = "new"
    /\ exists /\ round >= 1
    /\ used + 1 <= Limit
    /\ used' = used + 1
    /\ con' = [con EXCEPT ![c] = "thinking"]
    /\ conAt' = [conAt EXCEPT ![c] = w]
    /\ conSaw' = [conSaw EXCEPT ![c] = status]
    /\ UNCHANGED <<rowVars, turns, runVars, askVars, injVars, ed, histVars,
                   crashes>>

\* discussion.status = STATUS_DONE on the entity that was read before the LLM
\* call: the ORM writes the column only when it differs from what was read.
ConcludeCommit(c) ==
    /\ con[c] = "thinking"
    /\ exists
    /\ concluded' = TRUE /\ age' = 0
    /\ status' = IF conSaw[c] = "done" THEN status ELSE "done"
    /\ con' = [con EXCEPT ![c] = "done"]
    /\ raced' = (raced \/ \E r \in Runs : Live(r))
    /\ UNCHANGED <<exists, round, roster, turns, used, runVars, askVars, injVars,
                   conAt, conSaw, ed, unpaid, crashes>>

ConcludeFails(c) ==
    /\ con[c] = "thinking"
    /\ used' = Minus(used, 1)
    /\ con' = [con EXCEPT ![c] = "failed"]
    /\ UNCHANGED <<rowVars, turns, runVars, askVars, injVars, conAt, conSaw, ed,
                   histVars, crashes>>

\* update_discussion: the row is read and found to be a draft ...
EditRead(e) ==
    /\ ed[e] = "new"
    /\ exists /\ status = "draft"
    /\ ed' = [ed EXCEPT ![e] = "read"]
    /\ UNCHANGED <<dbVars, runVars, askVars, injVars, conVars, histVars, crashes>>

\* ... and the roster committed later, whatever the status is by then.
EditCommit(e) ==
    /\ ed[e] = "read"
    /\ exists /\ roster' \in RosterSizes /\ age' = 0
    /\ ed' = [ed EXCEPT ![e] = "done"]
    /\ UNCHANGED <<exists, status, round, concluded, turns, used, runVars, askVars,
                   injVars, conVars, histVars, crashes>>

\* delete_discussion: turns and row in one transaction, whatever runs.
Delete ==
    /\ "delete" \in Faults
    /\ exists
    /\ exists' = FALSE /\ turns' = {}
    /\ UNCHANGED <<status, round, age, roster, concluded, used, runVars, askVars,
                   injVars, conVars, ed, histVars, crashes>>

-----------------------------------------------------------------------------
(* The environment.                                                        *)

\* f for the tasks that survive the crash of w, v for those that die.
Surviving(w, f, v) == [r \in Runs |-> IF at[r] = w THEN v ELSE f[r]]

\* A worker process dies: its tasks, its queue and its open requests with it.
\* What they had charged stays charged.
Crash(w) ==
    /\ "crash" \in Faults /\ crashes < MaxCrashes
    /\ pc' = Surviving(w, pc, "idle") /\ rnd' = Surviving(w, rnd, 0)
    /\ idx' = Surviving(w, idx, 0) /\ spent' = Surviving(w, spent, 0)
    /\ left' = Surviving(w, left, 0) /\ ahead' = Surviving(w, ahead, <<>>)
    /\ doing' = Surviving(w, doing, Persona)
    /\ cost' = Surviving(w, cost, 0) /\ completed' = Surviving(w, completed, 0)
    /\ pending' = [pending EXCEPT ![w] = <<>>]
    /\ ask' = Lose({q \in Questions : askAt[q] = w /\
                ask[q] \in {"admitted", "queued", "asking", "followQ", "followA"}})
    /\ con' = [c \in Concluders |-> IF conAt[c] = w /\ con[c] = "thinking"
                                    THEN "lost" ELSE con[c]]
    /\ crashes' = crashes + 1
    /\ UNCHANGED <<dbVars, at, askAt, askRound, injVars, conAt, conSaw, ed,
                   histVars>>

\* One tick, the longest persona turn being TurnMax of them.  asyncio.timeout
\* bounds a turn; only GatherMax bounds the gathering of the context.
Tick ==
    /\ status = "running" /\ age <= StaleAfter
    /\ \A r \in Runs : /\ pc[r] \notin {"boundary", "question", "ending"}
                       /\ pc[r] = "speak" => spent[r] < TurnMax
                       /\ pc[r] = "gather" => spent[r] < GatherMax
    /\ age' = age + 1
    /\ spent' = [r \in Runs |-> IF pc[r] \in {"gather", "speak"}
                                THEN spent[r] + 1 ELSE spent[r]]
    /\ UNCHANGED <<exists, status, round, roster, concluded, turns, used, pc, at,
                   rnd, idx, workVars, billVars, askVars, injVars, conVars, ed, histVars, crashes>>

TaskStep(r) ==
    \/ ForceReset(r) \/ Reserve(r) \/ QuotaSpent(r)
    \/ BeginRound(r) \/ NothingToRun(r) \/ GatherEnds(r)
    \/ TakeQuestion(r) \/ TakePersona(r) \/ RoundSpoken(r)
    \/ CommitQuestion(r) \/ CommitReply(r) \/ CommitAnswer(r) \/ CommitFails(r)
    \/ EndRound(r) \/ Refund(r)

AskStep(q) == \/ AskEnqueue(q) \/ AskRefuse(q)
              \/ FollowQuestion(q) \/ FollowAnswer(q) \/ FollowFails(q)

Next ==
    \/ \E r \in Runs : TaskStep(r) \/ \E w \in Workers : RequestRound(r, w)
    \/ \E q \in Questions :
         AskStep(q) \/ \E w \in Workers : AskAdmit(q, w) \/ FollowAdmit(q, w)
    \/ \E i \in Injectors : InjectRead(i) \/ InjectCommit(i)
    \/ \E c \in Concluders : \/ \E w \in Workers : ConcludeStart(c, w)
                             \/ ConcludeCommit(c) \/ ConcludeFails(c)
    \/ \E e \in Editors : EditRead(e) \/ EditCommit(e)
    \/ Delete
    \/ \E w \in Workers : Crash(w)
    \/ Tick

Spec == Init /\ [][Next]_vars

\* asyncio schedules every task that is ready, LLM calls time out, and time
\* passes; an owner facing a stuck discussion tries again.
Fairness ==
    /\ \A r \in Runs : WF_vars(TaskStep(r))
    /\ \A q \in Questions : WF_vars(AskStep(q))
    /\ WF_vars(Tick)
OwnerRetries == \A r \in Runs : WF_vars(\E w \in Workers : RequestRound(r, w))
FairSpec == Spec /\ Fairness /\ OwnerRetries

-----------------------------------------------------------------------------
(* Properties.                                                             *)

TurnType == [round : Nat, idx : Nat, kind : Kinds]

\* Every variable keeps its type.
TypeOK ==
    /\ exists \in BOOLEAN /\ status \in Statuses /\ round \in Nat /\ age \in Nat
    /\ roster \in RosterSizes /\ concluded \in BOOLEAN
    /\ turns \subseteq TurnType /\ used \in Nat
    /\ pc \in [Runs -> RunPcs] /\ at \in [Runs -> Workers]
    /\ rnd \in [Runs -> Nat] /\ idx \in [Runs -> Nat] /\ spent \in [Runs -> Nat]
    /\ left \in [Runs -> Nat] /\ ahead \in [Runs -> Seq(Questions)]
    /\ doing \in [Runs -> Questions \cup {Persona}]
    /\ cost \in [Runs -> Nat] /\ completed \in [Runs -> Nat]
    /\ pending \in [Workers -> Seq(Questions)] /\ ask \in [Questions -> AskPcs]
    /\ askAt \in [Questions -> Workers] /\ askRound \in [Questions -> Nat]
    /\ inj \in [Injectors -> {"new", "read", "done"}]
    /\ injRound \in [Injectors -> Nat]
    /\ con \in [Concluders -> {"new", "thinking", "done", "failed", "lost"}]
    /\ conAt \in [Concluders -> Workers] /\ conSaw \in [Concluders -> Statuses]
    /\ ed \in [Editors -> {"new", "read", "done"}] /\ raced \in BOOLEAN /\ unpaid \in Nat
    /\ crashes \in Nat

\* Rounds that overlap (two tabs, a recovered round that was still alive) write
\* under different numbers, none above the row's: the opening UPDATE of
\* run_round takes its number from the database, not from the entity it read.
RoundsOwned ==
    /\ \A r \in Runs : Live(r) => rnd[r] <= round
    /\ \A r, s \in Runs : Live(r) /\ Live(s) /\ rnd[r] = rnd[s] => r = s

\* The transcript of a round has no hole and no two turns in one place, whoever
\* writes it: runner, injections and follow-ups number their turns by
\* different means and only the unique constraint keeps them apart.
DenseTurns ==
    /\ \A t, u \in turns : t.round = u.round /\ t.idx = u.idx => t = u
    /\ \A t \in turns : t.idx > 0 => t.idx - 1 \in Indices(t.round)

OfKind(k) == {t \in turns : t.kind = k}
AskedIn(S) == {q \in Questions : ask[q] \in S}
ConcludedIn(S) == {c \in Concluders : con[c] \in S}
Outstanding == UNION {{r} \X (1..Minus(cost[r], completed[r])) :
                        r \in {s \in Runs : Reserved(s)}}

\* Every persona reply, answered interjection and conclusion was paid for, also
\* when rounds overlap, abort, crash or lose their discussion -- but for the
\* replies of personas that joined the roster after the round was charged
\* (docstring of run_round: each turn counts, the cost is reserved up front).
WorkIsPaid ==
    used + unpaid >= Cardinality(OfKind(Persona)) + Cardinality(Outstanding)
                     + Cardinality(AskedIn({"answered", "followed"}))
                     + Cardinality(ConcludedIn({"done"}))

\* Until a crash or a deletion the counter is exactly what was produced, what is
\* reserved and the interjections whose round was abandoned: nothing is
\* refunded twice and nothing is forgotten.
QuotaBalances ==
    crashes = 0 /\ exists =>
    used + unpaid = Cardinality(OfKind(Persona)) + Cardinality(Outstanding)
                    + Cardinality(AskedIn(AskPcs \ {"new", "refused"}))
                    + Cardinality(ConcludedIn({"thinking", "done"}))

\* Rounds that overlap in one worker share its queue, and a queue dies with its
\* worker: no interjection is answered twice, or answered and lost.
AnsweredOnce ==
    exists => Cardinality(OfKind("answer")) = Cardinality(AskedIn({"answered", "followed"}))

\* One round at a time.
OneRunner == \A r, s \in Runs : Live(r) /\ Live(s) => r = s

\* A round that is force-reset for silence has no runner left (the comments in
\* _stale_threshold_seconds and at the updated_at bump of run_round).
StaleMeansDead ==
    [][\A r \in Runs :
         pc[r] = "recover" /\ pc'[r] = "reserve" /\ exists
         => \A s \in Runs : ~Live(s)]_vars

\* A free-form injection sits after the last persona reply of its round
\* (docstring of inject_user_message).
InjectsLandLast ==
    \A t \in OfKind("inject"), u \in OfKind(Persona) :
        t.round = u.round => u.idx < t.idx

\* Once a round has run the roster is frozen (docstring of update_discussion).
RosterFrozen == [][round >= 1 => roster' = roster]_vars

\* A concluded discussion stays concluded until its owner opens another round
\* (docstring of synthesize_conclusion: "flips status -> done").
DoneUntilNextRound ==
    [][status = "done" /\ status' # "done" => round' > round]_vars

\* A round that was opened is settled: status reset, unspent quota returned.
RoundSettles == \A r \in Runs : Live(r) ~> pc[r] = "idle"

\* A discussion left RUNNING by a dead runner does not stay so.
Abandoned == status = "running" /\ \A r \in Runs : ~Live(r)
AbandonedRecovers == Abandoned ~> ~Abandoned
=============================================================================
