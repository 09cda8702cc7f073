---------------------------- MODULE PriceAlerts ----------------------------
(***************************************************************************)
(* Price alerts on one symbol (services/alert_service.py).  A market       *)
(* refresh job polls the quote and evaluates the alerts under a row lock,  *)
(* the daily streak job evaluates its own kind without one, and the owner  *)
(* changes or deletes an alert by an unlocked read and a later UPDATE.     *)
(* A step is what happens between two awaits that another actor can get    *)
(* in between of: a SELECT, a commit, one notification.                    *)
(*                                                                         *)
(* Prices and levels are numbers; a trend line and an RSI level are a      *)
(* level, a streak rule has none.  Only rules that fire upwards are        *)
(* modelled, the others mirror them.                                       *)
(***************************************************************************)
EXTENDS Integers, FiniteSets

CONSTANTS
    Alerts,      \* ids of price_alerts rows
    Stateful,    \* the alerts of a STATEFUL_CONDITION_TYPES rule
    Daily,       \* the alerts of foreign_net_buy_streak
    Ticks,       \* refresh jobs that may run at once
    Streak,      \* the daily streak job
    Edits,       \* PATCH requests that may be in progress at once
    Levels,      \* targets, lines and RSI levels an owner chooses
    Prices,      \* quotes
    NoAlert, NoTick,
    MaxFirings,  \* bound: no evaluation starts once an alert has fired so often
    Budgets      \* bounds: the rules an execution may create, and how many edits,
                 \* polls (runs of a job) and faults it has, [rules, edits, polls, faults]

ASSUME AlertAssumption ==
    /\ Stateful \subseteq Alerts /\ Daily \subseteq Alerts
    /\ Stateful \cap Daily = {}
    /\ Streak \notin Ticks /\ NoTick \notin Ticks /\ NoAlert \notin Alerts
    /\ Levels \subseteq Nat \ {0} /\ Prices \subseteq Nat \ {0}
    /\ MaxFirings \in Nat
    /\ \A b \in Budgets : /\ b.rules \subseteq Alerts /\ b.edits \in Nat
                          /\ b.polls \in Nat /\ b.faults \in Nat

Jobs == Ticks \cup {Streak}
Sides == {"below", "on", "above"}
NoSide == "none"
NoNumber == 0
NoKind == "none"
EditKinds == {"level", "repeat", "once", "cooldown"}

VARIABLES
    row,        \* does the row exist: "none", "live", "deleted"
    repeat, triggered,
    level,      \* target_price, or the geometry in params
    side,       \* runtime_state: the side the price was last seen on
    cooling,    \* now < last_fired_at + cooldown_seconds
    fired,      \* how many alert_events rows name the alert
    lock,       \* the refresh job whose transaction holds the row FOR UPDATE
    job,        \* Jobs -> "idle", "quoting", "evaluating", "notifying"
    seen,       \* Jobs -> the rows its SELECT returned and it evaluates
    single,     \* the seen rows of the streak job that were read with repeat false
    price,      \* Ticks -> the quote it evaluates
    outbox,     \* Jobs -> the firings it has still to notify
    editOf,     \* Edits -> the alert a request has read
    editKind, editLevel,
    sawSide,    \* Edits -> the runtime_state it read was not null
    rules, edits, polls, faults,   \* what is left of the bounds
    sideLevel,  \* history: the level the side was last judged against
    blurred     \* history: alerts a tick gave a side while a PATCH of their level was
                \* under way that had read none

ruleVars == <<row, repeat, triggered, level, side, cooling, fired, lock>>
jobVars == <<job, seen, single, price, outbox>>
editVars == <<editOf, editKind, editLevel, sawSide>>
ghostVars == <<sideLevel, blurred>>
budgetVars == <<rules, edits, polls, faults>>
alertVars == <<ruleVars, jobVars, editVars, ghostVars, budgetVars>>

RuleTypes ==
    /\ row \in [Alerts -> {"none", "live", "deleted"}]
    /\ repeat \in [Alerts -> BOOLEAN] /\ triggered \in [Alerts -> BOOLEAN]
    /\ level \in [Alerts -> Nat] /\ sideLevel \in [Alerts -> Nat]
    /\ side \in [Alerts -> Sides \cup {NoSide}]
    /\ cooling \in [Alerts -> BOOLEAN] /\ fired \in [Alerts -> Nat]
    /\ lock \in [Alerts -> Ticks \cup {NoTick}]
    /\ blurred \subseteq Alerts
JobTypes ==
    /\ job \in [Jobs -> {"idle", "quoting", "evaluating", "notifying"}]
    /\ seen \in [Jobs -> SUBSET Alerts] /\ single \subseteq Daily
    /\ price \in [Ticks -> Nat]
    /\ outbox \in [Jobs -> SUBSET (Alerts \X Nat)]
EditTypes ==
    /\ editOf \in [Edits -> Alerts \cup {NoAlert}]
    /\ editKind \in [Edits -> EditKinds \cup {NoKind}]
    /\ editLevel \in [Edits -> Nat] /\ sawSide \in [Edits -> BOOLEAN]
BudgetTypes ==
    /\ rules \subseteq Alerts /\ edits \in Nat /\ polls \in Nat /\ faults \in Nat
AlertTypeOK == RuleTypes /\ JobTypes /\ EditTypes /\ BudgetTypes

AlertInit(b) ==
    /\ row = [a \in Alerts |-> "none"]
    /\ repeat = [a \in Alerts |-> FALSE] /\ triggered = [a \in Alerts |-> FALSE]
    /\ level = [a \in Alerts |-> NoNumber] /\ sideLevel = [a \in Alerts |-> NoNumber]
    /\ side = [a \in Alerts |-> NoSide]
    /\ cooling = [a \in Alerts |-> FALSE] /\ fired = [a \in Alerts |-> 0]
    /\ lock = [a \in Alerts |-> NoTick]
    /\ job = [j \in Jobs |-> "idle"] /\ seen = [j \in Jobs |-> {}] /\ single = {}
    /\ price = [t \in Ticks |-> NoNumber] /\ outbox = [j \in Jobs |-> {}]
    /\ editOf = [u \in Edits |-> NoAlert] /\ editKind = [u \in Edits |-> NoKind]
    /\ editLevel = [u \in Edits |-> NoNumber] /\ sawSide = [u \in Edits |-> FALSE]
    /\ rules = b.rules /\ edits = b.edits /\ polls = b.polls /\ faults = b.faults
    /\ blurred = {}

-----------------------------------------------------------------------------
(* The rules (alert_rules.py). *)

Relation(p, l) == IF p < l THEN "below" ELSE IF p = l THEN "on" ELSE "above"

Crosses(before, now) == before = "below" /\ now \in {"on", "above"}

\* cooldown_ok of a row that was read untriggered: what it tells of the flag is what
\* the SELECT returned.
CooldownOk(a) == repeat[a] => ~cooling[a]

\* What a tick at price p makes of alert a.
Matches(a, p) ==
    /\ p >= level[a]
    /\ a \in Stateful => Crosses(side[a], Relation(p, level[a]))
    /\ CooldownOk(a)

Untriggered == {a \in Alerts : row[a] = "live" /\ ~triggered[a]}
Locked(a) == lock[a] # NoTick
Room == \A a \in Alerts : fired[a] < MaxFirings

\* fire_alert for every alert of F, of which those in once are flipped.
Fire(F, once) ==
    /\ fired' = [a \in Alerts |-> IF a \in F THEN fired[a] + 1 ELSE fired[a]]
    /\ cooling' = [a \in Alerts |-> cooling[a] \/ a \in F]
    /\ triggered' = [a \in Alerts |-> triggered[a] \/ a \in F \cap once]

\* What dispatch_notifications is going to send for them.
Firings(F) == {<<a, fired[a] + 1>> : a \in F}

\* A PATCH of its geometry is under way that read the row while it had no side.
Unaware(u, a) == editOf[u] = a /\ editKind[u] = "level" /\ ~sawSide[u]

Unlocked(t) == [a \in Alerts |-> IF lock[a] = t THEN NoTick ELSE lock[a]]

-----------------------------------------------------------------------------
(* Requests of the owner. *)

\* AlertService.create
Create(a, l, r) ==
    /\ a \in rules
    /\ row[a] = "none"
    /\ IF a \in Daily THEN l = NoNumber ELSE l \in Levels
    /\ rules' = rules \ {a}
    /\ row' = [row EXCEPT ![a] = "live"]
    /\ level' = [level EXCEPT ![a] = l]
    /\ repeat' = [repeat EXCEPT ![a] = r]
    /\ sideLevel' = [sideLevel EXCEPT ![a] = l]
    /\ UNCHANGED <<triggered, side, cooling, fired, lock, jobVars, editVars,
                   blurred, edits, polls, faults>>

\* AlertService.update reads the row, without a lock.  One PATCH changes one
\* thing: its geometry, whether it repeats, or the cooldown.
EditLoad(u, a, k, l) ==
    /\ edits > 0
    /\ editOf[u] = NoAlert
    /\ row[a] = "live"
    /\ IF k = "level" THEN a \notin Daily /\ l \in Levels \ {level[a]} ELSE l = NoNumber
    /\ k = "repeat" => ~repeat[a]
    /\ k = "once" => repeat[a]
    /\ k = "cooldown" => fired[a] > 0
    /\ editOf' = [editOf EXCEPT ![u] = a]
    /\ editKind' = [editKind EXCEPT ![u] = k]
    /\ editLevel' = [editLevel EXCEPT ![u] = l]
    /\ sawSide' = [sawSide EXCEPT ![u] = side[a] # NoSide]
    /\ edits' = edits - 1
    /\ UNCHANGED <<ruleVars, jobVars, ghostVars, rules, polls, faults>>

\* mutant
EditCommit_KeepsSide(u) ==
    LET a == editOf[u] IN
    /\ a # NoAlert
    /\ ~Locked(a)
    /\ editOf' = [editOf EXCEPT ![u] = NoAlert]
    /\ editKind' = [editKind EXCEPT ![u] = NoKind]
    /\ editLevel' = [editLevel EXCEPT ![u] = NoNumber]
    /\ sawSide' = [sawSide EXCEPT ![u] = FALSE]
    /\ \/ /\ row[a] = "live" /\ editKind[u] = "level"
          /\ level' = [level EXCEPT ![a] = editLevel[u]]
          /\ side' = side
          /\ UNCHANGED <<repeat, cooling>>
       \/ /\ row[a] = "live" /\ editKind[u] \in {"repeat", "once"}
          /\ repeat' = [repeat EXCEPT ![a] = editKind[u] = "repeat"]
          /\ UNCHANGED <<level, side, cooling>>
       \/ /\ row[a] = "live" /\ editKind[u] = "cooldown"
          /\ cooling' = [cooling EXCEPT ![a] = ~@]
          /\ UNCHANGED <<level, side, repeat>>
       \/ /\ row[a] # "live"
          /\ UNCHANGED <<level, side, repeat, cooling>>
    /\ UNCHANGED <<row, triggered, fired, lock, jobVars, ghostVars, budgetVars>>

\* Its UPDATE writes the columns the request changed: runtime_state is among
\* them only when the row was read with one.  It waits for a lock; a row that
\* has been deleted makes the flush fail.
EditCommit(u) ==
    LET a == editOf[u] IN
    /\ a # NoAlert
    /\ ~Locked(a)
    /\ editOf' = [editOf EXCEPT ![u] = NoAlert]
    /\ editKind' = [editKind EXCEPT ![u] = NoKind]
    /\ editLevel' = [editLevel EXCEPT ![u] = NoNumber]
    /\ sawSide' = [sawSide EXCEPT ![u] = FALSE]
    /\ \/ /\ row[a] = "live" /\ editKind[u] = "level"
          /\ level' = [level EXCEPT ![a] = editLevel[u]]
          /\ side' = [side EXCEPT ![a] = IF a \in Stateful /\ sawSide[u] THEN NoSide ELSE @]
          /\ UNCHANGED <<repeat, cooling>>
       \/ /\ row[a] = "live" /\ editKind[u] \in {"repeat", "once"}
          /\ repeat' = [repeat EXCEPT ![a] = editKind[u] = "repeat"]
          /\ UNCHANGED <<level, side, cooling>>
       \/ /\ row[a] = "live" /\ editKind[u] = "cooldown"
          /\ cooling' = [cooling EXCEPT ![a] = ~@]
          /\ UNCHANGED <<level, side, repeat>>
       \/ /\ row[a] # "live"
          /\ UNCHANGED <<level, side, repeat, cooling>>
    /\ UNCHANGED <<row, triggered, fired, lock, jobVars, ghostVars, budgetVars>>

\* AlertService.delete waits for a lock too.  The history stays.
Delete(a) ==
    /\ row[a] = "live"
    /\ ~Locked(a)
    /\ row' = [row EXCEPT ![a] = "deleted"]
    /\ UNCHANGED <<repeat, triggered, level, side, cooling, fired, lock, jobVars,
                   editVars, ghostVars, budgetVars>>

\* The clock passes last_fired_at + cooldown_seconds.
CooldownEnds(a) ==
    /\ cooling[a]
    /\ cooling' = [cooling EXCEPT ![a] = FALSE]
    /\ UNCHANGED <<row, repeat, triggered, level, side, fired, lock, jobVars,
                   editVars, ghostVars, budgetVars>>

-----------------------------------------------------------------------------
(* The refresh job: refresh_tw_quotes, refresh_us_quotes,                  *)
(* refresh_crypto_quotes and, per symbol, check_and_fire.                  *)

\* The job finds the symbol among the subscribed ones and asks for its quote.
Poll(t) ==
    /\ polls > 0
    /\ job[t] = "idle"
    /\ polls' = polls - 1
    /\ job' = [job EXCEPT ![t] = "quoting"]
    /\ UNCHANGED <<ruleVars, seen, single, price, outbox, editVars, ghostVars,
                   rules, edits, faults>>

\* mutant
TickLoad_NoRowLock(t, p) ==
    /\ job[t] = "quoting"
    /\ Room
    /\ IF Untriggered \subseteq Daily
       THEN /\ job' = [job EXCEPT ![t] = "idle"]
            /\ UNCHANGED <<seen, price, lock>>
       ELSE /\ job' = [job EXCEPT ![t] = "evaluating"]
            /\ seen' = [seen EXCEPT ![t] = Untriggered \ Daily]
            /\ price' = [price EXCEPT ![t] = p]
            /\ lock' = [a \in Alerts |-> IF a \in Untriggered THEN t ELSE lock[a]]
    /\ UNCHANGED <<row, repeat, triggered, level, side, cooling, fired, single, outbox,
                   editVars, ghostVars, budgetVars>>

\* SELECT ... WHERE NOT triggered FOR UPDATE: rows of the daily kind are locked
\* and left aside.  With nothing to evaluate the session ends, and the lock.
TickLoad(t, p) ==
    /\ job[t] = "quoting"
    /\ Room
    /\ \A a \in Untriggered : ~Locked(a)
    /\ IF Untriggered \subseteq Daily
       THEN /\ job' = [job EXCEPT ![t] = "idle"]
            /\ UNCHANGED <<seen, price, lock>>
       ELSE /\ job' = [job EXCEPT ![t] = "evaluating"]
            /\ seen' = [seen EXCEPT ![t] = Untriggered \ Daily]
            /\ price' = [price EXCEPT ![t] = p]
            /\ lock' = [a \in Alerts |-> IF a \in Untriggered THEN t ELSE lock[a]]
    /\ UNCHANGED <<row, repeat, triggered, level, side, cooling, fired, single, outbox,
                   editVars, ghostVars, budgetVars>>

\* The rest of check_and_fire, up to and with the commit.  known are the rows the
\* thresholds and the quote suffice for; the others abstain.
TickCommit(t, known) ==
    LET F == {a \in known : Matches(a, price[t])} IN
    /\ job[t] = "evaluating"
    /\ Fire(F, {a \in Alerts : ~repeat[a]})
    /\ side' = [a \in Alerts |-> IF a \in known \cap Stateful
                                 THEN Relation(price[t], level[a]) ELSE side[a]]
    /\ sideLevel' = [a \in Alerts |-> IF a \in known \cap Stateful
                                      THEN level[a] ELSE sideLevel[a]]
    /\ blurred' = (blurred \ known) \cup {a \in known \cap Stateful : \E u \in Edits : Unaware(u, a)}
    /\ lock' = Unlocked(t)
    /\ outbox' = [outbox EXCEPT ![t] = Firings(F)]
    /\ seen' = [seen EXCEPT ![t] = {}]
    /\ price' = [price EXCEPT ![t] = NoNumber]
    /\ job' = [job EXCEPT ![t] = IF F = {} THEN "idle" ELSE "notifying"]
    /\ UNCHANGED <<row, repeat, level, single, editVars, budgetVars>>

-----------------------------------------------------------------------------
(* The daily job: check_foreign_streak_alerts. *)

\* Its SELECT takes no lock.
StreakLoad ==
    LET found == {a \in Untriggered \cap Daily : CooldownOk(a)} IN
    /\ polls > 0
    /\ job[Streak] = "idle"
    /\ Room
    /\ polls' = polls - 1
    /\ found # {}
    /\ job' = [job EXCEPT ![Streak] = "evaluating"]
    /\ seen' = [seen EXCEPT ![Streak] = found]
    /\ single' = {a \in found : ~repeat[a]}
    /\ UNCHANGED <<ruleVars, price, outbox, editVars, ghostVars, rules, edits, faults>>

\* The alerts of F have their streak.  A row that was deleted since makes the flush
\* fail, and none of them fires.
StreakCommit(F) ==
    LET kept == IF \A a \in F : row[a] = "live" THEN F ELSE {} IN
    /\ job[Streak] = "evaluating"
    /\ \A a \in F : ~Locked(a)
    /\ Fire(kept, single)
    /\ outbox' = [outbox EXCEPT ![Streak] = Firings(kept)]
    /\ seen' = [seen EXCEPT ![Streak] = {}]
    /\ single' = {}
    /\ job' = [job EXCEPT ![Streak] = IF kept = {} THEN "idle" ELSE "notifying"]
    /\ UNCHANGED <<row, repeat, level, side, lock, price, editVars, ghostVars, budgetVars>>

-----------------------------------------------------------------------------
(* Notifications, and a job that does not get to its end. *)

\* dispatch_notifications: one firing after the other; an error of a transport is
\* logged and swallowed.
Notify(j, n) ==
    /\ job[j] = "notifying"
    /\ n \in outbox[j]
    /\ outbox' = [outbox EXCEPT ![j] = @ \ {n}]
    /\ job' = [job EXCEPT ![j] = IF outbox[j] = {n} THEN "idle" ELSE @]
    /\ UNCHANGED <<ruleVars, seen, single, price, editVars, ghostVars, budgetVars>>

\* The transaction fails, or the process of the job dies.
JobFails(j) ==
    /\ faults > 0
    /\ job[j] # "idle"
    /\ faults' = faults - 1
    /\ job' = [job EXCEPT ![j] = "idle"]
    /\ seen' = [seen EXCEPT ![j] = {}]
    /\ single' = IF j = Streak THEN {} ELSE single
    /\ outbox' = [outbox EXCEPT ![j] = {}]
    /\ price' = [t \in Ticks |-> IF t = j THEN NoNumber ELSE price[t]]
    /\ lock' = Unlocked(j)
    /\ UNCHANGED <<row, repeat, triggered, level, side, cooling, fired,
                   editVars, ghostVars, rules, edits, polls>>

-----------------------------------------------------------------------------
Owner ==
    \/ \E a \in Alerts, l \in Levels \cup {NoNumber}, r \in BOOLEAN : Create(a, l, r)
    \/ \E u \in Edits, a \in Alerts, k \in EditKinds, l \in Levels \cup {NoNumber} :
          EditLoad(u, a, k, l)
    \/ \E u \in Edits : EditCommit(u)
    \/ \E a \in Alerts : Delete(a) \/ CooldownEnds(a)

Evaluate ==
    \/ \E t \in Ticks, p \in Prices : TickLoad(t, p)
    \/ \E t \in Ticks : \E known \in SUBSET seen[t] : TickCommit(t, known)
    \/ StreakLoad
    \/ \E F \in SUBSET seen[Streak] : StreakCommit(F)

AlertNext ==
    \/ Owner
    \/ Evaluate
    \/ \E t \in Ticks : Poll(t)
    \/ \E j \in Jobs : \E n \in outbox[j] : Notify(j, n)
    \/ \E j \in Jobs : JobFails(j)

AlertSpec == (\E b \in Budgets : AlertInit(b)) /\ [][AlertNext]_alertVars

-----------------------------------------------------------------------------
(* Properties *)

\* An alert that has fired for good is not fired again, whatever its owner makes of
\* it meanwhile and however the jobs overlap: alert.triggered is "the dedupe flag
\* for the live rule", and a history row is staged with the flip of the flag.
TriggeredIsFinal ==
    [][\A a \in Alerts : fired'[a] # fired[a] => ~triggered[a] /\ fired'[a] = fired[a] + 1]_alertVars

\* A stored side belongs to the level in force: moving the line of a rule makes update()
\* forget the side, so that the next tick does not take the move for a crossing.  The
\* exception is an overlap: a tick stored the side while such a PATCH was under way that
\* had read none, and the ORM, which sees no change of runtime_state, leaves it.
SideFitsLevel ==
    \A a \in Stateful : side[a] # NoSide /\ row[a] = "live"
        => sideLevel[a] = level[a] \/ a \in blurred
=============================================================================
