-------------------------- MODULE MCAlertDelivery --------------------------
(***************************************************************************)
(* A rule on a crossing, one on a price and a daily rule of one user, two  *)
(* refresh jobs that may overlap, and connections of two users.  An        *)
(* execution chooses its bounds: three are rich in what owners and jobs    *)
(* do, with the symbol subscribed elsewhere, two in what clients and       *)
(* workers do.                                                             *)
(***************************************************************************)
EXTENDS AlertDelivery

CONSTANTS line, flow, cap, s1, s2, w1, w2, ann, bob

MCHome == [s \in Sockets |-> w1]
MCOwns == [a \in Alerts |-> ann]
MCNotes == Alerts \X (1 .. MaxFirings)
MCRecipient == [n \in MCNotes |-> ann]
\* The owner and the jobs on one rule, of two kinds, and on two; one client and a firing; two
\* clients and the registry.
MCBudgets == {
    [rules |-> Stateful, edits |-> 1, polls |-> 3, faults |-> 1,
     starts |-> 0, visits |-> 0, mishaps |-> 0, elsewhere |-> TRUE],
    [rules |-> {cap}, edits |-> 1, polls |-> 3, faults |-> 1,
     starts |-> 0, visits |-> 0, mishaps |-> 0, elsewhere |-> TRUE],
    [rules |-> {line, flow}, edits |-> 1, polls |-> 2, faults |-> 0,
     starts |-> 0, visits |-> 0, mishaps |-> 0, elsewhere |-> TRUE],
    [rules |-> Daily, edits |-> 0, polls |-> 1, faults |-> 0,
     starts |-> 1, visits |-> 1, mishaps |-> 0, elsewhere |-> FALSE],
    [rules |-> {}, edits |-> 0, polls |-> 0, faults |-> 0,
     starts |-> 1, visits |-> 2, mishaps |-> 1, elsewhere |-> FALSE]}
=============================================================================
