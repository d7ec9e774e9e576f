----------------------------- MODULE CallLedger -----------------------------
(***************************************************************************)
(* What the gateway promises about metering, without saying how: every     *)
(* request is charged at most once, to the calendar month in which it      *)
(* started, at most MaxUse of each limited quantity; the sums that quotas  *)
(* are checked against change in no other way.                             *)
(***************************************************************************)
EXTENDS Naturals

CONSTANTS
    Calls,      \* requests the gateway serves at the same time
    Limits,     \* the limited quantities: tokens and cost
    MaxUse,     \* the most of a quantity one request consumes
    MaxMonth    \* bound: the last month

VARIABLES
    now,        \* the current calendar month (UTC)
    used,       \* used[l][m]: sum of l over the successful records of month m
    due         \* the month an unsettled request is charged to, or Settled

Settled == MaxMonth + 1
vars == <<now, used, due>>

Init ==
    /\ now = 0
    /\ used = [l \in Limits |-> [m \in 0..MaxMonth |-> 0]]
    /\ due = [c \in Calls |-> Settled]

Start(c) ==
    /\ due[c] = Settled
    /\ due' = [due EXCEPT ![c] = now]
    /\ UNCHANGED <<now, used>>

\* A request that is refused, fails or loses its record settles with no use.
Settle(c, use) ==
    /\ due[c] # Settled
    /\ due' = [due EXCEPT ![c] = Settled]
    /\ used' = [l \in Limits |-> [m \in 0..MaxMonth |->
                   IF m = due[c] THEN used[l][m] + use[l] ELSE used[l][m]]]
    /\ UNCHANGED now

Tick ==
    /\ now < MaxMonth
    /\ now' = now + 1
    /\ UNCHANGED <<used, due>>

Next ==
    \/ \E c \in Calls : Start(c) \/ \E use \in [Limits -> 0..MaxUse] : Settle(c, use)
    \/ Tick

Spec == Init /\ [][Next]_vars
=============================================================================
