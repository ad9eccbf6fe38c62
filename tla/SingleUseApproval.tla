-------------------------- MODULE SingleUseApproval --------------------------
(***************************************************************************)
(* What the approval gate promises, without processes' insides, files or   *)
(* transactions: an approval for a request is spent in one atomic step, at *)
(* most once per approval and per request; the process that spent it may   *)
(* let its tool call go, or lose the approval without any effect.          *)
(***************************************************************************)
CONSTANTS Procs, Approvals, Requests, NoUse

VARIABLES
  spent,      \* the uses that are gone for good
  grant,      \* the use a process has spent and may still act on, or NoUse
  released    \* the processes whose high-impact call was let go

abstractVars == <<spent, grant, released>>

Uses == [approval : Approvals, request : Requests]

Fresh(u) ==
  \A v \in spent : v.approval # u.approval /\ v.request # u.request

Init ==
  /\ spent = {}
  /\ grant = [p \in Procs |-> NoUse]
  /\ released = {}

Spend(p, u) ==
  /\ grant[p] = NoUse
  /\ Fresh(u)
  /\ spent' = spent \union {u}
  /\ grant' = [grant EXCEPT ![p] = u]
  /\ UNCHANGED released

Release(p) ==
  /\ grant[p] # NoUse
  /\ released' = released \union {p}
  /\ UNCHANGED <<spent, grant>>

\* Processes die or fail after spending: the approval is burned.
Forfeit(lost) ==
  /\ lost \subseteq Procs \ released
  /\ grant' = [p \in Procs |-> IF p \in lost THEN NoUse ELSE grant[p]]
  /\ UNCHANGED <<spent, released>>

Next ==
  \/ \E p \in Procs : Release(p) \/ \E u \in Uses : Spend(p, u)
  \/ \E lost \in SUBSET Procs : Forfeit(lost)

Spec == Init /\ [][Next]_abstractVars
=============================================================================
