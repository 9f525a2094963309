---------------------------- MODULE OutageAlerts ----------------------------
(***************************************************************************)
(* What the outage register promises the reviewers: of every outage the    *)
(* first failure and the actual recovery are alerted, and nothing else     *)
(* (docs/runbooks/epic4-service-continuity.md, section 1).                 *)
(***************************************************************************)
EXTENDS Integers

CONSTANT Fingerprints

VARIABLES
    down,    \* is the operation failing
    outage,  \* how many times it started to
    raised   \* the alerts raised so far

Alert(fp, kind, n) == [fp |-> fp, kind |-> kind, outage |-> n]

Init ==
    /\ down = [fp \in Fingerprints |-> FALSE]
    /\ outage = [fp \in Fingerprints |-> 0]
    /\ raised = {}

Fail(fp) ==
    /\ ~down[fp]
    /\ down' = [down EXCEPT ![fp] = TRUE]
    /\ outage' = [outage EXCEPT ![fp] = @ + 1]
    /\ raised' = raised \cup {Alert(fp, "failure", outage[fp] + 1)}

Recover(fp) ==
    /\ down[fp]
    /\ down' = [down EXCEPT ![fp] = FALSE]
    /\ raised' = raised \cup {Alert(fp, "recovery", outage[fp])}
    /\ UNCHANGED outage

Next == \E fp \in Fingerprints : Fail(fp) \/ Recover(fp)

Spec == Init /\ [][Next]_<<down, outage, raised>>
============================================================================
