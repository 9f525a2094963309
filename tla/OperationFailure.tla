-------------------------- MODULE OperationFailure --------------------------
(***************************************************************************)
(* The outage register and its alerts: POST /v1/operations/failures,       *)
(* /recoveries and /failures/{id}/retry (app/main.py).  A call commits its *)
(* transaction and then, in a second step, sends the alert the transaction *)
(* decided on; calls run in threads of their own, so other calls may come  *)
(* in between, and the alert is lost when Chat is down or the gateway      *)
(* stops.                                                                  *)
(***************************************************************************)
EXTENDS FailureRow, Sequences, FiniteSets

CONSTANTS
    Fingerprints,  \* what fails: one value per operation that can fail
    MaxAttempts,   \* max_attempts of the failure reports
    MaxFailures    \* bound: failures reported for a fingerprint in one outage
                   \* and outages of a fingerprint

ASSUME AttemptsAssumption == MaxAttempts \in Nat \ {0}
ASSUME FailuresAssumption == MaxFailures \in Nat

VARIABLES
    row,      \* operation_failure, by fingerprint
    pending,  \* alerts decided on and not sent yet: a thread each
    alerts,   \* alerts the reviewers received, in order
    lost      \* alerts that failed, which are only logged

failureVars == <<row, pending, alerts, lost>>

Alert(fp, kind, outage) == [fp |-> fp, kind |-> kind, outage |-> outage]

FailureInit ==
    /\ row = [fp \in Fingerprints |-> NoRow]
    /\ pending = {}
    /\ alerts = <<>>
    /\ lost = {}

RecordFailure(fp) ==
    /\ IF StartsOutage(row[fp]) THEN row[fp].outage < MaxFailures
       ELSE row[fp].attempts < MaxFailures
    /\ row' = [row EXCEPT ![fp] = AfterFailure(@, MaxAttempts)]
    /\ pending' = IF StartsOutage(row[fp])
                  THEN pending \cup {Alert(fp, "failure", row'[fp].outage)}
                  ELSE pending
    /\ UNCHANGED <<alerts, lost>>

RecordRecovery(fp) ==
    /\ row' = [row EXCEPT ![fp] = AfterRecovery(@)]
    /\ pending' = IF EndsOutage(row[fp])
                  THEN pending \cup {Alert(fp, "recovery", row[fp].outage)}
                  ELSE pending
    /\ UNCHANGED <<alerts, lost>>

RetryFailure(fp) ==
    /\ MayRetry(row[fp])
    /\ row' = [row EXCEPT ![fp] = AfterRetry(@)]
    /\ UNCHANGED <<pending, alerts, lost>>

SendAlert(a) ==
    /\ a \in pending
    /\ pending' = pending \ {a}
    /\ alerts' = Append(alerts, a)
    /\ UNCHANGED <<row, lost>>

LoseAlert(a) ==
    /\ a \in pending
    /\ pending' = pending \ {a}
    /\ lost' = lost \cup {a}
    /\ UNCHANGED <<row, alerts>>

FailureNext ==
    \/ \E fp \in Fingerprints : RecordFailure(fp) \/ RecordRecovery(fp) \/ RetryFailure(fp)
    \/ \E a \in pending : SendAlert(a) \/ LoseAlert(a)

FailureSpec == FailureInit /\ [][FailureNext]_failureVars

----------------------------------------------------------------------------
(* Properties.                                                             *)

RowType == [state : {"NONE", "OPEN", "RETRYING", "DEAD_LETTER", "RECOVERED"},
            attempts : Nat, outage : Nat]
AlertType == [fp : Fingerprints, kind : {"failure", "recovery"}, outage : Nat]

(* Every variable has its type.                                            *)
FailureTypeOK ==
    /\ row \in [Fingerprints -> RowType]
    /\ pending \subseteq AlertType
    /\ alerts \in Seq(AlertType)
    /\ lost \subseteq AlertType

Received == { alerts[i] : i \in 1..Len(alerts) }

(* No alert reaches the reviewers twice, however the calls overlap.        *)
NoAlertTwice ==
    /\ \A i, j \in 1..Len(alerts) : alerts[i] = alerts[j] => i = j
    /\ Received \cap (pending \cup lost) = {}
    /\ pending \cap lost = {}

(* An outage is given up exactly at its limit: an operator's retry neither *)
(* hides that the limit was reached nor gives up early.  (The first        *)
(* failure opens an outage even when the limit is one.)                    *)
DeadLetterAtLimit ==
    \A fp \in Fingerprints :
       /\ row[fp].state = "DEAD_LETTER" => row[fp].attempts >= MaxAttempts
       /\ row[fp].state = "OPEN" => row[fp].attempts = 1 \/ row[fp].attempts < MaxAttempts

(* The register raises the alerts of OutageAlerts: one for the first       *)
(* failure of an outage, one for its recovery, whatever is retried by hand *)
(* and given up in between.                                                *)
Down == [fp \in Fingerprints |-> row[fp].state \notin {"NONE", "RECOVERED"}]
OutageOf == [fp \in Fingerprints |-> row[fp].outage]
Promise == INSTANCE OutageAlerts WITH
    down <- Down, outage <- OutageOf, raised <- pending \cup Received \cup lost
KeepsPromise == Promise!Spec
============================================================================
