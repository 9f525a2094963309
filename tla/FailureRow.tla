----------------------------- MODULE FailureRow -----------------------------
(***************************************************************************)
(* One row of operation_failure, the record of an outage, as the three     *)
(* transactions of the store change it (app/postgres_store.py).  Rows are  *)
(* keyed by a fingerprint; "NONE" stands for a fingerprint without a row.  *)
(***************************************************************************)
EXTENDS Integers

NoRow == [state |-> "NONE", attempts |-> 0, outage |-> 0]

(* A failure opens an outage when none is open: only that failure alerts.  *)
StartsOutage_OrDead(row) == row.state \in {"NONE", "RECOVERED", "DEAD_LETTER"}  \* fault
StartsOutage(row) == row.state \in {"NONE", "RECOVERED"}

(* record_operation_failure.  The outage number stands for the time        *)
(* first_failed_at, which is set anew for every outage.                    *)
AfterFailure(row, max) ==
    IF StartsOutage(row)
    THEN [state |-> "OPEN", attempts |-> 1, outage |-> row.outage + 1]
    ELSE [row EXCEPT !.attempts = @ + 1,
                     !.state = IF row.attempts + 1 >= max THEN "DEAD_LETTER" ELSE "OPEN"]

(* recover_operation_failure: only an open outage recovers, and alerts.    *)
EndsOutage(row) == row.state \notin {"NONE", "RECOVERED"}
AfterRecovery(row) ==
    IF EndsOutage(row) THEN [row EXCEPT !.state = "RECOVERED"] ELSE row

(* retry_operation_failure, asked for by an operator.                      *)
MayRetry(row) == row.state \notin {"NONE", "RECOVERED"}
AfterRetry(row) == [row EXCEPT !.state = "RETRYING"]
============================================================================
