--------------------------- MODULE ProviderBreaker ---------------------------
(***************************************************************************)
(* The circuit breaker in front of the provider of answers (CircuitBreaker *)
(* in app/responses.py), as the threads that ask questions share it.  Each *)
(* asks before_call, is away with the provider for up to minutes, and then *)
(* records how it went.  A refused question ends at once and changes       *)
(* nothing; the results of up to window_seconds are remembered.            *)
(***************************************************************************)
EXTENDS Integers, Sequences, FiniteSets

CONSTANTS
    Askers,        \* threads with a question
    MinimumCalls,  \* results before the failure rate, one half, counts
    MaxWindow      \* bound: results remembered

ASSUME BreakerAssumption ==
    MinimumCalls \in Nat \ {0} /\ MaxWindow \in Nat /\ MinimumCalls <= MaxWindow

VARIABLES
    open,      \* _opened_at is set
    waited,    \* open_seconds have passed since
    halfOpen,  \* _half_open_used
    window,    \* _events: which calls succeeded, oldest first
    asker,     \* by thread: "idle", or how before_call let it through
    overdue,   \* the threads let through before the breaker opened last
    late       \* history: one of them came back while the breaker was open

breakerVars == <<open, waited, halfOpen, window, asker, overdue, late>>

BreakerInit ==
    /\ open = FALSE /\ waited = FALSE /\ halfOpen = FALSE
    /\ window = <<>>
    /\ asker = [a \in Askers |-> "idle"]
    /\ overdue = {} /\ late = FALSE

Away == {a \in Askers : asker[a] # "idle"}
Probes == {a \in Askers : asker[a] = "probe"}

(* before_call.                                                            *)
CallThrough(a) ==
    /\ asker[a] = "idle" /\ ~open
    /\ asker' = [asker EXCEPT ![a] = "call"]
    /\ UNCHANGED <<open, waited, halfOpen, window, overdue, late>>

Claimed_Not == halfOpen                          \* fault: the probe is not counted
Claimed == TRUE

Probe(a) ==
    /\ asker[a] = "idle" /\ open /\ waited /\ ~halfOpen
    /\ halfOpen' = Claimed
    /\ asker' = [asker EXCEPT ![a] = "probe"]
    /\ UNCHANGED <<open, waited, window, overdue, late>>

(* record.  Nobody knows whose result it is: while the breaker is half     *)
(* open, the first that comes back decides.                                *)
Failures(results) == Cardinality({i \in DOMAIN results : ~results[i]})
Trips(results) ==
    Len(results) >= MinimumCalls /\ 2 * Failures(results) >= Len(results)

Opens(a) ==
    /\ open' = TRUE /\ waited' = FALSE /\ halfOpen' = FALSE
    /\ overdue' = Away \ {a}
Stays(a) ==
    /\ UNCHANGED <<open, waited, halfOpen>>
    /\ overdue' = overdue \ {a}

(* Fault: a probe that fails opens the breaker again and stays the one.    *)
ProbeReturns_Used(a, ok) ==
    /\ \/ /\ ok
          /\ open' = FALSE /\ halfOpen' = FALSE /\ window' = <<>>
          /\ overdue' = overdue \ {a}
          /\ UNCHANGED waited
       \/ /\ ~ok
          /\ waited' = FALSE /\ overdue' = Away \ {a}
          /\ UNCHANGED <<open, halfOpen, window>>

ProbeReturns(a, ok) ==
    /\ \/ /\ ok
          /\ open' = FALSE /\ halfOpen' = FALSE /\ window' = <<>>
          /\ overdue' = overdue \ {a}
          /\ UNCHANGED waited
       \/ ~ok /\ Opens(a) /\ UNCHANGED window

CallReturns(a, ok) ==
    /\ \E expired \in 0..Len(window) :
          /\ Len(window) - expired < MaxWindow
          /\ window' = Append(SubSeq(window, expired + 1, Len(window)), ok)
    /\ IF Trips(window') THEN Opens(a) ELSE Stays(a)

Return(a, ok) ==
    /\ a \in Away
    /\ asker' = [asker EXCEPT ![a] = "idle"]
    /\ late' = (Away # {a} /\ (late \/ (open /\ a \in overdue)))
    /\ IF open /\ halfOpen THEN ProbeReturns(a, ok) ELSE CallReturns(a, ok)

Waited ==
    /\ open /\ ~waited
    /\ waited' = TRUE
    /\ UNCHANGED <<open, halfOpen, window, asker, overdue, late>>

BreakerNext ==
    \/ \E a \in Askers : CallThrough(a) \/ Probe(a)
    \/ \E a \in Askers, ok \in BOOLEAN : Return(a, ok)
    \/ Waited

(* Time passes, every call has a timeout, and questions keep coming.       *)
BreakerFairness ==
    /\ WF_breakerVars(Waited)
    /\ \A a \in Askers : WF_breakerVars(\E ok \in BOOLEAN : Return(a, ok))
    /\ WF_breakerVars(\E a \in Askers : Probe(a))

BreakerSpec == BreakerInit /\ [][BreakerNext]_breakerVars /\ BreakerFairness

----------------------------------------------------------------------------
(* Properties.                                                             *)

(* Every variable has its type.                                            *)
BreakerTypeOK ==
    /\ open \in BOOLEAN /\ waited \in BOOLEAN /\ halfOpen \in BOOLEAN
    /\ window \in Seq(BOOLEAN) /\ Len(window) <= MaxWindow
    /\ asker \in [Askers -> {"idle", "call", "probe"}]
    /\ overdue \subseteq Away
    /\ late \in BOOLEAN

(* A provider that failed is asked by one call at a time until it answers  *)
(* (docs/runbooks/grounded-responses.md:123).  It is not so when a call of *)
(* before comes back meanwhile: its result is taken for the probe's, and   *)
(* the next probe leaves while the first is still away.                    *)
OneProbe == ~late => Cardinality(Probes) <= 1

(* The provider is tried again, whatever the probes and the calls that     *)
(* come back late report: no breaker stays open for want of a question.    *)
ProviderTriedAgain == open ~> Probes # {} \/ ~open
=============================================================================
