-------------------------- MODULE ReleaseDeployment --------------------------
(***************************************************************************)
(* Deployment of a reviewed release and the way back (activepieces/scripts *)
(* deploy-locked.sh, rollback-release.sh, release_lock.py).  A release     *)
(* lock names an image for each service.  Every script ends at its first   *)
(* command that fails (set -e), and may be stopped anywhere; the operator  *)
(* runs one at a time, as the runbook has it: nothing locks them out.      *)
(*                                                                         *)
(* Images are their digests, named by the release that brought them;       *)
(* formats of lock files are left out.  They are replaced as a whole       *)
(* (atomic_json).                                                          *)
(***************************************************************************)
EXTENDS Naturals

CONSTANTS
    Services,  \* the services of the Compose project
    Releases,  \* reviewed release locks
    Shared,    \* the services whose images have one environment variable
    First      \* the release that runs before the first deployment

ASSUME ServicesAssumption == Services # {}
ASSUME FirstAssumption == First \in Releases /\ Shared \subseteq Services

ImageSets == [Services -> Releases]
NoLock == <<>>
Lock(r) == [s \in Services |-> r]
(* write_env: services with one variable have to have one image.           *)
HasEnvironment(lock) == \A s, t \in Shared : lock[s] = lock[t]

VARIABLES
    running,    \* the images that run
    previous,   \* runtime-lock.previous.json
    current,    \* runtime-lock.current.json
    operation,  \* the script that runs: [pc, target]
    verified,   \* history: sets of images that passed every check while they ran
    loose,      \* history: what runs has not been checked
    unchecked     \* history: previous was captured while that was so

releaseVars == <<running, previous, current, operation, verified, loose, unchecked>>

NoOperation == [pc |-> "none", target |-> NoLock]
GoOn(pc) == [operation EXCEPT !.pc = pc]

ReleaseInit ==
    /\ running = Lock(First)
    /\ previous = NoLock
    /\ current = NoLock
    /\ operation = NoOperation
    /\ verified = {Lock(First)}
    /\ loose = FALSE
    /\ unchecked = FALSE

(* deploy-locked.sh                                                        *)
Deploy(r) ==
    /\ operation = NoOperation
    /\ operation' = [pc |-> "capture", target |-> Lock(r)]
    /\ UNCHANGED <<running, previous, current, verified, loose, unchecked>>

(* capture: what runs, in whatever health.                                 *)
Captured_Target == operation.target              \* fault: the lock to be deployed
Captured == running
CapturePrevious ==
    /\ operation.pc = "capture"
    /\ previous' = Captured
    /\ unchecked' = loose
    /\ operation' = GoOn("prepare")
    /\ UNCHANGED <<running, current, verified, loose>>

(* The backup, the images, the check of the gateway's image.               *)
Prepare ==
    /\ operation.pc = "prepare"
    /\ operation' = GoOn("up")
    /\ UNCHANGED <<running, previous, current, verified, loose, unchecked>>

(* rollback-release.sh: no backup, and previous stays what it is.          *)
Rollback(lock) ==
    /\ operation = NoOperation
    /\ lock # NoLock
    /\ HasEnvironment(lock)
    /\ operation' = [pc |-> "up", target |-> lock]
    /\ UNCHANGED <<running, previous, current, verified, loose, unchecked>>

(* docker compose up, a service after the other.                           *)
Switch(s) ==
    /\ operation.pc = "up"
    /\ running[s] # operation.target[s]
    /\ running' = [running EXCEPT ![s] = operation.target[s]]
    /\ loose' = TRUE
    /\ UNCHANGED <<previous, current, operation, verified, unchecked>>

(* healthcheck.sh, verify-running, and no critical alert of the observer.  *)
Verify ==
    /\ operation.pc = "up"
    /\ running = operation.target
    /\ verified' = verified \cup {running}
    /\ loose' = FALSE
    /\ operation' = GoOn("record")
    /\ UNCHANGED <<running, previous, current, unchecked>>

RecordCurrent_Unchecked ==       \* fault: the lock is recorded before the checks
    /\ operation.pc = "up"
    /\ running = operation.target
    /\ current' = Captured
    /\ operation' = NoOperation
    /\ UNCHANGED <<running, previous, verified, loose, unchecked>>

RecordCurrent ==
    /\ operation.pc = "record"
    /\ current' = Captured
    /\ operation' = NoOperation
    /\ UNCHANGED <<running, previous, verified, loose, unchecked>>

(* A step fails, a check does not pass, or the script is stopped.          *)
GiveUp ==
    /\ operation # NoOperation
    /\ operation' = NoOperation
    /\ UNCHANGED <<running, previous, current, verified, loose, unchecked>>

ReleaseNext ==
    \/ \E r \in Releases : Deploy(r)
    \/ \E lock \in {previous, current} : Rollback(lock)
    \/ CapturePrevious
    \/ Prepare
    \/ \E s \in Services : Switch(s)
    \/ Verify
    \/ RecordCurrent
    \/ GiveUp

ReleaseSpec == ReleaseInit /\ [][ReleaseNext]_releaseVars

----------------------------------------------------------------------------
(* Properties.                                                             *)

ReleaseTypeOK ==
    /\ running \in ImageSets
    /\ previous \in ImageSets \cup {NoLock}
    /\ current \in ImageSets \cup {NoLock}
    /\ operation \in [pc : {"none", "capture", "prepare", "up", "record"},
                      target : ImageSets \cup {NoLock}]
    /\ verified \subseteq ImageSets
    /\ loose \in BOOLEAN
    /\ unchecked \in BOOLEAN

(* The way back, runtime-lock.previous.json (docs/runbooks/image-version-  *)
(* upgrade-rollback.md, section 7), leads to images that were in order     *)
(* together, unless the deployment was begun on top of one that had        *)
(* failed, and put what that one had left in the place of the release in   *)
(* order.  Even then, however many deployments and rollbacks fail one on   *)
(* top of the other, while what runs has not been checked one of the two   *)
(* lock files names images that were in order and that can be put back.    *)
(* Except: no deployment has been completed since the files are kept.      *)
RollbackTarget ==
    /\ previous \in verified \cup {NoLock} \/ unchecked
    /\ loose => \/ \E lock \in {previous, current} : lock \in verified /\ HasEnvironment(lock)
                \/ unchecked /\ current = NoLock
=============================================================================
