---------------------------- MODULE ArtifactStore ----------------------------
(***************************************************************************)
(* Evidence files that are kept for a day (app/artifacts.py).  The gateway *)
(* stores, reads and deletes them; the maintainer, a process of its own    *)
(* (scripts/artifact_maintenance.py), looks for expired ones every quarter *)
(* of an hour.  _lock is a lock of one process: the two do not exclude     *)
(* each other.  Each file is written or removed by itself, and either      *)
(* process may stop between two of them.                                   *)
(*                                                                         *)
(* What a file holds is left out: one whose writing was broken off is      *)
(* taken for none.                                                         *)
(***************************************************************************)
EXTENDS Naturals, Sequences

CONSTANTS
    Images,   \* artifacts of kind IMAGE, by id
    Logs,     \* artifacts of kind LOG, which have their redacted text as well
    MaxStops  \* bound: stops of the two processes

ASSUME ArtifactAssumption == MaxStops \in Nat

Artifacts == Images \cup Logs
Processes == {"gateway", "maintainer"}

VARIABLES
    files,     \* by artifact: its files in the root directory
    upload,    \* by artifact: how far the request that stores it is
    due,       \* the artifacts whose expires_at has passed
    deleting,  \* by process: [artifact, next], the file that delete unlinks next
    pass,      \* the maintainer: metadata files it has yet to look at
    stranded,  \* history: storing or deleting it was broken off
    stops      \* how often a process stopped

artifactVars == <<files, upload, due, deleting, pass, stranded, stops>>

Idle == [artifact |-> "none", next |-> 0]
DeletionOrder_Json == <<"json", "bin">>          \* fault: the text stays
DeletionOrder == <<"bin", "json", "evidence">>

ArtifactInit ==
    /\ files = [a \in Artifacts |-> {}]
    /\ upload = [a \in Artifacts |-> "new"]
    /\ due = {}
    /\ deleting = [p \in Processes |-> Idle]
    /\ pass = {}
    /\ stranded = {}
    /\ stops = 0

----------------------------------------------------------------------------
(* Storing: the upload goes to a .part file, which becomes the .bin.       *)

Storing(a) == upload[a] \in {"moved", "described"}
LockIsFree == deleting["gateway"] = Idle /\ \A a \in Artifacts : ~Storing(a)

Receive(a) ==
    /\ upload[a] = "new"
    /\ upload' = [upload EXCEPT ![a] = "receiving"]
    /\ files' = [files EXCEPT ![a] = {"part"}]
    /\ UNCHANGED <<due, deleting, pass, stranded, stops>>

(* Too large, of the wrong format, or the client went away.                *)
Refuse(a) ==
    /\ upload[a] = "receiving"
    /\ upload' = [upload EXCEPT ![a] = "over"]
    /\ files' = [files EXCEPT ![a] = {}]
    /\ UNCHANGED <<due, deleting, pass, stranded, stops>>

Move(a) ==
    /\ upload[a] = "receiving"
    /\ LockIsFree
    /\ upload' = [upload EXCEPT ![a] = IF a \in Logs THEN "moved" ELSE "described"]
    /\ files' = [files EXCEPT ![a] = {"bin"}]
    /\ UNCHANGED <<due, deleting, pass, stranded, stops>>

WriteEvidence(a) ==
    /\ upload[a] = "moved"
    /\ upload' = [upload EXCEPT ![a] = "described"]
    /\ files' = [files EXCEPT ![a] = @ \cup {"evidence"}]
    /\ UNCHANGED <<due, deleting, pass, stranded, stops>>

(* From here on the client knows the id.                                   *)
WriteMetadata(a) ==
    /\ upload[a] = "described"
    /\ upload' = [upload EXCEPT ![a] = "stored"]
    /\ files' = [files EXCEPT ![a] = @ \cup {"json"}]
    /\ UNCHANGED <<due, deleting, pass, stranded, stops>>

(* The disk is full: the .part file is cleared away, the others are not.   *)
FailWrite(a) ==
    /\ Storing(a)
    /\ upload' = [upload EXCEPT ![a] = "over"]
    /\ stranded' = stranded \cup {a}
    /\ UNCHANGED <<files, due, deleting, pass, stops>>

Expire(a) ==
    /\ upload[a] = "stored"
    /\ due' = due \cup {a}
    /\ UNCHANGED <<files, upload, deleting, pass, stranded, stops>>

----------------------------------------------------------------------------
(* Deleting.                                                               *)

BeginDeletion(p, a) == deleting' = [deleting EXCEPT ![p] = [artifact |-> a, next |-> 1]]

(* A request to delete it, or one that reads it and finds it expired.      *)
Delete(a) ==
    /\ upload[a] = "stored"
    /\ LockIsFree
    /\ BeginDeletion("gateway", a)
    /\ UNCHANGED <<files, upload, due, pass, stranded, stops>>

(* unlink(missing_ok=True)                                                 *)
Unlink(p) ==
    LET d == deleting[p] IN
    /\ d # Idle
    /\ files' = [files EXCEPT ![d.artifact] = @ \ {DeletionOrder[d.next]}]
    /\ deleting' = [deleting EXCEPT ![p] = IF d.next = Len(DeletionOrder) THEN Idle
                                           ELSE [d EXCEPT !.next = @ + 1]]
    /\ UNCHANGED <<upload, due, pass, stranded, stops>>

(* purge_expired                                                           *)
BeginPass ==
    /\ pass = {}
    /\ deleting["maintainer"] = Idle
    /\ pass' = {a \in Artifacts : "json" \in files[a]}
    /\ UNCHANGED <<files, upload, due, deleting, stranded, stops>>

Expired(a) == {"bin", "json"} \subseteq files[a] /\ a \in due

Look(a) ==
    /\ a \in pass
    /\ deleting["maintainer"] = Idle
    /\ pass' = pass \ {a}
    /\ IF Expired(a) THEN BeginDeletion("maintainer", a) ELSE UNCHANGED deleting
    /\ UNCHANGED <<files, upload, due, stranded, stops>>

----------------------------------------------------------------------------
(* Stops.                                                                  *)

InHand(p) == {deleting[p].artifact} \ {"none"}

StopGateway ==
    /\ stops < MaxStops
    /\ stops' = stops + 1
    /\ LET cut == {a \in Artifacts : upload[a] = "receiving" \/ Storing(a)} IN
       /\ upload' = [a \in Artifacts |-> IF a \in cut THEN "over" ELSE upload[a]]
       /\ stranded' = stranded \cup cut \cup InHand("gateway")
    /\ deleting' = [deleting EXCEPT !["gateway"] = Idle]
    /\ UNCHANGED <<files, due, pass>>

StopMaintainer ==
    /\ stops < MaxStops
    /\ stops' = stops + 1
    /\ stranded' = stranded \cup InHand("maintainer")
    /\ deleting' = [deleting EXCEPT !["maintainer"] = Idle]
    /\ pass' = {}
    /\ UNCHANGED <<files, upload, due>>

Store(a) ==
    \/ Receive(a)
    \/ Refuse(a)
    \/ Move(a)
    \/ WriteEvidence(a)
    \/ WriteMetadata(a)
    \/ FailWrite(a)

Maintain == BeginPass \/ Unlink("maintainer") \/ \E a \in Artifacts : Look(a)

ArtifactNext ==
    \/ \E a \in Artifacts : Store(a) \/ Expire(a) \/ Delete(a)
    \/ Unlink("gateway")
    \/ Maintain
    \/ StopGateway
    \/ StopMaintainer

(* maintain_once runs for ever, and a deletion that began goes on.         *)
ArtifactFairness ==
    /\ WF_artifactVars(Maintain)
    /\ WF_artifactVars(Unlink("gateway"))

ArtifactSpec == ArtifactInit /\ [][ArtifactNext]_artifactVars /\ ArtifactFairness

----------------------------------------------------------------------------
(* Properties.                                                             *)

ArtifactTypeOK ==
    /\ files \in [Artifacts -> SUBSET {"part", "bin", "evidence", "json"}]
    /\ upload \in [Artifacts -> {"new", "receiving", "moved", "described", "stored", "over"}]
    /\ due \subseteq Artifacts
    /\ deleting \in [Processes -> [artifact : Artifacts \cup {"none"}, next : 0..3]]
    /\ pass \subseteq Artifacts
    /\ stranded \subseteq Artifacts
    /\ stops \in 0..MaxStops

(* Evidence does not outlive its retention: an artifact that has expired   *)
(* is gone from the disk in the end, whoever else reads or deletes it at   *)
(* the same time, unless storing or deleting it was broken off.            *)
ExpiredIsGone ==
    \A a \in Artifacts : (a \in due) ~> (files[a] = {} \/ a \in stranded)
=============================================================================
