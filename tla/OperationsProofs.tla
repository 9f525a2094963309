-------------------------- MODULE OperationsProofs --------------------------
(***************************************************************************)
(* Theorems about what the services stand on and are surrounded by: the    *)
(* backup and its observer (StateBackup), deployment and the way back      *)
(* (ReleaseDeployment), the monitor of the forum's host                    *)
(* (CommunityMonitor), the register of failures (OperationFailure), the    *)
(* event gateway (EventGateway) and the store of evidence files            *)
(* (ArtifactStore).  They share no state.  For every retention, every age  *)
(* that is taken for recent, every limit of attempts, and any number of    *)
(* archives, releases, alerts, failures, deliveries, threads and files.    *)
(***************************************************************************)
EXTENDS StateBackup, ReleaseDeployment, CommunityMonitor, OperationFailure,
        EventGateway, ArtifactStore, FiniteSetTheorems, TLAPS

----------------------------------------------------------------------------
(* StateBackup.                                                            *)

(* Archives are numbered as they are begun, and none is from the future.   *)
Orderly == \A a \in archives : a.no <= begun /\ a.at <= day

(* The archive that was begun last is never removed.                       *)
LatestIsThere ==
    begun > 0 \/ holder.pc = "write" => \E a \in archives : a.no = begun

(* What a run knows when it comes to remove old archives.                  *)
WrittenIsWhole ==
    holder.pc = "written" => \E a \in archives : a.no = begun /\ a.whole /\ a.at = day

ServiceWorks == holder.by = "service" /\ holder.pc \in {"dump", "write"}

(* When the last archive is a part of one, the service tells, works on it, *)
(* or cannot tell.                                                         *)
PartIsTold ==
    \A a \in archives : a.no = begun => a.whole \/ a.silent \/ result = "failed" \/ ServiceWorks

(* What the observer saw still says something when it judges it.           *)
WholeSince(n) == \E a \in archives : a.whole /\ a.at >= n.at
LookIsCurrent ==
    look.pc = "looked" =>
        \/ look.newest = NoArchive
        \/ look.newest.at <= day /\ WholeSince(look.newest)
        \/ /\ look.newest.at <= day /\ ~look.newest.whole
           /\ look.newest.silent \/ result = "failed" \/ ServiceWorks

BackupInv == /\ BackupTypeOK /\ Orderly /\ LatestIsThere /\ WrittenIsWhole
             /\ PartIsTold /\ LookIsCurrent

----------------------------------------------------------------------------
LEMMA InitBackup == BackupInit => BackupInv
  BY BackupAssumption
     DEF BackupInit, BackupInv, BackupTypeOK, Orderly, LatestIsThere, WrittenIsWhole, PartIsTold,
         LookIsCurrent, NoRun, NoLook, NoArchive, ArchiveType

(* CHOOSE finds the archive that was begun last.                           *)
LEMMA NewestIsLast ==
  ASSUME BackupInv, archives # {}
  PROVE  NewestArchive \in archives /\ NewestArchive.no = begun
<1>1. \A a \in archives : a.no \in Nat /\ a.no <= begun
  BY DEF BackupInv, BackupTypeOK, ArchiveType, Orderly
<1>2. begun \in Nat
  BY DEF BackupInv, BackupTypeOK
<1>3. \E a \in archives : a.no = begun
  <2>1. CASE begun > 0
    BY <2>1 DEF BackupInv, LatestIsThere
  <2>2. CASE begun = 0
    BY <1>1, <2>2
  <2>3. QED
    BY <2>1, <2>2, <1>2
<1>4. \E a \in archives : \A b \in archives : b.no <= a.no
  BY <1>1, <1>3
<1>5. NewestArchive \in archives /\ \A b \in archives : b.no <= NewestArchive.no
  BY <1>4 DEF NewestArchive
<1>6. QED
  BY <1>1, <1>2, <1>3, <1>5

----------------------------------------------------------------------------
(* Steps that leave the archives and the time alone.                       *)
LEMMA StartKeeps ==
  ASSUME BackupInv, NEW by \in {"service", "hand"}, NEW keep \in Nat \ {0}, StartBackup(by, keep)
  PROVE  BackupInv'
<1>1. BackupTypeOK'
  BY DEF BackupInv, BackupTypeOK, StartBackup
<1>2. Orderly' /\ LatestIsThere' /\ WrittenIsWhole'
  BY DEF BackupInv, Orderly, LatestIsThere, WrittenIsWhole, StartBackup
<1>3. result = "failed" \/ ServiceWorks => result' = "failed" \/ ServiceWorks'
  BY DEF StartBackup, ServiceWorks, NoRun
<1>4. PartIsTold'
  BY <1>3 DEF BackupInv, PartIsTold, StartBackup
<1>5. LookIsCurrent'
  BY <1>3 DEF BackupInv, LookIsCurrent, WholeSince, StartBackup
<1>6. QED
  BY <1>1, <1>2, <1>4, <1>5 DEF BackupInv

LEMMA LockedOutKeeps == ASSUME BackupInv, ServiceLockedOut PROVE BackupInv'
<1>1. BackupTypeOK' /\ Orderly' /\ LatestIsThere' /\ WrittenIsWhole'
  BY DEF BackupInv, BackupTypeOK, Orderly, LatestIsThere, WrittenIsWhole, ServiceLockedOut
<1>2. PartIsTold' /\ LookIsCurrent'
  BY DEF BackupInv, PartIsTold, LookIsCurrent, WholeSince, ServiceLockedOut
<1>3. QED
  BY <1>1, <1>2 DEF BackupInv

LEMMA FailureKeeps == ASSUME BackupInv, BackupFails PROVE BackupInv'
<1>1. BackupTypeOK' /\ Orderly' /\ LatestIsThere' /\ WrittenIsWhole'
  BY DEF BackupInv, BackupTypeOK, Orderly, LatestIsThere, WrittenIsWhole, BackupFails, NoRun
<1>2. result = "failed" \/ ServiceWorks => result' = "failed"
  BY DEF BackupFails, ServiceWorks
<1>3. PartIsTold'
  BY <1>2 DEF BackupInv, PartIsTold, BackupFails
<1>4. LookIsCurrent'
  BY <1>2 DEF BackupInv, LookIsCurrent, WholeSince, BackupFails
<1>5. QED
  BY <1>1, <1>3, <1>4 DEF BackupInv

LEMMA DayKeeps == ASSUME BackupInv, DayPasses PROVE BackupInv'
<1>1. BackupTypeOK'
  BY BackupAssumption DEF BackupInv, BackupTypeOK, DayPasses
<1>2. Orderly'
  BY DEF BackupInv, BackupTypeOK, ArchiveType, Orderly, DayPasses
<1>3. LatestIsThere' /\ WrittenIsWhole' /\ PartIsTold' /\ LookIsCurrent'
  BY DEF BackupInv, LatestIsThere, WrittenIsWhole, PartIsTold, ServiceWorks, LookIsCurrent, DayPasses
<1>4. QED
  BY <1>1, <1>2, <1>3 DEF BackupInv

(* The observer sees the archive that was begun last.                      *)
LEMMA LookKeeps == ASSUME BackupInv, ObserverLooks PROVE BackupInv'
<1>1. archives # {} => NewestArchive \in archives /\ NewestArchive.no = begun
  BY NewestIsLast
<1>2. BackupTypeOK'
  BY <1>1 DEF BackupInv, BackupTypeOK, ObserverLooks, NoArchive, ArchiveType
<1>3. Orderly' /\ LatestIsThere' /\ WrittenIsWhole' /\ PartIsTold'
  BY DEF BackupInv, Orderly, LatestIsThere, WrittenIsWhole, PartIsTold, ServiceWorks, ObserverLooks
<1>4. LookIsCurrent'
  <2>1. CASE archives = {}
    BY <2>1 DEF LookIsCurrent, ObserverLooks
  <2>2. CASE archives # {}
    <3> DEFINE n == NewestArchive
    <3>1. /\ n \in archives /\ n.no = begun /\ n.at \in Nat
          /\ n.at <= day /\ n.whole \in BOOLEAN
      BY <1>1, <2>2 DEF BackupInv, BackupTypeOK, ArchiveType, Orderly
    <3>2. n.whole => WholeSince(n)
      BY <3>1 DEF WholeSince
    <3>3. n.whole \/ n.silent \/ result = "failed" \/ ServiceWorks
      BY <3>1 DEF BackupInv, PartIsTold
    <3>4. /\ look'.newest = n
          /\ UNCHANGED <<day, archives, result, holder>>
      BY <2>2 DEF ObserverLooks
    <3> HIDE DEF n
    <3>5. QED
      BY <3>1, <3>2, <3>3, <3>4 DEF LookIsCurrent, WholeSince, ServiceWorks
  <2>3. QED
    BY <2>1, <2>2
<1>5. QED
  BY <1>2, <1>3, <1>4 DEF BackupInv

LEMMA JudgeKeeps ==
  ASSUME BackupInv, NEW timer \in BOOLEAN, ObserverJudges(timer)
  PROVE  BackupInv'
<1>1. BackupTypeOK'
  BY DEF BackupInv, BackupTypeOK, ObserverJudges, Verdicts, NoLook, NoArchive, ArchiveType
<1>2. Orderly' /\ LatestIsThere' /\ WrittenIsWhole' /\ PartIsTold' /\ LookIsCurrent'
  BY DEF BackupInv, Orderly, LatestIsThere, WrittenIsWhole, PartIsTold, ServiceWorks,
         LookIsCurrent, ObserverJudges, NoLook
<1>3. QED
  BY <1>1, <1>2 DEF BackupInv

----------------------------------------------------------------------------
(* The steps of the script.                                                *)
LEMMA OpenKeeps == ASSUME BackupInv, OpenArchive PROVE BackupInv'
<1> DEFINE new == [no |-> begun + 1, at |-> day, whole |-> FALSE, silent |-> holder.by = "hand"]
<1>1. /\ archives' = archives \cup {new} /\ begun' = begun + 1
      /\ new.no = begun' /\ new.at = day /\ new \in ArchiveType
      /\ new.silent = (holder.by = "hand")
      /\ begun \in Nat /\ day \in Nat
      /\ UNCHANGED <<day, result, look, report>>
  BY DEF OpenArchive, BackupInv, BackupTypeOK, ArchiveType
<1>2. /\ holder \in [pc : {"none", "dump", "write", "written"}, by : {"service", "hand"}, keep : Nat \ {0}]
      /\ holder.pc = "dump"
      /\ holder' = [holder EXCEPT !.pc = "write"]
  BY DEF OpenArchive, BackupInv, BackupTypeOK
<1> HIDE DEF new
<1>3. holder'.pc = "write" /\ holder'.by = holder.by
  BY <1>2
<1>4. BackupTypeOK'
  BY <1>1, <1>2 DEF BackupInv, BackupTypeOK
<1>5. Orderly'
  BY <1>1 DEF BackupInv, BackupTypeOK, ArchiveType, Orderly
<1>6. LatestIsThere' /\ WrittenIsWhole'
  BY <1>1, <1>3 DEF LatestIsThere, WrittenIsWhole
<1>7. PartIsTold'
  <2>1. ASSUME NEW a \in archives', a.no = begun' PROVE a = new
    BY <1>1, <2>1 DEF BackupInv, BackupTypeOK, ArchiveType, Orderly
  <2>2. new.silent \/ ServiceWorks'
    BY <1>1, <1>2, <1>3 DEF ServiceWorks
  <2>3. QED
    BY <2>1, <2>2 DEF PartIsTold
<1>8. ServiceWorks => ServiceWorks'
  BY <1>3 DEF ServiceWorks
<1>9. LookIsCurrent'
  BY <1>1, <1>8 DEF BackupInv, LookIsCurrent, WholeSince
<1>10. QED
  BY <1>4, <1>5, <1>6, <1>7, <1>9 DEF BackupInv

(* What becomes of an archive when the last one is completed.              *)
LEMMA Completion ==
  ASSUME BackupInv, CompleteArchive
  PROVE  /\ \A a \in archives : \E b \in archives' :
               /\ b.no = a.no /\ (a.whole => b.whole) /\ b.at >= a.at
               /\ b.no = begun => b.whole /\ b.at = day
         /\ \A b \in archives' : \E a \in archives :
               /\ b.no = a.no /\ b \in ArchiveType /\ b.at <= day
               /\ b.no = begun => b.whole
<1> DEFINE done(a) == IF a.no = begun THEN [a EXCEPT !.whole = TRUE, !.at = day] ELSE a
<1>1. archives' = { done(a) : a \in archives }
  BY DEF CompleteArchive
<1>2. ASSUME NEW a \in archives
      PROVE  /\ done(a).no = a.no /\ (a.whole => done(a).whole) /\ done(a).at >= a.at
             /\ done(a) \in ArchiveType /\ done(a).at <= day
             /\ a.no = begun => done(a).whole /\ done(a).at = day
  <2>1. a \in ArchiveType /\ a.at <= day /\ day \in Nat
    BY DEF BackupInv, BackupTypeOK, Orderly
  <2>2. CASE a.no = begun
    <3>1. done(a) = [no |-> a.no, at |-> day, whole |-> TRUE, silent |-> a.silent]
      BY <2>1, <2>2 DEF ArchiveType
    <3>2. /\ a.no \in Nat /\ a.at \in Nat /\ a.silent \in BOOLEAN
      BY <2>1 DEF ArchiveType
    <3> HIDE DEF done
    <3>3. done(a).no = a.no /\ done(a).whole = TRUE /\ done(a).at = day
      BY <3>1
    <3>4. done(a) \in ArchiveType
      BY <3>1, <3>2, <2>1 DEF ArchiveType
    <3>5. QED
      BY <2>1, <2>2, <3>2, <3>3, <3>4
  <2>3. CASE a.no # begun
    BY <2>1, <2>3 DEF ArchiveType
  <2>4. QED
    BY <2>2, <2>3
<1> HIDE DEF done
<1>3. QED
  BY <1>1, <1>2

LEMMA CompleteKeeps == ASSUME BackupInv, CompleteArchive PROVE BackupInv'
<1>1. /\ holder.pc = "write" /\ holder'.pc = "written" /\ holder'.by = holder.by
      /\ holder' \in [pc : {"none", "dump", "write", "written"}, by : {"service", "hand"}, keep : Nat \ {0}]
      /\ UNCHANGED <<day, begun, result, look, report>>
  BY DEF CompleteArchive, BackupInv, BackupTypeOK
<1>2. BackupTypeOK'
  BY <1>1, Completion DEF BackupInv, BackupTypeOK
<1>3. Orderly'
  BY <1>1, Completion DEF BackupInv, Orderly
<1>4. LatestIsThere'
  BY <1>1, Completion DEF BackupInv, LatestIsThere
<1>5. \E b \in archives' : b.no = begun /\ b.whole /\ b.at = day
  BY <1>1, Completion DEF BackupInv, LatestIsThere
<1>6. WrittenIsWhole' /\ PartIsTold'
  BY <1>1, <1>5, Completion DEF WrittenIsWhole, PartIsTold
<1>7. LookIsCurrent'
  <2> SUFFICES ASSUME look.pc = "looked", look.newest # NoArchive
               PROVE  /\ look.newest.at <= day
                      /\ \E b \in archives' : b.whole /\ b.at >= look.newest.at
    BY <1>1 DEF LookIsCurrent, WholeSince
  <2>1. look.newest.at <= day
    BY DEF BackupInv, LookIsCurrent
  <2>2. QED
    BY <1>5, <2>1
<1>8. QED
  BY <1>2, <1>3, <1>4, <1>6, <1>7 DEF BackupInv

(* The archive that was just completed is not among those that are removed.*)
LEMMA PruneKeeps == ASSUME BackupInv, Prune PROVE BackupInv'
<1>1. /\ holder.pc = "written" /\ holder' = NoRun
      /\ archives' = { a \in archives : day - a.at <= holder.keep }
      /\ UNCHANGED <<day, begun, result, look, report>>
  BY DEF Prune, MayPrune
<1>2. \E a \in archives' : a.no = begun /\ a.whole /\ a.at = day
  <2>1. PICK a \in archives : a.no = begun /\ a.whole /\ a.at = day
    BY <1>1 DEF BackupInv, WrittenIsWhole
  <2>2. day - a.at <= holder.keep
    BY <2>1 DEF BackupInv, BackupTypeOK
  <2>3. QED
    BY <1>1, <2>1, <2>2
<1>3. BackupTypeOK'
  BY <1>1 DEF BackupInv, BackupTypeOK, NoRun
<1>4. Orderly' /\ LatestIsThere' /\ WrittenIsWhole'
  BY <1>1, <1>2 DEF BackupInv, Orderly, LatestIsThere, WrittenIsWhole, NoRun
<1>5. PartIsTold'
  BY <1>1 DEF BackupInv, PartIsTold, ServiceWorks, NoRun
<1>6. LookIsCurrent'
  <2> SUFFICES ASSUME look.pc = "looked", look.newest # NoArchive
               PROVE  /\ look.newest.at <= day
                      /\ \E b \in archives' : b.whole /\ b.at >= look.newest.at
    BY <1>1 DEF LookIsCurrent, WholeSince
  <2>1. look.newest.at <= day
    BY DEF BackupInv, LookIsCurrent
  <2>2. QED
    BY <1>2, <2>1
<1>7. QED
  BY <1>3, <1>4, <1>5, <1>6 DEF BackupInv

LEMMA Silencing ==
  ASSUME BackupInv, HostStops
  PROVE  /\ \A a \in archives : \E b \in archives' :
               b.no = a.no /\ b.whole = a.whole /\ b.at = a.at
         /\ \A b \in archives' : \E a \in archives :
               b.no = a.no /\ b.at = a.at /\ b.silent /\ b \in ArchiveType
<1>1. archives' = { [a EXCEPT !.silent = TRUE] : a \in archives }
  BY DEF HostStops
<1>2. ASSUME NEW a \in archives
      PROVE  LET b == [a EXCEPT !.silent = TRUE]
             IN /\ b.no = a.no /\ b.whole = a.whole /\ b.at = a.at
                /\ b.silent /\ b \in ArchiveType
  BY DEF BackupInv, BackupTypeOK, ArchiveType
<1>3. QED
  BY <1>1, <1>2

LEMMA HostKeeps == ASSUME BackupInv, HostStops PROVE BackupInv'
<1>1. /\ holder' = NoRun /\ result' = "success" /\ look' = NoLook
      /\ UNCHANGED <<day, begun, report>>
  BY DEF HostStops
<1>2. BackupTypeOK'
  BY <1>1, Silencing
     DEF BackupInv, BackupTypeOK, NoRun, NoLook, NoArchive, ArchiveType
<1>3. Orderly' /\ LatestIsThere' /\ WrittenIsWhole'
  BY <1>1, Silencing DEF BackupInv, Orderly, LatestIsThere, WrittenIsWhole, NoRun
<1>4. PartIsTold' /\ LookIsCurrent'
  BY <1>1, Silencing DEF PartIsTold, LookIsCurrent, NoLook
<1>5. QED
  BY <1>2, <1>3, <1>4 DEF BackupInv

----------------------------------------------------------------------------
LEMMA BackupStep == ASSUME BackupInv, [BackupNext]_backupVars PROVE BackupInv'
<1>1. CASE StartBackup("service", Retention)
  BY <1>1, StartKeeps, BackupAssumption
<1>2. CASE \E keep \in Given : StartBackup("hand", keep)
  BY <1>2, StartKeeps, BackupAssumption
<1>3. CASE ServiceLockedOut
  BY <1>3, LockedOutKeeps
<1>4. CASE OpenArchive
  BY <1>4, OpenKeeps
<1>5. CASE CompleteArchive
  BY <1>5, CompleteKeeps
<1>6. CASE Prune
  BY <1>6, PruneKeeps
<1>7. CASE BackupFails
  BY <1>7, FailureKeeps
<1>8. CASE HostStops
  BY <1>8, HostKeeps
<1>9. CASE DayPasses
  BY <1>9, DayKeeps
<1>10. CASE ObserverLooks
  BY <1>10, LookKeeps
<1>11. CASE \E timer \in BOOLEAN : ObserverJudges(timer)
  BY <1>11, JudgeKeeps
<1>12. CASE UNCHANGED backupVars
  BY <1>12 DEF backupVars, BackupInv, BackupTypeOK, Orderly, LatestIsThere, WrittenIsWhole,
                PartIsTold, ServiceWorks, LookIsCurrent, WholeSince
<1>13. QED
  BY <1>1, <1>2, <1>3, <1>4, <1>5, <1>6, <1>7, <1>8, <1>9, <1>10, <1>11, <1>12 DEF BackupNext

LEMMA BackupInvariant == BackupSpec => []BackupInv
<1>1. BackupInv /\ [BackupNext]_backupVars => BackupInv'
  BY BackupStep
<1>2. QED
  BY InitBackup, <1>1, PTL DEF BackupSpec

(* Type correctness of the backup, for any number of archives and any      *)
(* retention.                                                              *)
THEOREM BackupTypeCorrect == BackupSpec => []BackupTypeOK
<1>1. BackupInv => BackupTypeOK
  BY DEF BackupInv
<1>2. QED
  BY BackupInvariant, <1>1, PTL

(* Only the retention removes archives, and it comes after an archive of   *)
(* its own run: there is one to restore from for ever after the first.     *)
THEOREM AlwaysRestorable == BackupSpec => RestorePointRemains
<1>1. ASSUME BackupInv, [BackupNext]_backupVars, Restorable
      PROVE  Restorable'
  <2>1. CASE CompleteArchive
    BY <1>1, <2>1, Completion DEF Restorable
  <2>2. CASE Prune
    <3>1. PICK a \in archives : a.whole /\ a.at = day
      BY <1>1, <2>2 DEF Prune, MayPrune, BackupInv, WrittenIsWhole
    <3>2. day - a.at <= holder.keep
      BY <1>1, <3>1 DEF BackupInv, BackupTypeOK
    <3>3. QED
      BY <2>2, <3>1, <3>2 DEF Prune, Restorable
  <2>3. CASE HostStops
    BY <1>1, <2>3, Silencing DEF Restorable
  <2>4. CASE OpenArchive
    BY <1>1, <2>4 DEF OpenArchive, Restorable
  <2>5. CASE UNCHANGED archives
    BY <1>1, <2>5 DEF Restorable
  <2>6. QED
    BY <1>1, <2>1, <2>2, <2>3, <2>4, <2>5
       DEF BackupNext, backupVars, StartBackup, ServiceLockedOut, BackupFails, DayPasses,
           ObserverLooks, ObserverJudges
<1>2. BackupInv /\ [BackupNext]_backupVars => [Restorable => Restorable']_backupVars
  BY <1>1
<1>3. QED
  BY BackupInvariant, <1>2, PTL DEF BackupSpec, RestorePointRemains

(* The observer is silent only when there is a recent archive to restore   *)
(* from, or the service cannot tell of a broken-off run.                   *)
THEOREM SilenceMeansRestorable == BackupSpec => SilenceIsHonest
<1>1. ASSUME BackupInv, [BackupNext]_backupVars, Judging, report' = {}
      PROVE  (\E a \in archives : a.whole /\ day - a.at <= Fresh) \/ Untold
  <2>1. PICK timer \in BOOLEAN : ObserverJudges(timer)
    <3>1. look' # look /\ look'.pc # "looked" /\ look'.pc # "idle"
      BY <1>1 DEF Judging
    <3>2. ~HostStops /\ ~ObserverLooks
      BY <3>1 DEF HostStops, ObserverLooks, NoLook
    <3>3. QED
      BY <1>1, <3>1, <3>2 DEF BackupNext, backupVars, StartBackup, ServiceLockedOut, OpenArchive,
                              CompleteArchive, Prune, BackupFails, DayPasses
  <2>2. result = "success" /\ ~Stale(look.newest)
    BY <1>1, <2>1 DEF ObserverJudges, Verdicts
  <2>3. look.newest # NoArchive /\ day - look.newest.at <= Fresh
    BY <1>1, <2>2, BackupAssumption DEF Stale, BackupInv, BackupTypeOK, ArchiveType
  <2>4. CASE WholeSince(look.newest)
    <3>1. PICK a \in archives : a.whole /\ a.at >= look.newest.at
      BY <2>4 DEF WholeSince
    <3>2. a.at \in Nat /\ look.newest.at \in Nat /\ day \in Nat /\ Fresh \in Nat
      BY <1>1, BackupAssumption DEF BackupInv, BackupTypeOK, ArchiveType
    <3>3. QED
      BY <2>3, <3>1, <3>2
  <2>5. CASE ~WholeSince(look.newest)
    BY <1>1, <2>2, <2>3, <2>5 DEF Judging, BackupInv, LookIsCurrent, ServiceWorks, Untold
  <2>6. QED
    BY <2>4, <2>5
<1>2. BackupInv /\ [BackupNext]_backupVars =>
        [Judging /\ report' = {} => (\E a \in archives : a.whole /\ day - a.at <= Fresh) \/ Untold]_backupVars
  BY <1>1
<1>3. QED
  BY BackupInvariant, <1>2, PTL DEF BackupSpec, SilenceIsHonest

----------------------------------------------------------------------------
(* ReleaseDeployment.                                                      *)

(* A script that switches images has a lock that can be put in place, and  *)
(* what runs was checked, or is known not to have been.  What was checked, *)
(* or was recorded after its checks, can be put in place again; and who    *)
(* comes to switch images has left, or had, a lock to return to.           *)
Usable == {lock \in ImageSets : HasEnvironment(lock)}
TargetIsLock == operation.pc # "none" => operation.target \in Usable
LooseIsKnown == loose \/ running \in verified
VerifiedIsUsable == verified \subseteq Usable
RecordIsVerified ==
    /\ current \in verified \cup {NoLock}
    /\ operation.pc = "record" => running \in verified
LockIsThere ==
    loose \/ operation.pc \in {"prepare", "up"} => previous # NoLock \/ current # NoLock
PreviousIsKnown == previous \in verified \cup {NoLock} \/ unchecked

ReleaseInv == /\ ReleaseTypeOK /\ TargetIsLock /\ LooseIsKnown /\ VerifiedIsUsable
              /\ RecordIsVerified /\ LockIsThere /\ PreviousIsKnown

LEMMA LocksAreUsable == ASSUME NEW r \in Releases PROVE Lock(r) \in Usable
<1>1. Lock(r) \in ImageSets
  BY DEF Lock, ImageSets
<1>2. \A s, t \in Shared : Lock(r)[s] = Lock(r)[t]
  BY FirstAssumption DEF Lock
<1>3. QED
  BY <1>1, <1>2 DEF Usable, HasEnvironment

(* No set of images is the lock that is none.                              *)
LEMMA ImagesAreSome == \A lock \in ImageSets : lock # NoLock
<1>1. DOMAIN NoLock = {}
  BY DEF NoLock
<1>2. \A lock \in ImageSets : DOMAIN lock = Services
  BY DEF ImageSets
<1>3. QED
  BY <1>1, <1>2, ServicesAssumption

LEMMA InitRelease == ReleaseInit => ReleaseInv
<1>1. SUFFICES ASSUME ReleaseInit PROVE ReleaseInv
  OBVIOUS
<1>2. Lock(First) \in Usable /\ Lock(First) \in ImageSets
  BY LocksAreUsable, FirstAssumption DEF Usable
<1>3. operation \in [pc : {"none", "capture", "prepare", "up", "record"},
                     target : ImageSets \cup {NoLock}]
  BY <1>1 DEF ReleaseInit, NoOperation
<1>4. running = Lock(First) /\ verified = {Lock(First)} /\ previous = NoLock /\ current = NoLock
  BY <1>1 DEF ReleaseInit
<1>5. operation.pc = "none" /\ loose = FALSE /\ unchecked = FALSE
  BY <1>1 DEF ReleaseInit, NoOperation
<1>6. ReleaseTypeOK
  BY <1>2, <1>3, <1>4, <1>5 DEF ReleaseTypeOK
<1>7. QED
  BY <1>2, <1>4, <1>5, <1>6 DEF ReleaseInv, TargetIsLock, LooseIsKnown, VerifiedIsUsable,
     RecordIsVerified, LockIsThere, PreviousIsKnown

(* A script begins or ends, or goes on to its next part, and neither the   *)
(* images nor the lock files change.                                       *)
LEMMA ScriptMoves ==
  ASSUME ReleaseInv, UNCHANGED <<running, previous, current, verified, loose, unchecked>>,
         operation' \in [pc : {"none", "capture", "prepare", "up", "record"},
                         target : ImageSets \cup {NoLock}],
         TargetIsLock', operation'.pc # "record",
         operation'.pc \in {"prepare", "up"} => previous # NoLock \/ current # NoLock
  PROVE  ReleaseInv'
<1>1. ReleaseTypeOK'
  BY DEF ReleaseInv, ReleaseTypeOK
<1>2. LooseIsKnown' /\ VerifiedIsUsable' /\ RecordIsVerified' /\ PreviousIsKnown'
  BY DEF ReleaseInv, LooseIsKnown, VerifiedIsUsable, RecordIsVerified, PreviousIsKnown
<1>3. LockIsThere'
  BY DEF ReleaseInv, LockIsThere
<1>4. QED
  BY <1>1, <1>2, <1>3 DEF ReleaseInv

LEMMA DeployKeeps == ASSUME ReleaseInv, NEW r \in Releases, Deploy(r) PROVE ReleaseInv'
<1>1. Lock(r) \in Usable /\ Lock(r) \in ImageSets
  BY LocksAreUsable DEF Usable
<1>2. operation' = [pc |-> "capture", target |-> Lock(r)]
  BY DEF Deploy
<1>3. TargetIsLock'
  BY <1>1, <1>2 DEF TargetIsLock
<1>4. QED
  BY <1>1, <1>2, <1>3, ScriptMoves DEF Deploy

LEMMA RollbackKeeps ==
  ASSUME ReleaseInv, NEW lock \in {previous, current}, Rollback(lock)
  PROVE  ReleaseInv'
<1>1. lock \in ImageSets /\ lock \in Usable
  BY DEF ReleaseInv, ReleaseTypeOK, Rollback, Usable
<1>2. operation' = [pc |-> "up", target |-> lock]
  BY DEF Rollback
<1>3. TargetIsLock'
  BY <1>1, <1>2 DEF TargetIsLock
<1>4. previous # NoLock \/ current # NoLock
  BY DEF Rollback
<1>5. QED
  BY <1>1, <1>2, <1>3, <1>4, ScriptMoves DEF Rollback

(* The images that run are captured as what they are: checked, or not.     *)
LEMMA CaptureKeeps == ASSUME ReleaseInv, CapturePrevious PROVE ReleaseInv'
<1>1. /\ previous' = running /\ unchecked' = loose /\ running \in ImageSets
      /\ UNCHANGED <<running, current, verified, loose>>
  BY DEF CapturePrevious, Captured, ReleaseInv, ReleaseTypeOK
<1>2. /\ operation' = [operation EXCEPT !.pc = "prepare"]
      /\ operation.target \in Usable /\ operation \in [pc : {"none", "capture", "prepare", "up", "record"},
                                                      target : ImageSets \cup {NoLock}]
  BY DEF CapturePrevious, GoOn, ReleaseInv, ReleaseTypeOK, TargetIsLock
<1>3. operation'.pc = "prepare" /\ operation'.target = operation.target
  BY <1>2
<1>4. ReleaseTypeOK' /\ TargetIsLock'
  BY <1>1, <1>2, <1>3 DEF ReleaseInv, ReleaseTypeOK, TargetIsLock
<1>5. LooseIsKnown' /\ VerifiedIsUsable' /\ RecordIsVerified' /\ PreviousIsKnown'
  BY <1>1, <1>3 DEF ReleaseInv, LooseIsKnown, VerifiedIsUsable, RecordIsVerified, PreviousIsKnown
<1>6. LockIsThere'
  BY <1>1, ImagesAreSome DEF LockIsThere
<1>7. QED
  BY <1>4, <1>5, <1>6 DEF ReleaseInv

LEMMA PrepareKeeps == ASSUME ReleaseInv, Prepare PROVE ReleaseInv'
<1>1. /\ operation.pc = "prepare" /\ operation' = [operation EXCEPT !.pc = "up"]
      /\ operation.target \in Usable /\ operation \in [pc : {"none", "capture", "prepare", "up", "record"},
                                                      target : ImageSets \cup {NoLock}]
  BY DEF Prepare, GoOn, ReleaseInv, ReleaseTypeOK, TargetIsLock
<1>2. operation'.pc = "up" /\ operation'.target = operation.target
  BY <1>1
<1>3. previous # NoLock \/ current # NoLock
  BY <1>1 DEF ReleaseInv, LockIsThere
<1>4. TargetIsLock'
  BY <1>1, <1>2 DEF TargetIsLock
<1>5. QED
  BY <1>1, <1>2, <1>3, <1>4, ScriptMoves DEF Prepare

LEMMA SwitchKeeps == ASSUME ReleaseInv, NEW s \in Services, Switch(s) PROVE ReleaseInv'
<1>1. operation.target \in [Services -> Releases] /\ operation.pc = "up"
  BY DEF ReleaseInv, TargetIsLock, Switch, ImageSets, Usable
<1>2. running' \in ImageSets
  BY <1>1 DEF ReleaseInv, ReleaseTypeOK, Switch, ImageSets
<1>3. loose' = TRUE /\ UNCHANGED <<previous, current, operation, verified, unchecked>>
  BY DEF Switch
<1>4. ReleaseTypeOK' /\ TargetIsLock' /\ LooseIsKnown' /\ VerifiedIsUsable' /\ PreviousIsKnown'
  BY <1>2, <1>3 DEF ReleaseInv, ReleaseTypeOK, TargetIsLock, LooseIsKnown, VerifiedIsUsable, PreviousIsKnown
<1>5. RecordIsVerified' /\ LockIsThere'
  BY <1>1, <1>3 DEF ReleaseInv, RecordIsVerified, LockIsThere
<1>6. QED
  BY <1>4, <1>5 DEF ReleaseInv

(* What has passed the checks is what the script was to put in place.      *)
LEMMA VerifyKeeps == ASSUME ReleaseInv, Verify PROVE ReleaseInv'
<1>1. /\ running \in Usable /\ running \in ImageSets
      /\ verified' = verified \cup {running} /\ loose' = FALSE
      /\ UNCHANGED <<running, previous, current, unchecked>>
  BY DEF Verify, ReleaseInv, ReleaseTypeOK, TargetIsLock
<1>2. /\ operation' = [operation EXCEPT !.pc = "record"]
      /\ operation.target \in Usable /\ operation \in [pc : {"none", "capture", "prepare", "up", "record"},
                                                      target : ImageSets \cup {NoLock}]
  BY DEF Verify, GoOn, ReleaseInv, ReleaseTypeOK, TargetIsLock
<1>3. operation'.pc = "record" /\ operation'.target = operation.target
  BY <1>2
<1>4. ReleaseTypeOK' /\ TargetIsLock'
  BY <1>1, <1>2, <1>3 DEF ReleaseInv, ReleaseTypeOK, TargetIsLock
<1>5. LooseIsKnown' /\ VerifiedIsUsable' /\ RecordIsVerified' /\ LockIsThere' /\ PreviousIsKnown'
  BY <1>1, <1>3 DEF ReleaseInv, LooseIsKnown, VerifiedIsUsable, RecordIsVerified, LockIsThere,
                    PreviousIsKnown
<1>6. QED
  BY <1>4, <1>5 DEF ReleaseInv

LEMMA RecordKeeps == ASSUME ReleaseInv, RecordCurrent PROVE ReleaseInv'
<1>1. /\ current' = running /\ running \in verified /\ running \in ImageSets
      /\ operation' = NoOperation /\ UNCHANGED <<running, previous, verified, loose, unchecked>>
  BY DEF RecordCurrent, Captured, ReleaseInv, ReleaseTypeOK, RecordIsVerified
<1>2. operation'.pc = "none"
  BY <1>1 DEF NoOperation
<1>3. ReleaseTypeOK'
  BY <1>1 DEF ReleaseInv, ReleaseTypeOK, NoOperation
<1>4. LockIsThere'
  BY <1>1, ImagesAreSome DEF LockIsThere
<1>5. TargetIsLock' /\ LooseIsKnown' /\ VerifiedIsUsable' /\ RecordIsVerified' /\ PreviousIsKnown'
  BY <1>1, <1>2 DEF ReleaseInv, TargetIsLock, LooseIsKnown, VerifiedIsUsable, RecordIsVerified,
                    PreviousIsKnown
<1>6. QED
  BY <1>3, <1>4, <1>5 DEF ReleaseInv

LEMMA GiveUpKeeps == ASSUME ReleaseInv, GiveUp PROVE ReleaseInv'
<1>1. operation' = [pc |-> "none", target |-> NoLock]
  BY DEF GiveUp, NoOperation
<1>2. TargetIsLock'
  BY <1>1 DEF TargetIsLock
<1>3. QED
  BY <1>1, <1>2, ScriptMoves DEF GiveUp

LEMMA ReleaseInvariant == ReleaseSpec => []ReleaseInv
<1>1. ASSUME ReleaseInv, [ReleaseNext]_releaseVars PROVE ReleaseInv'
  <2>1. CASE UNCHANGED releaseVars
    BY <1>1, <2>1 DEF releaseVars, ReleaseInv, ReleaseTypeOK, TargetIsLock, LooseIsKnown,
                      VerifiedIsUsable, RecordIsVerified, LockIsThere, PreviousIsKnown
  <2>2. QED
    BY <1>1, <2>1, DeployKeeps, RollbackKeeps, CaptureKeeps, PrepareKeeps, SwitchKeeps, VerifyKeeps,
       RecordKeeps, GiveUpKeeps DEF ReleaseNext
<1>2. QED
  BY InitRelease, <1>1, PTL DEF ReleaseSpec

(* Lock files and images have their types, for any services and releases.  *)
THEOREM ReleaseTypeCorrect == ReleaseSpec => []ReleaseTypeOK
<1>1. ReleaseInv => ReleaseTypeOK
  BY DEF ReleaseInv
<1>2. QED
  BY ReleaseInvariant, <1>1, PTL

(* There is a way back to images that were in order together, wherever     *)
(* deployments and rollbacks were broken off, for any number of them: it   *)
(* is previous, or current when previous was captured on top of a failure, *)
(* unless no deployment was ever completed.                                *)
THEOREM WayBackIsInOrder == ReleaseSpec => []RollbackTarget
<1>1. ASSUME ReleaseInv PROVE RollbackTarget
  <2>1. previous \in verified \cup {NoLock} \/ unchecked
    BY <1>1 DEF ReleaseInv, PreviousIsKnown
  <2>2. \A lock \in verified : HasEnvironment(lock)
    BY <1>1 DEF ReleaseInv, VerifiedIsUsable, Usable
  <2>3. CASE current # NoLock
    BY <1>1, <2>1, <2>2, <2>3 DEF ReleaseInv, RecordIsVerified, RollbackTarget
  <2>4. CASE current = NoLock
    BY <1>1, <2>1, <2>2, <2>4 DEF ReleaseInv, LockIsThere, RollbackTarget
  <2>5. QED
    BY <2>3, <2>4
<1>2. QED
  BY ReleaseInvariant, <1>1, PTL

----------------------------------------------------------------------------
(* CommunityMonitor.  What a run has seen and not told is on record, or is *)
(* nothing to tell; what it has told and not recorded was told last.       *)
QuietRun ==
    watch.pc = "save" /\ watch.notice = "none" =>
        watch.seen = saved \/ (watch.seen = Fine /\ saved \notin Outages)
ToldIsSeen == Unrecorded => told = watch.seen
SendsSomething == watch.pc = "send" => watch.notice # "none"

MonitorInv == MonitorTypeOK /\ QuietRun /\ ToldIsSeen /\ SendsSomething /\ ChatKnows

LEMMA InitMonitor == MonitorInit => MonitorInv
<1> SUFFICES ASSUME MonitorInit PROVE MonitorInv
  OBVIOUS
<1>1. watch.pc = "asleep" /\ saved = "none" /\ told = "nothing"
  BY DEF MonitorInit, Asleep
<1>2. "none" \notin Outages
  BY OutagesAssumption
<1>3. MonitorTypeOK
  BY DEF MonitorInit, MonitorTypeOK, Asleep
<1>4. QuietRun /\ ToldIsSeen /\ SendsSomething
  BY <1>1 DEF QuietRun, ToldIsSeen, SendsSomething, Unrecorded
<1>5. ChatKnows
  BY <1>1, <1>2 DEF ChatKnows
<1>6. QED
  BY <1>3, <1>4, <1>5 DEF MonitorInv

(* What happens around the monitor leaves its record alone.                *)
LEMMA AroundMonitorKeeps ==
  ASSUME MonitorInv, Change \/ CoolDown \/ Backup PROVE MonitorInv'
<1>1. UNCHANGED <<saved, watch, told, unsure>>
  BY DEF Change, CoolDown, Backup
<1>2. MonitorTypeOK'
  BY DEF MonitorInv, MonitorTypeOK, Change, CoolDown, Backup
<1>3. QED
  BY <1>1, <1>2 DEF MonitorInv, QuietRun, ToldIsSeen, SendsSomething, ChatKnows, Unrecorded

LEMMA WatchKeeps == ASSUME MonitorInv, Check PROVE MonitorInv'
<1>1. UNCHANGED <<condition, backup, saved, stamp, told, unsure>> /\ watch = Asleep
  BY DEF Check
<1>2. PICK notice \in {"alert", "recovery", "none"} :
          /\ notice = Notice(condition)
          /\ watch' = [pc |-> IF notice = "none" THEN "save" ELSE "send",
                       seen |-> condition, notice |-> notice]
  BY DEF Check, Notice
<1>3. MonitorTypeOK'
  BY <1>1, <1>2 DEF MonitorInv, MonitorTypeOK
<1>4. QuietRun' /\ SendsSomething'
  BY <1>1, <1>2 DEF QuietRun, SendsSomething, Notice
<1>5. ~Unrecorded /\ ~Unrecorded'
  BY <1>1, <1>2 DEF Unrecorded, Asleep
<1>6. QED
  BY <1>1, <1>3, <1>4, <1>5 DEF MonitorInv, ToldIsSeen, ChatKnows

(* Sent, or not; or told, and Chat's answer lost.                          *)
LEMMA SendKeeps == ASSUME MonitorInv, Send \/ FailSend PROVE MonitorInv'
<1>1. /\ watch.pc = "send" /\ watch.notice # "none" /\ ~Unrecorded
      /\ watch.seen \in Outages \cup {Fine}
  BY DEF Send, FailSend, MonitorInv, MonitorTypeOK, SendsSomething, Unrecorded
<1>2. CASE Send
  <2>1. /\ told' = watch.seen /\ watch' = [watch EXCEPT !.pc = "save"]
        /\ UNCHANGED <<condition, backup, saved, stamp, unsure>>
    BY <1>2 DEF Send, AfterSending
  <2>2. /\ MonitorTypeOK' /\ watch'.pc = "save" /\ watch'.seen = watch.seen
        /\ watch'.notice = watch.notice
    BY <1>1, <2>1 DEF MonitorInv, MonitorTypeOK
  <2>3. QED
    BY <1>1, <2>1, <2>2
       DEF MonitorInv, QuietRun, ToldIsSeen, SendsSomething, ChatKnows, Unrecorded
<1>3. CASE FailSend
  <2>1. /\ watch' = Asleep /\ UNCHANGED <<condition, backup, saved, stamp>>
        /\ \/ UNCHANGED <<told, unsure>>
           \/ told' = watch.seen /\ unsure' = TRUE
    BY <1>3 DEF FailSend, AfterFailedSend
  <2>2. MonitorTypeOK'
    BY <1>1, <2>1 DEF MonitorInv, MonitorTypeOK, Asleep
  <2>3. QED
    BY <1>1, <2>1, <2>2
       DEF MonitorInv, QuietRun, ToldIsSeen, SendsSomething, ChatKnows, Unrecorded, Asleep
<1>4. QED
  BY <1>2, <1>3

LEMMA SaveKeeps == ASSUME MonitorInv, SaveFingerprint \/ SaveTime PROVE MonitorInv'
<1>1. CASE SaveFingerprint
  <2>1. /\ watch.pc = "save" /\ saved' = watch.seen
        /\ watch.seen \in Outages \cup {Fine}
        /\ UNCHANGED <<condition, backup, stamp, told>>
    BY <1>1 DEF SaveFingerprint, MonitorInv, MonitorTypeOK
  <2>2. CASE watch.notice = "none"
    <3>1. watch' = Asleep /\ UNCHANGED unsure /\ ~Unrecorded
      BY <1>1, <2>2 DEF SaveFingerprint, Unrecorded
    <3>2. MonitorTypeOK'
      BY <2>1, <3>1 DEF MonitorInv, MonitorTypeOK, Asleep
    <3>3. ChatKnows'
      BY <2>1, <2>2, <3>1, OutagesAssumption DEF MonitorInv, QuietRun, ChatKnows
    <3>4. QED
      BY <3>1, <3>2, <3>3
         DEF MonitorInv, QuietRun, ToldIsSeen, SendsSomething, Unrecorded, Asleep
  <2>3. CASE watch.notice # "none"
    <3>1. /\ watch' = [watch EXCEPT !.pc = "stamp"] /\ unsure' = FALSE
          /\ told = watch.seen
      BY <1>1, <2>1, <2>3 DEF SaveFingerprint, MonitorInv, ToldIsSeen, Unrecorded
    <3>2. MonitorTypeOK' /\ watch'.pc = "stamp"
      BY <2>1, <3>1 DEF MonitorInv, MonitorTypeOK
    <3>3. ChatKnows'
      BY <2>1, <3>1 DEF ChatKnows
    <3>4. QED
      BY <3>2, <3>3 DEF MonitorInv, QuietRun, ToldIsSeen, SendsSomething, Unrecorded
  <2>4. QED
    BY <2>2, <2>3
<1>2. CASE SaveTime
  <2>1. /\ watch.pc = "stamp" /\ watch' = Asleep /\ stamp' = "recent"
        /\ UNCHANGED <<condition, backup, saved, told, unsure>>
    BY <1>2 DEF SaveTime
  <2>2. MonitorTypeOK'
    BY <2>1 DEF MonitorInv, MonitorTypeOK, Asleep
  <2>3. QED
    BY <2>1, <2>2
       DEF MonitorInv, QuietRun, ToldIsSeen, SendsSomething, ChatKnows, Unrecorded, Asleep
<1>3. QED
  BY <1>1, <1>2

LEMMA BreakOffKeeps == ASSUME MonitorInv, BreakOff PROVE MonitorInv'
<1>1. /\ watch' = Asleep /\ saved' \in {saved, "none"} /\ stamp' \in {stamp, "torn"}
      /\ unsure' = (unsure \/ Unrecorded \/ saved' # saved)
      /\ UNCHANGED <<condition, backup, told>>
  BY DEF BreakOff
<1>2. MonitorTypeOK'
  <2>1. unsure' \in BOOLEAN
    BY <1>1
  <2>2. QED
    BY <1>1, <2>1 DEF MonitorInv, MonitorTypeOK, Asleep
<1>3. ChatKnows'
  BY <1>1 DEF MonitorInv, ChatKnows
<1>4. QED
  BY <1>1, <1>2, <1>3 DEF MonitorInv, QuietRun, ToldIsSeen, SendsSomething, Unrecorded, Asleep

LEMMA MonitorInvariant == MonitorSpec => []MonitorInv
<1>1. MonitorInv /\ [MonitorNext]_monitorVars => MonitorInv'
  <2> SUFFICES ASSUME MonitorInv, [MonitorNext]_monitorVars PROVE MonitorInv'
    OBVIOUS
  <2>1. CASE UNCHANGED monitorVars
    BY <2>1 DEF monitorVars, MonitorInv, MonitorTypeOK, QuietRun, ToldIsSeen, SendsSomething,
                ChatKnows, Unrecorded
  <2>2. CASE MonitorNext
    BY <2>2, AroundMonitorKeeps, WatchKeeps, SendKeeps, SaveKeeps, BreakOffKeeps
       DEF MonitorNext
  <2>3. QED
    BY <2>1, <2>2
<1>2. QED
  BY <1>1, InitMonitor, PTL DEF MonitorSpec

(* Every variable of the monitor has its type: no run reads a record that  *)
(* is none.                                                                *)
THEOREM MonitorTypeCorrect == MonitorSpec => []MonitorTypeOK
<1>1. MonitorInv => MonitorTypeOK
  BY DEF MonitorInv
<1>2. QED
  BY <1>1, MonitorInvariant, PTL

(* What is on record is what Chat was told last, for any alerts, whichever *)
(* message fails and wherever a run of the monitor ends.                   *)
THEOREM ChatIsTold == MonitorSpec => []ChatKnows
<1>1. MonitorInv => ChatKnows
  BY DEF MonitorInv
<1>2. QED
  BY <1>1, MonitorInvariant, PTL

----------------------------------------------------------------------------
(* OperationFailure: the outage register.                                  *)

(* What the alerts of the past say about the rows: none is of an outage    *)
(* still to come, and the recovery of the present outage was decided on    *)
(* only if it is over.  This is why the next alert is always a new one.    *)
Decided == pending \cup Received \cup lost
AlertsArePast ==
    \A a \in Decided :
       /\ a.outage <= row[a.fp].outage
       /\ a.kind = "recovery" /\ a.outage = row[a.fp].outage
             => row[a.fp].state = "RECOVERED"

FailureInv == FailureTypeOK /\ AlertsArePast /\ NoAlertTwice

----------------------------------------------------------------------------
(* The row operators of the store keep the type of a row.                  *)
LEMMA RowOperatorsTyped ==
    ASSUME NEW r \in RowType
    PROVE  /\ AfterFailure(r, MaxAttempts) \in RowType
           /\ AfterRecovery(r) \in RowType
           /\ AfterRetry(r) \in RowType
<1>1. AfterRecovery(r) \in RowType
    BY DEF RowType, AfterRecovery
<1>2. AfterRetry(r) \in RowType
    BY DEF RowType, AfterRetry
<1>3. CASE StartsOutage(r)
    BY <1>1, <1>2, <1>3 DEF RowType, AfterFailure
<1>4. CASE ~StartsOutage(r)
    <2> DEFINE s == IF r.attempts + 1 >= MaxAttempts THEN "DEAD_LETTER" ELSE "OPEN"
    <2>1. AfterFailure(r, MaxAttempts) = [[r EXCEPT !.attempts = @ + 1] EXCEPT !.state = s]
        BY <1>4 DEF AfterFailure, RowType
    <2>2. s \in {"DEAD_LETTER", "OPEN"}
        OBVIOUS
    <2> HIDE DEF s
    <2>3. [r EXCEPT !.attempts = @ + 1] \in RowType
        BY DEF RowType
    <2>4. AfterFailure(r, MaxAttempts) \in RowType
        BY <2>1, <2>2, <2>3 DEF RowType
    <2> QED BY <1>1, <1>2, <2>4
<1> QED BY <1>3, <1>4

(* An alert of the register is a record of its three parts.                *)
LEMMA AlertTyped ==
    ASSUME NEW fp \in Fingerprints, NEW k \in {"failure", "recovery"}, NEW n \in Nat
    PROVE  /\ Alert(fp, k, n) \in AlertType
           /\ Alert(fp, k, n).fp = fp
           /\ Alert(fp, k, n).kind = k
           /\ Alert(fp, k, n).outage = n
BY DEF Alert, AlertType

(* Sending appends the alert and adds nothing else to what is received.    *)
LEMMA ReceivedAfterAppend ==
    ASSUME alerts \in Seq(AlertType), NEW a \in AlertType, alerts' = Append(alerts, a)
    PROVE  /\ Received' = Received \cup {a}
           /\ Len(alerts') = Len(alerts) + 1
           /\ \A i \in 1..Len(alerts) : alerts'[i] = alerts[i]
           /\ alerts'[Len(alerts) + 1] = a
           /\ alerts' \in Seq(AlertType)
BY DEF Received

(* FailureTypeOK is inductive.                                             *)
LEMMA FailureTypeStep ==
    /\ FailureInit => FailureTypeOK
    /\ FailureTypeOK /\ [FailureNext]_failureVars => FailureTypeOK'
<1>1. FailureInit => FailureTypeOK
    BY DEF FailureInit, FailureTypeOK, NoRow, RowType
<1>2. ASSUME FailureTypeOK, [FailureNext]_failureVars PROVE FailureTypeOK'
    <2> USE DEF FailureTypeOK
    <2>1. ASSUME NEW fp \in Fingerprints, RecordFailure(fp) PROVE FailureTypeOK'
        <3>1. row' \in [Fingerprints -> RowType]
            BY <2>1, <1>2, RowOperatorsTyped DEF RecordFailure
        <3>2. row'[fp].outage \in Nat
            BY <3>1 DEF RowType
        <3>3. pending' \subseteq AlertType
            BY <2>1, <1>2, <3>2, AlertTyped DEF RecordFailure
        <3> QED BY <2>1, <1>2, <3>1, <3>3 DEF RecordFailure
    <2>2. ASSUME NEW fp \in Fingerprints, RecordRecovery(fp) PROVE FailureTypeOK'
        <3>1. row' \in [Fingerprints -> RowType]
            BY <2>2, <1>2, RowOperatorsTyped DEF RecordRecovery
        <3>2. row[fp].outage \in Nat
            BY <1>2 DEF RowType
        <3>3. pending' \subseteq AlertType
            BY <2>2, <1>2, <3>2, AlertTyped DEF RecordRecovery
        <3> QED BY <2>2, <1>2, <3>1, <3>3 DEF RecordRecovery
    <2>3. ASSUME NEW fp \in Fingerprints, RetryFailure(fp) PROVE FailureTypeOK'
        BY <2>3, <1>2, RowOperatorsTyped DEF RetryFailure
    <2>4. ASSUME NEW a \in pending, SendAlert(a) PROVE FailureTypeOK'
        BY <2>4, <1>2, ReceivedAfterAppend DEF SendAlert
    <2>5. ASSUME NEW a \in pending, LoseAlert(a) PROVE FailureTypeOK'
        BY <2>5, <1>2 DEF LoseAlert
    <2>6. CASE UNCHANGED failureVars
        BY <2>6, <1>2 DEF failureVars
    <2> QED BY <1>2, <2>1, <2>2, <2>3, <2>4, <2>5, <2>6 DEF FailureNext
<1> QED BY <1>1, <1>2

(* Every variable of the register has its type in every reachable state.   *)
THEOREM FailureTypeCorrect == FailureSpec => []FailureTypeOK
BY FailureTypeStep, PTL DEF FailureSpec

(* An outage is given up exactly at its limit, for every limit.            *)
THEOREM GivenUpAtLimit == FailureSpec => []DeadLetterAtLimit
<1>1. FailureInit => DeadLetterAtLimit
    BY DEF FailureInit, DeadLetterAtLimit, NoRow
<1>2. FailureTypeOK /\ DeadLetterAtLimit /\ [FailureNext]_failureVars => DeadLetterAtLimit'
    <2> SUFFICES ASSUME FailureTypeOK, DeadLetterAtLimit, [FailureNext]_failureVars
                 PROVE  DeadLetterAtLimit'
        OBVIOUS
    <2> USE DEF FailureTypeOK, RowType, DeadLetterAtLimit
    <2>1. ASSUME NEW fp \in Fingerprints, RecordFailure(fp) PROVE DeadLetterAtLimit'
        BY <2>1, AttemptsAssumption DEF RecordFailure, AfterFailure, StartsOutage
    <2>2. ASSUME NEW fp \in Fingerprints, RecordRecovery(fp) PROVE DeadLetterAtLimit'
        BY <2>2 DEF RecordRecovery, AfterRecovery, EndsOutage
    <2>3. ASSUME NEW fp \in Fingerprints, RetryFailure(fp) PROVE DeadLetterAtLimit'
        BY <2>3 DEF RetryFailure, AfterRetry
    <2>4. ASSUME UNCHANGED row PROVE DeadLetterAtLimit'
        BY <2>4
    <2> QED BY <2>1, <2>2, <2>3, <2>4 DEF FailureNext, SendAlert, LoseAlert, failureVars
<1> QED BY <1>1, <1>2, FailureTypeCorrect, PTL DEF FailureSpec

----------------------------------------------------------------------------
(* A failure or a recovery that alerts decides on an alert that was never  *)
(* decided on before; every other step decides on nothing.                 *)
LEMMA NextAlertIsNew ==
    ASSUME FailureTypeOK, AlertsArePast, NEW fp \in Fingerprints
    PROVE  /\ Alert(fp, "failure", row[fp].outage + 1) \notin Decided
           /\ EndsOutage(row[fp]) => Alert(fp, "recovery", row[fp].outage) \notin Decided
<1>1. row[fp].outage \in Nat
    BY DEF FailureTypeOK, RowType
<1>2. Alert(fp, "failure", row[fp].outage + 1) \notin Decided
    BY <1>1, AlertTyped DEF AlertsArePast
<1>3. EndsOutage(row[fp]) => Alert(fp, "recovery", row[fp].outage) \notin Decided
    BY <1>1, AlertTyped DEF AlertsArePast, EndsOutage
<1> QED BY <1>2, <1>3

(* Which outage a row is in, and whether it is over, after a transaction.  *)
LEMMA OutageAfter ==
    ASSUME NEW r \in RowType
    PROVE  LET f == AfterFailure(r, MaxAttempts)
               c == AfterRecovery(r)
               t == AfterRetry(r)
           IN /\ f.outage = IF StartsOutage(r) THEN r.outage + 1 ELSE r.outage
              /\ f.state \in {"OPEN", "DEAD_LETTER"}
              /\ c.outage = r.outage
              /\ c.state = IF EndsOutage(r) THEN "RECOVERED" ELSE r.state
              /\ t.outage = r.outage
              /\ t.state = "RETRYING"
<1>1. /\ AfterRecovery(r).outage = r.outage
      /\ AfterRecovery(r).state = IF EndsOutage(r) THEN "RECOVERED" ELSE r.state
    BY DEF RowType, AfterRecovery
<1>2. AfterRetry(r).outage = r.outage /\ AfterRetry(r).state = "RETRYING"
    BY DEF RowType, AfterRetry
<1>3. CASE StartsOutage(r)
    BY <1>1, <1>2, <1>3 DEF RowType, AfterFailure
<1>4. CASE ~StartsOutage(r)
    BY <1>1, <1>2, <1>4 DEF RowType, AfterFailure
<1> QED BY <1>3, <1>4

(* An outage opens with a failure and ends with a recovery: the two        *)
(* conditions are complements.                                             *)
LEMMA StartsOrEnds ==
    ASSUME NEW r \in RowType PROVE StartsOutage(r) <=> ~EndsOutage(r)
BY DEF RowType, StartsOutage, EndsOutage

(* Each alert reaches the reviewers at most once, however many calls       *)
(* overlap and whatever is retried by hand.                                *)
THEOREM AlertedOnce == FailureSpec => []NoAlertTwice
<1>1. FailureInit => FailureInv
    BY FailureTypeStep DEF FailureInit, FailureInv, AlertsArePast, NoAlertTwice, Decided, Received
<1>2. FailureInv /\ [FailureNext]_failureVars => FailureInv'
    <2> SUFFICES ASSUME FailureInv, [FailureNext]_failureVars PROVE AlertsArePast' /\ NoAlertTwice'
        BY FailureTypeStep DEF FailureInv
    <2> USE DEF FailureInv
    <2>0. FailureTypeOK /\ FailureTypeOK'
        BY FailureTypeStep
    <2>1. ASSUME NEW fp \in Fingerprints, RecordFailure(fp)
          PROVE  AlertsArePast' /\ NoAlertTwice'
        <3> DEFINE a == Alert(fp, "failure", row[fp].outage + 1)
        <3>1. /\ row[fp] \in RowType /\ row[fp].outage \in Nat
              /\ row'[fp] = AfterFailure(row[fp], MaxAttempts)
              /\ \A g \in Fingerprints \ {fp} : row'[g] = row[g]
              /\ Received' = Received
            BY <2>0, <2>1 DEF FailureTypeOK, RowType, RecordFailure, Received
        <3>2. CASE StartsOutage(row[fp])
            <4>1. Decided' = Decided \cup {a} /\ pending' = pending \cup {a}
                BY <2>1, <3>1, <3>2, OutageAfter DEF RecordFailure, Decided
            <4>2. a \notin Decided
                BY <2>0, NextAlertIsNew
            <4>3. AlertsArePast'
                <5> SUFFICES ASSUME NEW b \in Decided'
                             PROVE  /\ b.outage <= row'[b.fp].outage
                                    /\ b.kind = "recovery" /\ b.outage = row'[b.fp].outage
                                          => row'[b.fp].state = "RECOVERED"
                    BY DEF AlertsArePast
                <5>1. CASE b = a
                    BY <5>1, <3>1, <3>2, OutageAfter, AlertTyped
                <5>2. CASE b \in Decided
                    <6>1. b \in AlertType
                        BY <5>2, <2>0 DEF FailureTypeOK, Decided, Received
                    <6>2. b.fp \in Fingerprints /\ b.outage \in Nat /\ row[b.fp].outage \in Nat
                        BY <6>1, <2>0 DEF AlertType, FailureTypeOK, RowType
                    <6> QED BY <5>2, <6>2, <3>1, <3>2, OutageAfter DEF AlertsArePast
                <5> QED BY <5>1, <5>2, <4>1
            <4>4. NoAlertTwice'
                BY <2>1, <3>1, <4>1, <4>2 DEF NoAlertTwice, Decided, RecordFailure
            <4> QED BY <4>3, <4>4
        <3>3. CASE ~StartsOutage(row[fp])
            <4>1. Decided' = Decided /\ UNCHANGED <<pending, alerts, lost>>
                BY <2>1, <3>1, <3>3 DEF RecordFailure, Decided
            <4>2. row[fp].state # "RECOVERED"
                BY <3>3 DEF StartsOutage
            <4>3. AlertsArePast'
                <5>1. Decided \subseteq AlertType
                    BY <2>0 DEF FailureTypeOK, Decided, Received
                <5> QED BY <4>1, <4>2, <5>1, <3>1, <3>3, OutageAfter DEF AlertsArePast, AlertType
            <4> QED BY <4>1, <4>3, <3>1 DEF NoAlertTwice
        <3> QED BY <3>2, <3>3
    <2>2. ASSUME NEW fp \in Fingerprints, RecordRecovery(fp)
          PROVE  AlertsArePast' /\ NoAlertTwice'
        <3> DEFINE a == Alert(fp, "recovery", row[fp].outage)
        <3>1. /\ row[fp] \in RowType /\ row[fp].outage \in Nat
              /\ row'[fp] = AfterRecovery(row[fp])
              /\ \A g \in Fingerprints \ {fp} : row'[g] = row[g]
              /\ Received' = Received
            BY <2>0, <2>2 DEF FailureTypeOK, RowType, RecordRecovery, Received
        <3>2. Decided \subseteq AlertType
            BY <2>0 DEF FailureTypeOK, Decided, Received
        <3>3. CASE EndsOutage(row[fp])
            <4>1. Decided' = Decided \cup {a} /\ pending' = pending \cup {a}
                BY <2>2, <3>1, <3>3 DEF RecordRecovery, Decided
            <4>2. a \notin Decided
                BY <2>0, <3>3, NextAlertIsNew
            <4>3. AlertsArePast'
                BY <4>1, <3>1, <3>2, <3>3, OutageAfter, AlertTyped DEF AlertsArePast, AlertType
            <4>4. NoAlertTwice'
                BY <2>2, <3>1, <4>1, <4>2 DEF NoAlertTwice, Decided, RecordRecovery
            <4> QED BY <4>3, <4>4
        <3>4. CASE ~EndsOutage(row[fp])
            <4>1. Decided' = Decided /\ UNCHANGED <<pending, alerts, lost>>
                BY <2>2, <3>1, <3>4 DEF RecordRecovery, Decided
            <4>2. AlertsArePast'
                BY <4>1, <3>1, <3>2, <3>4, OutageAfter DEF AlertsArePast, AlertType
            <4> QED BY <4>1, <4>2, <3>1 DEF NoAlertTwice
        <3> QED BY <3>3, <3>4
    <2>3. ASSUME NEW fp \in Fingerprints, RetryFailure(fp)
          PROVE  AlertsArePast' /\ NoAlertTwice'
        <3>1. /\ row[fp] \in RowType
              /\ row[fp].state # "RECOVERED"
              /\ row'[fp] = AfterRetry(row[fp])
              /\ \A g \in Fingerprints \ {fp} : row'[g] = row[g]
              /\ Decided' = Decided /\ Received' = Received
            BY <2>0, <2>3 DEF FailureTypeOK, RetryFailure, MayRetry, Received, Decided
        <3>2. Decided \subseteq AlertType
            BY <2>0 DEF FailureTypeOK, Decided, Received
        <3>3. AlertsArePast'
            BY <3>1, <3>2, OutageAfter DEF AlertsArePast, AlertType
        <3> QED BY <2>3, <3>1, <3>3 DEF NoAlertTwice, RetryFailure
    <2>4. ASSUME NEW a \in pending, SendAlert(a)
          PROVE  AlertsArePast' /\ NoAlertTwice'
        <3>1. a \in AlertType /\ alerts \in Seq(AlertType) /\ alerts' = Append(alerts, a)
            BY <2>0, <2>4 DEF FailureTypeOK, SendAlert
        <3>2. Received' = Received \cup {a}
            BY <3>1, ReceivedAfterAppend
        <3>3. Decided' = Decided /\ UNCHANGED row
            BY <3>2, <2>4 DEF SendAlert, Decided
        <3>4. AlertsArePast'
            BY <3>3 DEF AlertsArePast
        <3>5. a \notin Received /\ a \notin lost
            BY <2>4 DEF NoAlertTwice
        <3>6. \A i, j \in 1..Len(alerts') : alerts'[i] = alerts'[j] => i = j
            <4>1. Len(alerts) \in Nat
                BY <3>1
            <4>2. /\ Len(alerts') = Len(alerts) + 1
                  /\ \A i \in 1..Len(alerts) : alerts'[i] = alerts[i] /\ alerts[i] # a
                  /\ alerts'[Len(alerts) + 1] = a
                BY <3>1, <3>5, ReceivedAfterAppend DEF Received
            <4>3. \A i \in 1..Len(alerts') : i \in 1..Len(alerts) \/ i = Len(alerts) + 1
                BY <4>1, <4>2
            <4> QED BY <4>2, <4>3 DEF NoAlertTwice
        <3>7. /\ Received' \cap (pending' \cup lost') = {}
              /\ pending' \cap lost' = {}
            BY <3>2, <3>5, <2>4 DEF SendAlert, NoAlertTwice
        <3> QED BY <3>4, <3>6, <3>7 DEF NoAlertTwice
    <2>5. ASSUME NEW a \in pending, LoseAlert(a)
          PROVE  AlertsArePast' /\ NoAlertTwice'
        <3>1. Received' = Received /\ Decided' = Decided
            BY <2>5 DEF LoseAlert, Received, Decided
        <3>2. AlertsArePast'
            BY <2>5, <3>1 DEF LoseAlert, AlertsArePast
        <3> QED BY <2>5, <3>1, <3>2 DEF LoseAlert, NoAlertTwice
    <2>6. CASE UNCHANGED failureVars
        BY <2>6 DEF failureVars, AlertsArePast, NoAlertTwice, Decided, Received
    <2> QED BY <2>1, <2>2, <2>3, <2>4, <2>5, <2>6 DEF FailureNext
<1> QED BY <1>1, <1>2, PTL DEF FailureSpec, FailureInv

----------------------------------------------------------------------------
(* The register keeps the promise of OutageAlerts, for every limit: of     *)
(* each outage the first failure and the recovery are alerted, and no more.*)
THEOREM PromiseKept == FailureSpec => KeepsPromise
<1>1. FailureInit => Promise!Init
    <2> SUFFICES ASSUME FailureInit PROVE Promise!Init
        OBVIOUS
    <2>1. \A fp \in Fingerprints : row[fp].state = "NONE" /\ row[fp].outage = 0
        BY DEF FailureInit, NoRow
    <2>2. Down = [fp \in Fingerprints |-> FALSE]
        <3>1. \A fp \in Fingerprints : row[fp].state \notin {"NONE", "RECOVERED"} <=> FALSE
            BY <2>1
        <3> QED BY <3>1, Zenon DEF Down
    <2>3. OutageOf = [fp \in Fingerprints |-> 0]
        BY <2>1 DEF OutageOf
    <2>4. pending \cup Received \cup lost = {}
        BY DEF FailureInit, Received
    <2> QED BY <2>2, <2>3, <2>4 DEF Promise!Init
<1>2. FailureTypeOK /\ [FailureNext]_failureVars
          => [Promise!Next]_<<Down, OutageOf, pending \cup Received \cup lost>>
    <2> SUFFICES ASSUME FailureTypeOK, [FailureNext]_failureVars
                 PROVE  \/ Promise!Next
                        \/ UNCHANGED <<Down, OutageOf, Decided>>
        BY DEF Decided
    <2>1. ASSUME NEW fp \in Fingerprints, RecordFailure(fp)
          PROVE  Promise!Fail(fp) \/ UNCHANGED <<Down, OutageOf, Decided>>
        <3>1. /\ row[fp] \in RowType
              /\ row' = [row EXCEPT ![fp] = AfterFailure(row[fp], MaxAttempts)]
              /\ row'[fp] = AfterFailure(row[fp], MaxAttempts)
              /\ Received' = Received
            BY <2>1 DEF FailureTypeOK, RecordFailure, Received
        <3>2. CASE StartsOutage(row[fp])
            <4>1. ~Down[fp] /\ Down' = [Down EXCEPT ![fp] = TRUE]
                BY <3>1, <3>2, OutageAfter DEF Down, StartsOutage, FailureTypeOK
            <4>2. OutageOf' = [OutageOf EXCEPT ![fp] = @ + 1] /\ OutageOf[fp] = row[fp].outage
                BY <3>1, <3>2, OutageAfter DEF OutageOf, FailureTypeOK
            <4>3. Decided' = Decided \cup {Alert(fp, "failure", OutageOf[fp] + 1)}
                BY <2>1, <3>1, <3>2, <4>2, OutageAfter DEF RecordFailure, Decided
            <4> QED BY <4>1, <4>2, <4>3 DEF Promise!Fail, Promise!Alert, Alert, Decided
        <3>3. CASE ~StartsOutage(row[fp])
            <4>1. Down' = Down /\ OutageOf' = OutageOf
                BY <3>1, <3>3, OutageAfter DEF Down, OutageOf, StartsOutage, FailureTypeOK
            <4> QED BY <2>1, <3>1, <3>3, <4>1 DEF RecordFailure, Decided
        <3> QED BY <3>2, <3>3
    <2>2. ASSUME NEW fp \in Fingerprints, RecordRecovery(fp)
          PROVE  Promise!Recover(fp) \/ UNCHANGED <<Down, OutageOf, Decided>>
        <3>1. /\ row[fp] \in RowType
              /\ row' = [row EXCEPT ![fp] = AfterRecovery(row[fp])]
              /\ row'[fp] = AfterRecovery(row[fp])
              /\ Received' = Received
            BY <2>2 DEF FailureTypeOK, RecordRecovery, Received
        <3>2. OutageOf' = OutageOf /\ OutageOf[fp] = row[fp].outage
            BY <3>1, OutageAfter DEF OutageOf, FailureTypeOK
        <3>3. CASE EndsOutage(row[fp])
            <4>1. Down[fp] /\ Down' = [Down EXCEPT ![fp] = FALSE]
                <5>1. Down[fp] = TRUE
                    BY <3>3 DEF Down, EndsOutage
                <5>2. \A g \in Fingerprints :
                         Down'[g] = IF g = fp THEN FALSE ELSE Down[g]
                    BY <3>1, <3>3, OutageAfter DEF Down, FailureTypeOK
                <5> QED BY <5>1, <5>2 DEF Down
            <4>2. Decided' = Decided \cup {Alert(fp, "recovery", OutageOf[fp])}
                BY <2>2, <3>1, <3>2, <3>3 DEF RecordRecovery, Decided
            <4> QED BY <3>2, <4>1, <4>2 DEF Promise!Recover, Promise!Alert, Alert, Decided
        <3>4. CASE ~EndsOutage(row[fp])
            <4>1. Down' = Down
                BY <3>1, <3>4, OutageAfter DEF Down, FailureTypeOK
            <4> QED BY <2>2, <3>1, <3>2, <3>4, <4>1 DEF RecordRecovery, Decided
        <3> QED BY <3>3, <3>4
    <2>3. ASSUME NEW fp \in Fingerprints, RetryFailure(fp)
          PROVE  UNCHANGED <<Down, OutageOf, Decided>>
        BY <2>3, OutageAfter
           DEF FailureTypeOK, RetryFailure, MayRetry, Down, OutageOf, Decided, Received
    <2>4. ASSUME NEW a \in pending, SendAlert(a)
          PROVE  UNCHANGED <<Down, OutageOf, Decided>>
        <3>1. Received' = Received \cup {a}
            BY <2>4, ReceivedAfterAppend DEF FailureTypeOK, SendAlert
        <3> QED BY <2>4, <3>1 DEF SendAlert, Down, OutageOf, Decided
    <2>5. ASSUME NEW a \in pending, LoseAlert(a)
          PROVE  UNCHANGED <<Down, OutageOf, Decided>>
        BY <2>5 DEF LoseAlert, Down, OutageOf, Decided, Received
    <2>6. CASE UNCHANGED failureVars
        BY <2>6 DEF failureVars, Down, OutageOf, Decided, Received
    <2> QED BY <2>1, <2>2, <2>3, <2>4, <2>5, <2>6 DEF FailureNext, Promise!Next
<1> QED BY <1>1, <1>2, FailureTypeCorrect, PTL DEF FailureSpec, KeepsPromise, Promise!Spec

----------------------------------------------------------------------------
(* EventGateway.                                                           *)

(* Where an event goes, without what Route is made of.                     *)
LEMMA RouteIsShort ==
  ASSUME NEW k \in Kinds
  PROVE  /\ Len(Route(k)) \in Nat
         /\ \A i \in 1..Len(Route(k)) : Route(k)[i] \in Upstreams
         /\ \A i, j \in 1..Len(Route(k)) : Route(k)[i] = Route(k)[j] => i = j
         /\ Route(k) = <<>> <=> Len(Route(k)) = 0
<1>1. CASE k = "PUSH_TO_SOURCE"
  <2>1. Route(k) = <<"chat", "discovery">>
    BY <1>1 DEF Route
  <2>2. QED
    BY <2>1 DEF Upstreams
<1>2. CASE k = "CHAT_ONLY"
  <2>1. Route(k) = <<"chat">>
    BY <1>2 DEF Route
  <2>2. QED
    BY <2>1 DEF Upstreams
<1>3. CASE k = "SIGNED"
  <2>1. Route(k) = <<"rag">>
    BY <1>3 DEF Route
  <2>2. QED
    BY <2>1 DEF Upstreams
<1>4. CASE k = "IGNORED"
  <2>1. Route(k) = <<>>
    BY <1>4 DEF Route
  <2>2. QED
    BY <2>1
<1>5. QED
  BY <1>1, <1>2, <1>3, <1>4 DEF Kinds

----------------------------------------------------------------------------
(* Deliveries.                                                             *)

RouteOf(e) == Route(kind[e])
Holds(r, e) == request[r].event = e /\ request[r].pc \in {"post", "release"}

DeliveryTypeOK ==
    /\ kind \in [Events -> Kinds]
    /\ reserved \subseteq Events
    /\ request \in [Requests -> RequestType]
    /\ \A r \in Requests : request[r].pc # "new" => request[r].event \in Events
    /\ \A r \in Requests : request[r].pc = "reserve" => request[r].posted = 0
    /\ received \in [Events -> [Upstreams -> Nat]]
    /\ excused \in [Events -> Nat]
    /\ cut \subseteq Events

(* A request holds the reservation of its event, and holds it alone.       *)
HoldsAlone ==
    /\ \A r \in Requests, e \in Events : Holds(r, e) => e \in reserved
    /\ \A r, s \in Requests, e \in Events : Holds(r, e) /\ Holds(s, e) => r = s

(* What it has posted is there, and what is still to be posted may be      *)
(* accepted once more.                                                     *)
Posted(r) ==
    LET e == request[r].event IN
    request[r].pc = "post" =>
        /\ request[r].posted < Len(RouteOf(e))
        /\ \A i \in 1..request[r].posted : received[e][RouteOf(e)[i]] > 0
Settled(e) == \A u \in Upstreams : received[e][u] <= excused[e]
MayBePosted(r) ==
    LET e == request[r].event IN
    /\ request[r].pc = "release" => Settled(e)
    /\ request[r].pc = "post" =>
          \A i \in (request[r].posted + 1)..Len(RouteOf(e)) :
              received[e][RouteOf(e)[i]] <= excused[e]
OnTheirWay ==
    /\ \A r \in Requests : Posted(r) /\ MayBePosted(r)
    /\ \A e \in Events \ reserved : Settled(e)

DeliveryInv == DeliveryTypeOK /\ HoldsAlone /\ OnTheirWay /\ ForwardedOnce

(* A request is disturbed by no step but its own, or one for its event.    *)
LEMMA Undisturbed ==
  ASSUME NEW q \in Requests, Posted(q), MayBePosted(q),
         request'[q] = request[q], kind' = kind,
         received'[request[q].event] = received[request[q].event],
         excused'[request[q].event] = excused[request[q].event]
  PROVE  Posted(q)' /\ MayBePosted(q)'
  BY DEF Posted, MayBePosted, Settled, RouteOf

LEMMA NotHolding ==
  ASSUME NEW q \in Requests, request[q].pc \notin {"post", "release"}
  PROVE  Posted(q) /\ MayBePosted(q)
  BY DEF Posted, MayBePosted

LEMMA InitDelivery == GatewayInit => DeliveryInv
<1>1. SUFFICES ASSUME GatewayInit PROVE DeliveryInv
  OBVIOUS
<1>2. NoRequest \in RequestType
  BY DEF NoRequest, RequestType
<1>3. \A r \in Requests : request[r] = NoRequest /\ request[r].pc = "new"
  BY <1>1 DEF GatewayInit, NoRequest
<1>4. DeliveryTypeOK
  BY <1>1, <1>2, <1>3 DEF GatewayInit, DeliveryTypeOK
<1>5. HoldsAlone
  BY <1>3 DEF HoldsAlone, Holds
<1>6. \A e \in Events, u \in Upstreams : received[e][u] = 0 /\ excused[e] = 0
  BY <1>1 DEF GatewayInit
<1>7. OnTheirWay
  BY <1>3, <1>6, NotHolding DEF OnTheirWay, Settled
<1>8. ForwardedOnce
  BY <1>1, <1>6 DEF GatewayInit, ForwardedOnce
<1>9. QED
  BY <1>4, <1>5, <1>7, <1>8 DEF DeliveryInv

LEMMA DeliverKeeps ==
  ASSUME DeliveryInv, NEW r \in Requests, NEW e \in Events, Deliver(r, e)
  PROVE  DeliveryInv'
<1> USE DEF DeliveryInv
<1>1. /\ \A q \in Requests \ {r} : request'[q] = request[q]
      /\ request'[r].pc = "reserve" /\ request'[r].event = e
      /\ request[r].pc = "new"
      /\ UNCHANGED <<kind, reserved, received, excused, cut>>
  BY DEF Deliver, DeliveryTypeOK
<1>2. DeliveryTypeOK'
  BY <1>1 DEF Deliver, DeliveryTypeOK, RequestType
<1>3. \A q \in Requests, d \in Events : Holds(q, d)' <=> Holds(q, d)
  BY <1>1 DEF Holds
<1>4. HoldsAlone'
  BY <1>1, <1>3 DEF HoldsAlone
<1>5. \A q \in Requests : Posted(q)' /\ MayBePosted(q)'
  <2>1. Posted(r)' /\ MayBePosted(r)'
    BY <1>1 DEF Posted, MayBePosted
  <2>2. QED
    BY <1>1, <2>1, Undisturbed DEF OnTheirWay
<1>6. OnTheirWay'
  BY <1>1, <1>5 DEF OnTheirWay, Settled
<1>7. ForwardedOnce'
  BY <1>1, <1>3 DEF ForwardedOnce, Missing, UnderWay, Holds
<1>8. QED
  BY <1>2, <1>4, <1>6, <1>7

LEMMA ReserveKeeps ==
  ASSUME DeliveryInv, NEW r \in Requests, Reserve(r) \/ FailReservation(r)
  PROVE  DeliveryInv'
<1> DEFINE e == request[r].event
<1> USE DEF DeliveryInv
<1>1. /\ e \in Events /\ request[r].pc = "reserve"
      /\ request[r].posted = 0 /\ kind[e] \in Kinds
      /\ UNCHANGED <<kind, received, excused>>
  BY DEF Reserve, FailReservation, DeliveryTypeOK
<1>2. PICK pc \in {"post", "done"} :
          /\ request' = [request EXCEPT ![r].pc = pc]
          /\ \/ /\ pc = "done" /\ reserved' = reserved /\ cut' = cut
             \/ /\ pc = "done" /\ reserved' = reserved \cup {e} /\ e \notin reserved
                /\ RouteOf(e) = <<>> /\ cut' = cut \ {e}
             \/ /\ pc = "done" /\ reserved' = reserved \cup {e} /\ e \notin reserved
                /\ cut' = cut \cup {e}
             \/ /\ pc = "post" /\ reserved' = reserved \cup {e} /\ e \notin reserved
                /\ cut' = cut \ {e} /\ RouteOf(e) # <<>>
  <2>1. CASE Reserve(r)
    BY <2>1 DEF Reserve, AfterReservation, Ended, Duplicate, RouteOf
  <2>2. CASE FailReservation(r)
    BY <2>2 DEF FailReservation, Ended, Duplicate
  <2>3. QED
    BY <2>1, <2>2
<1> HIDE DEF e
<1>20. /\ \A q \in Requests \ {r} : request'[q] = request[q]
       /\ request'[r].event = e /\ request'[r].posted = 0
       /\ request'[r].pc \in {"post", "done"}
       /\ request' \in [Requests -> RequestType]
  BY <1>1, <1>2 DEF DeliveryTypeOK, RequestType, e
<1>3. \/ /\ request'[r].pc = "done" /\ reserved' = reserved /\ cut' = cut
      \/ /\ request'[r].pc = "done" /\ reserved' = reserved \cup {e} /\ e \notin reserved
         /\ cut \ {e} \subseteq cut' /\ cut' \subseteq Events
         /\ RouteOf(e) = <<>> \/ e \in cut'
      \/ /\ request'[r].pc = "post" /\ reserved' = reserved \cup {e} /\ e \notin reserved
         /\ cut' = cut \ {e} /\ RouteOf(e) # <<>>
  <2>1. request'[r].pc = pc
    BY <1>2 DEF DeliveryTypeOK, RequestType
  <2>2. cut \subseteq Events
    BY DEF DeliveryTypeOK
  <2>3. QED
    BY <1>1, <1>2, <2>1, <2>2
<1>4. DeliveryTypeOK'
  BY <1>1, <1>20, <1>3 DEF DeliveryTypeOK
<1>5. \A q \in Requests \ {r}, d \in Events : Holds(q, d)' <=> Holds(q, d)
  BY <1>20 DEF Holds
<1>6. \A d \in Events : Holds(r, d)' <=> request'[r].pc = "post" /\ d = e
  BY <1>20 DEF Holds
<1>7. HoldsAlone'
  BY <1>3, <1>5, <1>6 DEF HoldsAlone
<1>8. Len(RouteOf(e)) \in Nat /\ (RouteOf(e) = <<>> <=> Len(RouteOf(e)) = 0)
  BY <1>1, RouteIsShort DEF RouteOf
<1>9. Posted(r)' /\ MayBePosted(r)'
  <2>1. CASE request'[r].pc = "done"
    BY <2>1 DEF Posted, MayBePosted
  <2>2. CASE request'[r].pc = "post"
    <3>1. RouteOf(e) # <<>> /\ e \notin reserved
      BY <1>3, <2>2
    <3>2. \A u \in Upstreams : received'[e][u] <= excused'[e]
      BY <1>1, <3>1 DEF OnTheirWay, Settled
    <3>3. /\ Len(Route(kind'[e])) \in Nat /\ 0 < Len(Route(kind'[e]))
          /\ \A i \in 1..Len(Route(kind'[e])) : Route(kind'[e])[i] \in Upstreams
      BY <1>1, <3>1, RouteIsShort DEF RouteOf
    <3>4. Posted(r)'
      BY <1>20, <3>3 DEF Posted, RouteOf
    <3>5. MayBePosted(r)'
      BY <1>20, <2>2, <3>2, <3>3 DEF MayBePosted, RouteOf
    <3>6. QED
      BY <3>4, <3>5
  <2>3. QED
    BY <1>20, <2>1, <2>2
<1>10. OnTheirWay'
  <2>1. \A d \in Events \ reserved' : Settled(d)'
    BY <1>1, <1>3 DEF OnTheirWay, Settled
  <2>2. \A q \in Requests \ {r} : Posted(q)' /\ MayBePosted(q)'
    BY <1>1, <1>20, Undisturbed DEF OnTheirWay
  <2>3. QED
    BY <1>9, <2>1, <2>2 DEF OnTheirWay
<1>11. ForwardedOnce'
  <2>1. \A d \in Events : Missing(d)' <=> Missing(d)
    BY <1>1 DEF Missing
  <2>2. ASSUME NEW d \in reserved', Missing(d) PROVE UnderWay(d)' \/ d \in cut'
    <3>1. CASE d = e /\ request'[r].pc = "post"
      BY <1>20, <3>1 DEF UnderWay
    <3>2. CASE d = e /\ reserved' # reserved /\ request'[r].pc = "done"
      BY <1>3, <1>8, <2>2, <3>2 DEF Missing, RouteOf
    <3>3. CASE d # e \/ reserved' = reserved
      <4>1. d \in reserved /\ (d \in cut => d \in cut')
        BY <1>3, <3>3
      <4>2. UnderWay(d) => UnderWay(d)'
        BY <1>1, <1>20 DEF UnderWay
      <4>3. QED
        BY <2>2, <4>1, <4>2 DEF ForwardedOnce
    <3>4. QED
      BY <1>20, <1>3, <3>1, <3>2, <3>3
  <2>3. reserved' \subseteq Events
    BY <1>4 DEF DeliveryTypeOK
  <2>4. QED
    BY <1>1, <2>1, <2>2, <2>3 DEF ForwardedOnce
<1>12. QED
  BY <1>4, <1>7, <1>10, <1>11

(* A post that is accepted, or a post that failed, accepted or not.        *)
LEMMA PostKeeps ==
  ASSUME DeliveryInv, NEW r \in Requests, Post(r) \/ FailPost(r)
  PROVE  DeliveryInv'
<1> USE DEF DeliveryInv
<1>a. request[r] \in RequestType /\ request[r].event \in Events
  BY DEF Post, FailPost, DeliveryTypeOK
<1>b. PICK e \in Events : e = request[r].event
  BY <1>a
<1>c. PICK i \in Nat : i = request[r].posted + 1
  BY <1>a DEF RequestType
<1>d. PICK u : u = RouteOf(e)[i]
  OBVIOUS
<1>1. /\ e \in Events /\ request[r].pc = "post" /\ Holds(r, e)
      /\ kind[e] \in Kinds /\ request[r].posted \in Nat
      /\ UNCHANGED <<kind, reserved, cut>>
      /\ received \in [Events -> [Upstreams -> Nat]] /\ excused \in [Events -> Nat]
  BY <1>b DEF Post, FailPost, DeliveryTypeOK, RequestType, Holds
<1>2. /\ Len(RouteOf(e)) \in Nat /\ i \in 1..Len(RouteOf(e)) /\ u \in Upstreams
      /\ \A j \in 1..Len(RouteOf(e)) : RouteOf(e)[j] \in Upstreams
      /\ \A j \in 1..Len(RouteOf(e)) : j # i => RouteOf(e)[j] # u
  <2>1. request[r].posted < Len(RouteOf(e))
    BY <1>1, <1>b DEF OnTheirWay, Posted
  <2>2. /\ Len(RouteOf(e)) \in Nat
        /\ \A j \in 1..Len(RouteOf(e)) : RouteOf(e)[j] \in Upstreams
        /\ \A j, k \in 1..Len(RouteOf(e)) : RouteOf(e)[j] = RouteOf(e)[k] => j = k
    BY <1>1, RouteIsShort DEF RouteOf
  <2>3. i \in 1..Len(RouteOf(e))
    BY <1>1, <1>c, <2>1, <2>2
  <2>4. QED
    BY <1>d, <2>2, <2>3
<1>3. \/ /\ excused' = excused /\ received' = [received EXCEPT ![e][u] = @ + 1]
         /\ \/ request' = [request EXCEPT ![r].pc = "done", ![r].posted = i] /\ i = Len(RouteOf(e))
            \/ request' = [request EXCEPT ![r].posted = i] /\ i # Len(RouteOf(e))
      \/ /\ excused' = [excused EXCEPT ![e] = @ + 1]
         /\ received' = received \/ received' = [received EXCEPT ![e][u] = @ + 1]
         /\ request' = [request EXCEPT ![r].pc = "release"]
  <2>1. CASE Post(r)
    BY <1>1, <1>b, <1>c, <1>d, <2>1 DEF Post, Accepted, Target, RouteOf, AfterPost, DeliveryTypeOK, RequestType
  <2>2. CASE FailPost(r)
    BY <1>b, <1>c, <1>d, <2>2 DEF FailPost, Accepted, Target, RouteOf, AfterFailedPost, Excused
  <2>3. QED
    BY <2>1, <2>2
<1>4. /\ received[e][u] <= excused[e]
      /\ \A v \in Upstreams : received[e][v] <= 1 + excused[e]
  <2>1. i \in (request[r].posted + 1)..Len(RouteOf(e))
    BY <1>1, <1>2, <1>c
  <2>2. MayBePosted(r)
    BY DEF OnTheirWay
  <2>3. QED
    BY <1>1, <1>b, <1>d, <2>1, <2>2 DEF MayBePosted, ForwardedOnce
<1>5. /\ \A j \in 1..request[r].posted : received[e][RouteOf(e)[j]] > 0
      /\ \A j \in i..Len(RouteOf(e)) : received[e][RouteOf(e)[j]] <= excused[e]
  <2>1. Posted(r) /\ MayBePosted(r)
    BY DEF OnTheirWay
  <2>2. \A j \in 1..request[r].posted : received[e][RouteOf(e)[j]] > 0
    BY <1>1, <1>b, <2>1 DEF Posted
  <2>3. \A j \in i..Len(RouteOf(e)) : received[e][RouteOf(e)[j]] <= excused[e]
    BY <1>1, <1>b, <1>c, <2>1 DEF MayBePosted
  <2>4. QED
    BY <2>2, <2>3
<1>6. /\ received' \in [Events -> [Upstreams -> Nat]] /\ excused' \in [Events -> Nat]
      /\ \A d \in Events \ {e} : received'[d] = received[d] /\ excused'[d] = excused[d]
      /\ \A v \in Upstreams \ {u} : received'[e][v] = received[e][v]
      /\ received'[e][u] \in {received[e][u], received[e][u] + 1}
      /\ excused'[e] \in {excused[e], excused[e] + 1}
  <2>1. received' = received \/ received' = [received EXCEPT ![e][u] = @ + 1]
    BY <1>3
  <2>2. excused' = excused \/ excused' = [excused EXCEPT ![e] = @ + 1]
    BY <1>3
  <2>3. /\ excused' \in [Events -> Nat] /\ excused'[e] \in {excused[e], excused[e] + 1}
        /\ \A d \in Events \ {e} : excused'[d] = excused[d]
    BY <1>1, <2>2
  <2>4. CASE received' = received
    BY <1>1, <2>3, <2>4
  <2>5. CASE received' = [received EXCEPT ![e][u] = @ + 1]
    <3>1. /\ received[e] \in [Upstreams -> Nat] /\ received[e][u] \in Nat
          /\ received' = [received EXCEPT ![e] = [received[e] EXCEPT ![u] = received[e][u] + 1]]
      <4>1. received[e] \in [Upstreams -> Nat] /\ received[e][u] \in Nat
        BY <1>1, <1>2
      <4>2. QED
        BY <4>1, <2>5
    <3>2. [received[e] EXCEPT ![u] = received[e][u] + 1] \in [Upstreams -> Nat]
      <4>1. \A f \in [Upstreams -> Nat], n \in Nat : [f EXCEPT ![u] = n + 1] \in [Upstreams -> Nat]
        BY <1>2
      <4>2. QED
        BY <3>1, <4>1
    <3>3. received' \in [Events -> [Upstreams -> Nat]]
      BY <1>1, <3>1, <3>2
    <3>4. \A d \in Events \ {e} : received'[d] = received[d]
      BY <1>1, <3>1
    <3>5. received'[e] = [received[e] EXCEPT ![u] = received[e][u] + 1]
      BY <1>1, <3>1
    <3>6. /\ \A v \in Upstreams \ {u} : received'[e][v] = received[e][v]
          /\ received'[e][u] = received[e][u] + 1
      BY <1>2, <3>1, <3>5
    <3>7. QED
      BY <2>3, <3>3, <3>4, <3>6
  <2>6. QED
    BY <2>1, <2>4, <2>5
<1>7. /\ \A q \in Requests \ {r} : request'[q] = request[q]
      /\ request' \in [Requests -> RequestType]
      /\ request'[r].event = e
  <2>1. request \in [Requests -> RequestType] /\ request[r].event = e
    BY <1>b DEF DeliveryTypeOK
  <2>2. \/ request' = [request EXCEPT ![r].pc = "done", ![r].posted = i]
        \/ request' = [request EXCEPT ![r].posted = i]
        \/ request' = [request EXCEPT ![r].pc = "release"]
    BY <1>3
  <2>3. QED
    BY <1>c, <1>d, <2>1, <2>2 DEF RequestType
<1>8. \/ request'[r].pc = "done" /\ i = Len(RouteOf(e)) /\ received'[e][u] = received[e][u] + 1
      \/ /\ request'[r].pc = "post" /\ request'[r].posted = i /\ i < Len(RouteOf(e))
         /\ received'[e][u] = received[e][u] + 1 /\ excused' = excused
      \/ request'[r].pc = "release" /\ excused'[e] = excused[e] + 1
  <2>1. /\ request \in [Requests -> RequestType]
        /\ received \in [Events -> [Upstreams -> Nat]] /\ excused \in [Events -> Nat]
    BY DEF DeliveryTypeOK
  <2>2. QED
    BY <1>1, <1>2, <1>3, <1>c, <1>d, <2>1 DEF RequestType
<1>9. DeliveryTypeOK'
  BY ZenonT(30), <1>1, <1>6, <1>7, <1>8 DEF DeliveryTypeOK
<1>10. HoldsAlone'
  <2>1. \A q \in Requests \ {r}, d \in Events : Holds(q, d)' <=> Holds(q, d)
    BY <1>7 DEF Holds
  <2>2. \A d \in Events : Holds(r, d)' => Holds(r, d)
    BY <1>1, <1>7 DEF Holds
  <2>3. QED
    BY <1>1, <2>1, <2>2 DEF HoldsAlone
<1>11. \A d \in Events : RouteOf(d)' = RouteOf(d)
  BY <1>1 DEF RouteOf
<1>12. ASSUME NEW q \in Requests \ {r} PROVE Posted(q)' /\ MayBePosted(q)'
  <2>1. CASE request[q].pc \in {"post", "release"}
    <3>1. request[q].event \in Events \ {e}
      BY <1>1, <2>1 DEF HoldsAlone, Holds, DeliveryTypeOK
    <3>2. QED
      BY <1>1, <1>6, <1>7, <3>1, Undisturbed DEF OnTheirWay
  <2>2. CASE request[q].pc \notin {"post", "release"}
    BY <1>7, <2>2 DEF Posted, MayBePosted
  <2>3. QED
    BY <2>1, <2>2
<1>13. Posted(r)'
  <2>1. SUFFICES ASSUME request'[r].pc = "post"
                 PROVE  /\ i < Len(RouteOf(e))
                        /\ \A j \in 1..i : received'[e][RouteOf(e)[j]] > 0
    BY <1>1, <1>7, <1>8, <1>11 DEF Posted
  <2>2. i < Len(RouteOf(e)) /\ received'[e][u] = received[e][u] + 1
    BY <1>8, <2>1
  <2>3. received'[e][u] > 0
    BY <1>1, <1>2, <2>2
  <2>4. \A j \in 1..request[r].posted : received'[e][RouteOf(e)[j]] > 0
    <3>1. ASSUME NEW j \in 1..request[r].posted PROVE received'[e][RouteOf(e)[j]] > 0
      <4>1. j \in 1..Len(RouteOf(e)) /\ j # i
        BY <1>1, <1>2, <1>c, <1>d
      <4>2. QED
        BY <1>2, <1>5, <1>6, <4>1
    <3>2. QED
      BY <3>1
  <2>5. \A j \in 1..i : j = i \/ j \in 1..request[r].posted
    BY <1>1, <1>c, <1>d
  <2>6. QED
    BY <1>c, <1>d, <2>2, <2>3, <2>4, <2>5
<1>14. MayBePosted(r)'
  <2>1. ASSUME request'[r].pc = "release" PROVE Settled(e)'
    <3>1. excused'[e] = excused[e] + 1
      BY <1>8, <2>1
    <3>2. ASSUME NEW v \in Upstreams PROVE received'[e][v] <= excused'[e]
      <4>1. received[e][v] \in Nat /\ received[e][u] \in Nat /\ excused[e] \in Nat
        BY <1>1, <1>2
      <4>2. received[e][v] <= 1 + excused[e] /\ received[e][u] <= excused[e]
        BY <1>4
      <4>3. CASE v = u
        <5>1. received'[e][u] \in {received[e][u], received[e][u] + 1}
          BY <1>6
        <5>2. QED
          BY <3>1, <4>1, <4>2, <4>3, <5>1
      <4>4. CASE v # u
        BY <1>6, <3>1, <4>1, <4>2, <4>4
      <4>5. QED
        BY <4>3, <4>4
    <3>3. QED
      BY <3>2 DEF Settled
  <2>2. ASSUME request'[r].pc = "post", NEW j \in (i + 1)..Len(RouteOf(e))
        PROVE  received'[e][RouteOf(e)[j]] <= excused'[e]
    <3>1. j \in i..Len(RouteOf(e)) /\ j \in 1..Len(RouteOf(e)) /\ j # i
      BY SMTT(30), <1>1, <1>2, <1>c, <1>d, <2>2
    <3>2. RouteOf(e)[j] \in Upstreams \ {u}
      BY <1>2, <3>1
    <3>3. excused' = excused
      BY <1>8, <2>2
    <3>4. QED
      BY <1>5, <1>6, <3>1, <3>2, <3>3
  <2>3. request'[r].pc = "post" => request'[r].posted = i
    BY <1>8
  <2>4. QED
    <3>1. request'[r].event = e /\ RouteOf(e)' = Route(kind'[e]) /\ RouteOf(e) = Route(kind'[e])
      BY <1>1, <1>7 DEF RouteOf
    <3>2. request'[r].pc = "post" =>
             \A j \in (request'[r].posted + 1)..Len(Route(kind'[e])) :
                 received'[e][Route(kind'[e])[j]] <= excused'[e]
      BY <2>2, <2>3, <3>1
    <3>3. QED
      BY <2>1, <3>1, <3>2 DEF MayBePosted, RouteOf
<1>15. OnTheirWay'
  <2>1. ASSUME NEW d \in Events \ reserved' PROVE Settled(d)'
    <3>1. d # e /\ Settled(d)
      BY <1>1, <2>1 DEF HoldsAlone, OnTheirWay
    <3>2. QED
      BY <1>6, <3>1 DEF Settled
  <2>2. QED
    BY <1>12, <1>13, <1>14, <2>1 DEF OnTheirWay
<1>16. ForwardedOnce'
  <2>1. ASSUME NEW d \in Events, NEW v \in Upstreams PROVE received'[d][v] <= 1 + excused'[d]
    <3>1. CASE d # e
      BY <1>6, <3>1 DEF ForwardedOnce
    <3>2. CASE d = e
      <4>1. received[e][v] \in Nat /\ excused[e] \in Nat /\ received[e][u] \in Nat
        BY <1>1, <1>2
      <4>2. QED
        BY <1>4, <1>6, <3>2, <4>1
    <3>3. QED
      BY <3>1, <3>2
  <2>2. ASSUME NEW d \in reserved, Missing(d)' PROVE UnderWay(d)' \/ d \in cut
    <3>1. d \in Events
      BY DEF DeliveryTypeOK
    <3>2. CASE d # e
      <4>1. received'[d] = received[d]
        BY <1>6, <3>1, <3>2
      <4>2. Missing(d)
        BY <1>1, <2>2, <4>1 DEF Missing
      <4>3. UnderWay(d) => UnderWay(d)'
        BY <1>1, <1>7, <1>b, <3>2 DEF UnderWay
      <4>4. QED
        BY <2>2, <4>2, <4>3 DEF ForwardedOnce
    <3>3. CASE d = e /\ request'[r].pc \in {"post", "release"}
      BY <1>7, <3>3 DEF UnderWay
    <3>4. CASE d = e /\ request'[r].pc = "done"
      <4>1. i = Len(RouteOf(e)) /\ received'[e][u] = received[e][u] + 1
        BY <1>8, <3>4
      <4>2. ASSUME NEW j \in 1..Len(RouteOf(e)) PROVE received'[e][RouteOf(e)[j]] > 0
        <5>1. CASE j = i
          BY <1>1, <1>2, <1>c, <1>d, <4>1, <5>1
        <5>2. CASE j # i
          <6>1. j \in 1..request[r].posted /\ RouteOf(e)[j] \in Upstreams \ {u}
            BY <1>1, <1>2, <1>c, <1>d, <4>1, <5>2
          <6>2. QED
            BY <1>5, <1>6, <6>1
        <5>3. QED
          BY <5>1, <5>2
      <4>3. ~Missing(e)'
        BY <1>1, <4>2 DEF Missing, RouteOf
      <4>4. QED
        BY <2>2, <3>4, <4>3
    <3>5. QED
      BY <1>8, <3>2, <3>3, <3>4
  <2>3. QED
    BY <1>1, <2>1, <2>2 DEF ForwardedOnce
<1>17. QED
  BY <1>9, <1>10, <1>15, <1>16

(* The reservation is given back, or left behind.                          *)
LEMMA RequestEndKeeps ==
  ASSUME DeliveryInv, NEW r \in Requests, Release(r) \/ LeaveBehind(r)
  PROVE  DeliveryInv'
<1> DEFINE e == request[r].event
<1> USE DEF DeliveryInv
<1>1. /\ e \in Events /\ Holds(r, e)
      /\ UNCHANGED <<kind, received, excused>>
  BY DEF Release, LeaveBehind, DeliveryTypeOK, Holds
<1>2. /\ \A q \in Requests \ {r} : request'[q] = request[q]
      /\ request'[r].event = e /\ request'[r].pc = "done"
      /\ request' \in [Requests -> RequestType]
  BY SMTT(30) DEF Release, LeaveBehind, Ended, DeliveryTypeOK, RequestType
<1>3. \/ reserved' = reserved \ {e} /\ cut' = cut /\ request[r].pc = "release"
      \/ reserved' = reserved /\ cut' = cut \cup {e}
  BY DEF Release, LeaveBehind
<1>4. DeliveryTypeOK'
  BY <1>1, <1>2, <1>3 DEF DeliveryTypeOK
<1>5. /\ \A q \in Requests \ {r}, d \in Events : Holds(q, d)' <=> Holds(q, d)
      /\ \A d \in Events : ~Holds(r, d)'
  BY <1>2 DEF Holds
<1>6. HoldsAlone'
  BY <1>1, <1>3, <1>5 DEF HoldsAlone
<1>7. Posted(r)' /\ MayBePosted(r)'
  BY <1>2 DEF Posted, MayBePosted
<1>8. OnTheirWay'
  <2>1. \A d \in Events \ reserved' : Settled(d)
    BY <1>1, <1>3 DEF OnTheirWay, MayBePosted
  <2>2. \A d \in Events : Settled(d)' <=> Settled(d)
    BY <1>1 DEF Settled
  <2>3. \A q \in Requests \ {r} : Posted(q)' /\ MayBePosted(q)'
    BY <1>1, <1>2, Undisturbed DEF OnTheirWay
  <2>4. QED
    BY <1>7, <2>1, <2>2, <2>3, <1>4 DEF OnTheirWay
<1>9. ForwardedOnce'
  <2>1. ASSUME NEW d \in reserved', Missing(d) PROVE UnderWay(d)' \/ d \in cut'
    BY <1>2, <1>3, <2>1 DEF ForwardedOnce, UnderWay
  <2>2. \A d \in Events : Missing(d)' <=> Missing(d)
    BY <1>1 DEF Missing
  <2>3. reserved' \subseteq Events
    BY <1>4 DEF DeliveryTypeOK
  <2>4. QED
    BY <1>1, <2>1, <2>2, <2>3 DEF ForwardedOnce
<1>10. QED
  BY <1>4, <1>6, <1>8, <1>9

LEMMA ExpireKeeps ==
  ASSUME DeliveryInv, NEW e \in Events, ExpireReservation(e)
  PROVE  DeliveryInv'
<1> USE DEF DeliveryInv
<1>1. /\ UNCHANGED <<kind, request, received, cut>>
      /\ reserved' = reserved \ {e}
      /\ excused' = [excused EXCEPT ![e] = @ + 1]
      /\ \A r \in Requests : ~Holds(r, e)
      /\ excused \in [Events -> Nat] /\ received \in [Events -> [Upstreams -> Nat]]
  BY DEF ExpireReservation, Excused, Holds, DeliveryTypeOK
<1>2. /\ \A d \in Events : excused'[d] = IF d = e THEN excused[d] + 1 ELSE excused[d]
      /\ excused' \in [Events -> Nat]
  BY <1>1
<1>3. DeliveryTypeOK'
  BY <1>1, <1>2 DEF DeliveryTypeOK
<1>4. HoldsAlone'
  BY <1>1 DEF HoldsAlone, Holds
<1>5. ASSUME NEW q \in Requests PROVE Posted(q)' /\ MayBePosted(q)'
  <2>1. CASE request[q].pc \in {"post", "release"}
    <3>1. request[q].event \in Events \ {e}
      BY <1>1, <2>1 DEF Holds, DeliveryTypeOK
    <3>2. QED
      BY <1>1, <1>2, <3>1, Undisturbed DEF OnTheirWay
  <2>2. CASE request[q].pc \notin {"post", "release"}
    BY <1>1, <2>2 DEF Posted, MayBePosted
  <2>3. QED
    BY <2>1, <2>2
<1>6. OnTheirWay'
  <2>1. \A u \in Upstreams : received[e][u] <= 1 + excused[e]
    BY DEF ForwardedOnce
  <2>2. Settled(e)'
    BY <1>1, <1>2, <2>1 DEF Settled
  <2>3. \A d \in Events \ {e} : Settled(d)' <=> Settled(d)
    BY <1>1, <1>2 DEF Settled
  <2>4. \A d \in Events \ reserved' : Settled(d)'
    BY <1>1, <2>2, <2>3 DEF OnTheirWay
  <2>5. QED
    BY <1>5, <2>4 DEF OnTheirWay
<1>7. ForwardedOnce'
  <2>1. \A d \in Events : /\ Missing(d)' <=> Missing(d)
                          /\ UnderWay(d)' <=> UnderWay(d)
    BY <1>1 DEF Missing, UnderWay
  <2>2. \A d \in Events, u \in Upstreams : received'[d][u] <= 1 + excused'[d]
    BY <1>1, <1>2 DEF ForwardedOnce
  <2>3. reserved \subseteq Events
    BY DEF DeliveryTypeOK
  <2>4. QED
    BY <1>1, <2>1, <2>2, <2>3 DEF ForwardedOnce
<1>8. QED
  BY <1>3, <1>4, <1>6, <1>7

LEMMA OtherKeepsDelivery ==
  ASSUME DeliveryInv, UNCHANGED deliveryVars
  PROVE  DeliveryInv'
BY DEF DeliveryInv, DeliveryTypeOK, HoldsAlone, OnTheirWay, Posted, MayBePosted, ForwardedOnce,
       Holds, Settled, RouteOf, UnderWay, Missing, deliveryVars

LEMMA DeliveryInvariant == GatewaySpec => []DeliveryInv
<1>1. ASSUME DeliveryInv, [GatewayNext]_gatewayVars PROVE DeliveryInv'
  <2>1. CASE DeliveryNext
    BY <1>1, <2>1, DeliverKeeps, ReserveKeeps, PostKeeps, RequestEndKeeps, ExpireKeeps
       DEF DeliveryNext, Forward
  <2>2. CASE ChatNext
    <3>1. UNCHANGED deliveryVars
      BY <2>2 DEF ChatNext, SendMessage, AskForSlot, TakeSlot, GiveUpSlot, SendToChat, FreeSlot,
                  StopSender, EndLease
    <3>2. QED
      BY <1>1, <3>1, OtherKeepsDelivery
  <2>3. CASE UNCHANGED gatewayVars
    <3>1. UNCHANGED deliveryVars
      BY <2>3 DEF gatewayVars, deliveryVars
    <3>2. QED
      BY <1>1, <3>1, OtherKeepsDelivery
  <2>4. QED
    BY <1>1, <2>1, <2>2, <2>3 DEF GatewayNext
<1>2. QED
  BY InitDelivery, <1>1, PTL DEF GatewaySpec

(* What reaches the gateway is passed on, and once, for any number of      *)
(* events and deliveries, whatever fails and is delivered again.           *)
THEOREM DeliveriesForwardedOnce == GatewaySpec => []ForwardedOnce
<1>1. DeliveryInv => ForwardedOnce
  BY DEF DeliveryInv
<1>2. QED
  BY DeliveryInvariant, <1>1, PTL

----------------------------------------------------------------------------
(* The chat slot.                                                          *)

SenderStates == {"idle", "waiting", "sending", "pausing"}
SlotInv ==
    /\ sender \in [Senders -> SenderStates]
    /\ lapsed \in BOOLEAN
    /\ ~lapsed => InSlot \subseteq slot
    /\ \A s, t \in slot : s = t

LEMMA SlotInvariant == GatewaySpec => []SlotInv
<1>1. GatewayInit => SlotInv
  BY DEF GatewayInit, SlotInv, SenderStates, InSlot
<1>2. ASSUME SlotInv, [GatewayNext]_gatewayVars PROVE SlotInv'
  <2>1. ASSUME UNCHANGED chatVars PROVE SlotInv'
    BY <1>2, <2>1 DEF SlotInv, InSlot, chatVars
  <2>2. ASSUME NEW s \in Senders, TakeSlot(s) PROVE SlotInv'
    <3>1. slot' = {s} /\ slot = {} /\ lapsed' = lapsed
      BY <2>2 DEF TakeSlot, MayTakeSlot
    <3>2. /\ sender' \in [Senders -> SenderStates]
          /\ \A t \in Senders \ {s} : sender'[t] = sender[t]
      BY <1>2, <2>2 DEF TakeSlot, SlotInv, SenderStates
    <3>3. QED
      BY <1>2, <3>1, <3>2 DEF SlotInv, InSlot
  <2>3. ASSUME NEW s \in Senders, FreeSlot(s) PROVE SlotInv'
    <3>1. slot' \in {{}, slot} /\ lapsed' = (lapsed /\ InSlot' # {}) /\ s \in InSlot
      BY <2>3 DEF FreeSlot, LapseEnds, InSlot
    <3>2. sender' \in [Senders -> SenderStates] /\ InSlot' = InSlot \ {s}
      BY <1>2, <2>3 DEF FreeSlot, SlotInv, SenderStates, InSlot
    <3>3. ~lapsed' => InSlot' = {}
      BY <1>2, <3>1, <3>2 DEF SlotInv
    <3>4. QED
      BY <1>2, <3>1, <3>2, <3>3 DEF SlotInv
  <2>4. ASSUME NEW s \in Senders,
               AskForSlot(s) \/ GiveUpSlot(s) \/ SendToChat(s) \/ StopSender(s)
        PROVE  SlotInv'
    <3>1. /\ slot' = slot
          /\ sender' \in [Senders -> SenderStates]
          /\ InSlot' \subseteq InSlot
      BY <1>2, <2>4 DEF AskForSlot, GiveUpSlot, SendToChat, AfterSend, StopSender, SlotInv,
                        SenderStates, InSlot
    <3>2. lapsed' = lapsed \/ lapsed' = (lapsed /\ InSlot' # {})
      BY <2>4 DEF AskForSlot, GiveUpSlot, SendToChat, StopSender, LapseEnds
    <3>3. QED
      BY <1>2, <3>1, <3>2 DEF SlotInv
  <2>5. ASSUME EndLease PROVE SlotInv'
    <3>1. slot' = {} /\ sender' = sender /\ InSlot' = InSlot
      BY <2>5 DEF EndLease, InSlot
    <3>2. lapsed' \in BOOLEAN /\ (~lapsed' => InSlot = {})
      BY <1>2, <2>5 DEF EndLease, SlotInv
    <3>3. QED
      BY <1>2, <3>1, <3>2 DEF SlotInv
  <2>6. CASE DeliveryNext
    <3>1. UNCHANGED chatVars
      BY <2>6 DEF DeliveryNext, Deliver, Forward, Reserve, FailReservation, Post, FailPost,
                  Release, LeaveBehind, ExpireReservation
    <3>2. QED
      BY <2>1, <3>1
  <2>7. CASE UNCHANGED gatewayVars
    BY <2>1, <2>7 DEF gatewayVars, chatVars
  <2>8. QED
    BY <1>2, <2>2, <2>3, <2>4, <2>5, <2>6, <2>7 DEF GatewayNext, ChatNext, SendMessage
<1>3. QED
  BY <1>1, <1>2, PTL DEF GatewaySpec

(* One message at a time is sent to Chat, for any number of threads, until *)
(* a lease ends under its holder, and again from when the slot is empty.   *)
THEOREM MessagesGoAlone == GatewaySpec => []OneMessageAtATime
<1>1. ASSUME SlotInv PROVE OneMessageAtATime
  <2>1. SUFFICES ASSUME ~lapsed PROVE Cardinality(InSlot) <= 1
    BY DEF OneMessageAtATime
  <2>2. \A s, t \in InSlot : s = t
    BY <1>1, <2>1 DEF SlotInv
  <2>3. CASE InSlot = {}
    BY <2>3, FS_EmptySet
  <2>4. CASE InSlot # {}
    <3>1. PICK s \in InSlot : TRUE
      BY <2>4
    <3>2. InSlot = {s}
      BY <2>2, <3>1
    <3>3. Cardinality({s}) = 1
      BY FS_Singleton
    <3>4. QED
      BY <3>2, <3>3
  <2>5. QED
    BY <2>3, <2>4
<1>2. QED
  BY SlotInvariant, <1>1, PTL

SlotHolders == slot \subseteq Senders /\ Cardinality(slot) <= 1

LEMMA OneHolder == ASSUME NEW s PROVE Cardinality({s}) <= 1 /\ Cardinality({}) <= 1
<1>1. Cardinality({s}) = 1
  BY FS_Singleton
<1>2. Cardinality({}) = 0
  BY FS_EmptySet
<1>3. QED
  BY <1>1, <1>2

LEMMA SlotHoldersStep ==
  ASSUME SlotHolders, [GatewayNext]_gatewayVars PROVE SlotHolders'
<1>1. CASE UNCHANGED slot
  BY <1>1 DEF SlotHolders
<1>2. CASE slot' = {}
  BY <1>2, OneHolder DEF SlotHolders
<1>3. ASSUME NEW s \in Senders, TakeSlot(s) PROVE SlotHolders'
  BY <1>3, OneHolder DEF TakeSlot, SlotHolders
<1>4. slot' \in {{}, slot} \/ \E s \in Senders : TakeSlot(s)
  <2>1. DeliveryNext => UNCHANGED slot
    BY DEF DeliveryNext, Deliver, Forward, Reserve, FailReservation, Post, FailPost, Release,
           LeaveBehind, ExpireReservation, chatVars
  <2>2. ChatNext => slot' \in {{}, slot} \/ \E s \in Senders : TakeSlot(s)
    BY DEF ChatNext, SendMessage, AskForSlot, GiveUpSlot, SendToChat, FreeSlot, StopSender, EndLease
  <2>3. QED
    BY <2>1, <2>2 DEF GatewayNext, gatewayVars
<1>5. QED
  BY <1>1, <1>2, <1>3, <1>4

(* Every variable of the gateway has its type, and no lease of the slot is *)
(* there with another.                                                     *)
THEOREM GatewayTypeCorrect == GatewaySpec => []GatewayTypeOK
<1>1. DeliveryInv /\ SlotInv /\ SlotHolders => GatewayTypeOK
  BY DEF DeliveryInv, DeliveryTypeOK, SlotInv, SenderStates, SlotHolders, GatewayTypeOK
<1>2. GatewayInit => SlotHolders
  BY OneHolder DEF GatewayInit, SlotHolders
<1>3. GatewaySpec => []SlotHolders
  BY <1>2, SlotHoldersStep, PTL DEF GatewaySpec
<1>4. QED
  BY <1>1, <1>3, DeliveryInvariant, SlotInvariant, PTL

----------------------------------------------------------------------------
(* ArtifactStore: types only, what it promises is for TLC.                 *)

(* A process that deletes is at one of the three files.                    *)
AtAFile ==
    \A p \in Processes : deleting[p] = Idle \/ deleting[p].next \in 1..3
ArtifactInv == ArtifactTypeOK /\ AtAFile

LEMMA OrderLength == Len(DeletionOrder) = 3
BY DEF DeletionOrder

DeletionType == [artifact : Artifacts \cup {"none"}, next : 0..3]

LEMMA IdleTyped == Idle \in DeletionType
BY DEF Idle, DeletionType

LEMMA InitArtifact == ArtifactInit => ArtifactInv
<1> SUFFICES ASSUME ArtifactInit PROVE ArtifactInv
  OBVIOUS
<1>1. deleting \in [Processes -> DeletionType] /\ \A p \in Processes : deleting[p] = Idle
  BY IdleTyped DEF ArtifactInit
<1>2. stops \in 0..MaxStops
  BY ArtifactAssumption DEF ArtifactInit
<1>3. QED
  BY <1>1, <1>2 DEF ArtifactInit, ArtifactInv, ArtifactTypeOK, AtAFile, DeletionType

(* A deletion that begins is at the first file.                            *)
LEMMA BeginDeletionTyped ==
  ASSUME deleting \in [Processes -> DeletionType], AtAFile,
         NEW p \in Processes, NEW a \in Artifacts, BeginDeletion(p, a)
  PROVE  deleting' \in [Processes -> DeletionType] /\ AtAFile'
<1> DEFINE d == [artifact |-> a, next |-> 1]
<1>1. d \in DeletionType /\ d.next \in 1..3
  BY DEF DeletionType
<1>2. deleting' = [deleting EXCEPT ![p] = d]
  BY DEF BeginDeletion
<1> HIDE DEF d
<1>3. QED
  BY <1>1, <1>2 DEF AtAFile

LEMMA UnlinkTyped ==
  ASSUME ArtifactInv, NEW p \in Processes, Unlink(p) PROVE ArtifactInv'
<1>1. PICK d \in DeletionType : d = deleting[p]
  BY DEF ArtifactInv, ArtifactTypeOK, DeletionType
<1>2. d # Idle /\ d.next \in 1..3
  BY <1>1 DEF Unlink, ArtifactInv, AtAFile
<1>3. PICK e \in DeletionType :
         /\ deleting' = [deleting EXCEPT ![p] = e]
         /\ e = Idle \/ e.next \in 1..3
  <2>1. CASE d.next = 3
    BY <1>1, <2>1, OrderLength, IdleTyped DEF Unlink
  <2>2. CASE d.next # 3
    <3>1. [d EXCEPT !.next = d.next + 1] \in DeletionType /\ [d EXCEPT !.next = d.next + 1].next \in 1..3
      BY <1>2, <2>2 DEF DeletionType
    <3>2. deleting' = [deleting EXCEPT ![p] = [d EXCEPT !.next = d.next + 1]]
      BY <1>1, <2>2, OrderLength DEF Unlink
    <3>3. QED
      BY <3>1, <3>2
  <2>3. QED
    BY <2>1, <2>2
<1>4. deleting' \in [Processes -> DeletionType] /\ AtAFile'
  BY <1>3 DEF ArtifactInv, ArtifactTypeOK, AtAFile, DeletionType
<1>5. files' \in [Artifacts -> SUBSET {"part", "bin", "evidence", "json"}]
  <2>1. PICK x, y : files' = [files EXCEPT ![x] = @ \ {y}]
    BY DEF Unlink
  <2>2. QED
    BY <2>1 DEF ArtifactInv, ArtifactTypeOK
<1>6. QED
  BY <1>4, <1>5 DEF Unlink, ArtifactInv, ArtifactTypeOK, DeletionType

LEMMA StoreTyped ==
  ASSUME ArtifactInv, NEW a \in Artifacts, Store(a) \/ Expire(a) PROVE ArtifactInv'
<1>1. PICK u \in {"receiving", "moved", "described", "stored", "over"},
           F \in SUBSET {"part", "bin", "evidence", "json"} :
         /\ upload' = [upload EXCEPT ![a] = u] \/ upload' = upload
         /\ files' = [files EXCEPT ![a] = F] \/ files' = files
  BY DEF Store, Receive, Refuse, Move, WriteEvidence, WriteMetadata, FailWrite, Expire,
         ArtifactInv, ArtifactTypeOK
<1>2. UNCHANGED <<deleting, pass, stops>> /\ due' \subseteq Artifacts /\ stranded' \subseteq Artifacts
  BY DEF Store, Receive, Refuse, Move, WriteEvidence, WriteMetadata, FailWrite, Expire,
         ArtifactInv, ArtifactTypeOK
<1>3. QED
  BY <1>1, <1>2 DEF ArtifactInv, ArtifactTypeOK, AtAFile

LEMMA DeleteTyped ==
  ASSUME ArtifactInv, NEW a \in Artifacts, Delete(a) \/ Look(a) PROVE ArtifactInv'
<1>1. \/ \E p \in Processes : BeginDeletion(p, a)
      \/ UNCHANGED deleting
  BY DEF Delete, Look, Processes
<1>2. deleting' \in [Processes -> DeletionType] /\ AtAFile'
  BY <1>1, BeginDeletionTyped DEF ArtifactInv, ArtifactTypeOK, DeletionType, AtAFile
<1>3. QED
  BY <1>2 DEF Delete, Look, ArtifactInv, ArtifactTypeOK, DeletionType

LEMMA StopTyped ==
  ASSUME ArtifactInv, StopGateway \/ StopMaintainer PROVE ArtifactInv'
<1>1. PICK p \in Processes : deleting' = [deleting EXCEPT ![p] = Idle]
                             /\ stranded' \subseteq Artifacts
  BY DEF StopGateway, StopMaintainer, Processes, InHand, ArtifactInv, ArtifactTypeOK
<1>2. deleting' \in [Processes -> DeletionType] /\ AtAFile'
  BY <1>1, IdleTyped DEF ArtifactInv, ArtifactTypeOK, DeletionType, AtAFile
<1>3. stops' \in 0..MaxStops
  BY ArtifactAssumption DEF StopGateway, StopMaintainer, ArtifactInv, ArtifactTypeOK
<1>4. upload' \in [Artifacts -> {"new", "receiving", "moved", "described", "stored", "over"}]
  BY DEF StopGateway, StopMaintainer, ArtifactInv, ArtifactTypeOK
<1>5. UNCHANGED <<files, due>> /\ pass' \subseteq Artifacts
  BY DEF StopGateway, StopMaintainer, ArtifactInv, ArtifactTypeOK
<1>6. QED
  BY <1>1, <1>2, <1>3, <1>4, <1>5 DEF ArtifactInv, ArtifactTypeOK, DeletionType

LEMMA ArtifactStep == ASSUME ArtifactInv, [ArtifactNext]_artifactVars PROVE ArtifactInv'
<1>1. CASE UNCHANGED artifactVars
  BY <1>1 DEF artifactVars, ArtifactInv, ArtifactTypeOK, AtAFile
<1>2. CASE BeginPass
  BY <1>2 DEF BeginPass, ArtifactInv, ArtifactTypeOK, AtAFile
<1>3. "gateway" \in Processes /\ "maintainer" \in Processes
  BY DEF Processes
<1>4. QED
  BY <1>1, <1>2, <1>3, StoreTyped, DeleteTyped, UnlinkTyped, StopTyped DEF ArtifactNext, Maintain

(* Every variable of the store of evidence files has its type, for any     *)
(* files: no process that deletes is beyond the last of them.              *)
THEOREM ArtifactTypeCorrect == ArtifactSpec => []ArtifactTypeOK
<1>1. ArtifactInv => ArtifactTypeOK
  BY DEF ArtifactInv
<1>2. QED
  BY InitArtifact, ArtifactStep, <1>1, PTL DEF ArtifactSpec
=============================================================================
