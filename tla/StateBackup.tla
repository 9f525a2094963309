----------------------------- MODULE StateBackup -----------------------------
(***************************************************************************)
(* The state backup (activepieces/scripts/backup-state.sh), run daily by a *)
(* systemd service and at any time by hand or by a deployment, and what    *)
(* the observer (observability/observer.py) says of it.  A run ends at its *)
(* first command that fails (set -e).  The archive is written under its    *)
(* final name, so a run that is broken off leaves a part of one.           *)
(*                                                                         *)
(* Dumps, manifest and checksums are one step; a whole archive is one that *)
(* restore-state-drill.sh would accept.  Time is counted in units of which *)
(* the last commands of a run, and one look of the observer, take less     *)
(* than one.  What was written survives a stop of the host.                *)
(***************************************************************************)
EXTENDS Naturals

CONSTANTS
    Retention,  \* --retention-days of the service
    Given,      \* retentions that are given by hand
    Fresh,      \* age up to which the observer takes an archive for recent
    MaxDay,     \* bound: the time
    MaxArchives \* bound: the archives that are begun

ASSUME BackupAssumption ==
    /\ Retention \in Nat \ {0}
    /\ Given \subseteq Nat \ {0}
    /\ Fresh \in Nat /\ MaxDay \in Nat /\ MaxArchives \in Nat

VARIABLES
    day,       \* the time
    archives,  \* the archives in the backup directory
    begun,     \* how many were begun: their names and times are in this order
    holder,    \* the process that holds .backup.lock, what began it and what it keeps
    result,    \* what systemd remembers of the service: Result, ExecMainStatus
    look,      \* what the observer is at and what it saw
    report     \* its alerts about the backup

backupVars == <<day, archives, begun, holder, result, look, report>>

NoRun == [pc |-> "none", by |-> "hand", keep |-> 1]
NoArchive == [no |-> 0, at |-> 0, whole |-> FALSE, silent |-> FALSE]
NoLook == [pc |-> "idle", newest |-> NoArchive]

BackupInit ==
    /\ day = 0
    /\ archives = {} /\ begun = 0
    /\ holder = NoRun
    /\ result = "success"
    /\ look = NoLook
    /\ report = {}

----------------------------------------------------------------------------
(* The lock is taken without waiting, so the run that comes second fails.  *)
(* systemd forgets the last result when it starts the service.             *)
StartBackup(by, keep) ==
    /\ holder = NoRun
    /\ holder' = [pc |-> "dump", by |-> by, keep |-> keep]
    /\ result' = IF by = "service" THEN "success" ELSE result
    /\ UNCHANGED <<day, archives, begun, look, report>>

ServiceLockedOut ==
    /\ holder # NoRun /\ holder.by = "hand"
    /\ result' = "failed"
    /\ UNCHANGED <<day, archives, begun, holder, look, report>>

(* tar opens the archive, and completes it.  silent (history): were it     *)
(* broken off, the service would not tell.                                 *)
OpenArchive ==
    /\ holder.pc = "dump" /\ begun < MaxArchives
    /\ begun' = begun + 1
    /\ archives' = archives \cup {[no |-> begun + 1, at |-> day, whole |-> FALSE,
                                   silent |-> holder.by = "hand"]}
    /\ holder' = [holder EXCEPT !.pc = "write"]
    /\ UNCHANGED <<day, result, look, report>>

CompleteArchive ==
    /\ holder.pc = "write"
    /\ archives' = { IF a.no = begun THEN [a EXCEPT !.whole = TRUE, !.at = day] ELSE a : a \in archives }
    /\ holder' = [holder EXCEPT !.pc = "written"]
    /\ UNCHANGED <<day, begun, result, look, report>>

(* Only now the old archives go, whichever run made them.                  *)
MayPrune_First == holder.pc \in {"dump", "written"} \* fault: they go first
MayPrune == holder.pc = "written"

Prune ==
    /\ MayPrune
    /\ archives' = { a \in archives : day - a.at <= holder.keep }
    /\ holder' = NoRun
    /\ UNCHANGED <<day, begun, result, look, report>>

(* A command fails, or the run is stopped; or the host is, and systemd     *)
(* starts with nothing to report.                                          *)
BackupFails ==
    /\ holder # NoRun
    /\ holder' = NoRun
    /\ result' = IF holder.by = "service" THEN "failed" ELSE result
    /\ UNCHANGED <<day, archives, begun, look, report>>

HostStops ==
    /\ archives' = { [a EXCEPT !.silent = TRUE] : a \in archives }
    /\ holder' = NoRun
    /\ result' = "success"
    /\ look' = NoLook
    /\ UNCHANGED <<day, begun, report>>

DayPasses ==
    /\ day < MaxDay
    /\ holder.pc # "written" /\ look.pc # "looked"
    /\ day' = day + 1
    /\ UNCHANGED <<archives, begun, holder, result, look, report>>

----------------------------------------------------------------------------
(* collect_backup: the newest archive first, what systemd says after that. *)
NewestArchive == CHOOSE a \in archives : \A b \in archives : b.no <= a.no

ObserverLooks ==
    /\ look.pc # "looked"
    /\ look' = [pc |-> "looked", newest |-> IF archives = {} THEN NoArchive ELSE NewestArchive]
    /\ UNCHANGED <<day, archives, begun, holder, result, report>>

(* evaluate: what it says of the backup.                                   *)
Stale(a) == a = NoArchive \/ day - a.at > Fresh
Verdicts_AgeOnly(timer) ==                       \* fault: any new file will do
    {x \in {"backup_freshness"} : Stale(look.newest)}
Verdicts(timer) ==
    {x \in {"backup_scheduler"} : ~timer \/ result # "success"}
    \cup {x \in {"backup_freshness"} : Stale(look.newest)}

ObserverJudges(timer) ==
    /\ look.pc = "looked"
    /\ report' = Verdicts(timer)
    /\ look' = [NoLook EXCEPT !.pc = "judged"]
    /\ UNCHANGED <<day, archives, begun, holder, result>>

BackupNext ==
    \/ StartBackup("service", Retention)
    \/ \E keep \in Given : StartBackup("hand", keep)
    \/ ServiceLockedOut
    \/ OpenArchive \/ CompleteArchive \/ Prune
    \/ BackupFails \/ HostStops \/ DayPasses
    \/ ObserverLooks
    \/ \E timer \in BOOLEAN : ObserverJudges(timer)

BackupSpec == BackupInit /\ [][BackupNext]_backupVars

----------------------------------------------------------------------------
(* Properties.                                                             *)

ArchiveType == [no : Nat, at : Nat, whole : BOOLEAN, silent : BOOLEAN]

(* Every variable has its type.                                            *)
BackupTypeOK ==
    /\ day \in Nat /\ begun \in Nat
    /\ archives \in SUBSET ArchiveType
    /\ holder \in [pc : {"none", "dump", "write", "written"}, by : {"service", "hand"}, keep : Nat \ {0}]
    /\ result \in {"success", "failed"}
    /\ look \in [pc : {"idle", "looked", "judged"}, newest : ArchiveType]
    /\ report \subseteq {"backup_scheduler", "backup_freshness"}

(* Once there is an archive to restore from, there always is one: however  *)
(* many runs fail or are broken off, whatever retention is given by hand,  *)
(* and however long no run succeeds.                                       *)
Restorable == \E a \in archives : a.whole
RestorePointRemains == [][Restorable => Restorable']_backupVars

(* When the observer has nothing to say of the backup, there is a recent   *)
(* archive to restore from.  Except when the newest is a part of one that  *)
(* the service cannot tell of: a run by hand was broken off, the host was  *)
(* stopped since, or the service is running again.                         *)
Untold == \/ look.newest.silent /\ ~look.newest.whole
          \/ holder.by = "service" /\ holder.pc \in {"dump", "write"}
Judging == look.pc = "looked" /\ look'.pc = "judged"
SilenceIsHonest ==
    [][Judging /\ report' = {} => (\E a \in archives : a.whole /\ day - a.at <= Fresh) \/ Untold]_backupVars
=============================================================================
