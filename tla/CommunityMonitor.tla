-------------------------- MODULE CommunityMonitor --------------------------
(***************************************************************************)
(* The five-minute monitor of the forum's host (flarum/operations/         *)
(* community-monitor.sh with alert_policy.py), which tells Chat what is    *)
(* wrong.  It keeps what it told last in two files, the fingerprint of the *)
(* alerts and the time; they are written one after the other, after the    *)
(* message was sent, and the run may end between any two of these steps    *)
(* (set -e, a full disk, a restart).                                       *)
(*                                                                         *)
(* monitor.lock admits one run at a time; a run that finds backup.lock     *)
(* taken ends at once.  The checks themselves are their outcome here.      *)
(***************************************************************************)
EXTENDS Naturals

CONSTANT Outages  \* the sets of alerts there may be, by fingerprint

Fine == "fine"  \* no alert: the fingerprint of the empty file

(* The fingerprint of alerts is a hash of them, not the empty file's.      *)
ASSUME OutagesAssumption == Outages \cap {Fine, "none", "nothing"} = {}

VARIABLES
    condition,  \* what the checks find
    backup,     \* a backup holds backup.lock
    saved,      \* last-alert.fingerprint; "none": no file, or an empty one
    stamp,      \* last-alert.epoch: "old", "recent" (in the cooldown) or "torn"
    watch,      \* the run: [pc, seen, notice]
    told,       \* history: the last thing that Chat was told
    unsure      \* history: something was told, or forgotten, and not recorded

monitorVars == <<condition, backup, saved, stamp, watch, told, unsure>>

Asleep == [pc |-> "asleep", seen |-> Fine, notice |-> "none"]

MonitorInit ==
    /\ condition = Fine
    /\ backup = FALSE
    /\ saved = "none"
    /\ stamp = "old"
    /\ watch = Asleep
    /\ told = "nothing"
    /\ unsure = FALSE

Change ==
    /\ condition' \in (Outages \cup {Fine}) \ {condition}
    /\ UNCHANGED <<backup, saved, stamp, watch, told, unsure>>

CoolDown ==
    /\ stamp = "recent"
    /\ stamp' = "old"
    /\ UNCHANGED <<condition, backup, saved, watch, told, unsure>>

(* community-backup.sh waits for the lock; the monitor holds it for a run. *)
Backup ==
    /\ backup \/ watch = Asleep
    /\ backup' = ~backup
    /\ UNCHANGED <<condition, saved, stamp, watch, told, unsure>>

(* decide_notification                                                     *)
Notice(seen) ==
    IF seen # Fine
    THEN IF seen # saved \/ stamp = "old" THEN "alert" ELSE "none"
    ELSE IF saved \in Outages THEN "recovery" ELSE "none"

(* With a torn time the policy cannot be asked: the run ends there.        *)
Check ==
    /\ watch = Asleep
    /\ ~backup
    /\ stamp # "torn"
    /\ LET notice == Notice(condition) IN
       watch' = [pc |-> IF notice = "none" THEN "save" ELSE "send",
                 seen |-> condition, notice |-> notice]
    /\ UNCHANGED <<condition, backup, saved, stamp, told, unsure>>

AfterSending == [watch EXCEPT !.pc = "save"]
AfterFailedSend_Saved == [watch EXCEPT !.pc = "save"]  \* fault
AfterFailedSend == Asleep

Send ==
    /\ watch.pc = "send"
    /\ told' = watch.seen
    /\ watch' = AfterSending
    /\ UNCHANGED <<condition, backup, saved, stamp, unsure>>

(* No address, Chat refuses, or its answer does not arrive.                *)
FailSend ==
    /\ watch.pc = "send"
    /\ watch' = AfterFailedSend
    /\ \/ UNCHANGED <<told, unsure>>
       \/ told' = watch.seen /\ unsure' = TRUE
    /\ UNCHANGED <<condition, backup, saved, stamp>>

SaveFingerprint ==
    /\ watch.pc = "save"
    /\ saved' = watch.seen
    /\ IF watch.notice = "none"
       THEN watch' = Asleep /\ UNCHANGED unsure
       ELSE watch' = [watch EXCEPT !.pc = "stamp"] /\ unsure' = FALSE
    /\ UNCHANGED <<condition, backup, stamp, told>>

SaveTime ==
    /\ watch.pc = "stamp"
    /\ stamp' = "recent"
    /\ watch' = Asleep
    /\ UNCHANGED <<condition, backup, saved, told, unsure>>

(* Sent, and not on record yet.                                            *)
Unrecorded == watch.pc = "save" /\ watch.notice # "none"

(* A write that is broken off may leave the file empty.                    *)
BreakOff ==
    /\ watch # Asleep
    /\ watch' = Asleep
    /\ saved' \in {saved} \cup (IF watch.pc = "save" THEN {"none"} ELSE {})
    /\ stamp' \in {stamp} \cup (IF watch.pc = "stamp" THEN {"torn"} ELSE {})
    /\ unsure' = (unsure \/ Unrecorded \/ saved' # saved)
    /\ UNCHANGED <<condition, backup, told>>

MonitorNext ==
    \/ Change
    \/ CoolDown
    \/ Backup
    \/ Check
    \/ Send
    \/ FailSend
    \/ SaveFingerprint
    \/ SaveTime
    \/ BreakOff

MonitorSpec == MonitorInit /\ [][MonitorNext]_monitorVars

----------------------------------------------------------------------------
(* Properties.                                                             *)

MonitorTypeOK ==
    /\ condition \in Outages \cup {Fine}
    /\ backup \in BOOLEAN
    /\ saved \in Outages \cup {Fine, "none"}
    /\ stamp \in {"old", "recent", "torn"}
    /\ watch \in [pc : {"asleep", "send", "save", "stamp"}, seen : Outages \cup {Fine},
                  notice : {"alert", "recovery", "none"}]
    /\ told \in Outages \cup {Fine, "nothing"}
    /\ unsure \in BOOLEAN

(* What is on record is what Chat was told last, so a change is told once  *)
(* and a recovery after every outage that was told (docs/runbooks/         *)
(* community-backup-monitor-security.md, "경보 대응").  Until the next     *)
(* message it may not be, when the answer of Chat did not arrive or a run  *)
(* ended before it recorded what it had sent.                              *)
ChatKnows ==
    ~Unrecorded /\ ~unsure =>
        IF saved \in Outages THEN told = saved ELSE told \in {Fine, "nothing"}
=============================================================================
