------------------------------ MODULE Autosave ------------------------------
(* The automatic backup of a project and what competes with it: manual saves *)
(* and opened files (stageWorkspace/workspace.go, stagefileui/filemanager.go *)
(* and the fan-out at start of stageViewManager/viewManager.go), with the    *)
(* rows the server keeps.  The page has two workspaces, backend and          *)
(* frontend; the backend's timer and saveBackup serve both.                  *)
(*                                                                           *)
(* WebAssembly switches goroutines only where one waits, so a handler is one *)
(* action up to its next request or sleep.  A request takes effect when its  *)
(* answer is handled, is lost, or takes effect and its answer is lost.       *)
EXTENDS Integers, FiniteSets

CONSTANTS
    Projects,     \* names of projects; they identify rows too, none is deleted
    None,         \* no project ("unsaved"), no row, an empty stage
    MaxEdits,     \* bound: changes the user makes
    MaxOps,       \* bound: saves, opened files and deleted backups
    MaxReloads,   \* bound: times the page is closed or crashes
    MaxFaults,    \* bound: requests that fail
    MaxSaves      \* bound: runs of saveBackup at a time

ASSUME AutosaveConstants ==
    /\ None \notin Projects
    /\ {MaxEdits, MaxOps, MaxReloads, MaxFaults, MaxSaves} \subseteq Nat

VARIABLES
    file,         \* rows of projects: the scene saved, or None
    backup,       \* rows of backups by project name: id and scene, or None
    lastId,       \* ids of backup rows given so far
    up,           \* the page is loaded
    scene,        \* what each stage shows
    curID, curName, backupID,    \* currentFileID, -Name, backupFileID
    timer,        \* the backend's backupDebounce is running
    importing,    \* flag of each workspace
    settles,      \* delayed refreshes of importScene still to come
    saves,        \* runs of saveBackup
    user,         \* in each workspace, the save or open in progress
    edits, ops, reloads, faults, \* counters of what happened
    risk          \* the last change was made, or met, in one of the windows
                  \* listed at Exposed

rows == <<file, backup, lastId>>
open == <<curID, curName, backupID>>
stage == <<scene, importing, settles>>
counts == <<edits, ops, reloads>>
vars == <<rows, up, open, stage, timer, saves, user, counts, faults, risk>>

Stages == {"backend", "frontend"}
Names == Projects \cup {None}
Slots == 1..MaxSaves

\* What a stage shows: what it held when the story began in the project named,
\* or the user's change of that number.
Contents == Names \cup 1..MaxEdits
Scenes == [Stages -> Contents]
Blank == [s \in Stages |-> None]
Rows == [id : Nat, scene : Scenes]

\* None is none of the values it stands for the absence of.
ASSUME NoneAssumption == None \notin Nat /\ None \notin Scenes /\ None \notin Rows

\* The changes are numbered, projects are not.
ASSUME NumberAssumption == Projects \cap Nat = {}

Free == [pc |-> "idle"]
Busy(s) == user[s].pc # "idle"
Booting == \E s \in Stages : Busy(s) /\ user[s].boot
Saving == {k \in Slots : saves[k].pc # "idle"}

\* The newest change is on the screen, and in no row.
Shown == edits > 0 /\ \E s \in Stages : scene[s] = edits
Holds(content) == \E s \in Stages : content[s] = edits
BackedUp == \E n \in Names : backup[n] # None /\ Holds(backup[n].scene)
Held == BackedUp \/ \E p \in Projects : file[p] # None /\ Holds(file[p])

-----------------------------------------------------------------------------
(* Requests.                                                                 *)

Outcomes == {"ok", "failed", "unanswered"}

Answer(o) ==
    /\ o # "ok" => faults < MaxFaults
    /\ faults' = faults + (IF o = "ok" THEN 0 ELSE 1)

\* The backup row of that id, by the name it has; none if it was deleted.
RowNamed(id) == {n \in Names : backup[n] # None /\ backup[n].id = id}

PutBackup(id, content, o) ==
    backup' = [n \in Names |->
                 IF o # "failed" /\ n \in RowNamed(id)
                 THEN [backup[n] EXCEPT !.scene = content] ELSE backup[n]]

-----------------------------------------------------------------------------
(* The user changes something; the debounce; saveBackup.                     *)

\* A change on a stage that is importing schedules nothing.
Edit(s) ==
    /\ up /\ ~Booting /\ user[s].pc # "clearing"
    /\ edits < MaxEdits
    /\ edits' = edits + 1
    /\ scene' = [scene EXCEPT ![s] = edits + 1]
    /\ timer' = (timer \/ ~importing[s])
    /\ risk' = (importing[s] \/ (\E t \in Stages : Busy(t)) \/ Cardinality(Saving) > 1)
    /\ UNCHANGED <<rows, up, open, importing, settles, saves, user, ops, reloads, faults>>

\* saveBackup up to its first request, with the ids kept after the step.
SaveBackup(id) ==
    [pc |-> IF id = 0 THEN "listing" ELSE "updating",
     name |-> curName["backend"], scene |-> scene, id |-> id]

Debounced(k) ==
    /\ timer /\ timer' = FALSE
    /\ k \notin Saving /\ 1..(k - 1) \subseteq Saving
    /\ saves' = [saves EXCEPT ![k] = SaveBackup(backupID["backend"])]
    /\ risk' = (risk \/ Saving # {} \/ \E t \in Stages : Busy(t))
    /\ UNCHANGED <<rows, up, open, stage, user, counts, faults>>

\* Mutants of the next: an error ends the run; or it is tried again with the
\* same row.
UpdatedGivingUp(k, o) ==
    LET kept == o = "ok" /\ RowNamed(saves[k].id) # {} IN
    /\ saves[k].pc = "updating"
    /\ Answer(o)
    /\ PutBackup(saves[k].id, saves[k].scene, o)
    /\ backupID' = IF kept THEN backupID ELSE [backupID EXCEPT !["backend"] = 0]
    /\ saves' = [saves EXCEPT ![k] = Free]
    /\ UNCHANGED <<file, lastId, up, curID, curName, stage, timer, user, counts, risk>>

UpdatedStubbornly(k, o) ==
    LET kept == o = "ok" /\ RowNamed(saves[k].id) # {} IN
    /\ saves[k].pc = "updating"
    /\ Answer(o)
    /\ PutBackup(saves[k].id, saves[k].scene, o)
    /\ saves' = [saves EXCEPT ![k] = IF kept THEN Free ELSE SaveBackup(saves[k].id)]
    /\ UNCHANGED <<file, lastId, up, open, stage, timer, user, counts, risk>>

\* The update of the row known; after an error it is forgotten and all begins
\* again with what the stages show by now.
Updated(k, o) ==
    LET kept == o = "ok" /\ RowNamed(saves[k].id) # {} IN
    /\ saves[k].pc = "updating"
    /\ Answer(o)
    /\ PutBackup(saves[k].id, saves[k].scene, o)
    /\ backupID' = IF kept THEN backupID ELSE [backupID EXCEPT !["backend"] = 0]
    /\ saves' = [saves EXCEPT ![k] = IF kept THEN Free ELSE SaveBackup(0)]
    /\ UNCHANGED <<file, lastId, up, curID, curName, stage, timer, user, counts, risk>>

\* Look for a row of that name, perhaps of an earlier session, and adopt it.
Listed(k, o) ==
    LET row == backup[saves[k].name] IN
    /\ saves[k].pc = "listing"
    /\ Answer(o)
    /\ IF o = "ok" /\ row # None
       THEN /\ backupID' = [backupID EXCEPT !["backend"] = row.id]
            /\ saves' = [saves EXCEPT ![k].pc = "adopting", ![k].id = row.id]
       ELSE /\ saves' = [saves EXCEPT ![k].pc = "creating"]
            /\ UNCHANGED backupID
    /\ risk' = (risk \/ (o # "ok" /\ row # None))
    /\ UNCHANGED <<rows, up, curID, curName, stage, timer, user, counts>>

Adopted(k, o) ==
    LET kept == o = "ok" /\ RowNamed(saves[k].id) # {} IN
    /\ saves[k].pc = "adopting"
    /\ Answer(o)
    /\ PutBackup(saves[k].id, saves[k].scene, o)
    /\ backupID' = IF kept THEN backupID ELSE [backupID EXCEPT !["backend"] = 0]
    /\ saves' = [saves EXCEPT ![k] = Free]
    /\ risk' = (risk \/ o = "failed")
    /\ UNCHANGED <<file, lastId, up, curID, curName, stage, timer, user, counts>>

\* The name is unique: a second row of it is refused.
Created(k, o) ==
    LET new == o # "failed" /\ backup[saves[k].name] = None IN
    /\ saves[k].pc = "creating"
    /\ Answer(o)
    /\ IF new
       THEN /\ lastId' = lastId + 1
            /\ backup' = [backup EXCEPT ![saves[k].name] =
                            [id |-> lastId + 1, scene |-> saves[k].scene]]
       ELSE UNCHANGED <<lastId, backup>>
    /\ backupID' = IF new /\ o = "ok"
                   THEN [backupID EXCEPT !["backend"] = lastId + 1] ELSE backupID
    /\ saves' = [saves EXCEPT ![k] = Free]
    /\ risk' = (risk \/ o = "failed")
    /\ UNCHANGED <<file, up, curID, curName, stage, timer, user, counts>>

SaveStep(k) ==
    \/ Debounced(k)
    \/ \E o \in Outcomes : Updated(k, o) \/ Listed(k, o) \/ Adopted(k, o) \/ Created(k, o)

-----------------------------------------------------------------------------
(* Steps that end or go on with an operation of the user.                    *)

\* RemoveAll, at the start of importScene.
Clear(s) ==
    /\ scene' = [scene EXCEPT ![s] = None]
    /\ importing' = [importing EXCEPT ![s] = TRUE]

\* At the start of a session the frontend follows the backend.
Finish(s) ==
    IF s = "backend" /\ user[s].boot
    THEN user' = [user EXCEPT ![s] = Free,
                              !["frontend"] = [user[s] EXCEPT !.pc = "loaded"]]
    ELSE user' = [user EXCEPT ![s] = Free]

\* deleteBackup up to its request.  Only the backend has a timer to stop; the
\* id is the workspace's own.
DeleteBackup(s, again) ==
    /\ timer' = (timer /\ s # "backend")
    /\ IF backupID[s] = 0 THEN Finish(s)
       ELSE user' = [user EXCEPT ![s] = [pc |-> "deleting", boot |-> user[s].boot,
                                         id |-> backupID[s], again |-> again]]

\* ... and from its answer on, whatever that is; a save under a new name calls
\* deleteBackup twice, in OnFileOpened and in OnAfterSave.
Deleted(s, o) ==
    /\ user[s].pc = "deleting"
    /\ Answer(o)
    /\ backup' = [n \in Names |-> IF o # "failed" /\ n \in RowNamed(user[s].id)
                                  THEN None ELSE backup[n]]
    /\ backupID' = [backupID EXCEPT ![s] = 0]
    /\ timer' = (timer /\ ~(user[s].again /\ s = "backend"))
    /\ Finish(s)
    /\ UNCHANGED <<file, lastId, up, curID, curName, stage, saves, counts, risk>>

Begin(s, op) ==
    /\ up /\ ~Booting /\ ~Busy(s)
    /\ ops < MaxOps /\ ops' = ops + 1
    /\ user' = [user EXCEPT ![s] = op]
    /\ UNCHANGED <<rows, up, open, stage, timer, saves, edits, reloads, faults>>

-----------------------------------------------------------------------------
(* Ctrl+S, "Save current", and the dialog that saves under a name.           *)

QuickSave(s) ==
    /\ curID[s] # None
    /\ Begin(s, [pc |-> "saving", boot |-> FALSE, name |-> curID[s], scene |-> scene])
    /\ UNCHANGED risk

\* Mutant: the backup goes whether the save succeeded or not.
QuickSavedRegardless(s, o) ==
    /\ user[s].pc = "saving"
    /\ Answer(o)
    /\ file' = IF o = "failed" THEN file
               ELSE [file EXCEPT ![user[s].name] = user[s].scene]
    /\ DeleteBackup(s, FALSE)
    /\ UNCHANGED <<backup, lastId, up, open, stage, saves, counts, risk>>

QuickSaved(s, o) ==
    /\ user[s].pc = "saving"
    /\ Answer(o)
    /\ file' = IF o = "failed" THEN file
               ELSE [file EXCEPT ![user[s].name] = user[s].scene]
    /\ IF o = "ok" THEN DeleteBackup(s, FALSE)
       ELSE user' = [user EXCEPT ![s] = Free] /\ UNCHANGED timer
    /\ UNCHANGED <<backup, lastId, up, open, stage, saves, counts, risk>>

SaveAs(s, p) ==
    /\ Begin(s, [pc |-> "naming", boot |-> FALSE, name |-> p, scene |-> scene])
    /\ UNCHANGED risk

\* A name in use is looked up, and its row overwritten.
Named(s, o) ==
    LET u == user[s]
        new == file[u.name] = None
    IN
    /\ u.pc = "naming"
    /\ Answer(o)
    /\ file' = IF new /\ o # "failed" THEN [file EXCEPT ![u.name] = u.scene] ELSE file
    /\ IF new /\ o = "ok"
       THEN /\ curID' = [curID EXCEPT ![s] = u.name]
            /\ curName' = [curName EXCEPT ![s] = u.name]
            /\ DeleteBackup(s, TRUE)
       ELSE /\ user' = [user EXCEPT ![s] = IF o = "ok" THEN [u EXCEPT !.pc = "finding"] ELSE Free]
            /\ UNCHANGED <<curID, curName, timer>>
    /\ UNCHANGED <<backup, lastId, up, backupID, stage, saves, counts, risk>>

Found(s, o) ==
    /\ user[s].pc = "finding"
    /\ Answer(o)
    /\ user' = [user EXCEPT ![s] = IF o = "ok" THEN [@ EXCEPT !.pc = "overwriting"] ELSE Free]
    /\ UNCHANGED <<rows, up, open, stage, timer, saves, counts, risk>>

Overwritten(s, o) ==
    LET u == user[s] IN
    /\ u.pc = "overwriting"
    /\ Answer(o)
    /\ file' = IF o = "failed" THEN file ELSE [file EXCEPT ![u.name] = u.scene]
    /\ IF o = "ok"
       THEN /\ curID' = [curID EXCEPT ![s] = u.name]
            /\ curName' = [curName EXCEPT ![s] = u.name]
            /\ DeleteBackup(s, TRUE)
       ELSE /\ user' = [user EXCEPT ![s] = Free]
            /\ UNCHANGED <<curID, curName, timer>>
    /\ UNCHANGED <<backup, lastId, up, backupID, stage, saves, counts, risk>>

-----------------------------------------------------------------------------
(* Opening a row: from the file manager, in the workspace it was opened in;  *)
(* or when a session starts, in the backend and then in the frontend.        *)

Row(kind, n) == IF kind = "project" THEN n \in Projects /\ file[n] # None
                ELSE backup[n] # None

Opening(kind, n, boot) ==
    [pc |-> "loading", boot |-> boot, kind |-> kind, name |-> n,
     id |-> IF kind = "backup" THEN backup[n].id ELSE 0]

Open(s, kind, n) ==
    /\ Row(kind, n)
    /\ Begin(s, Opening(kind, n, FALSE))
    /\ risk' = TRUE

\* The scene is fetched, and importScene begins: a pause of 100 ms after the
\* stage is cleared, one of 50 ms after the devices are made.
Loaded(s, o) ==
    LET u == user[s]
        there == IF u.kind = "project" THEN Row("project", u.name)
                 ELSE u.name \in RowNamed(u.id)
        content == IF u.kind = "project" THEN file[u.name] ELSE backup[u.name].scene
    IN
    /\ u.pc = "loading"
    /\ Answer(o)
    /\ IF o = "ok" /\ there
       THEN /\ user' = [user EXCEPT ![s] =
                          [pc |-> "clearing", boot |-> u.boot, kind |-> u.kind,
                           name |-> u.name, id |-> u.id, scene |-> content]]
            /\ Clear(s)
       ELSE /\ user' = [user EXCEPT ![s] = Free]
            /\ UNCHANGED <<scene, importing>>
    /\ UNCHANGED <<rows, up, open, settles, timer, saves, counts, risk>>

FollowImport ==
    /\ user["frontend"].pc = "loaded"
    /\ user' = [user EXCEPT !["frontend"].pc = "clearing"]
    /\ Clear("frontend")
    /\ UNCHANGED <<rows, up, open, settles, timer, saves, counts, faults, risk>>

\* The rest of importScene, with its NotifyChange, and OnFileOpened up to its
\* first request.
Imported(s) ==
    LET u == user[s] IN
    /\ u.pc = "clearing"
    /\ scene' = [scene EXCEPT ![s] = u.scene[s]]
    /\ settles' = [settles EXCEPT ![s] = @ + 1]
    /\ IF u.kind = "project"
       THEN /\ curID' = [curID EXCEPT ![s] = u.name]
            /\ curName' = [curName EXCEPT ![s] = u.name]
            /\ DeleteBackup(s, FALSE)
            /\ UNCHANGED backupID
       ELSE /\ backupID' = IF u.boot THEN backupID ELSE [backupID EXCEPT ![s] = u.id]
            /\ user' = [user EXCEPT ![s].pc = "looking"]
            /\ timer' = (timer \/ ~importing[s])
            /\ UNCHANGED <<curID, curName>>
    /\ UNCHANGED <<rows, up, importing, saves, counts, faults, risk>>

\* The project a backup was made of is looked up, and saves will go to it.
Looked(s, o) ==
    LET u == user[s] IN
    /\ u.pc = "looking"
    /\ Answer(o)
    /\ curID' = [curID EXCEPT ![s] = IF o = "ok" /\ Row("project", u.name)
                                     THEN u.name ELSE None]
    /\ curName' = [curName EXCEPT ![s] = u.name]
    /\ backupID' = IF u.boot THEN [backupID EXCEPT ![s] = u.id] ELSE backupID
    /\ Finish(s)
    /\ UNCHANGED <<rows, up, stage, timer, saves, counts, risk>>

\* Half a second later importScene refreshes once more and lowers its flag; an
\* earlier import may have lowered it already.
Settled(s) ==
    /\ settles[s] > 0
    /\ settles' = [settles EXCEPT ![s] = @ - 1]
    /\ importing' = [importing EXCEPT ![s] = FALSE]
    /\ timer' = (timer \/ ~importing[s])
    /\ UNCHANGED <<rows, up, open, scene, saves, user, counts, faults, risk>>

\* The file manager deletes a row: here a backup's.
DeleteRow(n) ==
    /\ up /\ ~Booting
    /\ backup[n] # None
    /\ ops < MaxOps /\ ops' = ops + 1
    /\ backup' = [backup EXCEPT ![n] = None]
    /\ risk' = TRUE
    /\ UNCHANGED <<file, lastId, up, open, stage, timer, saves, user, edits, reloads, faults>>

-----------------------------------------------------------------------------
(* A session begins with the choice made in the welcome modal.               *)

Boot(op) ==
    /\ ~up /\ up' = TRUE
    /\ user' = [user EXCEPT !["backend"] = op]
    /\ UNCHANGED <<rows, open, stage, timer, saves, counts, faults, risk>>

Start ==
    \/ Boot(Free)
    \/ \E kind \in {"project", "backup"}, n \in Names :
          Row(kind, n) /\ Boot(Opening(kind, n, TRUE))

\* The page is closed or crashes; of requests under way nothing more comes.
Reload ==
    /\ up /\ up' = FALSE
    /\ reloads < MaxReloads /\ reloads' = reloads + 1
    /\ scene' = Blank /\ timer' = FALSE
    /\ importing' = [s \in Stages |-> FALSE] /\ settles' = [s \in Stages |-> 0]
    /\ curID' = [s \in Stages |-> None] /\ curName' = [s \in Stages |-> None]
    /\ backupID' = [s \in Stages |-> 0]
    /\ saves' = [k \in Slots |-> Free] /\ user' = [s \in Stages |-> Free]
    /\ UNCHANGED <<rows, edits, ops, faults, risk>>

-----------------------------------------------------------------------------
Init ==
    /\ \E saved \in SUBSET Projects :
          file = [p \in Projects |-> IF p \in saved THEN [s \in Stages |-> p] ELSE None]
    /\ backup = [n \in Names |-> None] /\ lastId = 0
    /\ up = FALSE
    /\ scene = Blank /\ timer = FALSE
    /\ importing = [s \in Stages |-> FALSE] /\ settles = [s \in Stages |-> 0]
    /\ curID = [s \in Stages |-> None] /\ curName = [s \in Stages |-> None]
    /\ backupID = [s \in Stages |-> 0]
    /\ saves = [k \in Slots |-> Free] /\ user = [s \in Stages |-> Free]
    /\ edits = 0 /\ ops = 0 /\ reloads = 0 /\ faults = 0
    /\ risk = FALSE

Asked(s) ==
    \/ QuickSave(s)
    \/ \E p \in Projects : SaveAs(s, p)
    \/ \E kind \in {"project", "backup"}, n \in Names : Open(s, kind, n)

Answered(s) ==
    \/ \E o \in Outcomes :
          \/ QuickSaved(s, o) \/ Named(s, o) \/ Found(s, o) \/ Overwritten(s, o)
          \/ Deleted(s, o) \/ Loaded(s, o) \/ Looked(s, o)
    \/ Imported(s)

Next ==
    \/ Start \/ Reload \/ FollowImport
    \/ \E s \in Stages : Edit(s) \/ Asked(s) \/ Answered(s) \/ Settled(s)
    \/ \E n \in Names : DeleteRow(n)
    \/ \E k \in Slots : SaveStep(k)

Spec == Init /\ [][Next]_vars

\* The timer fires and every request is answered; the user owes nothing.
Fairness ==
    /\ WF_vars(\E k \in Slots : Debounced(k))
    /\ \A k \in Slots : WF_vars(\E o \in Outcomes : Updated(k, o) \/ Listed(k, o)
                                                   \/ Adopted(k, o) \/ Created(k, o))
    /\ \A s \in Stages : WF_vars(Answered(s)) /\ WF_vars(Settled(s))
    /\ WF_vars(FollowImport)

FairSpec == Spec /\ Fairness

-----------------------------------------------------------------------------
\* The last change was made or met in a window where it can be lost.  Edit,
\* Debounced, Listed, Adopted, Created, Open and DeleteRow say which they are:
\* it was made during a manual save, an import or the end of two overlapping
\* runs of saveBackup; the timer fired with an earlier request unanswered; a
\* request of saveBackup failed that is not tried again; the user opened
\* another file or deleted a backup.
Exposed == risk

\* A change that is on the screen and in no row is on its way to one: the timer
\* runs, or a run of saveBackup has it.
NothingForgotten ==
    up /\ Shown /\ ~Held /\ ~Exposed =>
        timer \/ \E k \in Saving : Holds(saves[k].scene)

\* A backup that has the newest change is given up only when a project has it:
\* neither a manual save, nor a crash and what is opened or restored then, nor
\* a run of saveBackup that began earlier loses it.
Kept == [][BackedUp /\ ~Exposed /\ edits' = edits => Held' \/ Exposed']_vars

\* In the end it is in a row, unless the page is closed before.
SavedInTime == up /\ Shown /\ ~Exposed ~> Held \/ Exposed \/ ~up

\* viewManager.go: combined documents make "a project's backend logic and
\* frontend dashboard save and restore as a single unit".
OneUnit ==
    \A p \in Projects :
        file[p] # None /\ {file[p][s] : s \in Stages} \subseteq Projects =>
            file[p]["backend"] = file[p]["frontend"]
=============================================================================
