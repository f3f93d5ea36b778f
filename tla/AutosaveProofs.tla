--------------------------- MODULE AutosaveProofs ---------------------------
(* Why no change is forgotten and no backup given up too early: proved of   *)
(* Autosave for any number of projects, of runs of saveBackup and of faults.*)
EXTENDS Autosave, FiniteSetTheorems, TLAPS

Kinds == {"project", "backup"}

Savings == [pc : {"saving", "naming", "finding", "overwriting"}, boot : {FALSE},
            name : Projects, scene : Scenes]
Loadings == [pc : {"loading"}, boot : BOOLEAN, kind : Kinds, name : Names, id : Nat]
Imports == [pc : {"clearing", "looking", "loaded"}, boot : BOOLEAN, kind : Kinds,
            name : Names, id : Nat, scene : Scenes]
Deletions == [pc : {"deleting"}, boot : BOOLEAN, id : Nat, again : BOOLEAN]
Backups == [pc : {"listing", "updating", "adopting", "creating"}, name : Names,
            scene : Scenes, id : Nat]

UserOps == {Free} \cup Savings \cup Loadings \cup Imports \cup Deletions
SaveOps == {Free} \cup Backups

\* The shape of the state.
Shape ==
    /\ file \in [Projects -> Scenes \cup {None}]
    /\ backup \in [Names -> Rows \cup {None}]
    /\ lastId \in Nat
    /\ up \in BOOLEAN /\ timer \in BOOLEAN /\ risk \in BOOLEAN
    /\ scene \in Scenes
    /\ curID \in [Stages -> Names] /\ curName \in [Stages -> Names]
    /\ backupID \in [Stages -> Nat]
    /\ importing \in [Stages -> BOOLEAN] /\ settles \in [Stages -> Nat]
    /\ saves \in [Slots -> SaveOps]
    /\ user \in [Stages -> UserOps]
    /\ edits \in 0..MaxEdits

Boots(s) == Busy(s) /\ user[s].boot

Saves == {"saving", "naming", "finding", "overwriting"}
Imported3 == {"clearing", "looking", "loaded"}

\* Nothing is left of the session before.
Down ==
    /\ scene = Blank /\ backupID = [s \in Stages |-> 0]
    /\ ~timer /\ settles = [s \in Stages |-> 0]
    /\ saves = [k \in Slots |-> Free] /\ user = [s \in Stages |-> Free]

\* A session starts from nothing: first the backend is filled, then the
\* frontend, from the same document, and till then neither is changed.
BackendFirst ==
    /\ user["frontend"] = Free /\ scene["frontend"] = None /\ backupID["frontend"] = 0
    /\ user["backend"].pc \in {"loading", "clearing", "looking"}
    /\ user["backend"].pc = "looking" => scene["backend"] = user["backend"].scene["backend"]
    /\ user["backend"].pc # "looking" =>
          /\ ~timer /\ Saving = {} /\ settles = [s \in Stages |-> 0]
          /\ backupID["backend"] = 0

FrontendNext ==
    /\ user["backend"] = Free
    /\ user["frontend"].pc \in Imported3
    /\ user["frontend"].pc # "looking" =>
          /\ scene["backend"] = user["frontend"].scene["backend"]
          /\ backupID["frontend"] = 0

BootInv ==
    /\ ~up => Down
    /\ Boots("backend") => BackendFirst
    /\ Boots("frontend") => FrontendNext
    /\ \A s \in Stages : user[s].pc = "loaded" => s = "frontend" /\ user[s].boot

FileHolds == \E p \in Projects : file[p] # None /\ Holds(file[p])

\* The row that has the scene being imported.
Source(u) ==
    IF u.kind = "project" THEN u.name \in Projects /\ file[u.name] = u.scene
    ELSE backup[u.name] # None /\ backup[u.name].scene = u.scene

\* A run of saveBackup that has the last change meets the rows it expects.
Ready(v, b) ==
    /\ Holds(v.scene)
    /\ v.pc = "adopting" => \E n \in Names : b[n] # None /\ b[n].id = v.id
    /\ v.pc = "creating" => b[v.name] = None

\* A manual save has what is on the screen, and removes a backup only after
\* that is saved.  What is being imported starts a session, and is in a row.
StepFits(u) ==
    /\ u.pc \in Saves => u.scene = scene
    /\ u.pc = "deleting" /\ Shown => FileHolds
    /\ u.pc \in Imported3 \cup {"loading"} => u.boot
    /\ u.pc \in Imported3 => Source(u)

\* As long as the last change is not exposed there is one run of saveBackup at a
\* time, and none while a session starts; the change is in a row, or the timer
\* runs, or that run has it.
Cover ==
    ~risk /\ up =>
        /\ \A j, k \in Saving : j = k
        /\ Booting => Saving = {}
        /\ Shown => Held \/ timer \/ \E k \in Saving : Holds(saves[k].scene)
        /\ \A k \in Saving : Shown => FileHolds \/ timer \/ Ready(saves[k], backup)
        /\ \A s \in Stages : StepFits(user[s])

SafeInv == Shape /\ BootInv /\ Cover

-----------------------------------------------------------------------------
(* The shape.                                                               *)

\* What a step in progress is, by how far it is.
LEMMA OpKinds ==
    ASSUME NEW u \in UserOps
    PROVE  /\ u.pc \in {"idle", "saving", "naming", "finding", "overwriting", "loading",
                        "clearing", "looking", "loaded", "deleting"}
           /\ u.pc = "idle" => u = Free
           /\ u.pc \in {"saving", "naming", "finding", "overwriting"} => u \in Savings
           /\ u.pc = "loading" => u \in Loadings
           /\ u.pc \in {"clearing", "looking", "loaded"} => u \in Imports
           /\ u.pc = "deleting" => u \in Deletions
           /\ u.pc # "idle" => u.boot \in BOOLEAN
<1>1. CASE u = Free
  BY <1>1 DEF Free
<1>2. CASE u \in Savings
  <2>1. u.pc \in {"saving", "naming", "finding", "overwriting"} /\ u.boot \in {FALSE}
    BY <1>2 DEF Savings
  <2> QED
    BY <1>2, <2>1
<1>3. CASE u \in Loadings
  <2>1. u.pc = "loading" /\ u.boot \in BOOLEAN
    BY <1>3 DEF Loadings
  <2> QED
    BY <1>3, <2>1
<1>4. CASE u \in Imports
  <2>1. u.pc \in {"clearing", "looking", "loaded"} /\ u.boot \in BOOLEAN
    BY <1>4 DEF Imports
  <2> QED
    BY <1>4, <2>1
<1>5. CASE u \in Deletions
  <2>1. u.pc = "deleting" /\ u.boot \in BOOLEAN
    BY <1>5 DEF Deletions
  <2> QED
    BY <1>5, <2>1
<1> QED
  BY <1>1, <1>2, <1>3, <1>4, <1>5 DEF UserOps

LEMMA RunKinds ==
    ASSUME NEW v \in SaveOps
    PROVE  /\ v.pc \in {"idle", "listing", "updating", "adopting", "creating"}
           /\ v.pc = "idle" => v = Free
           /\ v.pc # "idle" => v \in Backups
BY DEF SaveOps, Free, Backups

LEMMA SaveBackupType ==
    ASSUME Shape, NEW id \in Nat
    PROVE  /\ SaveBackup(id) \in Backups
           /\ SaveBackup(id) \in SaveOps
           /\ SaveBackup(id).scene = scene
           /\ SaveBackup(id).pc \in {"listing", "updating"}
BY DEF Shape, SaveBackup, Backups, SaveOps, Stages

\* A rewritten row is a row.
LEMMA PutType ==
    ASSUME Shape, NEW id, NEW content \in Scenes, NEW o, PutBackup(id, content, o)
    PROVE  /\ backup' \in [Names -> Rows \cup {None}]
           /\ \A n \in Names : /\ backup'[n] = None <=> backup[n] = None
                               /\ backup[n] # None => backup'[n].id = backup[n].id
           /\ \A n \in Names : backup'[n] = backup[n]
                               \/ (backup'[n] # None /\ backup'[n].scene = content)
           /\ o # "failed" => \A n \in RowNamed(id) : backup'[n] # None /\ backup'[n].scene = content
<1>1. \A n \in Names : backup[n] \in Rows \cup {None}
  BY DEF Shape
<1>2. \A n \in Names : backup[n] # None =>
         /\ [backup[n] EXCEPT !.scene = content] \in Rows
         /\ [backup[n] EXCEPT !.scene = content] # None
         /\ [backup[n] EXCEPT !.scene = content].scene = content
         /\ [backup[n] EXCEPT !.scene = content].id = backup[n].id
  BY <1>1, NoneAssumption DEF Rows
<1>3. \A n \in RowNamed(id) : n \in Names /\ backup[n] # None
  BY DEF RowNamed
<1>4. \A n \in Names : backup'[n] =
        IF o # "failed" /\ n \in RowNamed(id)
        THEN [backup[n] EXCEPT !.scene = content] ELSE backup[n]
  BY DEF PutBackup
<1>5. backup' \in [Names -> Rows \cup {None}]
  BY <1>1, <1>2, <1>3 DEF PutBackup
<1> QED
  BY <1>2, <1>3, <1>4, <1>5

\* DeleteBackup leaves the step in progress, or ends it, perhaps with the
\* frontend to follow.
LEMMA DeleteBackupMoves ==
    ASSUME Shape, NEW s \in Stages, NEW again \in BOOLEAN, DeleteBackup(s, again),
           user[s].pc # "idle",
           s = "backend" /\ user[s].boot => user[s] \in Imports /\ backupID[s] = 0
    PROVE  /\ timer' \in BOOLEAN /\ (timer' => timer)
           /\ user' \in [Stages -> UserOps]
           /\ user'[s] = Free \/ (user'[s].pc = "deleting" /\ user'[s].boot = user[s].boot)
           /\ \A t \in Stages \ {s} :
                 \/ user'[t] = user[t]
                 \/ /\ s = "backend" /\ user[s].boot /\ t = "frontend" /\ user'[s] = Free
                    /\ user'[t] = [user[s] EXCEPT !.pc = "loaded"]
                    /\ user'[t] \in Imports
<1>1. user \in [Stages -> UserOps] /\ user[s] \in UserOps /\ backupID[s] \in Nat
      /\ timer \in BOOLEAN
  BY DEF Shape
<1>2. user[s].boot \in BOOLEAN
  BY <1>1, OpKinds
<1>3. timer' \in BOOLEAN /\ (timer' => timer)
  BY <1>1 DEF DeleteBackup
<1>4. Free \in UserOps
  BY DEF UserOps
<1>5. CASE backupID[s] # 0
  <2> DEFINE x == [pc |-> "deleting", boot |-> user[s].boot, id |-> backupID[s], again |-> again]
  <2>1. x \in UserOps /\ x.pc = "deleting" /\ x.boot = user[s].boot
    BY <1>1, <1>2 DEF UserOps, Deletions
  <2>2. user' = [user EXCEPT ![s] = x]
    BY <1>5 DEF DeleteBackup
  <2> HIDE DEF x
  <2> QED
    BY <1>1, <1>3, <2>1, <2>2
<1>6. CASE backupID[s] = 0 /\ ~(s = "backend" /\ user[s].boot)
  <2>1. user' = [user EXCEPT ![s] = Free]
    BY <1>6 DEF DeleteBackup, Finish
  <2> QED
    BY <1>1, <1>3, <1>4, <2>1
<1>7. CASE backupID[s] = 0 /\ s = "backend" /\ user[s].boot
  <2> DEFINE x == [user[s] EXCEPT !.pc = "loaded"]
  <2>1. user' = [user EXCEPT !["backend"] = Free, !["frontend"] = x]
    BY <1>7 DEF DeleteBackup, Finish
  <2>2. x \in Imports
    BY <1>7 DEF Imports
  <2>3. x \in UserOps
    BY <2>2 DEF UserOps
  <2> HIDE DEF x
  <2>4. user' \in [Stages -> UserOps] /\ user'["backend"] = Free /\ user'["frontend"] = x
    BY <1>1, <1>4, <2>1, <2>3 DEF Stages
  <2> QED
    BY <1>3, <1>7, <2>2, <2>4 DEF Stages, x
<1> QED
  BY <1>5, <1>6, <1>7

-----------------------------------------------------------------------------
(* The steps of saveBackup.                                                 *)

\* While a run of saveBackup is under way nothing of a session's start but its
\* last part may be.
LEMMA BootKept ==
    ASSUME BootInv, NEW k \in Saving, UNCHANGED <<up, scene, user>>,
           backupID'["frontend"] = backupID["frontend"]
    PROVE  BootInv'
<1>1. up
  <2>1. k \in Slots /\ saves[k].pc # "idle"
    BY DEF Saving
  <2>2. saves = [i \in Slots |-> Free] => saves[k].pc = "idle"
    BY <2>1 DEF Free
  <2> QED
    BY <2>1, <2>2 DEF BootInv, Down
<1>2. Boots("backend") => user["backend"].pc = "looking"
  BY DEF BootInv, BackendFirst
<1>3. Boots("backend")' => BackendFirst'
  BY <1>2 DEF BootInv, BackendFirst, Boots, Busy
<1>4. Boots("frontend")' => FrontendNext'
  BY DEF BootInv, FrontendNext, Boots, Busy
<1> QED
  BY <1>1, <1>3, <1>4 DEF BootInv

\* A run of saveBackup goes on or ends: what it must show is that the change
\* still has a way to a row.
LEMMA RunStep ==
    ASSUME SafeInv, NEW k \in Saving, NEW v, Shape',
           saves' = [saves EXCEPT ![k] = v],
           UNCHANGED <<file, up, scene, user, timer, edits>>,
           backupID'["frontend"] = backupID["frontend"],
           ~risk' => ~risk,
           ~risk' /\ Shown =>
              FileHolds \/ timer \/ (v.pc # "idle" /\ Ready(v, backup')) \/ (v = Free /\ BackedUp')
    PROVE  SafeInv'
<1>1. Shape /\ BootInv /\ k \in Slots
  BY DEF SafeInv, Saving
<1>2. BootInv'
  BY <1>1, BootKept
<1>3. ASSUME ~risk', up'
      PROVE  Cover'
  <2>1. ~risk /\ up
    BY <1>3
  <2>2. \A j \in Saving : j = k
    BY <2>1 DEF SafeInv, Cover
  <2>3. saves'[k] = v /\ \A j \in Slots \ {k} : saves'[j] = saves[j]
    BY <1>1 DEF Shape
  <2>4. \A j \in Saving' : j = k /\ v.pc # "idle"
    BY <2>2, <2>3 DEF Saving
  <2>5. ~Booting /\ ~Booting'
    BY <2>1 DEF SafeInv, Cover, Booting, Busy
  <2>6. (Shown <=> Shown') /\ (FileHolds <=> FileHolds')
    BY DEF Shown, FileHolds, Holds
  <2>7. \A s \in Stages : StepFits(user[s])'
    <3> TAKE s \in Stages
    <3>1. StepFits(user[s])
      BY <2>1 DEF SafeInv, Cover
    <3>2. user[s].pc \notin Imported3 \cup {"loading"}
      <4> SUFFICES ASSUME user[s].pc \in Imported3 \cup {"loading"}
                   PROVE  FALSE
        OBVIOUS
      <4>1. user[s].boot /\ user[s].pc # "idle"
        BY <3>1 DEF StepFits, Imported3
      <4> QED
        BY <2>5, <4>1 DEF Booting, Busy
    <3> QED
      BY <2>6, <3>1, <3>2 DEF StepFits
  <2>8. Shown' => FileHolds' \/ timer' \/ (v.pc # "idle" /\ Ready(v, backup')) \/ (v = Free /\ BackedUp')
    BY <1>3, <2>6
  <2>9. (\A j \in Saving : Shown => FileHolds \/ timer \/ Ready(saves[j], backup))'
    <3> SUFFICES ASSUME NEW j \in Saving', Shown'
                 PROVE  FileHolds' \/ timer' \/ Ready(saves[j], backup)'
      OBVIOUS
    <3>1. j = k /\ v.pc # "idle" /\ saves'[j] = v
      BY <2>3, <2>4
    <3>2. v # Free
      BY <3>1 DEF Free
    <3>3. FileHolds' \/ timer' \/ Ready(v, backup')
      BY <2>8, <3>2
    <3>4. Ready(v, backup') => Ready(saves[j], backup)'
      BY <3>1 DEF Ready, Holds
    <3> QED
      BY <3>3, <3>4
  <2>10. (Shown => Held \/ timer \/ \E j \in Saving : Holds(saves[j].scene))'
    <3> SUFFICES ASSUME Shown'
                 PROVE  (Held \/ timer \/ \E j \in Saving : Holds(saves[j].scene))'
      OBVIOUS
    <3>1. CASE v.pc # "idle" /\ Ready(v, backup')
      <4>1. k \in Saving' /\ saves'[k] = v
        BY <1>1, <2>3, <3>1 DEF Saving
      <4>2. \E t \in Stages : saves'[k].scene[t] = edits'
        BY <2>3, <3>1 DEF Ready, Holds
      <4>3. Holds(saves[k].scene)'
        BY <4>2 DEF Holds
      <4> QED
        BY <4>1, <4>3
    <3>2. CASE FileHolds' \/ timer' \/ BackedUp'
      BY <3>2 DEF Held, FileHolds
    <3> QED
      BY <2>8, <3>1, <3>2
  <2> QED
    BY <2>4, <2>5, <2>7, <2>9, <2>10 DEF Cover
<1> QED
  BY <1>2, <1>3 DEF SafeInv, Cover

\* What a run of saveBackup can rely on.
LEMMA RunFacts ==
    ASSUME SafeInv, NEW k \in Slots, saves[k].pc # "idle"
    PROVE  /\ Shape /\ k \in Saving /\ saves[k] \in Backups /\ up
           /\ ~risk /\ Shown => FileHolds \/ timer \/ Ready(saves[k], backup)
<1>1. Shape /\ k \in Saving /\ saves[k] \in SaveOps
  BY DEF SafeInv, Shape, Saving
<1>2. saves[k] \in Backups
  BY <1>1, RunKinds
<1>3. up
  <2>1. saves = [i \in Slots |-> Free] => saves[k].pc = "idle"
    BY DEF Free
  <2> QED
    BY <2>1 DEF SafeInv, BootInv, Down
<1> QED
  BY <1>1, <1>2, <1>3 DEF SafeInv, Cover

LEMMA IdType ==
    ASSUME Shape, NEW id \in Nat
    PROVE  /\ [backupID EXCEPT !["backend"] = id] \in [Stages -> Nat]
           /\ [backupID EXCEPT !["backend"] = id]["frontend"] = backupID["frontend"]
BY DEF Shape, Stages

\* The known row was written, or it begins again with what is on the screen.
LEMMA UpdatedKeeps ==
    ASSUME SafeInv, NEW k \in Slots, NEW o \in Outcomes, Updated(k, o)
    PROVE  SafeInv'
<1> DEFINE kept == o = "ok" /\ RowNamed(saves[k].id) # {}
           v == IF kept THEN Free ELSE SaveBackup(0)
<1>1. /\ saves[k].pc = "updating" /\ PutBackup(saves[k].id, saves[k].scene, o)
      /\ backupID' = IF kept THEN backupID ELSE [backupID EXCEPT !["backend"] = 0]
      /\ saves' = [saves EXCEPT ![k] = v]
      /\ UNCHANGED <<file, lastId, up, curID, curName, stage, timer, user, counts, risk>>
  BY DEF Updated
<1>2. /\ Shape /\ k \in Saving /\ saves[k] \in Backups /\ up
      /\ ~risk /\ Shown => FileHolds \/ timer \/ Ready(saves[k], backup)
  BY <1>1, RunFacts
<1>3. saves[k].scene \in Scenes
  BY <1>2 DEF Backups
<1>4. /\ backup' \in [Names -> Rows \cup {None}]
      /\ o # "failed" => \A n \in RowNamed(saves[k].id) :
                            backup'[n] # None /\ backup'[n].scene = saves[k].scene
  BY <1>1, <1>2, <1>3, PutType
<1>5. /\ SaveBackup(0) \in SaveOps /\ SaveBackup(0).scene = scene
      /\ SaveBackup(0).pc \in {"listing", "updating"}
  BY <1>2, SaveBackupType
<1>6. v \in SaveOps
  BY <1>5 DEF SaveOps
<1>7. backupID' \in [Stages -> Nat] /\ backupID'["frontend"] = backupID["frontend"]
  BY <1>1, <1>2, IdType DEF Shape
<1>8. UNCHANGED <<scene, importing, settles, edits>>
  BY <1>1 DEF stage, counts
<1>9. CASE kept
  <2>1. v = Free
    BY <1>9
  <2>2. \E n \in Names : backup'[n] # None /\ backup'[n].scene = saves[k].scene
    BY <1>4, <1>9 DEF RowNamed
  <2>3. Ready(saves[k], backup) => BackedUp'
    <3> HAVE Ready(saves[k], backup)
    <3>1. Holds(saves[k].scene)
      BY DEF Ready
    <3>2. \A c : Holds(c) => Holds(c)'
      BY <1>8 DEF Holds
    <3> QED
      BY <2>2, <3>1, <1>8 DEF BackedUp, Holds
  <2> HIDE DEF kept, v
  <2>4. Shape'
    BY <1>1, <1>2, <1>4, <1>6, <1>7, <1>8 DEF Shape
  <2> QED
    BY <1>1, <1>2, <1>7, <1>8, <2>1, <2>3, <2>4, RunStep
<1>10. CASE ~kept
  <2>1. v = SaveBackup(0)
    BY <1>10
  <2>2. Shown => v.pc # "idle" /\ Ready(v, backup')
    <3> HAVE Shown
    <3>1. Holds(scene)
      BY DEF Shown, Holds
    <3> QED
      BY <1>5, <1>8, <2>1, <3>1 DEF Ready, Holds
  <2> HIDE DEF kept, v
  <2>3. Shape'
    BY <1>1, <1>2, <1>4, <1>6, <1>7, <1>8 DEF Shape
  <2> QED
    BY <1>1, <1>2, <1>7, <1>8, <2>2, <2>3, RunStep
<1> QED
  BY <1>9, <1>10

LEMMA ListedKeeps ==
    ASSUME SafeInv, NEW k \in Slots, NEW o \in Outcomes, Listed(k, o)
    PROVE  SafeInv'
<1> DEFINE old == saves[k]
           row == backup[old.name]
<1>1. /\ old.pc = "listing"
      /\ risk' = (risk \/ (o # "ok" /\ row # None))
      /\ UNCHANGED <<rows, up, curID, curName, stage, timer, user, counts>>
      /\ IF o = "ok" /\ row # None
         THEN /\ backupID' = [backupID EXCEPT !["backend"] = row.id]
              /\ saves' = [saves EXCEPT ![k].pc = "adopting", ![k].id = row.id]
         ELSE /\ saves' = [saves EXCEPT ![k].pc = "creating"]
              /\ UNCHANGED backupID
  BY DEF Listed
<1>2. /\ Shape /\ k \in Saving /\ old \in Backups
      /\ ~risk /\ Shown => FileHolds \/ timer \/ Ready(old, backup)
  BY <1>1, RunFacts
<1>3. UNCHANGED <<file, backup, lastId, scene, importing, settles, edits>>
  BY <1>1 DEF stage, counts, rows
<1>4. old.name \in Names /\ row \in Rows \cup {None} /\ risk' \in BOOLEAN /\ (~risk' => ~risk)
  BY <1>1, <1>2 DEF Backups, Shape
<1>5. CASE o = "ok" /\ row # None
  <2> DEFINE v == [old EXCEPT !.pc = "adopting", !.id = row.id]
  <2>1. row.id \in Nat
    BY <1>4, <1>5 DEF Rows
  <2>2. v \in Backups /\ v.pc = "adopting" /\ v.id = row.id /\ v.scene = old.scene
    BY <1>2, <2>1 DEF Backups
  <2>3. saves' = [saves EXCEPT ![k] = v]
    BY <1>1, <1>5
  <2>4. backupID' \in [Stages -> Nat] /\ backupID'["frontend"] = backupID["frontend"]
    BY <1>1, <1>2, <1>5, <2>1, IdType
  <2>5. old.name \in RowNamed(row.id)
    BY <1>4, <1>5 DEF RowNamed
  <2>6. Ready(old, backup) => Ready(v, backup')
    BY <1>3, <2>2, <2>5 DEF Ready, Holds, RowNamed
  <2> HIDE DEF v
  <2>7. v \in SaveOps
    BY <2>2 DEF SaveOps
  <2>8. Shape'
    BY <1>1, <1>2, <1>3, <1>4, <2>3, <2>4, <2>7 DEF Shape
  <2>9. v.pc # "idle"
    BY <2>2
  <2>10. UNCHANGED <<file, up, scene, user, timer, edits>>
    BY <1>1, <1>3
  <2>11. ~risk' /\ Shown => FileHolds \/ timer \/ (v.pc # "idle" /\ Ready(v, backup'))
    BY <1>2, <1>4, <2>6, <2>9
  <2> QED
    BY <1>2, <1>4, <2>3, <2>4, <2>8, <2>10, <2>11, RunStep
<1>6. CASE ~(o = "ok" /\ row # None)
  <2> DEFINE v == [old EXCEPT !.pc = "creating"]
  <2>1. v \in Backups /\ v.pc = "creating" /\ v.name = old.name /\ v.scene = old.scene
    BY <1>2 DEF Backups
  <2>2. saves' = [saves EXCEPT ![k] = v] /\ backupID' = backupID
    BY <1>1, <1>6
  <2>3. ~risk' => row = None
    BY <1>1, <1>6
  <2>4. ~risk' /\ Ready(old, backup) => Ready(v, backup')
    BY <1>3, <2>1, <2>3 DEF Ready, Holds
  <2> HIDE DEF v
  <2>5. v \in SaveOps
    BY <2>1 DEF SaveOps
  <2>6. Shape'
    BY <1>1, <1>2, <1>3, <1>4, <2>2, <2>5 DEF Shape
  <2>7. v.pc # "idle"
    BY <2>1
  <2>8. UNCHANGED <<file, up, scene, user, timer, edits>>
    BY <1>1, <1>3
  <2>9. ~risk' /\ Shown => FileHolds \/ timer \/ (v.pc # "idle" /\ Ready(v, backup'))
    BY <1>2, <1>4, <2>4, <2>7
  <2> QED
    BY <1>2, <1>4, <2>2, <2>6, <2>8, <2>9, RunStep
<1> QED
  BY <1>5, <1>6

LEMMA AdoptedKeeps ==
    ASSUME SafeInv, NEW k \in Slots, NEW o \in Outcomes, Adopted(k, o)
    PROVE  SafeInv'
<1> DEFINE kept == o = "ok" /\ RowNamed(saves[k].id) # {}
<1>1. /\ saves[k].pc = "adopting" /\ PutBackup(saves[k].id, saves[k].scene, o)
      /\ backupID' = IF kept THEN backupID ELSE [backupID EXCEPT !["backend"] = 0]
      /\ saves' = [saves EXCEPT ![k] = Free]
      /\ risk' = (risk \/ o = "failed")
      /\ UNCHANGED <<file, lastId, up, curID, curName, stage, timer, user, counts>>
  BY DEF Adopted
<1>2. /\ Shape /\ k \in Saving /\ saves[k] \in Backups
      /\ ~risk /\ Shown => FileHolds \/ timer \/ Ready(saves[k], backup)
  BY <1>1, RunFacts
<1>3. saves[k].scene \in Scenes
  BY <1>2 DEF Backups
<1>4. /\ backup' \in [Names -> Rows \cup {None}]
      /\ o # "failed" => \A n \in RowNamed(saves[k].id) :
                            backup'[n] # None /\ backup'[n].scene = saves[k].scene
  <2> DEFINE id == saves[k].id
             content == saves[k].scene
  <2>1. Shape /\ content \in Scenes /\ PutBackup(id, content, o)
    BY <1>1, <1>2, <1>3
  <2> HIDE DEF id, content
  <2>2. /\ backup' \in [Names -> Rows \cup {None}]
        /\ o # "failed" => \A n \in RowNamed(id) : backup'[n] # None /\ backup'[n].scene = content
    BY <2>1, PutType
  <2> QED
    BY <2>2 DEF id, content
<1>5. backupID' \in [Stages -> Nat] /\ backupID'["frontend"] = backupID["frontend"]
  BY <1>1, <1>2, IdType DEF Shape
<1>6. UNCHANGED <<scene, importing, settles, edits>>
  BY <1>1 DEF stage, counts
<1>7. risk' \in BOOLEAN /\ (~risk' => ~risk /\ o # "failed")
  BY <1>1, <1>2 DEF Shape
<1>8. ~risk' /\ Ready(saves[k], backup) => BackedUp'
  <2> HAVE ~risk' /\ Ready(saves[k], backup)
  <2>1. RowNamed(saves[k].id) # {} /\ Holds(saves[k].scene)
    BY <1>1 DEF Ready, RowNamed
  <2>2. \E n \in Names : backup'[n] # None /\ backup'[n].scene = saves[k].scene
    BY <1>4, <1>7, <2>1 DEF RowNamed
  <2> QED
    BY <1>6, <2>1, <2>2 DEF BackedUp, Holds
<1> HIDE DEF kept
<1>9. Free \in SaveOps
  BY DEF SaveOps
<1>10. Shape'
  BY <1>1, <1>2, <1>4, <1>5, <1>6, <1>7, <1>9 DEF Shape
<1>11. ~risk' /\ Shown => FileHolds \/ timer \/ BackedUp'
  BY <1>2, <1>7, <1>8
<1>12. UNCHANGED <<file, up, scene, user, timer, edits>>
  BY <1>1, <1>6
<1> QED
  BY <1>1, <1>2, <1>5, <1>7, <1>10, <1>11, <1>12, RunStep

LEMMA CreatedKeeps ==
    ASSUME SafeInv, NEW k \in Slots, NEW o \in Outcomes, Created(k, o)
    PROVE  SafeInv'
<1> DEFINE old == saves[k]
           new == o # "failed" /\ backup[old.name] = None
           row == [id |-> lastId + 1, scene |-> old.scene]
<1>1. /\ old.pc = "creating"
      /\ IF new
         THEN lastId' = lastId + 1 /\ backup' = [backup EXCEPT ![old.name] = row]
         ELSE UNCHANGED <<lastId, backup>>
      /\ backupID' = IF new /\ o = "ok"
                     THEN [backupID EXCEPT !["backend"] = lastId + 1] ELSE backupID
      /\ saves' = [saves EXCEPT ![k] = Free]
      /\ risk' = (risk \/ o = "failed")
      /\ UNCHANGED <<file, up, curID, curName, stage, timer, user, counts>>
  BY DEF Created
<1>2. /\ Shape /\ k \in Saving /\ old \in Backups
      /\ ~risk /\ Shown => FileHolds \/ timer \/ Ready(old, backup)
  BY <1>1, RunFacts
<1>3. old.scene \in Scenes /\ old.name \in Names /\ lastId + 1 \in Nat
  BY <1>2 DEF Backups, Shape
<1>4. row \in Rows /\ row # None /\ row.scene = old.scene
  BY <1>3, NoneAssumption DEF Rows
<1> HIDE DEF row
<1>5. backup' \in [Names -> Rows \cup {None}] /\ lastId' \in Nat
  BY <1>1, <1>2, <1>3, <1>4 DEF Shape
<1>6. backupID' \in [Stages -> Nat] /\ backupID'["frontend"] = backupID["frontend"]
  BY <1>1, <1>2, <1>3, IdType DEF Shape
<1>7. UNCHANGED <<scene, importing, settles, edits>>
  BY <1>1 DEF stage, counts
<1>8. risk' \in BOOLEAN /\ (~risk' => ~risk /\ o # "failed")
  BY <1>1, <1>2 DEF Shape
<1>9. ~risk' /\ Ready(old, backup) => BackedUp'
  <2> HAVE ~risk' /\ Ready(old, backup)
  <2>1. new /\ Holds(old.scene)
    BY <1>1, <1>8 DEF Ready
  <2>2. backup'[old.name] = row
    BY <1>1, <1>2, <1>3, <2>1 DEF Shape
  <2> QED
    BY <1>3, <1>4, <1>7, <2>1, <2>2 DEF BackedUp, Holds
<1> HIDE DEF new
<1>10. Free \in SaveOps
  BY DEF SaveOps
<1>11. Shape'
  BY <1>1, <1>2, <1>5, <1>6, <1>7, <1>8, <1>10 DEF Shape
<1>12. ~risk' /\ Shown => FileHolds \/ timer \/ BackedUp'
  BY <1>2, <1>8, <1>9
<1>13. UNCHANGED <<file, up, scene, user, timer, edits>>
  BY <1>1, <1>7
<1> QED
  BY <1>1, <1>2, <1>6, <1>8, <1>11, <1>12, <1>13, RunStep

-----------------------------------------------------------------------------
(* Manual saves.                                                            *)

\* A step that is no part of a session's start: none is starting.
LEMMA NotBooting ==
    ASSUME Shape, BootInv, NEW s \in Stages, Busy(s), ~user[s].boot
    PROVE  up /\ ~Boots("backend") /\ ~Boots("frontend") /\ ~Booting
           /\ \A t \in Stages : user[t].pc # "loaded"
<1>1. user[s] # Free
  BY DEF Busy, Free
<1>2. up
  BY <1>1 DEF BootInv, Down
<1>3. s = "backend" \/ s = "frontend"
  BY DEF Stages
<1>4. ~Boots("backend") /\ ~Boots("frontend")
  BY <1>1, <1>3 DEF BootInv, BackendFirst, FrontendNext, Boots
<1>5. ~Booting
  BY <1>4 DEF Booting, Boots, Stages
<1>6. \A t \in Stages : user[t].pc # "loaded"
  BY <1>4 DEF BootInv, Boots, Busy
<1> QED
  BY <1>2, <1>4, <1>5, <1>6

\* With the page loaded and no session starting, that part of the invariant asks
\* nothing.
LEMMA NoBoot ==
    ASSUME up', \A t \in Stages : user'[t].pc # "idle" => ~user'[t].boot,
           \A t \in Stages : user'[t].pc # "loaded"
    PROVE  BootInv' /\ ~Booting'
BY DEF BootInv, Boots, Busy, Booting, Stages

\* A manual save, or its deletion of a backup, goes on or ends: a project never
\* loses the change, the timer is stopped only when a project has it, and so with
\* the backup.
LEMMA UserStep ==
    ASSUME SafeInv, NEW s \in Stages, Busy(s), ~user[s].boot, Shape',
           UNCHANGED <<up, scene, saves, edits, risk>>,
           \A t \in Stages \ {s} : user'[t] = user[t],
           user'[s] = Free \/ (~user'[s].boot /\ user'[s].pc # "loaded"),
           ~risk /\ Shown /\ user'[s].pc = "deleting" => FileHolds',
           ~risk /\ up => (user'[s].pc \in Saves => user'[s].scene = scene),
           user'[s].pc \notin Imported3 \cup {"loading"},
           ~risk /\ Shown /\ FileHolds => FileHolds',
           ~risk /\ Shown => FileHolds' \/ (timer' = timer /\ backup' = backup /\ file' = file)
    PROVE  SafeInv'
<1>1. Shape /\ BootInv
  BY DEF SafeInv
<1>2. up /\ ~Booting /\ \A t \in Stages : user[t].pc # "loaded" /\ (user[t].pc # "idle" => ~user[t].boot)
  BY <1>1, NotBooting DEF Booting, Busy
<1>3. \A t \in Stages : user'[t].pc # "loaded" /\ (user'[t].pc # "idle" => ~user'[t].boot)
  <2> TAKE t \in Stages
  <2>1. CASE t = s
    BY <2>1 DEF Free
  <2>2. CASE t # s
    BY <1>2, <2>2
  <2> QED
    BY <2>1, <2>2
<1>4. BootInv' /\ ~Booting'
  BY <1>2, <1>3, NoBoot
<1>5. ASSUME ~risk
      PROVE  Cover'
  <2>1. /\ \A j, k \in Saving : j = k
        /\ Shown => Held \/ timer \/ \E k \in Saving : Holds(saves[k].scene)
        /\ \A k \in Saving : Shown => FileHolds \/ timer \/ Ready(saves[k], backup)
        /\ \A t \in Stages : StepFits(user[t])
    BY <1>2, <1>5 DEF SafeInv, Cover
  <2>2. Saving' = Saving /\ (Shown' <=> Shown) /\ \A c : Holds(c) <=> (\E t \in Stages : c[t] = edits')
    BY DEF Saving, Shown, Holds
  <2>3. Shown => FileHolds' \/ (timer' = timer /\ backup' = backup /\ file' = file)
    BY <1>5
  <2>4. (Shown => Held \/ timer \/ \E k \in Saving : Holds(saves[k].scene))'
    <3>1. CASE FileHolds'
      BY <3>1 DEF Held, FileHolds
    <3>2. CASE timer' = timer /\ backup' = backup /\ file' = file
      <4>1. Held' <=> Held
        BY <3>2 DEF Held, BackedUp, Holds
      <4>2. (\E k \in Saving : Holds(saves[k].scene))' <=> \E k \in Saving : Holds(saves[k].scene)
        BY <2>2 DEF Holds
      <4> QED
        BY <2>1, <2>2, <3>2, <4>1, <4>2
    <3> QED
      BY <2>2, <2>3, <3>1, <3>2
  <2>5. (\A k \in Saving : Shown => FileHolds \/ timer \/ Ready(saves[k], backup))'
    <3>1. CASE FileHolds'
      BY <3>1
    <3>2. CASE timer' = timer /\ backup' = backup /\ file' = file
      BY <2>1, <2>2, <3>2 DEF FileHolds, Ready, Holds
    <3> QED
      BY <2>2, <2>3, <3>1, <3>2
  <2>6. (\A t \in Stages : StepFits(user[t]))'
    <3> SUFFICES ASSUME NEW t \in Stages
                 PROVE  StepFits(user[t])'
      OBVIOUS
    <3>1. CASE t # s
      <4>1. StepFits(user[t]) /\ user'[t] = user[t]
        BY <2>1, <3>1
      <4>2. user[t].pc \notin Imported3 \cup {"loading"}
        BY <1>2, <4>1 DEF StepFits, Imported3
      <4>3. user[t].pc = "deleting" /\ Shown => FileHolds'
        BY <1>5, <4>1 DEF StepFits
      <4> QED
        BY <2>2, <4>1, <4>2, <4>3 DEF StepFits
    <3>2. CASE t = s
      <4>1. user'[s].pc \in Saves => user'[s].scene = scene
        BY <1>2, <1>5
      <4>2. user'[s].pc \notin Imported3 \cup {"loading"}
        OBVIOUS
      <4>3. user'[s].pc = "deleting" /\ Shown => FileHolds'
        BY <1>5
      <4> QED
        BY <2>2, <3>2, <4>1, <4>2, <4>3 DEF StepFits
    <3> QED
      BY <3>1, <3>2
  <2> QED
    BY <1>4, <2>1, <2>2, <2>4, <2>5, <2>6 DEF Cover
<1> QED
  BY <1>4, <1>5 DEF SafeInv, Cover

\* What a manual save or a deletion can rely on.
LEMMA UserFacts ==
    ASSUME SafeInv, NEW s \in Stages, user[s].pc \in Saves \cup {"deleting"}
    PROVE  /\ Shape /\ BootInv /\ Busy(s) /\ ~user[s].boot /\ up /\ ~Booting
           /\ user[s].pc \in Saves => user[s] \in Savings
           /\ user[s].pc = "deleting" => user[s] \in Deletions
           /\ ~risk => StepFits(user[s])
<1>1. Shape /\ BootInv /\ user[s] \in UserOps /\ Busy(s)
  BY DEF SafeInv, Shape, Saves, Busy
<1>2. /\ user[s].pc \in Saves => user[s] \in Savings
      /\ user[s].pc = "deleting" => user[s] \in Deletions
  BY <1>1, OpKinds DEF Saves
<1>3. ~user[s].boot
  <2>1. CASE user[s].pc \in Saves
    BY <1>2, <2>1 DEF Savings
  <2>2. CASE user[s].pc = "deleting"
    <3>1. s = "backend" \/ s = "frontend"
      BY DEF Stages
    <3> QED
      BY <1>1, <2>2, <3>1 DEF BootInv, Boots, BackendFirst, FrontendNext, Imported3
  <2> QED
    BY <2>1, <2>2
<1>4. up /\ ~Booting
  BY <1>1, <1>3, NotBooting
<1> QED
  BY <1>1, <1>2, <1>3, <1>4 DEF SafeInv, Cover

\* A project that was saved has what is on the screen.
LEMMA Stored ==
    ASSUME SafeInv, NEW s \in Stages, user[s].pc \in Saves,
           scene' = scene, edits' = edits,
           file' = [file EXCEPT ![user[s].name] = user[s].scene]
    PROVE  /\ file' \in [Projects -> Scenes \cup {None}]
           /\ ~risk /\ Shown => FileHolds'
<1>1. /\ Shape /\ user[s] \in Savings /\ up
      /\ ~risk => StepFits(user[s])
  BY UserFacts
<1>2. user[s].name \in Projects /\ user[s].scene \in Scenes
  BY <1>1 DEF Savings
<1>3. file' \in [Projects -> Scenes \cup {None}] /\ file'[user[s].name] = user[s].scene
  BY <1>1, <1>2 DEF Shape
<1>4. ASSUME ~risk, Shown
      PROVE  FileHolds'
  <2>1. user[s].scene = scene
    BY <1>1, <1>4 DEF StepFits
  <2>2. file'[user[s].name] # None
    BY <1>2, <1>3, NoneAssumption
  <2>3. \E t \in Stages : scene[t] = edits
    BY <1>4 DEF Shown
  <2> QED
    BY <1>2, <1>3, <2>1, <2>2, <2>3 DEF FileHolds, Holds
<1> QED
  BY <1>3, <1>4

\* A save whose answer is good removes the backup; it is saved by then.
LEMMA SavedWell ==
    ASSUME SafeInv, NEW s \in Stages, user[s].pc \in Saves,
           UNCHANGED <<up, scene, saves, edits, risk, backup>>,
           NEW again \in BOOLEAN, DeleteBackup(s, again),
           file' = [file EXCEPT ![user[s].name] = user[s].scene],
           UNCHANGED <<lastId, importing, settles, backupID>>,
           curID' \in [Stages -> Names], curName' \in [Stages -> Names]
    PROVE  SafeInv'
<1>1. Shape /\ Busy(s) /\ ~user[s].boot
  BY UserFacts
<1>2. /\ file' \in [Projects -> Scenes \cup {None}]
      /\ ~risk /\ Shown => FileHolds'
  BY Stored
<1>3. /\ timer' \in BOOLEAN /\ user' \in [Stages -> UserOps]
      /\ user'[s] = Free \/ (user'[s].pc = "deleting" /\ user'[s].boot = user[s].boot)
      /\ \A t \in Stages \ {s} : user'[t] = user[t]
  BY <1>1, DeleteBackupMoves DEF Busy
<1>4. Shape'
  BY <1>1, <1>2, <1>3 DEF Shape
<1>5. user'[s].pc \in {"idle", "deleting"}
  BY <1>3 DEF Free
<1> QED
  BY <1>1, <1>2, <1>3, <1>4, <1>5, UserStep DEF Saves, Imported3

\* A save that goes on or gives up, the project written or not.
LEMMA SavedOrNot ==
    ASSUME SafeInv, NEW s \in Stages, user[s].pc \in Saves,
           UNCHANGED <<up, scene, saves, edits, risk, backup, timer>>,
           NEW x, user' = [user EXCEPT ![s] = x],
           \/ x = Free
           \/ x \in Savings /\ x.scene = user[s].scene,
           file' = file \/ file' = [file EXCEPT ![user[s].name] = user[s].scene],
           UNCHANGED <<lastId, importing, settles, backupID, curID, curName>>
    PROVE  SafeInv'
<1>1. Shape /\ Busy(s) /\ ~user[s].boot /\ (~risk => StepFits(user[s]))
  BY UserFacts
<1>2. /\ file' \in [Projects -> Scenes \cup {None}]
      /\ ~risk /\ Shown => FileHolds' \/ file' = file
  BY <1>1, Stored DEF Shape
<1>3. x \in UserOps
  BY DEF UserOps
<1>4. user'[s] = x /\ user' \in [Stages -> UserOps] /\ \A t \in Stages \ {s} : user'[t] = user[t]
  BY <1>1, <1>3 DEF Shape
<1>5. Shape'
  BY <1>1, <1>2, <1>4 DEF Shape
<1>6. x.pc \in Saves \cup {"idle"} /\ (x.pc \in Saves => x.scene = user[s].scene /\ ~x.boot)
  <2>1. CASE x = Free
    <3>1. x.pc = "idle"
      BY <2>1 DEF Free
    <3> QED
      BY <3>1 DEF Saves
  <2>2. CASE x \in Savings /\ x.scene = user[s].scene
    BY <2>2 DEF Savings, Saves
  <2> QED
    BY <2>1, <2>2
<1>7. ~risk /\ Shown /\ FileHolds => FileHolds'
  BY <1>2 DEF FileHolds, Holds
<1>8. ~risk => user[s].scene = scene
  BY <1>1 DEF StepFits
<1>9. user'[s] = Free \/ (~user'[s].boot /\ user'[s].pc # "loaded")
  BY <1>4, <1>6 DEF Savings, Saves
<1>10. /\ user'[s].pc \in Saves => user[s].scene = user'[s].scene
       /\ user'[s].pc \notin Imported3 \cup {"loading"} /\ user'[s].pc # "deleting"
  BY <1>4, <1>6 DEF Saves, Imported3
<1> QED
  BY <1>1, <1>2, <1>4, <1>5, <1>7, <1>8, <1>9, <1>10, UserStep

LEMMA QuickSavedKeeps ==
    ASSUME SafeInv, NEW s \in Stages, NEW o \in Outcomes, QuickSaved(s, o)
    PROVE  SafeInv'
<1>1. /\ user[s].pc \in Saves
      /\ UNCHANGED <<up, scene, saves, edits, risk, backup>>
      /\ UNCHANGED <<lastId, importing, settles, backupID, curID, curName>>
  BY DEF QuickSaved, Saves, stage, counts, open
<1>2. CASE o = "ok"
  <2>1. /\ file' = [file EXCEPT ![user[s].name] = user[s].scene]
        /\ DeleteBackup(s, FALSE)
    BY <1>2 DEF QuickSaved
  <2>2. curID' \in [Stages -> Names] /\ curName' \in [Stages -> Names]
    BY <1>1 DEF SafeInv, Shape
  <2> QED
    BY <1>1, <2>1, <2>2, SavedWell
<1>3. CASE o # "ok"
  <2>1. /\ file' = file \/ file' = [file EXCEPT ![user[s].name] = user[s].scene]
        /\ user' = [user EXCEPT ![s] = Free] /\ timer' = timer
    BY <1>3 DEF QuickSaved
  <2> QED
    BY <1>1, <2>1, SavedOrNot
<1> QED
  BY <1>2, <1>3

\* The ids of a workspace after a save under a name.
LEMMA Renamed ==
    ASSUME Shape, NEW s \in Stages, NEW p \in Projects
    PROVE  [curID EXCEPT ![s] = p] \in [Stages -> Names] /\ [curName EXCEPT ![s] = p] \in [Stages -> Names]
BY DEF Shape, Names

LEMMA NamedKeeps ==
    ASSUME SafeInv, NEW s \in Stages, NEW o \in Outcomes, Named(s, o)
    PROVE  SafeInv'
<1> DEFINE u == user[s]
           new == file[u.name] = None
<1>1. /\ u.pc = "naming" /\ u.pc \in Saves
      /\ UNCHANGED <<up, scene, saves, edits, risk, backup>>
      /\ UNCHANGED <<lastId, importing, settles, backupID>>
  BY DEF Named, Saves, stage, counts
<1>2. Shape /\ u \in Savings
  BY <1>1, UserFacts
<1>3. CASE new /\ o = "ok"
  <2>1. /\ file' = [file EXCEPT ![u.name] = u.scene]
        /\ curID' = [curID EXCEPT ![s] = u.name] /\ curName' = [curName EXCEPT ![s] = u.name]
        /\ DeleteBackup(s, TRUE)
    BY <1>3 DEF Named
  <2>2. u.name \in Projects
    BY <1>2 DEF Savings
  <2>3. curID' \in [Stages -> Names] /\ curName' \in [Stages -> Names]
    BY <1>2, <2>1, <2>2, Renamed
  <2> QED
    BY <1>1, <2>1, <2>3, SavedWell
<1>4. CASE ~(new /\ o = "ok")
  <2> DEFINE x == IF o = "ok" THEN [u EXCEPT !.pc = "finding"] ELSE Free
  <2>1. /\ file' = file \/ file' = [file EXCEPT ![u.name] = u.scene]
        /\ user' = [user EXCEPT ![s] = x]
        /\ UNCHANGED <<curID, curName, timer>>
    BY <1>4 DEF Named
  <2>2. x = Free \/ (x \in Savings /\ x.scene = u.scene)
    BY <1>2 DEF Savings
  <2> HIDE DEF x
  <2> QED
    BY <1>1, <2>1, <2>2, SavedOrNot
<1> QED
  BY <1>3, <1>4

LEMMA FoundKeeps ==
    ASSUME SafeInv, NEW s \in Stages, NEW o \in Outcomes, Found(s, o)
    PROVE  SafeInv'
<1> DEFINE x == IF o = "ok" THEN [user[s] EXCEPT !.pc = "overwriting"] ELSE Free
<1>1. /\ user[s].pc \in Saves
      /\ UNCHANGED <<up, scene, saves, edits, risk, backup, timer, file>>
      /\ UNCHANGED <<lastId, importing, settles, backupID, curID, curName>>
      /\ user' = [user EXCEPT ![s] = x]
  BY DEF Found, Saves, stage, counts, open, rows
<1>2. Shape /\ user[s] \in Savings
  BY <1>1, UserFacts
<1>3. x = Free \/ (x \in Savings /\ x.scene = user[s].scene)
  BY <1>2 DEF Savings
<1> HIDE DEF x
<1> QED
  BY <1>1, <1>3, SavedOrNot

LEMMA OverwrittenKeeps ==
    ASSUME SafeInv, NEW s \in Stages, NEW o \in Outcomes, Overwritten(s, o)
    PROVE  SafeInv'
<1> DEFINE u == user[s]
<1>1. /\ u.pc \in Saves
      /\ UNCHANGED <<up, scene, saves, edits, risk, backup>>
      /\ UNCHANGED <<lastId, importing, settles, backupID>>
  BY DEF Overwritten, Saves, stage, counts
<1>2. Shape /\ u \in Savings
  BY <1>1, UserFacts
<1>3. CASE o = "ok"
  <2>1. /\ file' = [file EXCEPT ![u.name] = u.scene]
        /\ curID' = [curID EXCEPT ![s] = u.name] /\ curName' = [curName EXCEPT ![s] = u.name]
        /\ DeleteBackup(s, TRUE)
    BY <1>3 DEF Overwritten
  <2>2. u.name \in Projects
    BY <1>2 DEF Savings
  <2>3. curID' \in [Stages -> Names] /\ curName' \in [Stages -> Names]
    BY <1>2, <2>1, <2>2, Renamed
  <2> QED
    BY <1>1, <2>1, <2>3, SavedWell
<1>4. CASE o # "ok"
  <2>1. /\ file' = file \/ file' = [file EXCEPT ![u.name] = u.scene]
        /\ user' = [user EXCEPT ![s] = Free]
        /\ UNCHANGED <<curID, curName, timer>>
    BY <1>4 DEF Overwritten
  <2> QED
    BY <1>1, <2>1, SavedOrNot
<1> QED
  BY <1>3, <1>4

\* The backup is gone, and a project has the change.
LEMMA DeletedKeeps ==
    ASSUME SafeInv, NEW s \in Stages, NEW o \in Outcomes, Deleted(s, o)
    PROVE  SafeInv'
<1>1. /\ user[s].pc = "deleting" /\ Finish(s)
      /\ backup' = [n \in Names |-> IF o # "failed" /\ n \in RowNamed(user[s].id)
                                    THEN None ELSE backup[n]]
      /\ backupID' = [backupID EXCEPT ![s] = 0]
      /\ timer' = (timer /\ ~(user[s].again /\ s = "backend"))
      /\ UNCHANGED <<up, scene, saves, edits, risk>>
      /\ UNCHANGED <<file, lastId, importing, settles, curID, curName>>
  BY DEF Deleted, stage, counts
<1>2. /\ Shape /\ Busy(s) /\ ~user[s].boot /\ user[s] \in Deletions
      /\ ~risk => StepFits(user[s])
  BY <1>1, UserFacts
<1>3. user' = [user EXCEPT ![s] = Free]
  BY <1>1, <1>2 DEF Finish
<1>4. Free \in UserOps /\ Free.pc = "idle"
  BY DEF UserOps, Free
<1>5. user' \in [Stages -> UserOps] /\ user'[s] = Free /\ \A t \in Stages \ {s} : user'[t] = user[t]
  BY <1>2, <1>3, <1>4 DEF Shape
<1>6. timer' \in BOOLEAN
  BY <1>1
<1>7. backup' \in [Names -> Rows \cup {None}] /\ backupID' \in [Stages -> Nat]
  BY <1>1, <1>2 DEF Shape
<1>8. Shape'
  BY <1>1, <1>2, <1>5, <1>6, <1>7 DEF Shape
<1>9. /\ FileHolds' <=> FileHolds
      /\ ~risk /\ Shown => FileHolds
  BY <1>1, <1>2 DEF StepFits, FileHolds, Holds
<1>10. user'[s].pc = "idle"
  BY <1>4, <1>5
<1> QED
  BY <1>1, <1>2, <1>5, <1>8, <1>9, <1>10, UserStep DEF Saves, Imported3

-----------------------------------------------------------------------------
(* What the user does.                                                      *)

LEMMA InitSafe == Init => SafeInv
<1> SUFFICES ASSUME Init
             PROVE  SafeInv
  OBVIOUS
<1>1. Blank \in Scenes /\ \A p \in Projects : [s \in Stages |-> p] \in Scenes
  BY DEF Blank, Scenes, Contents, Names
<1>2. PICK saved \in SUBSET Projects :
          file = [p \in Projects |-> IF p \in saved THEN [s \in Stages |-> p] ELSE None]
  BY DEF Init
<1>3. file \in [Projects -> Scenes \cup {None}]
  BY <1>1, <1>2
<1>4. Free \in UserOps /\ Free \in SaveOps /\ Free.pc = "idle"
  BY DEF UserOps, SaveOps, Free
<1>5. 0 \in 0..MaxEdits /\ None \in Names
  BY AutosaveConstants DEF Names
<1>6. Shape
  BY <1>1, <1>3, <1>4, <1>5 DEF Init, Shape
<1>7. ~up /\ Down /\ \A s \in Stages : user[s].pc = "idle"
  BY <1>4 DEF Init, Down
<1>8. BootInv
  BY <1>7 DEF BootInv, Boots, Busy, Stages
<1> QED
  BY <1>6, <1>7, <1>8 DEF SafeInv, Cover

\* A step that touches neither rows nor runs, and stops no timer.
LEMMA CoverKept ==
    ASSUME Cover, UNCHANGED <<file, backup, up, saves, edits, risk>>,
           timer => timer', Shown' => Shown,
           ~risk /\ up => (Booting' => Saving = {}),
           ~risk /\ up => (\A s \in Stages : StepFits(user[s]))'
    PROVE  Cover'
<1> SUFFICES ASSUME ~risk, up
             PROVE  Cover'
  BY DEF Cover
<1>1. Saving' = Saving /\ (FileHolds' <=> FileHolds) /\ (BackedUp' <=> BackedUp)
  BY DEF Saving, FileHolds, BackedUp, Holds
<1>2. Held' <=> Held
  BY <1>1 DEF Held, FileHolds
<1>3. (\A k \in Saving : Shown => FileHolds \/ timer \/ Ready(saves[k], backup))'
  BY <1>1 DEF Cover, Ready, Holds
<1>4. (\E k \in Saving : Holds(saves[k].scene))' <=> \E k \in Saving : Holds(saves[k].scene)
  BY <1>1 DEF Holds
<1>5. (Shown => Held \/ timer \/ \E k \in Saving : Holds(saves[k].scene))'
  BY <1>2, <1>4 DEF Cover
<1>6. (\A j, k \in Saving : j = k)'
  BY <1>1 DEF Cover
<1> QED
  BY <1>1, <1>3, <1>5, <1>6 DEF Cover

\* When no session is starting, no operation belongs to a start.
LEMMA Ordinary ==
    ASSUME Shape, BootInv, ~Booting, NEW s \in Stages
    PROVE  user[s].pc # "loaded" /\ (user[s].pc # "idle" => ~user[s].boot)
BY DEF BootInv, Booting, Busy

\* A manual save takes what is on the screen.
LEMMA SaveBegins ==
    ASSUME SafeInv, NEW s \in Stages, NEW op \in Savings, op.scene = scene, Begin(s, op), risk' = risk
    PROVE  SafeInv'
<1>1. /\ up /\ ~Booting /\ user' = [user EXCEPT ![s] = op]
      /\ UNCHANGED <<file, backup, lastId, up, curID, curName, backupID, scene, importing,
                     settles, timer, saves, edits, risk>>
  BY DEF Begin, rows, open, stage
<1>2. Shape /\ BootInv /\ Cover
  BY DEF SafeInv
<1>3. op \in UserOps /\ op.pc \in Saves /\ ~op.boot
  BY DEF UserOps, Savings, Saves
<1>4. /\ user' \in [Stages -> UserOps] /\ user'[s] = op
      /\ \A t \in Stages \ {s} : user'[t] = user[t]
  BY <1>1, <1>2, <1>3 DEF Shape
<1>5. Shape'
  BY <1>1, <1>2, <1>4 DEF Shape
<1>6. \A t \in Stages : user'[t].pc # "loaded" /\ (user'[t].pc # "idle" => ~user'[t].boot)
  BY <1>1, <1>2, <1>3, <1>4, Ordinary DEF Saves
<1>7. BootInv' /\ ~Booting'
  BY <1>1, <1>6, NoBoot
<1>8. ~risk /\ up => (\A t \in Stages : StepFits(user[t]))'
  <2> SUFFICES ASSUME ~risk, NEW t \in Stages
               PROVE  StepFits(user[t])'
    OBVIOUS
  <2>1. CASE t = s
    BY <1>1, <1>3, <1>4, <2>1 DEF StepFits, Saves, Imported3
  <2>2. CASE t # s
    <3>1. StepFits(user[t]) /\ user'[t] = user[t]
      BY <1>1, <1>2, <1>4, <2>2 DEF Cover
    <3> QED
      BY <1>1, <3>1 DEF StepFits, Source, Shown, FileHolds, Holds
  <2> QED
    BY <2>1, <2>2
<1>9. Shown' <=> Shown
  BY <1>1 DEF Shown
<1> QED
  BY <1>1, <1>2, <1>5, <1>7, <1>8, <1>9, CoverKept DEF SafeInv

LEMMA QuickSaveKeeps ==
    ASSUME SafeInv, NEW s \in Stages, QuickSave(s)
    PROVE  SafeInv'
<1> DEFINE op == [pc |-> "saving", boot |-> FALSE, name |-> curID[s], scene |-> scene]
<1>1. curID[s] \in Projects /\ scene \in Scenes
  BY DEF SafeInv, Shape, QuickSave, Names
<1>2. op \in Savings /\ op.scene = scene
  BY <1>1 DEF Savings
<1>3. Begin(s, op) /\ risk' = risk
  BY DEF QuickSave
<1> HIDE DEF op
<1> QED
  BY <1>2, <1>3, SaveBegins

LEMMA SaveAsKeeps ==
    ASSUME SafeInv, NEW s \in Stages, NEW p \in Projects, SaveAs(s, p)
    PROVE  SafeInv'
<1> DEFINE op == [pc |-> "naming", boot |-> FALSE, name |-> p, scene |-> scene]
<1>1. op \in Savings /\ op.scene = scene
  BY DEF Savings, SafeInv, Shape
<1>2. Begin(s, op) /\ risk' = risk
  BY DEF SaveAs
<1> HIDE DEF op
<1> QED
  BY <1>1, <1>2, SaveBegins

\* What is asked for when a row is opened.
LEMMA OpeningType ==
    ASSUME Shape, NEW kind \in Kinds, NEW n \in Names, NEW boot \in BOOLEAN, Row(kind, n)
    PROVE  /\ Opening(kind, n, boot) \in Loadings /\ Opening(kind, n, boot) \in UserOps
           /\ Opening(kind, n, boot).pc = "loading" /\ Opening(kind, n, boot).boot = boot
<1>1. kind = "backup" => backup[n].id \in Nat
  BY DEF Shape, Row, Rows
<1> QED
  BY <1>1 DEF Opening, Loadings, UserOps

LEMMA OpenKeeps ==
    ASSUME SafeInv, NEW s \in Stages, NEW kind \in Kinds, NEW n \in Names, Open(s, kind, n)
    PROVE  SafeInv'
<1> DEFINE op == Opening(kind, n, FALSE)
<1>1. /\ up /\ ~Booting /\ user' = [user EXCEPT ![s] = op] /\ risk' = TRUE
      /\ UNCHANGED <<file, backup, lastId, up, curID, curName, backupID, scene, importing,
                     settles, timer, saves, edits>>
  BY DEF Open, Begin, rows, open, stage
<1>2. Shape /\ BootInv
  BY DEF SafeInv
<1>3. op \in UserOps /\ op.pc = "loading" /\ ~op.boot
  BY <1>2, OpeningType DEF Open
<1> HIDE DEF op
<1>4. /\ user' \in [Stages -> UserOps] /\ user'[s] = op
      /\ \A t \in Stages \ {s} : user'[t] = user[t]
  BY <1>1, <1>2, <1>3 DEF Shape
<1>5. Shape'
  BY <1>1, <1>2, <1>4 DEF Shape
<1>6. \A t \in Stages : user'[t].pc # "loaded" /\ (user'[t].pc # "idle" => ~user'[t].boot)
  BY <1>1, <1>2, <1>3, <1>4, Ordinary
<1>7. BootInv'
  BY <1>1, <1>6, NoBoot
<1> QED
  BY <1>1, <1>5, <1>7 DEF SafeInv, Cover

LEMMA DeleteRowKeeps ==
    ASSUME SafeInv, NEW n \in Names, DeleteRow(n)
    PROVE  SafeInv'
<1>1. /\ up /\ ~Booting /\ backup' = [backup EXCEPT ![n] = None] /\ risk' = TRUE
      /\ UNCHANGED <<file, lastId, up, curID, curName, backupID, scene, importing,
                     settles, timer, saves, user, edits>>
  BY DEF DeleteRow, open, stage
<1>2. Shape /\ BootInv
  BY DEF SafeInv
<1>3. Shape'
  BY <1>1, <1>2 DEF Shape
<1>4. \A t \in Stages : user'[t].pc # "loaded" /\ (user'[t].pc # "idle" => ~user'[t].boot)
  BY <1>1, <1>2, Ordinary
<1>5. BootInv'
  BY <1>1, <1>4, NoBoot
<1> QED
  BY <1>1, <1>3, <1>5 DEF SafeInv, Cover

\* Two runs of saveBackup are more than one.
LEMMA TwoRuns ==
    ASSUME NEW j \in Saving, NEW k \in Saving, j # k
    PROVE  Cardinality(Saving) > 1
<1>1. IsFiniteSet(Slots) /\ Saving \subseteq Slots
  BY AutosaveConstants, FS_Interval DEF Slots, Saving
<1>2. IsFiniteSet(Saving)
  BY <1>1, FS_Subset
<1>3. IsFiniteSet({j}) /\ Cardinality({j}) = 1
  BY FS_Singleton
<1>4. IsFiniteSet({j} \cup {k}) /\ Cardinality({j} \cup {k}) = 2
  BY <1>3, FS_AddElement
<1>5. Cardinality({j} \cup {k}) <= Cardinality(Saving)
  BY <1>2, FS_Subset
<1>6. Cardinality(Saving) \in Nat
  BY <1>2, FS_CardinalityType
<1> QED
  BY <1>4, <1>5, <1>6

\* A change on a stage that is not importing starts the timer.
LEMMA EditKeeps ==
    ASSUME SafeInv, NEW s \in Stages, Edit(s)
    PROVE  SafeInv'
<1>1. /\ up /\ ~Booting /\ edits < MaxEdits /\ edits' = edits + 1
      /\ scene' = [scene EXCEPT ![s] = edits + 1]
      /\ timer' = (timer \/ ~importing[s])
      /\ risk' = (importing[s] \/ (\E t \in Stages : Busy(t)) \/ Cardinality(Saving) > 1)
      /\ UNCHANGED <<file, backup, lastId, up, curID, curName, backupID, importing,
                     settles, saves, user>>
  BY DEF Edit, rows, open
<1>2. Shape /\ BootInv
  BY DEF SafeInv
<1>3. edits' \in 0..MaxEdits /\ edits + 1 \in Contents
  BY <1>1, <1>2, AutosaveConstants DEF Shape, Contents
<1>4. scene' \in Scenes
  BY <1>1, <1>2, <1>3 DEF Shape, Scenes
<1>5. timer' \in BOOLEAN /\ risk' \in BOOLEAN
  BY <1>1
<1>6. Shape'
  BY <1>1, <1>2, <1>3, <1>4, <1>5 DEF Shape
<1>7. \A t \in Stages : user'[t].pc # "loaded" /\ (user'[t].pc # "idle" => ~user'[t].boot)
  BY <1>1, <1>2, Ordinary
<1>8. BootInv' /\ ~Booting'
  BY <1>1, <1>7, NoBoot
<1>9. ASSUME ~risk'
      PROVE  Cover'
  <2>1. ~importing[s] /\ (\A t \in Stages : ~Busy(t)) /\ ~(Cardinality(Saving) > 1)
    BY <1>1, <1>9
  <2>2. timer'
    BY <1>1, <2>1
  <2>3. \A t \in Stages : user'[t].pc = "idle"
    BY <1>1, <2>1 DEF Busy
  <2>4. Saving' = Saving /\ \A j, k \in Saving : j = k
    BY <1>1, <2>1, TwoRuns DEF Saving
  <2>5. (\A t \in Stages : StepFits(user[t]))'
    BY <2>3 DEF StepFits, Saves, Imported3
  <2> QED
    BY <1>8, <2>2, <2>4, <2>5 DEF Cover
<1> QED
  BY <1>6, <1>8, <1>9 DEF SafeInv, Cover

\* A run of saveBackup begins with what is on the screen.
LEMMA DebouncedKeeps ==
    ASSUME SafeInv, NEW k \in Slots, Debounced(k)
    PROVE  SafeInv'
<1> DEFINE v == SaveBackup(backupID["backend"])
<1>1. /\ timer /\ timer' = FALSE /\ saves' = [saves EXCEPT ![k] = v]
      /\ risk' = (risk \/ Saving # {} \/ \E t \in Stages : Busy(t))
      /\ UNCHANGED <<file, backup, lastId, up, curID, curName, backupID, scene, importing,
                     settles, user, edits>>
  BY DEF Debounced, rows, open, stage, counts
<1>2. Shape /\ BootInv
  BY DEF SafeInv
<1>3. v \in SaveOps /\ v.scene = scene /\ v.pc \in {"listing", "updating"}
  <2>1. backupID["backend"] \in Nat
    BY <1>2 DEF Shape, Stages
  <2> QED
    BY <1>2, <2>1, SaveBackupType
<1> HIDE DEF v
<1>4. saves' \in [Slots -> SaveOps] /\ saves'[k] = v /\ \A j \in Slots \ {k} : saves'[j] = saves[j]
  BY <1>1, <1>2, <1>3 DEF Shape
<1>5. risk' \in BOOLEAN
  BY <1>1
<1>6. Shape'
  BY <1>1, <1>2, <1>4, <1>5 DEF Shape
<1>7. up /\ (Boots("backend") => user["backend"].pc = "looking")
  BY <1>1, <1>2 DEF BootInv, Down, BackendFirst
<1>8. BootInv'
  <2>1. Boots("backend")' => BackendFirst'
    BY <1>1, <1>2, <1>7 DEF BootInv, BackendFirst, Boots, Busy
  <2>2. Boots("frontend")' => FrontendNext'
    BY <1>1, <1>2 DEF BootInv, FrontendNext, Boots, Busy
  <2> QED
    BY <1>1, <1>2, <1>7, <2>1, <2>2 DEF BootInv
<1>9. ASSUME ~risk'
      PROVE  Cover'
  <2>1. ~risk /\ Saving = {} /\ \A t \in Stages : user'[t].pc = "idle"
    BY <1>1, <1>9 DEF Busy
  <2>2. Saving' = {k}
    BY <1>3, <1>4, <2>1 DEF Saving
  <2>3. ~Booting'
    BY <2>1 DEF Booting, Busy
  <2>4. (\A t \in Stages : StepFits(user[t]))'
    BY <2>1 DEF StepFits, Saves, Imported3
  <2>5. Shown' => Ready(saves[k], backup)' /\ Holds(saves[k].scene)'
    BY <1>1, <1>3, <1>4 DEF Shown, Ready, Holds
  <2> QED
    BY <2>2, <2>3, <2>4, <2>5 DEF Cover
<1> QED
  BY <1>6, <1>8, <1>9 DEF SafeInv, Cover

-----------------------------------------------------------------------------
(* Imports, and a session's start and end.                                  *)

\* What is in progress fits as before when neither it nor a row changes.
LEMMA FitsAsBefore ==
    ASSUME UNCHANGED <<file, backup, scene, edits>>, NEW s \in Stages, user'[s] = user[s],
           StepFits(user[s])
    PROVE  StepFits(user[s])'
BY DEF StepFits, Source, Shown, FileHolds, Holds

LEMMA SettledKeeps ==
    ASSUME SafeInv, NEW s \in Stages, Settled(s)
    PROVE  SafeInv'
<1>1. /\ settles[s] > 0 /\ settles' = [settles EXCEPT ![s] = @ - 1]
      /\ importing' = [importing EXCEPT ![s] = FALSE]
      /\ timer' = (timer \/ ~importing[s])
      /\ UNCHANGED <<file, backup, lastId, up, curID, curName, backupID, scene, saves, user,
                     edits, risk>>
  BY DEF Settled, rows, open, counts
<1>2. Shape /\ BootInv /\ Cover
  BY DEF SafeInv
<1>3. settles[s] - 1 \in Nat /\ timer' \in BOOLEAN
  BY <1>1, <1>2 DEF Shape
<1>4. settles' \in [Stages -> Nat] /\ importing' \in [Stages -> BOOLEAN]
  BY <1>1, <1>2, <1>3 DEF Shape
<1>5. Shape'
  BY <1>1, <1>2, <1>3, <1>4 DEF Shape
<1>6. settles # [t \in Stages |-> 0]
  BY <1>1
<1>7. up /\ (Boots("backend") => user["backend"].pc = "looking")
  BY <1>2, <1>6 DEF BootInv, Down, BackendFirst
<1>8. BootInv'
  <2>1. Boots("backend")' => BackendFirst'
    BY <1>1, <1>2, <1>7 DEF BootInv, BackendFirst, Boots, Busy
  <2>2. Boots("frontend")' => FrontendNext'
    BY <1>1, <1>2 DEF BootInv, FrontendNext, Boots, Busy
  <2> QED
    BY <1>1, <1>2, <1>7, <2>1, <2>2 DEF BootInv
<1>9. ~risk /\ up => (\A t \in Stages : StepFits(user[t]))'
  BY <1>1, <1>2, FitsAsBefore DEF Cover
<1>10. (Shown' <=> Shown) /\ (Booting' <=> Booting)
  BY <1>1 DEF Shown, Booting, Busy
<1>11. ~risk /\ up => (Booting => Saving = {})
  BY <1>2 DEF Cover
<1> QED
  BY <1>1, <1>2, <1>5, <1>8, <1>9, <1>10, <1>11, CoverKept DEF SafeInv

LEMMA ReloadKeeps ==
    ASSUME SafeInv, Reload
    PROVE  SafeInv'
<1>1. Shape
  BY DEF SafeInv
<1>2. Down' /\ ~up'
  BY DEF Reload, Down
<1>3. Blank \in Scenes /\ Free \in UserOps /\ Free \in SaveOps /\ None \in Names
  BY DEF Blank, Scenes, Contents, Names, UserOps, SaveOps
<1>4. UNCHANGED <<file, backup, lastId, edits, risk>>
  BY DEF Reload, rows
<1>5. Shape'
  BY <1>1, <1>3, <1>4 DEF Reload, Shape
<1>6. \A t \in Stages : user'[t].pc = "idle"
  BY <1>2 DEF Down, Free
<1>7. BootInv'
  BY <1>2, <1>6 DEF BootInv, Boots, Busy, Stages
<1> QED
  BY <1>2, <1>5, <1>7 DEF SafeInv, Cover

\* Nothing is on the screen when a session starts.
LEMMA StartKeeps ==
    ASSUME SafeInv, Start
    PROVE  SafeInv'
<1>1. PICK op : /\ Boot(op)
                /\ \/ op = Free
                   \/ op \in UserOps /\ op.pc = "loading" /\ op.boot
  <2>1. ASSUME NEW kind \in Kinds, NEW n \in Names, Row(kind, n)
        PROVE  /\ Opening(kind, n, TRUE) \in UserOps
               /\ Opening(kind, n, TRUE).pc = "loading" /\ Opening(kind, n, TRUE).boot
    BY <2>1, OpeningType DEF SafeInv
  <2> QED
    BY <2>1 DEF Start, Kinds
<1>2. /\ ~up /\ up' /\ user' = [user EXCEPT !["backend"] = op]
      /\ UNCHANGED <<file, backup, lastId, curID, curName, backupID, scene, importing, settles,
                     timer, saves, edits, risk>>
  BY <1>1 DEF Boot, rows, open, stage, counts
<1>3. Shape /\ Down
  BY <1>2 DEF SafeInv, BootInv
<1>4. op \in UserOps
  BY <1>1 DEF UserOps
<1>5. user' \in [Stages -> UserOps] /\ user'["backend"] = op /\ user'["frontend"] = Free
  BY <1>2, <1>3, <1>4 DEF Shape, Down, Stages
<1>6. Shape'
  BY <1>2, <1>3, <1>5 DEF Shape
<1>7. Free.pc = "idle"
  BY DEF Free
<1>8. Saving' = {}
  BY <1>2, <1>3, <1>7 DEF Saving, Down
<1>9. BootInv'
  <2>1. Boots("backend")' => BackendFirst'
    BY <1>1, <1>2, <1>3, <1>5, <1>7, <1>8
       DEF Boots, Busy, BackendFirst, Down, Blank, Stages
  <2>2. ~Boots("frontend")'
    BY <1>5, <1>7 DEF Boots, Busy
  <2>3. \A t \in Stages : user'[t].pc # "loaded"
    BY <1>1, <1>5, <1>7 DEF Stages
  <2> QED
    BY <1>2, <2>1, <2>2, <2>3 DEF BootInv
<1>10. ~Shown'
  BY <1>2, <1>3, NoneAssumption DEF Shape, Shown, Down, Blank
<1>11. (\A t \in Stages : StepFits(user[t]))'
  BY <1>1, <1>5, <1>7 DEF StepFits, Saves, Imported3, Stages
<1> QED
  BY <1>6, <1>8, <1>9, <1>10, <1>11 DEF SafeInv, Cover

\* A document begins to be imported, or cannot be fetched.
LEMMA LoadedFacts ==
    ASSUME Shape, NEW s \in Stages, NEW o \in Outcomes, Loaded(s, o)
    PROVE  /\ user[s].pc = "loading" /\ user[s] \in Loadings /\ user[s].boot \in BOOLEAN
           /\ UNCHANGED <<file, backup, lastId, up, curID, curName, backupID, settles,
                          timer, saves, edits, risk>>
           /\ \E y \in UserOps :
                 /\ user' = [user EXCEPT ![s] = y]
                 /\ \/ y = Free /\ UNCHANGED <<scene, importing>>
                    \/ /\ y \in Imports /\ y.pc = "clearing" /\ y.boot = user[s].boot
                       /\ Source(y) /\ Clear(s)
                       /\ y.kind # "project" => backup[y.name].id = y.id
<1> DEFINE u == user[s]
           there == IF u.kind = "project" THEN Row("project", u.name)
                    ELSE u.name \in RowNamed(u.id)
           content == IF u.kind = "project" THEN file[u.name] ELSE backup[u.name].scene
           x == [pc |-> "clearing", boot |-> u.boot, kind |-> u.kind,
                 name |-> u.name, id |-> u.id, scene |-> content]
           y == IF o = "ok" /\ there THEN x ELSE Free
<1>1. /\ u.pc = "loading" /\ user' = [user EXCEPT ![s] = y]
      /\ IF o = "ok" /\ there THEN Clear(s) ELSE UNCHANGED <<scene, importing>>
      /\ UNCHANGED <<file, backup, lastId, up, curID, curName, backupID, settles,
                     timer, saves, edits, risk>>
  BY DEF Loaded, rows, open, counts
<1>2. u \in Loadings
  <2>1. u \in UserOps
    BY DEF Shape
  <2> QED
    BY <1>1, <2>1, OpKinds
<1>3. /\ u.boot \in BOOLEAN /\ u.kind \in Kinds /\ u.name \in Names /\ u.id \in Nat
  BY <1>2 DEF Loadings
<1>4. there => /\ x \in Imports /\ x.pc = "clearing" /\ x.boot = u.boot /\ Source(x)
               /\ x.kind # "project" => backup[x.name].id = x.id
  <2> HAVE there
  <2>1. CASE u.kind = "project"
    <3>1. u.name \in Projects /\ file[u.name] # None
      BY <2>1 DEF Row
    <3>2. content = file[u.name] /\ content \in Scenes
      BY <2>1, <3>1 DEF Shape
    <3> HIDE DEF content
    <3> QED
      BY <1>3, <2>1, <3>1, <3>2 DEF Imports, Source
  <2>2. CASE u.kind # "project"
    <3>1. backup[u.name] # None /\ backup[u.name].id = u.id
      BY <2>2 DEF RowNamed
    <3>2. backup[u.name] \in Rows
      BY <1>3, <3>1 DEF Shape
    <3>3. content = backup[u.name].scene /\ content \in Scenes
      BY <2>2, <3>2 DEF Rows
    <3> HIDE DEF content
    <3> QED
      BY <1>3, <2>2, <3>1, <3>3 DEF Imports, Source
  <2> QED
    BY <2>1, <2>2
<1>5. \/ y = Free /\ UNCHANGED <<scene, importing>>
      \/ /\ y \in Imports /\ y.pc = "clearing" /\ y.boot = u.boot
         /\ Source(y) /\ Clear(s)
         /\ y.kind # "project" => backup[y.name].id = y.id
  BY <1>1, <1>4
<1> HIDE DEF x, y, there, content
<1>6. y \in UserOps
  BY <1>5 DEF UserOps
<1> QED
  BY <1>1, <1>2, <1>3, <1>5, <1>6

LEMMA LoadedKeeps ==
    ASSUME SafeInv, NEW s \in Stages, NEW o \in Outcomes, Loaded(s, o)
    PROVE  SafeInv'
<1> DEFINE u == user[s]
<1>1. Shape /\ BootInv /\ Cover
  BY DEF SafeInv
<1>2. PICK y \in UserOps :
         /\ u.pc = "loading" /\ u.boot \in BOOLEAN
         /\ user' = [user EXCEPT ![s] = y]
         /\ UNCHANGED <<file, backup, lastId, up, curID, curName, backupID, settles,
                        timer, saves, edits, risk>>
         /\ \/ y = Free /\ UNCHANGED <<scene, importing>>
            \/ y \in Imports /\ y.pc = "clearing" /\ y.boot = u.boot /\ Source(y) /\ Clear(s)
  BY <1>1, LoadedFacts
<1>3. user' \in [Stages -> UserOps] /\ user'[s] = y /\ \A t \in Stages \ {s} : user'[t] = user[t]
  BY <1>1, <1>2 DEF Shape
<1>4. /\ scene' \in Scenes /\ importing' \in [Stages -> BOOLEAN]
      /\ scene'[s] = scene[s] \/ scene'[s] = None
      /\ \A t \in Stages \ {s} : scene'[t] = scene[t]
  BY <1>1, <1>2 DEF Clear, Shape, Scenes, Contents, Names
<1>5. Shape'
  BY <1>1, <1>2, <1>3, <1>4 DEF Shape
<1>6. Free.pc = "idle"
  BY DEF Free
<1>7. up
  BY <1>1, <1>2, <1>6 DEF BootInv, Down
<1>8. u.boot => s = "backend" /\ Boots("backend") /\ BackendFirst
  BY <1>1, <1>2 DEF BootInv, Boots, Busy, FrontendNext, Imported3, Stages
<1>9. CASE u.boot
  <2>1. user'["frontend"] = Free /\ scene'["frontend"] = None /\ user'["backend"] = y
    BY <1>3, <1>4, <1>8, <1>9 DEF BackendFirst, Stages
  <2>2. y.pc \in {"idle", "clearing"}
    BY <1>2, <1>6
  <2>3. Saving' = Saving /\ Saving = {}
    BY <1>2, <1>8, <1>9 DEF Saving, BackendFirst
  <2>4. Boots("backend")' => BackendFirst'
    BY <1>2, <1>8, <1>9, <2>1, <2>2, <2>3 DEF Boots, Busy, BackendFirst
  <2>5. BootInv'
    BY <1>2, <1>6, <1>7, <2>1, <2>2, <2>4 DEF BootInv, Boots, Busy, Stages
  <2>6. Shown' => Shown
    BY <1>1, <1>2, <1>4, NoneAssumption DEF Shown, Shape
  <2>7. (\A t \in Stages : StepFits(user[t]))'
    <3>1. StepFits(user["frontend"])'
      BY <1>6, <2>1 DEF StepFits, Saves, Imported3
    <3>2. StepFits(user["backend"])'
      BY <1>2, <1>6, <1>9, <2>1 DEF StepFits, Saves, Imported3, Source
    <3> QED
      BY <3>1, <3>2 DEF Stages
  <2>8. Cover'
    BY <1>1, <1>2, <2>3, <2>6, <2>7, CoverKept
  <2> QED
    BY <1>5, <2>5, <2>8 DEF SafeInv
<1>10. CASE ~u.boot
  <2>1. risk
    BY <1>1, <1>2, <1>7, <1>10 DEF Cover, StepFits
  <2>2. \A t \in Stages : user[t].pc # "loaded" /\ (user[t].pc # "idle" => ~user[t].boot)
    BY <1>1, <1>2, <1>10, NotBooting DEF Booting, Busy
  <2>3. \A t \in Stages : user'[t].pc # "loaded" /\ (user'[t].pc # "idle" => ~user'[t].boot)
    <3> TAKE t \in Stages
    <3>1. CASE t = s
      BY <1>2, <1>3, <1>6, <1>10, <3>1
    <3>2. CASE t # s
      BY <1>3, <2>2, <3>2
    <3> QED
      BY <3>1, <3>2
  <2>4. BootInv'
    BY <1>2, <1>7, <2>3, NoBoot
  <2> QED
    BY <1>2, <1>5, <2>1, <2>4 DEF SafeInv, Cover
<1> QED
  BY <1>2, <1>9, <1>10

\* What follows when an import of a session's start ends: after the backend's
\* the frontend's, of the same document.
LEMMA Follow ==
    ASSUME Shape, BootInv, NEW s \in Stages, Finish(s), up', user[s].boot,
           user[s].pc \in {"clearing", "looking"},
           s = "backend" => /\ scene'["backend"] = user[s].scene["backend"]
                            /\ backupID'["frontend"] = 0
    PROVE  /\ BootInv' /\ user' \in [Stages -> UserOps]
           /\ \A t \in Stages : user'[t] = Free \/ user'[t] = [user[s] EXCEPT !.pc = "loaded"]
           /\ user'["backend"] = Free
           /\ s = "backend" => user'["frontend"] = [user[s] EXCEPT !.pc = "loaded"]
           /\ s = "frontend" => user'["frontend"] = Free
<1> DEFINE x == [user[s] EXCEPT !.pc = "loaded"]
<1>1. user \in [Stages -> UserOps] /\ Free \in UserOps /\ Free.pc = "idle"
  BY DEF Shape, UserOps, Free
<1>2. user[s] \in Imports
  BY <1>1, OpKinds
<1>3. x \in Imports /\ x.pc = "loaded" /\ x.boot /\ x.scene = user[s].scene
  BY <1>2 DEF Imports
<1>4. x \in UserOps
  BY <1>3 DEF UserOps
<1>5. CASE s = "backend"
  <2>1. user' = [user EXCEPT !["backend"] = Free, !["frontend"] = x]
    BY <1>5 DEF Finish
  <2> HIDE DEF x
  <2>2. user' \in [Stages -> UserOps] /\ user'["backend"] = Free /\ user'["frontend"] = x
    BY <1>1, <1>4, <2>1 DEF Stages
  <2>3. FrontendNext' /\ ~Boots("backend")'
    BY <1>1, <1>3, <1>5, <2>2 DEF FrontendNext, Boots, Busy, Imported3
  <2>4. BootInv'
    BY <1>1, <1>3, <2>2, <2>3 DEF BootInv, Stages
  <2> QED
    BY <1>5, <2>2, <2>4 DEF x, Stages
<1>6. CASE s = "frontend"
  <2>1. user' = [user EXCEPT !["frontend"] = Free]
    BY <1>6 DEF Finish
  <2>2. user["backend"] = Free
    BY <1>6 DEF BootInv, Boots, Busy, FrontendNext
  <2>3. user' \in [Stages -> UserOps] /\ user'["backend"] = Free /\ user'["frontend"] = Free
    BY <1>1, <2>1, <2>2 DEF Stages
  <2>4. \A t \in Stages : user'[t].pc = "idle"
    BY <1>1, <2>3 DEF Stages
  <2>5. BootInv'
    BY <2>4, NoBoot
  <2> QED
    BY <1>6, <2>3, <2>5 DEF Stages
<1> QED
  BY <1>5, <1>6 DEF Stages

\* ... and it has the row it is imported from.
LEMMA FollowFits ==
    ASSUME NEW u \in Imports, u.boot, Source(u), UNCHANGED <<file, backup>>,
           \A t \in Stages : user'[t] = Free \/ user'[t] = [u EXCEPT !.pc = "loaded"]
    PROVE  (\A t \in Stages : StepFits(user[t]))'
<1> DEFINE x == [u EXCEPT !.pc = "loaded"]
<1>1. x.pc = "loaded" /\ x.boot /\ x.kind = u.kind /\ x.name = u.name /\ x.scene = u.scene
  BY DEF Imports
<1>2. Free.pc = "idle"
  BY DEF Free
<1>3. SUFFICES ASSUME NEW t \in Stages
               PROVE  StepFits(user[t])'
  OBVIOUS
<1>4. user'[t] = Free \/ user'[t] = x
  OBVIOUS
<1> HIDE DEF x
<1> QED
  BY <1>1, <1>2, <1>4 DEF StepFits, Source, Saves, Imported3

\* A document in progress of import: at a session's start it is in a row.
LEMMA ImportFacts ==
    ASSUME SafeInv, NEW s \in Stages, user[s].pc \in Imported3
    PROVE  /\ Shape /\ BootInv /\ Busy(s) /\ up /\ user[s] \in Imports /\ user[s].boot \in BOOLEAN
           /\ ~risk => user[s].boot /\ Source(user[s]) /\ Saving = {}
           /\ s = "backend" /\ user[s].boot => BackendFirst
           /\ s = "frontend" /\ user[s].boot => FrontendNext
<1>1. Shape /\ BootInv /\ Busy(s) /\ user[s] \in UserOps
  BY DEF SafeInv, Shape, Imported3, Busy
<1>2. user[s] \in Imports /\ user[s].boot \in BOOLEAN
  BY <1>1, OpKinds DEF Imported3, Busy
<1>3. up
  BY <1>1 DEF BootInv, Down, Busy, Free
<1>4. ~risk => user[s].boot /\ Source(user[s]) /\ Saving = {}
  BY <1>1, <1>3 DEF SafeInv, Cover, StepFits, Booting
<1> QED
  BY <1>1, <1>2, <1>3, <1>4 DEF BootInv, Boots

LEMMA FollowImportKeeps ==
    ASSUME SafeInv, FollowImport
    PROVE  SafeInv'
<1> DEFINE u == user["frontend"]
           x == [u EXCEPT !.pc = "clearing"]
<1>1. /\ u.pc = "loaded" /\ user' = [user EXCEPT !["frontend"] = x] /\ Clear("frontend")
      /\ UNCHANGED <<file, backup, lastId, up, curID, curName, backupID, settles,
                     timer, saves, edits, risk>>
  BY DEF FollowImport, rows, open, counts
<1>2. "frontend" \in Stages /\ u.pc \in Imported3
  BY <1>1 DEF Stages, Imported3
<1>3. /\ Shape /\ BootInv /\ up /\ u \in Imports
      /\ ~risk => Source(u) /\ Saving = {}
      /\ u.boot => FrontendNext
  BY <1>2, ImportFacts
<1>4. u.boot /\ FrontendNext /\ Cover
  BY <1>1, <1>2, <1>3 DEF BootInv, SafeInv
<1>5. x \in Imports /\ x.pc = "clearing" /\ x.boot /\ x.kind = u.kind /\ x.name = u.name
      /\ x.scene = u.scene
  BY <1>3, <1>4 DEF Imports
<1> HIDE DEF x
<1>6. x \in UserOps
  BY <1>5 DEF UserOps
<1>7. user' \in [Stages -> UserOps] /\ user'["frontend"] = x /\ user'["backend"] = Free
  BY <1>1, <1>3, <1>4, <1>6 DEF Shape, FrontendNext, Stages
<1>8. /\ scene' \in Scenes /\ importing' \in [Stages -> BOOLEAN]
      /\ scene'["frontend"] = None /\ scene'["backend"] = scene["backend"]
  BY <1>1, <1>3 DEF Clear, Shape, Scenes, Contents, Names, Stages
<1>9. Shape'
  BY <1>1, <1>3, <1>7, <1>8 DEF Shape
<1>10. Free.pc = "idle"
  BY DEF Free
<1>11. FrontendNext'
  BY <1>1, <1>4, <1>5, <1>7, <1>8 DEF FrontendNext, Imported3
<1>12. BootInv'
  BY <1>1, <1>3, <1>5, <1>7, <1>10, <1>11 DEF BootInv, Boots, Busy, Stages
<1>13. Shown' => Shown
  BY <1>1, <1>3, <1>8, NoneAssumption DEF Shown, Shape, Stages
<1>14. ~risk => (\A t \in Stages : StepFits(user[t]))'
  <2> HAVE ~risk
  <2>1. StepFits(user["backend"])'
    BY <1>7, <1>10 DEF StepFits, Saves, Imported3
  <2>2. Source(u)
    BY <1>3
  <2>3. StepFits(user["frontend"])'
    BY <1>1, <1>5, <1>7, <2>2 DEF StepFits, Saves, Imported3, Source
  <2> QED
    BY <2>1, <2>3 DEF Stages
<1> QED
  BY <1>1, <1>3, <1>4, <1>9, <1>12, <1>13, <1>14, CoverKept DEF SafeInv

LEMMA LookedKeeps ==
    ASSUME SafeInv, NEW s \in Stages, NEW o \in Outcomes, Looked(s, o)
    PROVE  SafeInv'
<1> DEFINE u == user[s]
           p == IF o = "ok" /\ Row("project", u.name) THEN u.name ELSE None
<1>1. /\ u.pc = "looking" /\ Finish(s)
      /\ curID' = [curID EXCEPT ![s] = p] /\ curName' = [curName EXCEPT ![s] = u.name]
      /\ backupID' = IF u.boot THEN [backupID EXCEPT ![s] = u.id] ELSE backupID
      /\ UNCHANGED <<file, backup, lastId, up, scene, importing, settles,
                     timer, saves, edits, risk>>
  BY DEF Looked, rows, stage, counts
<1>2. /\ Shape /\ BootInv /\ Busy(s) /\ up /\ u \in Imports /\ u.boot \in BOOLEAN
      /\ ~risk => u.boot /\ Source(u) /\ Saving = {}
      /\ s = "backend" /\ u.boot => BackendFirst
  BY <1>1, ImportFacts DEF Imported3
<1>3. u.id \in Nat /\ u.name \in Names /\ p \in Names
  BY <1>2 DEF Imports, Names
<1>4. Cover
  BY DEF SafeInv
<1> HIDE DEF p
<1>5. /\ backupID' \in [Stages -> Nat] /\ curID' \in [Stages -> Names] /\ curName' \in [Stages -> Names]
  BY <1>1, <1>2, <1>3 DEF Shape
<1>6. CASE u.boot
  <2>1. s = "backend" => /\ scene'["backend"] = user[s].scene["backend"]
                         /\ backupID'["frontend"] = 0
    <3> HAVE s = "backend"
    <3>1. BackendFirst /\ user["backend"].pc = "looking"
      BY <1>1, <1>2, <1>6
    <3>2. backupID' = [backupID EXCEPT !["backend"] = u.id]
      BY <1>1, <1>6
    <3>3. backupID'["frontend"] = backupID["frontend"]
      BY <1>2, <3>2 DEF Shape, Stages
    <3> QED
      BY <1>1, <3>1, <3>3 DEF BackendFirst
  <2>2. /\ BootInv' /\ user' \in [Stages -> UserOps]
        /\ \A t \in Stages : user'[t] = Free \/ user'[t] = [u EXCEPT !.pc = "loaded"]
    BY <1>1, <1>2, <1>6, <2>1, Follow
  <2>3. Shape'
    BY <1>1, <1>2, <1>5, <2>2 DEF Shape
  <2>4. ~risk => (\A t \in Stages : StepFits(user[t]))'
    BY <1>1, <1>2, <1>6, <2>2, FollowFits
  <2>5. Shown' <=> Shown
    BY <1>1 DEF Shown
  <2> QED
    BY <1>1, <1>2, <1>4, <2>2, <2>3, <2>4, <2>5, CoverKept DEF SafeInv
<1>7. CASE ~u.boot
  <2>1. user' = [user EXCEPT ![s] = Free]
    BY <1>1, <1>7 DEF Finish
  <2>2. Free \in UserOps /\ Free.pc = "idle"
    BY DEF UserOps, Free
  <2>3. user' \in [Stages -> UserOps] /\ user'[s] = Free /\ \A t \in Stages \ {s} : user'[t] = user[t]
    BY <1>2, <2>1, <2>2 DEF Shape
  <2>4. Shape'
    BY <1>1, <1>2, <1>5, <2>3 DEF Shape
  <2>5. \A t \in Stages : user[t].pc # "loaded" /\ (user[t].pc # "idle" => ~user[t].boot)
    BY <1>2, <1>7, NotBooting DEF Booting, Busy
  <2>6. \A t \in Stages : user'[t].pc # "loaded" /\ (user'[t].pc # "idle" => ~user'[t].boot)
    BY <2>2, <2>3, <2>5
  <2>7. BootInv'
    BY <1>1, <1>2, <2>6, NoBoot
  <2> QED
    BY <1>1, <1>2, <1>7, <2>4, <2>7 DEF SafeInv, Cover
<1> QED
  BY <1>2, <1>6, <1>7

\* The import of a session's start brings what a row has.
LEMMA ImportHeld ==
    ASSUME Shape, NEW u \in Imports, Source(u), UNCHANGED <<file, backup, edits>>,
           \A t \in Stages : scene'[t] = u.scene[t] \/ scene'[t] = None
    PROVE  Shown' => Held'
<1> HAVE Shown'
<1>1. edits' \in Nat
  BY AutosaveConstants DEF Shape
<1>2. PICK t \in Stages : scene'[t] = edits'
  BY DEF Shown
<1>3. u.scene[t] = edits'
  BY <1>1, <1>2, NoneAssumption
<1>4. u.scene \in Scenes /\ u.name \in Names
  BY DEF Imports
<1>5. CASE u.kind = "project"
  <2>1. u.name \in Projects /\ file'[u.name] = u.scene /\ u.scene # None
    BY <1>4, <1>5, NoneAssumption DEF Source
  <2> QED
    BY <1>3, <2>1 DEF Held, Holds
<1>6. CASE u.kind # "project"
  <2>1. backup'[u.name] # None /\ backup'[u.name].scene = u.scene
    BY <1>6 DEF Source
  <2> QED
    BY <1>3, <1>4, <2>1 DEF Held, BackedUp, Holds
<1> QED
  BY <1>5, <1>6

\* After an import Cover asks only that what was begun still fits.
LEMMA ImportCover ==
    ASSUME SafeInv, NEW s \in Stages, user[s].pc = "clearing",
           UNCHANGED <<file, backup, saves, edits, risk, up>>,
           scene' = [scene EXCEPT ![s] = user[s].scene[s]],
           ~risk => (\A t \in Stages : StepFits(user[t]))'
    PROVE  Cover'
<1>1. /\ Shape /\ up /\ user[s] \in Imports
      /\ ~risk => user[s].boot /\ Source(user[s]) /\ Saving = {}
      /\ s = "backend" /\ user[s].boot => BackendFirst
      /\ s = "frontend" /\ user[s].boot => FrontendNext
  BY ImportFacts DEF Imported3
<1> SUFFICES ASSUME ~risk
             PROVE  Cover'
  BY DEF Cover
<1>2. Saving' = {}
  BY <1>1 DEF Saving
<1>3. \A t \in Stages : scene'[t] = user[s].scene[t] \/ scene'[t] = None
  <2>1. scene'[s] = user[s].scene[s] /\ \A t \in Stages \ {s} : scene'[t] = scene[t]
    BY <1>1 DEF Shape, Scenes
  <2>2. s = "backend" => scene["frontend"] = None
    BY <1>1 DEF BackendFirst
  <2>3. s = "frontend" => scene["backend"] = user[s].scene["backend"]
    BY <1>1 DEF FrontendNext
  <2> QED
    BY <2>1, <2>2, <2>3 DEF Stages
<1>4. Shown' => Held'
  BY <1>1, <1>3, ImportHeld
<1> QED
  BY <1>2, <1>4 DEF Cover

\* The import of a project, or of a backup.
LEMMA ImportedKeeps ==
    ASSUME SafeInv, NEW s \in Stages, Imported(s)
    PROVE  SafeInv'
<1> DEFINE u == user[s]
<1>1. /\ u.pc = "clearing"
      /\ scene' = [scene EXCEPT ![s] = u.scene[s]]
      /\ settles' = [settles EXCEPT ![s] = @ + 1]
      /\ UNCHANGED <<file, backup, lastId, up, importing, saves, edits, risk>>
  BY DEF Imported, rows, counts
<1>2. /\ Shape /\ BootInv /\ Busy(s) /\ up /\ u \in Imports /\ u.boot \in BOOLEAN
      /\ ~risk => u.boot /\ Source(u)
      /\ s = "backend" /\ u.boot => BackendFirst
      /\ s = "frontend" /\ u.boot => FrontendNext
  BY <1>1, ImportFacts DEF Imported3
<1>3. u.kind \in Kinds /\ u.name \in Names /\ u.id \in Nat /\ u.scene \in Scenes
  BY <1>2 DEF Imports
<1>4. /\ scene' \in Scenes /\ scene'[s] = u.scene[s]
      /\ \A t \in Stages \ {s} : scene'[t] = scene[t]
      /\ settles' \in [Stages -> Nat]
  BY <1>1, <1>2, <1>3 DEF Shape, Scenes
<1>5. Free.pc = "idle"
  BY DEF Free
<1>6. \A t \in Stages : user[t].pc # "idle" /\ ~user[t].boot => ~u.boot
  BY <1>2, <1>5 DEF BackendFirst, FrontendNext, Stages
<1>7. ~u.boot => \A t \in Stages : user[t].pc # "loaded" /\ (user[t].pc # "idle" => ~user[t].boot)
  BY <1>2, NotBooting DEF Booting, Busy
<1>8. CASE u.kind = "project"
  <2>1. /\ curID' = [curID EXCEPT ![s] = u.name] /\ curName' = [curName EXCEPT ![s] = u.name]
        /\ DeleteBackup(s, FALSE) /\ backupID' = backupID
    BY <1>8 DEF Imported
  <2>2. curID' \in [Stages -> Names] /\ curName' \in [Stages -> Names]
    BY <1>2, <1>3, <2>1 DEF Shape
  <2>3. u.boot => backupID[s] = 0
    BY <1>1, <1>2 DEF BackendFirst, FrontendNext, Stages
  <2>4. /\ timer' \in BOOLEAN /\ user' \in [Stages -> UserOps]
        /\ user'[s] = Free \/ (user'[s].pc = "deleting" /\ user'[s].boot = u.boot)
        /\ \A t \in Stages \ {s} : user'[t] = user[t] \/ u.boot
    BY <1>2, <2>1, <2>3, DeleteBackupMoves DEF Busy
  <2>5. Shape'
    BY <1>1, <1>2, <1>4, <2>1, <2>2, <2>4 DEF Shape
  <2>6. CASE u.boot
    <3>1. Finish(s)
      BY <2>1, <2>3, <2>6 DEF DeleteBackup
    <3>2. s = "backend" => scene'["backend"] = u.scene["backend"] /\ backupID'["frontend"] = 0
      BY <1>2, <1>4, <2>1, <2>6 DEF BackendFirst
    <3>3. /\ BootInv'
          /\ \A t \in Stages : user'[t] = Free \/ user'[t] = [u EXCEPT !.pc = "loaded"]
      BY <1>1, <1>2, <2>6, <3>1, <3>2, Follow
    <3>4. ~risk => (\A t \in Stages : StepFits(user[t]))'
      BY <1>1, <1>2, <2>6, <3>3, FollowFits
    <3> QED
      BY <1>1, <2>5, <3>3, <3>4, ImportCover DEF SafeInv
  <2>7. CASE ~u.boot
    <3>1. \A t \in Stages : user'[t].pc # "loaded" /\ (user'[t].pc # "idle" => ~user'[t].boot)
      <4> TAKE t \in Stages
      <4>1. CASE t = s
        BY <1>5, <2>4, <2>7, <4>1
      <4>2. CASE t # s
        BY <1>7, <2>4, <2>7, <4>2
      <4> QED
        BY <4>1, <4>2
    <3>2. BootInv'
      BY <1>1, <1>2, <3>1, NoBoot
    <3> QED
      BY <1>1, <1>2, <2>5, <2>7, <3>2 DEF SafeInv, Cover
  <2> QED
    BY <1>2, <2>6, <2>7
<1>9. CASE u.kind # "project"
  <2> DEFINE x == [u EXCEPT !.pc = "looking"]
  <2>1. /\ backupID' = IF u.boot THEN backupID ELSE [backupID EXCEPT ![s] = u.id]
        /\ user' = [user EXCEPT ![s] = x]
        /\ timer' = (timer \/ ~importing[s])
        /\ UNCHANGED <<curID, curName>>
    BY <1>9 DEF Imported
  <2>2. /\ x \in Imports /\ x.pc = "looking" /\ x.boot = u.boot /\ x.kind = u.kind
        /\ x.name = u.name /\ x.scene = u.scene
    BY <1>2 DEF Imports
  <2> HIDE DEF x
  <2>3. x \in UserOps
    BY <2>2 DEF UserOps
  <2>4. user' \in [Stages -> UserOps] /\ user'[s] = x /\ \A t \in Stages \ {s} : user'[t] = user[t]
    BY <1>2, <2>1, <2>3 DEF Shape
  <2>5. timer' \in BOOLEAN
    BY <2>1
  <2>6. backupID' \in [Stages -> Nat]
    BY <1>2, <1>3, <2>1 DEF Shape
  <2>7. Shape'
    BY <1>1, <1>2, <1>4, <2>1, <2>4, <2>5, <2>6 DEF Shape
  <2>8. CASE u.boot /\ s = "backend"
    <3>1. BackendFirst /\ backupID' = backupID
      BY <1>2, <2>1, <2>8
    <3>2. user'["backend"] = x /\ user'["frontend"] = Free
      BY <2>4, <2>8, <3>1 DEF BackendFirst, Stages
    <3>3. scene'["backend"] = x.scene["backend"] /\ scene'["frontend"] = None
      BY <1>4, <2>2, <2>8, <3>1 DEF BackendFirst, Stages
    <3>4. BackendFirst'
      BY <2>2, <3>1, <3>2, <3>3 DEF BackendFirst
    <3>5. BootInv'
      BY <1>1, <1>2, <1>5, <2>2, <3>2, <3>4 DEF BootInv, Boots, Busy, Stages
    <3>6. ~risk => (\A t \in Stages : StepFits(user[t]))'
      BY <1>1, <1>2, <1>5, <2>2, <2>8, <3>2 DEF StepFits, Source, Saves, Imported3, Stages
    <3> QED
      BY <1>1, <2>7, <3>5, <3>6, ImportCover DEF SafeInv
  <2>9. CASE u.boot /\ s = "frontend"
    <3>1. FrontendNext
      BY <1>2, <2>9
    <3>2. user'["frontend"] = x /\ user'["backend"] = Free
      BY <2>4, <2>9, <3>1 DEF FrontendNext, Stages
    <3>3. FrontendNext'
      BY <2>2, <3>2 DEF FrontendNext, Imported3
    <3>4. BootInv'
      BY <1>1, <1>2, <1>5, <2>2, <3>2, <3>3 DEF BootInv, Boots, Busy, Stages
    <3>5. ~risk => (\A t \in Stages : StepFits(user[t]))'
      BY <1>1, <1>2, <1>5, <2>2, <2>9, <3>2 DEF StepFits, Source, Saves, Imported3, Stages
    <3> QED
      BY <1>1, <2>7, <3>4, <3>5, ImportCover DEF SafeInv
  <2>10. CASE ~u.boot
    <3>1. \A t \in Stages : user'[t].pc # "loaded" /\ (user'[t].pc # "idle" => ~user'[t].boot)
      <4> TAKE t \in Stages
      <4>1. CASE t = s
        BY <2>2, <2>4, <2>10, <4>1
      <4>2. CASE t # s
        BY <1>7, <2>4, <2>10, <4>2
      <4> QED
        BY <4>1, <4>2
    <3>2. BootInv'
      BY <1>1, <1>2, <3>1, NoBoot
    <3> QED
      BY <1>1, <1>2, <2>7, <2>10, <3>2 DEF SafeInv, Cover
  <2> QED
    BY <1>2, <2>8, <2>9, <2>10 DEF Stages
<1> QED
  BY <1>8, <1>9

-----------------------------------------------------------------------------
(* The theorem.                                                             *)

LEMMA StutterKeeps ==
    ASSUME SafeInv, UNCHANGED vars
    PROVE  SafeInv'
<1>1. UNCHANGED <<file, backup, lastId, up, curID, curName, backupID, scene, importing, settles,
                  timer, saves, user, edits, risk>>
  BY DEF vars, rows, open, stage, counts
<1>2. Shape'
  BY <1>1 DEF SafeInv, Shape
<1>3. BootInv'
  BY <1>1 DEF SafeInv, BootInv, BackendFirst, FrontendNext, Boots, Busy, Down, Saving
<1>4. Cover'
  BY <1>1 DEF SafeInv, Cover, Saving, Booting, Busy, Shown, Held, FileHolds, BackedUp, Holds,
              Ready, StepFits, Source
<1> QED
  BY <1>2, <1>3, <1>4 DEF SafeInv

LEMMA NextKeeps == SafeInv /\ [Next]_vars => SafeInv'
<1> SUFFICES ASSUME SafeInv, [Next]_vars
             PROVE  SafeInv'
  OBVIOUS
<1>1. CASE Start
  BY <1>1, StartKeeps
<1>2. CASE Reload
  BY <1>2, ReloadKeeps
<1>3. CASE FollowImport
  BY <1>3, FollowImportKeeps
<1>4. ASSUME NEW s \in Stages, Edit(s) \/ Settled(s)
      PROVE  SafeInv'
  BY <1>4, EditKeeps, SettledKeeps
<1>5. ASSUME NEW s \in Stages, Asked(s)
      PROVE  SafeInv'
  BY <1>5, QuickSaveKeeps, SaveAsKeeps, OpenKeeps DEF Asked, Kinds
<1>6. ASSUME NEW s \in Stages, Answered(s)
      PROVE  SafeInv'
  BY <1>6, QuickSavedKeeps, NamedKeeps, FoundKeeps, OverwrittenKeeps, DeletedKeeps,
     LoadedKeeps, LookedKeeps, ImportedKeeps DEF Answered
<1>7. ASSUME NEW n \in Names, DeleteRow(n)
      PROVE  SafeInv'
  BY <1>7, DeleteRowKeeps
<1>8. ASSUME NEW k \in Slots, SaveStep(k)
      PROVE  SafeInv'
  BY <1>8, DebouncedKeeps, UpdatedKeeps, ListedKeeps, AdoptedKeeps, CreatedKeeps DEF SaveStep
<1>9. CASE UNCHANGED vars
  BY <1>9, StutterKeeps
<1> QED
  BY <1>1, <1>2, <1>3, <1>4, <1>5, <1>6, <1>7, <1>8, <1>9 DEF Next

\* SafeInv is an invariant: the shape of the state, how a session starts, and
\* what covers the last change.
THEOREM SafeInvariant == Spec => []SafeInv
<1>1. Init => SafeInv
  BY InitSafe
<1>2. SafeInv /\ [Next]_vars => SafeInv'
  BY NextKeeps
<1> QED
  BY <1>1, <1>2, PTL DEF Spec

\* A change on the screen and in no row is on its way to one, whatever saves,
\* imports, crashes and lost answers come between, except in the windows that
\* Exposed lists: the timer and saveBackup of stageWorkspace/workspace.go.
THEOREM NothingForgottenCorrect == Spec => []NothingForgotten
<1>1. SafeInv => NothingForgotten
  BY DEF SafeInv, Cover, NothingForgotten, Exposed
<1> QED
  BY <1>1, SafeInvariant, PTL

-----------------------------------------------------------------------------
(* What a backup that has the newest change relies on.                      *)

\* No row or request has a change that was not made yet.
Age(content, e) == \A s \in Stages : content[s] \in Names \cup 1..e

Aged ==
    /\ Age(scene, edits)
    /\ \A p \in Projects : file[p] # None => Age(file[p], edits)
    /\ \A n \in Names : backup[n] # None => Age(backup[n].scene, edits)
    /\ \A k \in Slots : saves[k].pc # "idle" => Age(saves[k].scene, edits)
    /\ \A s \in Stages : user[s].pc \in Saves \cup Imported3 => Age(user[s].scene, edits)

Ids ==
    /\ \A n \in Names : backup[n] # None => backup[n].id <= lastId
    /\ \A m, n \in Names :
          backup[m] # None /\ backup[n] # None /\ backup[m].id = backup[n].id => m = n

\* The refreshes of an import find its flag up, and start no timer.
Calm ==
    /\ ~timer /\ Saving = {}
    /\ \A s \in Stages :
          /\ settles[s] = 0 \/ (settles[s] = 1 /\ importing[s])
          /\ user[s].pc \in {"loaded", "clearing"} => settles[s] = 0
          /\ user[s].pc = "clearing" => importing[s]

\* The backend has the document, and its row's id if it is a backup.
Halfway(u) ==
    /\ scene["backend"] = u.scene["backend"] /\ backupID["frontend"] = 0
    /\ u.kind = "project" => backupID["backend"] = 0
    /\ u.kind # "project" => backupID["backend"] = u.id
    /\ u.pc = "looking" => scene["frontend"] = u.scene["frontend"]

\* The rows of that id do not have the change of that number.
Older(id, b, e) ==
    \A n \in Names : b[n] # None /\ b[n].id = id => \A s \in Stages : b[n].scene[s] # e

\* As long as the last change is not exposed: a run of saveBackup that meets it
\* in a row has it too; a session that starts, or one that does not show it,
\* saves nothing of its own accord; and what that session may delete is older.
Course ==
    ~risk /\ up =>
        /\ Booting \/ ~Shown => Calm
        /\ \A k \in Saving : BackedUp => Holds(saves[k].scene)
        /\ Boots("backend") => backupID["backend"] = 0 /\ settles["frontend"] = 0
        /\ Boots("frontend") => Halfway(user["frontend"])
        /\ \A s \in Stages : user[s].pc \in Imported3 =>
              /\ user[s].pc = "looking" => user[s].kind # "project"
              /\ user[s].kind # "project" => backup[user[s].name].id = user[s].id
        /\ ~Booting /\ ~Shown => \A s \in Stages :
              /\ backupID[s] # 0 => Older(backupID[s], backup, edits)
              /\ user[s].pc = "deleting" => Older(user[s].id, backup, edits)

KeptInv == SafeInv /\ Aged /\ Ids /\ Course

\* A step that keeps all this, and with it the backup.
Goes ==
    /\ Aged' /\ Ids' /\ Course'
    /\ BackedUp /\ ~risk /\ edits' = edits => Held' \/ risk'

\* Of what a content has only changes are numbers, and they were made.
LEMMA Numbered ==
    ASSUME NEW c, NEW e \in Nat, Age(c, e), NEW s \in Stages, c[s] \in Nat
    PROVE  1 <= c[s] /\ c[s] <= e
<1>1. Names \cap Nat = {}
  BY NumberAssumption, NoneAssumption DEF Names
<1>2. c[s] \in 1..e
  BY <1>1 DEF Age
<1> QED
  BY <1>2

LEMMA EditsType ==
    ASSUME Shape
    PROVE  edits \in Nat
BY AutosaveConstants DEF Shape

\* While the rows stay as they are nothing is lost.
LEMMA RowsStay ==
    ASSUME Ids, UNCHANGED <<backup, lastId>>
    PROVE  /\ Ids'
           /\ edits' = edits => (BackedUp' <=> BackedUp)
           /\ BackedUp /\ ~risk /\ edits' = edits => Held' \/ risk'
BY DEF Ids, BackedUp, Holds, Held

\* A run of saveBackup that meets the newest change in a row writes it, too.
LEMMA RunGoes ==
    ASSUME KeptInv, NEW k \in Slots, saves[k].pc # "idle", Ids',
           NEW v, saves' = [saves EXCEPT ![k] = v],
           v = Free \/ v.scene = scene \/ v.scene = saves[k].scene,
           UNCHANGED <<file, up, scene, importing, settles, user, timer, edits>>,
           ~risk' => ~risk,
           \A n \in Names : \/ backup'[n] = backup[n]
                            \/ backup'[n] # None /\ backup'[n].scene = saves[k].scene
    PROVE  Goes
<1>1. Shape /\ k \in Saving /\ SafeInv
  BY DEF KeptInv, SafeInv, Shape, Saving
<1>2. saves'[k] = v /\ \A j \in Slots \ {k} : saves'[j] = saves[j]
  BY <1>1 DEF Shape
<1>3. Free.pc = "idle"
  BY DEF Free
<1>4. Age(saves[k].scene, edits) /\ Age(scene, edits)
  BY DEF KeptInv, Aged
<1>5. Aged'
  <2>1. \A n \in Names : backup'[n] # None => Age(backup'[n].scene, edits)
    BY <1>4 DEF KeptInv, Aged
  <2>2. \A j \in Slots : saves'[j].pc # "idle" => Age(saves'[j].scene, edits)
    BY <1>2, <1>3, <1>4 DEF KeptInv, Aged
  <2> QED
    BY <2>1, <2>2 DEF KeptInv, Aged
<1>6. BackedUp' => BackedUp \/ Holds(saves[k].scene)
  BY DEF BackedUp, Holds
<1>7. BackedUp /\ Holds(saves[k].scene) => BackedUp'
  BY DEF BackedUp, Holds
<1>8. ~risk /\ up => ~Booting /\ Shown /\ (BackedUp => Holds(saves[k].scene))
                     /\ \A j \in Saving : j = k
  BY <1>1 DEF KeptInv, SafeInv, Cover, Course, Calm
<1>9. up
  BY <1>1, RunFacts
<1>10. ASSUME ~risk'
       PROVE  Course'
  <2>1. ~Booting' /\ Shown' /\ ~Boots("backend")' /\ ~Boots("frontend")'
    BY <1>8, <1>9, <1>10 DEF Booting, Shown, Boots, Busy, Stages
  <2>2. \A s \in Stages : user'[s].pc \notin Imported3
    <3> SUFFICES ASSUME NEW s \in Stages, user[s].pc \in Imported3
                 PROVE  FALSE
      OBVIOUS
    <3>1. user[s].boot /\ Busy(s)
      BY <1>1, <1>9, <1>10, ImportFacts
    <3> QED
      BY <1>8, <1>9, <1>10, <3>1 DEF Booting
  <2>3. ASSUME NEW j \in Saving', BackedUp'
        PROVE  Holds(saves[j].scene)'
    <3>1. j = k /\ v # Free
      BY <1>2, <1>3, <1>8, <1>9, <1>10, <2>3 DEF Saving
    <3>2. Holds(scene) /\ Holds(saves[k].scene)
      BY <1>6, <1>8, <1>9, <1>10, <2>3 DEF Shown, Holds
    <3> QED
      BY <1>2, <3>1, <3>2 DEF Holds
  <2> QED
    BY <2>1, <2>2, <2>3 DEF Course
<1>11. BackedUp /\ ~risk => Held'
  BY <1>7, <1>8, <1>9 DEF Held
<1> QED
  BY <1>5, <1>10, <1>11 DEF Goes, Course

\* A rewritten row keeps its id.
LEMMA PutIds ==
    ASSUME Shape, Ids, lastId' = lastId, NEW id, NEW content \in Scenes, NEW o,
           PutBackup(id, content, o)
    PROVE  /\ Ids'
           /\ \A n \in Names : \/ backup'[n] = backup[n]
                               \/ backup'[n] # None /\ backup'[n].scene = content
<1>1. /\ \A n \in Names : /\ backup'[n] = None <=> backup[n] = None
                          /\ backup[n] # None => backup'[n].id = backup[n].id
      /\ \A n \in Names : backup'[n] = backup[n]
                          \/ (backup'[n] # None /\ backup'[n].scene = content)
  BY PutType
<1> QED
  BY <1>1 DEF Ids

LEMMA UpdatedGoes ==
    ASSUME KeptInv, NEW k \in Slots, NEW o \in Outcomes, Updated(k, o)
    PROVE  Goes
<1> DEFINE old == saves[k]
           kept == o = "ok" /\ RowNamed(saves[k].id) # {}
           v == IF kept THEN Free ELSE SaveBackup(0)
           id == old.id
           content == old.scene
<1>1. /\ old.pc = "updating" /\ PutBackup(id, content, o)
      /\ saves' = [saves EXCEPT ![k] = v]
      /\ UNCHANGED <<file, lastId, up, scene, importing, settles, timer, user, edits, risk>>
  BY DEF Updated, stage, counts
<1>2. Shape /\ Ids /\ old \in Backups
  BY <1>1, RunFacts DEF KeptInv
<1>3. content \in Scenes
  BY <1>2 DEF Backups
<1>4. v = Free \/ v.scene = scene
  BY <1>2, SaveBackupType
<1> HIDE DEF kept, v, id, content
<1>5. /\ Ids'
      /\ \A n \in Names : \/ backup'[n] = backup[n]
                          \/ backup'[n] # None /\ backup'[n].scene = content
  BY <1>1, <1>2, <1>3, PutIds
<1>6. \A n \in Names : \/ backup'[n] = backup[n]
                       \/ backup'[n] # None /\ backup'[n].scene = saves[k].scene
  BY <1>5 DEF content
<1> QED
  BY <1>1, <1>4, <1>5, <1>6, RunGoes

LEMMA ListedGoes ==
    ASSUME KeptInv, NEW k \in Slots, NEW o \in Outcomes, Listed(k, o)
    PROVE  Goes
<1> DEFINE old == saves[k]
           row == backup[old.name]
           v == IF o = "ok" /\ row # None THEN [old EXCEPT !.pc = "adopting", !.id = row.id]
                ELSE [old EXCEPT !.pc = "creating"]
<1>1. /\ old.pc = "listing" /\ saves' = [saves EXCEPT ![k] = v]
      /\ (~risk' => ~risk)
      /\ UNCHANGED <<file, backup, lastId, up, scene, importing, settles, timer, user, edits>>
  BY DEF Listed, rows, stage, counts
<1>2. Shape /\ Ids /\ old \in Backups
  BY <1>1, RunFacts DEF KeptInv
<1>3. v.scene = old.scene
  BY <1>2 DEF Backups
<1> HIDE DEF v
<1>4. Ids'
  BY <1>1, <1>2, RowsStay
<1> QED
  BY <1>1, <1>3, <1>4, RunGoes

LEMMA AdoptedGoes ==
    ASSUME KeptInv, NEW k \in Slots, NEW o \in Outcomes, Adopted(k, o)
    PROVE  Goes
<1> DEFINE old == saves[k]
           id == old.id
           content == old.scene
<1>1. /\ old.pc = "adopting" /\ PutBackup(id, content, o)
      /\ saves' = [saves EXCEPT ![k] = Free] /\ (~risk' => ~risk)
      /\ UNCHANGED <<file, lastId, up, scene, importing, settles, timer, user, edits>>
  BY DEF Adopted, stage, counts
<1>2. Shape /\ Ids /\ old \in Backups
  BY <1>1, RunFacts DEF KeptInv
<1>3. content \in Scenes
  BY <1>2 DEF Backups
<1> HIDE DEF id, content
<1>4. /\ Ids'
      /\ \A n \in Names : \/ backup'[n] = backup[n]
                          \/ backup'[n] # None /\ backup'[n].scene = content
  BY <1>1, <1>2, <1>3, PutIds
<1>5. \A n \in Names : \/ backup'[n] = backup[n]
                       \/ backup'[n] # None /\ backup'[n].scene = saves[k].scene
  BY <1>4 DEF content
<1> QED
  BY <1>1, <1>4, <1>5, RunGoes

LEMMA CreatedGoes ==
    ASSUME KeptInv, NEW k \in Slots, NEW o \in Outcomes, Created(k, o)
    PROVE  Goes
<1> DEFINE old == saves[k]
           new == o # "failed" /\ backup[old.name] = None
           row == [id |-> lastId + 1, scene |-> old.scene]
<1>1. /\ old.pc = "creating"
      /\ IF new
         THEN lastId' = lastId + 1 /\ backup' = [backup EXCEPT ![old.name] = row]
         ELSE UNCHANGED <<lastId, backup>>
      /\ saves' = [saves EXCEPT ![k] = Free] /\ (~risk' => ~risk)
      /\ UNCHANGED <<file, up, scene, importing, settles, timer, user, edits>>
  BY DEF Created, stage, counts
<1>2. Shape /\ Ids /\ old \in Backups
  BY <1>1, RunFacts DEF KeptInv
<1>3. old.scene \in Scenes /\ old.name \in Names /\ lastId \in Nat
  BY <1>2 DEF Backups, Shape
<1>4. row \in Rows /\ row # None /\ row.scene = old.scene /\ row.id = lastId + 1
  BY <1>3, NoneAssumption DEF Rows
<1> HIDE DEF row
<1>5. CASE new
  <2>1. /\ lastId' = lastId + 1 /\ backup'[old.name] = row
        /\ \A n \in Names \ {old.name} : backup'[n] = backup[n]
    BY <1>1, <1>2, <1>3, <1>5 DEF Shape
  <2>2. \A n \in Names : backup[n] # None => backup[n].id \in Nat
    BY <1>2 DEF Shape, Rows
  <2>3. \A n \in Names : backup[n] # None => backup[n].id <= lastId
    BY <1>2 DEF Ids
  <2>4. \A n \in Names \ {old.name} : backup'[n] # None => backup'[n].id # row.id
    BY <1>3, <1>4, <2>1, <2>2, <2>3
  <2>5. \A n \in Names : backup'[n] # None => backup'[n].id <= lastId'
    BY <1>3, <1>4, <2>1, <2>2, <2>3
  <2>6. Ids'
    BY <1>2, <2>1, <2>4, <2>5 DEF Ids
  <2>7. \A n \in Names : \/ backup'[n] = backup[n]
                         \/ backup'[n] # None /\ backup'[n].scene = saves[k].scene
    BY <1>4, <2>1
  <2> HIDE DEF new
  <2> QED
    BY <1>1, <2>6, <2>7, RunGoes
<1>6. CASE ~new
  <2>1. UNCHANGED <<backup, lastId>>
    BY <1>1, <1>6
  <2>2. Ids'
    BY <1>2, <2>1, RowsStay
  <2> HIDE DEF new
  <2> QED
    BY <1>1, <2>1, <2>2, RunGoes
<1> QED
  BY <1>5, <1>6

\* A manual save, or the removal of a backup after it, goes on or ends.
LEMMA UserGoes ==
    ASSUME KeptInv, up, ~Booting,
           UNCHANGED <<up, scene, saves, edits, settles, importing, risk>>, timer' => timer,
           \A n \in Names : backup'[n] = backup[n] \/ backup'[n] = None,
           \A s \in Stages : backupID'[s] = backupID[s] \/ backupID'[s] = 0,
           NEW s \in Stages, \A t \in Stages \ {s} : user'[t] = user[t],
           \/ user'[s].pc = "idle"
           \/ user'[s].pc \in Saves /\ ~user'[s].boot
           \/ /\ user'[s].pc = "deleting" /\ ~user'[s].boot
              /\ user'[s].id = backupID[s] /\ backupID[s] # 0
    PROVE  Course'
<1> SUFFICES ASSUME ~risk
             PROVE  Course'
  BY DEF Course
<1>1. /\ ~Shown => Calm
      /\ \A k \in Saving : BackedUp => Holds(saves[k].scene)
      /\ ~Shown => \A t \in Stages :
            /\ backupID[t] # 0 => Older(backupID[t], backup, edits)
            /\ user[t].pc = "deleting" => Older(user[t].id, backup, edits)
  BY DEF KeptInv, Course
<1>2. \A t \in Stages : user[t].pc \notin Imported3
  <2> SUFFICES ASSUME NEW t \in Stages, user[t].pc \in Imported3
               PROVE  FALSE
    OBVIOUS
  <2>1. user[t].boot /\ Busy(t)
    BY ImportFacts DEF KeptInv
  <2> QED
    BY <2>1 DEF Booting
<1>3. \A t \in Stages : user'[t].pc \notin Imported3
  BY <1>2 DEF Saves, Imported3
<1>4. \A t \in Stages : ~Boots(t)'
  BY DEF Booting, Boots, Busy
<1>5. ~Booting' /\ ~Boots("backend")' /\ ~Boots("frontend")'
  BY <1>4 DEF Booting, Boots, Stages
<1>6. (Shown' <=> Shown) /\ Saving' = Saving
  BY DEF Shown, Saving
<1>7. ~Shown' => Calm'
  BY <1>1, <1>3, <1>6 DEF Calm, Imported3
<1>8. BackedUp' => BackedUp
  BY DEF BackedUp, Holds
<1>9. (\A k \in Saving : BackedUp => Holds(saves[k].scene))'
  BY <1>1, <1>6, <1>8 DEF Holds
<1>10. \A id : Older(id, backup, edits) => Older(id, backup', edits')
  BY DEF Older
<1>11. ASSUME ~Shown', NEW t \in Stages
       PROVE  /\ backupID'[t] # 0 => Older(backupID'[t], backup', edits')
              /\ user'[t].pc = "deleting" => Older(user'[t].id, backup', edits')
  <2>1. /\ backupID[t] # 0 => Older(backupID[t], backup, edits)
        /\ user[t].pc = "deleting" => Older(user[t].id, backup, edits)
    BY <1>1, <1>6, <1>11
  <2>2. backupID[s] # 0 => Older(backupID[s], backup, edits)
    BY <1>1, <1>6, <1>11
  <2> QED
    BY <1>10, <2>1, <2>2 DEF Saves
<1> QED
  BY <1>3, <1>5, <1>7, <1>9, <1>11 DEF Course

\* A manual save begins or goes on; what it writes to a project was made.
LEMMA SaveGoes ==
    ASSUME KeptInv, up, ~Booting, NEW s \in Stages,
           UNCHANGED <<backup, lastId, up, scene, saves, edits, settles, importing, risk, backupID>>,
           timer' => timer,
           \/ file' = file
           \/ user[s].pc \in Saves /\ file' = [file EXCEPT ![user[s].name] = user[s].scene],
           NEW x, user' = [user EXCEPT ![s] = x],
           \/ x.pc = "idle"
           \/ /\ x.pc \in Saves /\ ~x.boot
              /\ x.scene = scene \/ (user[s].pc \in Saves /\ x.scene = user[s].scene)
           \/ x.pc = "deleting" /\ ~x.boot /\ x.id = backupID[s] /\ backupID[s] # 0
    PROVE  Goes
<1>1. Shape /\ Aged /\ Ids
  BY DEF KeptInv, SafeInv
<1>2. user'[s] = x /\ \A t \in Stages \ {s} : user'[t] = user[t]
  BY <1>1 DEF Shape
<1>3. Course'
  BY <1>2, UserGoes
<1>4. user[s].pc \in Saves => Age(user[s].scene, edits)
  BY <1>1 DEF Aged
<1>5. \A p \in Projects : file'[p] = file[p] \/ Age(file'[p], edits)
  BY <1>1, <1>4 DEF Shape
<1>6. \A t \in Stages : user'[t].pc \in Saves \cup Imported3 => Age(user'[t].scene, edits)
  BY <1>1, <1>2, <1>4 DEF Aged, Saves, Imported3
<1>7. Aged'
  BY <1>1, <1>5, <1>6 DEF Aged
<1> QED
  BY <1>1, <1>3, <1>7, RowsStay DEF Goes

LEMMA BeginGoes ==
    ASSUME KeptInv, NEW s \in Stages, NEW op \in Savings, op.scene = scene, Begin(s, op), risk' = risk
    PROVE  Goes
<1>1. /\ up /\ ~Booting /\ user' = [user EXCEPT ![s] = op]
      /\ UNCHANGED <<file, backup, lastId, up, scene, saves, edits, settles, importing, backupID, timer>>
  BY DEF Begin, rows, open, stage
<1>2. op.pc \in Saves /\ ~op.boot
  BY DEF Savings, Saves
<1> QED
  BY <1>1, <1>2, SaveGoes

LEMMA AskedGoes ==
    ASSUME KeptInv, NEW s \in Stages, Asked(s)
    PROVE  Goes
<1>1. Shape
  BY DEF KeptInv, SafeInv
<1>2. CASE QuickSave(s)
  <2> DEFINE op == [pc |-> "saving", boot |-> FALSE, name |-> curID[s], scene |-> scene]
  <2>1. op \in Savings /\ op.scene = scene
    BY <1>1, <1>2 DEF Shape, Savings, QuickSave, Names
  <2>2. Begin(s, op) /\ risk' = risk
    BY <1>2 DEF QuickSave
  <2> HIDE DEF op
  <2> QED
    BY <2>1, <2>2, BeginGoes
<1>3. ASSUME NEW p \in Projects, SaveAs(s, p)
      PROVE  Goes
  <2> DEFINE op == [pc |-> "naming", boot |-> FALSE, name |-> p, scene |-> scene]
  <2>1. op \in Savings /\ op.scene = scene
    BY <1>1 DEF Shape, Savings
  <2>2. Begin(s, op) /\ risk' = risk
    BY <1>3 DEF SaveAs
  <2> HIDE DEF op
  <2> QED
    BY <2>1, <2>2, BeginGoes
<1>4. ASSUME NEW kind \in Kinds, NEW n \in Names, Open(s, kind, n)
      PROVE  Goes
  <2> DEFINE op == Opening(kind, n, FALSE)
  <2>1. /\ user' = [user EXCEPT ![s] = op] /\ risk'
        /\ UNCHANGED <<file, backup, lastId, up, scene, saves, edits>>
    BY <1>4 DEF Open, Begin, rows, stage
  <2>2. op.pc = "loading"
    BY DEF Opening
  <2> HIDE DEF op
  <2>3. \A t \in Stages : user'[t] = user[t] \/ user'[t].pc = "loading"
    BY <1>1, <2>1, <2>2 DEF Shape
  <2>4. Aged'
    BY <2>1, <2>3 DEF KeptInv, Aged, Saves, Imported3
  <2> QED
    BY <2>1, <2>4, RowsStay DEF Goes, Course, KeptInv
<1> QED
  BY <1>2, <1>3, <1>4 DEF Asked, Kinds

\* What deleteBackup leaves outside a session's start.
LEMMA Deleting ==
    ASSUME Shape, NEW s \in Stages, NEW again, DeleteBackup(s, again), ~user[s].boot
    PROVE  /\ timer' => timer
           /\ \E x : /\ user' = [user EXCEPT ![s] = x]
                     /\ \/ x.pc = "idle"
                        \/ x.pc = "deleting" /\ ~x.boot /\ x.id = backupID[s] /\ backupID[s] # 0
<1>1. timer' => timer
  BY DEF DeleteBackup
<1>2. CASE backupID[s] = 0
  <2>1. user' = [user EXCEPT ![s] = Free] /\ Free.pc = "idle"
    BY <1>2 DEF DeleteBackup, Finish, Free
  <2> QED
    BY <1>1, <2>1
<1>3. CASE backupID[s] # 0
  <2> DEFINE x == [pc |-> "deleting", boot |-> user[s].boot, id |-> backupID[s], again |-> again]
  <2>1. user' = [user EXCEPT ![s] = x]
    BY <1>3 DEF DeleteBackup
  <2>2. x.pc = "deleting" /\ ~x.boot /\ x.id = backupID[s]
    OBVIOUS
  <2> HIDE DEF x
  <2> QED
    BY <1>1, <1>3, <2>1, <2>2
<1> QED
  BY <1>2, <1>3

LEMMA AnsweredSaveGoes ==
    ASSUME KeptInv, NEW s \in Stages, NEW o \in Outcomes,
           QuickSaved(s, o) \/ Named(s, o) \/ Found(s, o) \/ Overwritten(s, o)
    PROVE  Goes
<1> DEFINE u == user[s]
<1>1. u.pc \in Saves
  BY DEF QuickSaved, Named, Found, Overwritten, Saves
<1>2. /\ Shape /\ up /\ ~Booting /\ ~u.boot /\ u \in Savings
  BY <1>1, UserFacts DEF KeptInv
<1>3. UNCHANGED <<backup, lastId, up, scene, saves, edits, settles, importing, risk, backupID>>
  BY DEF QuickSaved, Named, Found, Overwritten, rows, open, stage, counts
<1>4. file' = file \/ file' = [file EXCEPT ![u.name] = u.scene]
  BY DEF QuickSaved, Named, Found, Overwritten, rows
<1>5. \/ \E again \in BOOLEAN : DeleteBackup(s, again)
      \/ timer' = timer /\ user' = [user EXCEPT ![s] = Free]
      \/ timer' = timer /\ user' = [user EXCEPT ![s] = [u EXCEPT !.pc = "finding"]]
      \/ timer' = timer /\ user' = [user EXCEPT ![s] = [u EXCEPT !.pc = "overwriting"]]
  <2>1. CASE QuickSaved(s, o)
    BY <2>1 DEF QuickSaved
  <2>2. CASE Named(s, o)
    BY <2>2 DEF Named
  <2>3. CASE Found(s, o)
    BY <2>3 DEF Found
  <2>4. CASE Overwritten(s, o)
    BY <2>4 DEF Overwritten
  <2> QED
    BY <2>1, <2>2, <2>3, <2>4
<1>6. CASE \E again \in BOOLEAN : DeleteBackup(s, again)
  <2>1. PICK again \in BOOLEAN : DeleteBackup(s, again)
    BY <1>6
  <2>2. /\ timer' => timer
        /\ \E x : /\ user' = [user EXCEPT ![s] = x]
                  /\ \/ x.pc = "idle"
                     \/ x.pc = "deleting" /\ ~x.boot /\ x.id = backupID[s] /\ backupID[s] # 0
    BY <1>2, <2>1, Deleting
  <2> QED
    BY <1>1, <1>2, <1>3, <1>4, <2>2, SaveGoes
<1>7. CASE timer' = timer /\ user' = [user EXCEPT ![s] = Free]
  <2>1. Free.pc = "idle"
    BY DEF Free
  <2> QED
    BY <1>1, <1>2, <1>3, <1>4, <1>7, <2>1, SaveGoes
<1>8. CASE timer' = timer /\ user' = [user EXCEPT ![s] = [u EXCEPT !.pc = "finding"]]
  <2> DEFINE x == [u EXCEPT !.pc = "finding"]
  <2>1. x.pc \in Saves /\ ~x.boot /\ x.scene = u.scene
    BY <1>2 DEF Savings, Saves
  <2>2. user' = [user EXCEPT ![s] = x]
    BY <1>8
  <2> HIDE DEF x
  <2> QED
    BY <1>1, <1>2, <1>3, <1>4, <1>8, <2>1, <2>2, SaveGoes
<1>9. CASE timer' = timer /\ user' = [user EXCEPT ![s] = [u EXCEPT !.pc = "overwriting"]]
  <2> DEFINE x == [u EXCEPT !.pc = "overwriting"]
  <2>1. x.pc \in Saves /\ ~x.boot /\ x.scene = u.scene
    BY <1>2 DEF Savings, Saves
  <2>2. user' = [user EXCEPT ![s] = x]
    BY <1>9
  <2> HIDE DEF x
  <2> QED
    BY <1>1, <1>2, <1>3, <1>4, <1>9, <2>1, <2>2, SaveGoes
<1> QED
  BY <1>5, <1>6, <1>7, <1>8, <1>9

\* A backup that has the newest change goes only when a project has it.
LEMMA DeletedGoes ==
    ASSUME KeptInv, NEW s \in Stages, NEW o \in Outcomes, Deleted(s, o)
    PROVE  Goes
<1> DEFINE id == user[s].id
<1>1. /\ user[s].pc = "deleting" /\ Finish(s)
      /\ backup' = [n \in Names |-> IF o # "failed" /\ n \in RowNamed(id)
                                    THEN None ELSE backup[n]]
      /\ backupID' = [backupID EXCEPT ![s] = 0]
      /\ timer' => timer
      /\ UNCHANGED <<file, lastId, up, scene, saves, edits, settles, importing, risk>>
  BY DEF Deleted, stage, counts
<1>2. /\ Shape /\ up /\ ~Booting /\ ~user[s].boot /\ (~risk => StepFits(user[s]))
  BY <1>1, UserFacts DEF KeptInv
<1>3. user' = [user EXCEPT ![s] = Free] /\ Free.pc = "idle"
  BY <1>1, <1>2 DEF Finish, Free
<1>4. user'[s] = Free /\ \A t \in Stages \ {s} : user'[t] = user[t]
  BY <1>2, <1>3 DEF Shape
<1>5. \A n \in Names : backup'[n] = None \/ backup'[n] = backup[n]
  BY <1>1
<1>6. \A t \in Stages : backupID'[t] = backupID[t] \/ backupID'[t] = 0
  BY <1>1, <1>2 DEF Shape
<1>7. Course'
  BY <1>1, <1>2, <1>3, <1>4, <1>5, <1>6, UserGoes
<1>8. Aged'
  BY <1>1, <1>3, <1>4, <1>5 DEF KeptInv, Aged, Saves, Imported3
<1>9. Ids'
  BY <1>1, <1>5 DEF KeptInv, Ids
<1>10. ASSUME BackedUp, ~risk
       PROVE  Held'
  <2>1. PICK n \in Names : backup[n] # None /\ Holds(backup[n].scene)
    BY <1>10 DEF BackedUp
  <2>2. CASE backup'[n] = backup[n]
    BY <1>1, <2>1, <2>2 DEF Held, BackedUp, Holds
  <2>3. CASE backup'[n] # backup[n]
    <3>1. backup[n].id = id
      BY <1>1, <2>3 DEF RowNamed
    <3>2. ~Older(id, backup, edits)
      BY <2>1, <3>1 DEF Older, Holds
    <3>3. Shown
      BY <1>1, <1>2, <1>10, <3>2 DEF KeptInv, Course
    <3>4. FileHolds
      BY <1>1, <1>2, <1>10, <3>3 DEF StepFits
    <3> QED
      BY <1>1, <3>4 DEF FileHolds, Held, Holds
  <2> QED
    BY <2>2, <2>3
<1> QED
  BY <1>7, <1>8, <1>9, <1>10 DEF Goes

LEMMA DeleteRowGoes ==
    ASSUME KeptInv, NEW n \in Names, DeleteRow(n)
    PROVE  Goes
<1>1. /\ backup' = [backup EXCEPT ![n] = None] /\ risk'
      /\ UNCHANGED <<file, lastId, up, scene, saves, edits, user>>
  BY DEF DeleteRow, stage
<1>2. \A m \in Names : backup'[m] = None \/ backup'[m] = backup[m]
  BY <1>1 DEF KeptInv, SafeInv, Shape
<1>3. Aged' /\ Ids'
  BY <1>1, <1>2 DEF KeptInv, Aged, Ids
<1> QED
  BY <1>1, <1>3 DEF Goes, Course

LEMMA EditGoes ==
    ASSUME KeptInv, NEW s \in Stages, Edit(s)
    PROVE  Goes
<1>1. /\ up /\ ~Booting /\ edits' = edits + 1 /\ scene' = [scene EXCEPT ![s] = edits + 1]
      /\ risk' = (importing[s] \/ (\E t \in Stages : Busy(t)) \/ Cardinality(Saving) > 1)
      /\ UNCHANGED <<file, backup, lastId, up, saves, user>>
  BY DEF Edit, rows, open
<1>2. Shape /\ Aged /\ Ids /\ edits \in Nat
  BY EditsType DEF KeptInv, SafeInv
<1>3. \A c : Age(c, edits) => Age(c, edits') /\ \A t \in Stages : c[t] # edits'
  <2> SUFFICES ASSUME NEW c, Age(c, edits)
               PROVE  Age(c, edits') /\ \A t \in Stages : c[t] # edits'
    OBVIOUS
  <2>1. \A t \in Stages : c[t] # edits'
    <3> SUFFICES ASSUME NEW t \in Stages, c[t] = edits'
                 PROVE  FALSE
      OBVIOUS
    <3>1. c[t] \in Nat /\ c[t] > edits
      BY <1>1, <1>2
    <3> QED
      BY <1>2, <3>1, Numbered
  <2>2. 1..edits \subseteq 1..edits'
    BY <1>1, <1>2
  <2> QED
    BY <2>1, <2>2 DEF Age
<1>4. Age(scene', edits') /\ scene'[s] = edits'
  <2>1. scene'[s] = edits' /\ \A t \in Stages \ {s} : scene'[t] = scene[t]
    BY <1>1, <1>2 DEF Shape, Scenes
  <2>2. edits' \in 1..edits' /\ Age(scene, edits')
    BY <1>1, <1>2, <1>3 DEF Aged
  <2> QED
    BY <2>1, <2>2 DEF Age
<1>5. Aged'
  BY <1>1, <1>2, <1>3, <1>4 DEF Aged
<1>6. ~BackedUp'
  BY <1>1, <1>2, <1>3 DEF BackedUp, Holds, Aged
<1>7. Shown'
  BY <1>1, <1>2, <1>4 DEF Shown
<1>8. ASSUME ~risk'
      PROVE  Course'
  <2>1. \A t \in Stages : user'[t].pc = "idle"
    BY <1>1, <1>8 DEF Busy
  <2>2. ~Booting' /\ ~Boots("backend")' /\ ~Boots("frontend")'
    BY <2>1 DEF Booting, Boots, Busy, Stages
  <2> QED
    BY <1>6, <1>7, <2>1, <2>2 DEF Course, Imported3
<1>9. edits' # edits
  BY <1>1, <1>2
<1> QED
  BY <1>1, <1>2, <1>5, <1>8, <1>9, RowsStay DEF Goes, Course

LEMMA DebouncedGoes ==
    ASSUME KeptInv, NEW k \in Slots, Debounced(k)
    PROVE  Goes
<1> DEFINE v == SaveBackup(backupID["backend"])
<1>1. /\ timer /\ saves' = [saves EXCEPT ![k] = v]
      /\ risk' = (risk \/ Saving # {} \/ \E t \in Stages : Busy(t))
      /\ UNCHANGED <<file, backup, lastId, up, scene, user, edits>>
  BY DEF Debounced, rows, stage, counts
<1>2. Shape /\ Aged /\ Ids
  BY DEF KeptInv, SafeInv
<1>3. v.scene = scene
  BY DEF SaveBackup
<1> HIDE DEF v
<1>4. saves'[k] = v /\ \A j \in Slots \ {k} : saves'[j] = saves[j]
  BY <1>1, <1>2 DEF Shape
<1>5. Aged'
  BY <1>1, <1>2, <1>3, <1>4 DEF Aged
<1>6. ASSUME ~risk', up
      PROVE  Course'
  <2>1. ~risk /\ Saving = {} /\ \A t \in Stages : user'[t].pc = "idle"
    BY <1>1, <1>6 DEF Busy
  <2>2. Shown
    BY <1>1, <1>6, <2>1 DEF KeptInv, Course, Calm
  <2>3. Shown' /\ Holds(scene)'
    BY <1>1, <2>2 DEF Shown, Holds
  <2>4. \A j \in Saving' : j = k
    BY <1>4, <2>1 DEF Saving
  <2>5. (\A j \in Saving : BackedUp => Holds(saves[j].scene))'
    BY <1>1, <1>3, <1>4, <2>3, <2>4 DEF Holds
  <2>6. ~Booting' /\ ~Boots("backend")' /\ ~Boots("frontend")'
    BY <2>1 DEF Booting, Boots, Busy, Stages
  <2> QED
    BY <2>1, <2>3, <2>5, <2>6 DEF Course, Imported3
<1> QED
  BY <1>1, <1>2, <1>5, <1>6, RowsStay DEF Goes, Course

LEMMA SettledGoes ==
    ASSUME KeptInv, NEW s \in Stages, Settled(s)
    PROVE  Goes
<1>1. /\ settles[s] > 0 /\ settles' = [settles EXCEPT ![s] = @ - 1]
      /\ importing' = [importing EXCEPT ![s] = FALSE]
      /\ timer' = (timer \/ ~importing[s])
      /\ UNCHANGED <<file, backup, lastId, up, backupID, scene, saves, user, edits, risk>>
  BY DEF Settled, rows, open, counts
<1>2. Shape /\ Aged /\ Ids
  BY DEF KeptInv, SafeInv
<1>3. Aged'
  BY <1>1, <1>2 DEF Aged
<1>4. /\ settles'[s] = settles[s] - 1 /\ importing'[s] = FALSE
      /\ \A t \in Stages \ {s} : settles'[t] = settles[t] /\ importing'[t] = importing[t]
  BY <1>1, <1>2 DEF Shape
<1>5. ASSUME Calm
      PROVE  Calm'
  <2>1. settles[s] = 1 /\ importing[s] /\ user[s].pc \notin {"loaded", "clearing"}
    BY <1>1, <1>5 DEF Calm
  <2>2. ~timer' /\ Saving' = {}
    BY <1>1, <1>5, <2>1 DEF Calm, Saving
  <2>3. settles'[s] = 0
    BY <1>4, <2>1
  <2> QED
    BY <1>1, <1>4, <1>5, <2>1, <2>2, <2>3 DEF Calm
<1>6. ASSUME ~risk, up
      PROVE  Course'
  <2>1. /\ Booting' <=> Booting
        /\ Shown' <=> Shown
        /\ BackedUp' <=> BackedUp
        /\ Saving' = Saving
        /\ \A t \in Stages : Boots(t)' <=> Boots(t)
    BY <1>1 DEF Booting, Shown, BackedUp, Saving, Boots, Busy, Holds
  <2>2. Booting' \/ ~Shown' => Calm'
    BY <1>5, <1>6, <2>1 DEF KeptInv, Course
  <2>3. Boots("backend")' => settles'["frontend"] = 0
    <3> HAVE Boots("backend")'
    <3>1. settles["frontend"] = 0
      BY <1>6, <2>1 DEF KeptInv, Course, Stages
    <3> QED
      BY <1>1, <1>4, <3>1 DEF Stages
  <2>4. Boots("backend")' => backupID'["backend"] = 0
    BY <1>1, <1>6, <2>1 DEF KeptInv, Course, Stages
  <2>5. Boots("frontend")' => Halfway(user["frontend"])'
    BY <1>1, <1>6, <2>1 DEF KeptInv, Course, Stages, Halfway
  <2>6. (\A k \in Saving : BackedUp => Holds(saves[k].scene))'
    BY <1>1, <1>6, <2>1 DEF KeptInv, Course, Holds
  <2> QED
    BY <1>1, <1>6, <2>1, <2>2, <2>3, <2>4, <2>5, <2>6 DEF KeptInv, Course
<1> QED
  BY <1>1, <1>2, <1>3, <1>6, RowsStay DEF Goes, Course

LEMMA ReloadGoes ==
    ASSUME KeptInv, Reload
    PROVE  Goes
<1>1. /\ ~up' /\ scene' = Blank
      /\ saves' = [k \in Slots |-> Free] /\ user' = [s \in Stages |-> Free]
      /\ UNCHANGED <<file, backup, lastId, edits, risk>>
  BY DEF Reload, rows
<1>2. Free.pc = "idle"
  BY DEF Free
<1>3. Aged'
  BY <1>1, <1>2 DEF KeptInv, Aged, Age, Blank, Names, Saves, Imported3
<1> QED
  BY <1>1, <1>3, RowsStay DEF KeptInv, Goes, Course

LEMMA StartGoes ==
    ASSUME KeptInv, Start
    PROVE  Goes
<1>1. PICK op : Boot(op) /\ (op = Free \/ op.pc = "loading")
  <2>1. \A kind, n : Opening(kind, n, TRUE).pc = "loading"
    BY DEF Opening
  <2>2. Boot(Free) \/ \E kind, n : Boot(Opening(kind, n, TRUE))
    BY DEF Start
  <2> QED
    BY <2>1, <2>2
<1>2. /\ ~up /\ up' /\ user' = [user EXCEPT !["backend"] = op]
      /\ UNCHANGED <<file, backup, lastId, backupID, scene, importing, settles,
                     timer, saves, edits, risk>>
  BY <1>1 DEF Boot, rows, open, stage, counts
<1>3. Shape /\ Down /\ Aged /\ Ids
  BY <1>2 DEF KeptInv, SafeInv, BootInv
<1>4. Free.pc = "idle"
  BY DEF Free
<1>5. user'["backend"] = op /\ user'["frontend"] = Free
  BY <1>2, <1>3 DEF Down, Stages
<1>6. op.pc \in {"idle", "loading"}
  BY <1>1, <1>4
<1>7. \A s \in Stages : user'[s].pc \in {"idle", "loading"}
  BY <1>4, <1>5, <1>6 DEF Stages
<1>8. Aged'
  BY <1>2, <1>3, <1>7 DEF Aged, Saves, Imported3
<1>9. Saving' = {} /\ \A s \in Stages : settles'[s] = 0 /\ backupID'[s] = 0
  BY <1>2, <1>3, <1>4 DEF Saving, Down
<1>10. Calm'
  BY <1>2, <1>3, <1>7, <1>9 DEF Calm, Down
<1>11. ~Boots("frontend")'
  BY <1>4, <1>5 DEF Boots, Busy
<1>12. Course'
  BY <1>7, <1>9, <1>10, <1>11 DEF Course, Stages, Imported3
<1> QED
  BY <1>2, <1>3, <1>8, <1>12, RowsStay DEF Goes

\* What is known of a session that starts.
LEMMA StartFacts ==
    ASSUME KeptInv, ~risk, up, NEW s \in Stages, user[s].pc \in Imported3 \cup {"loading"}
    PROVE  /\ user[s].boot /\ Booting /\ Boots(s) /\ Calm
           /\ s = "backend" => BackendFirst /\ backupID["backend"] = 0 /\ settles["frontend"] = 0
           /\ s = "frontend" => FrontendNext /\ Halfway(user["frontend"])
           /\ user[s].pc \in Imported3 =>
                 /\ Source(user[s])
                 /\ user[s].pc = "looking" => user[s].kind # "project"
                 /\ user[s].kind # "project" => backup[user[s].name].id = user[s].id
<1>1. StepFits(user[s]) /\ user[s].pc # "idle"
  BY DEF KeptInv, SafeInv, Cover, Imported3
<1>2. user[s].boot /\ Booting /\ Boots(s)
  BY <1>1 DEF StepFits, Booting, Boots, Busy, Imported3
<1>3. /\ Calm
      /\ s = "backend" => BackendFirst /\ backupID["backend"] = 0 /\ settles["frontend"] = 0
      /\ s = "frontend" => FrontendNext /\ Halfway(user["frontend"])
  BY <1>2 DEF KeptInv, SafeInv, BootInv, Course
<1>4. user[s].pc \in Imported3 =>
         /\ Source(user[s])
         /\ user[s].pc = "looking" => user[s].kind # "project"
         /\ user[s].kind # "project" => backup[user[s].name].id = user[s].id
  BY <1>1 DEF StepFits, KeptInv, Course
<1> QED
  BY <1>2, <1>3, <1>4

\* What a row has was made.
LEMMA SourceAge ==
    ASSUME Aged, NEW u \in Imports, Source(u)
    PROVE  Age(u.scene, edits)
<1>1. u.scene # None /\ u.name \in Names
  BY NoneAssumption DEF Imports
<1> QED
  BY <1>1 DEF Aged, Source

LEMMA LoadedGoes ==
    ASSUME KeptInv, NEW s \in Stages, NEW o \in Outcomes, Loaded(s, o)
    PROVE  Goes
<1> DEFINE u == user[s]
<1>1. Shape /\ Aged /\ Ids
  BY DEF KeptInv, SafeInv
<1>2. PICK y \in UserOps :
         /\ u.pc = "loading"
         /\ user' = [user EXCEPT ![s] = y]
         /\ UNCHANGED <<file, backup, lastId, up, backupID, settles, timer, saves, edits, risk>>
         /\ \/ y = Free /\ UNCHANGED <<scene, importing>>
            \/ /\ y \in Imports /\ y.pc = "clearing" /\ y.boot = u.boot
               /\ Source(y) /\ Clear(s)
               /\ y.kind # "project" => backup[y.name].id = y.id
  BY <1>1, LoadedFacts
<1>3. user'[s] = y /\ \A t \in Stages \ {s} : user'[t] = user[t]
  BY <1>1, <1>2 DEF Shape
<1>4. Free.pc = "idle"
  BY DEF Free
<1>5. Aged'
  <2>1. Age(scene', edits)
    BY <1>1, <1>2 DEF Aged, Age, Clear, Shape, Scenes, Names
  <2>2. y.pc \in Saves \cup Imported3 => Age(y.scene, edits)
    BY <1>1, <1>2, <1>4, SourceAge DEF Saves, Imported3
  <2>3. \A t \in Stages : user'[t].pc \in Saves \cup Imported3 => Age(user'[t].scene, edits)
    BY <1>1, <1>3, <2>2 DEF Aged
  <2> QED
    BY <1>1, <1>2, <2>1, <2>3 DEF Aged
<1>6. ASSUME ~risk, up
      PROVE  Course'
  <2>1. /\ u.boot /\ Calm
        /\ s = "backend" => BackendFirst /\ backupID["backend"] = 0 /\ settles["frontend"] = 0
        /\ s = "frontend" => FrontendNext
    BY <1>2, <1>6, StartFacts
  <2>2. s = "backend"
    BY <1>2, <2>1 DEF FrontendNext, Imported3, Stages
  <2>3. /\ backupID["frontend"] = 0 /\ user["frontend"] = Free
        /\ settles = [t \in Stages |-> 0]
    BY <1>2, <2>1, <2>2 DEF BackendFirst
  <2>4. user'["backend"] = y /\ user'["frontend"] = Free
    BY <1>3, <2>2, <2>3 DEF Stages
  <2>5. Saving' = {} /\ ~timer'
    BY <1>2, <2>1 DEF Calm, Saving
  <2>6. y.pc = "clearing" => importing'["backend"]
    BY <1>1, <1>2, <1>4, <2>2 DEF Clear, Shape
  <2>7. Calm'
    BY <1>2, <1>4, <2>3, <2>4, <2>5, <2>6 DEF Calm, Stages
  <2>8. ~Boots("frontend")'
    BY <1>4, <2>4 DEF Boots, Busy
  <2>9. \A t \in Stages : user'[t].pc # "deleting" /\ user'[t].pc # "looking"
    BY <1>2, <1>4, <2>4 DEF Stages
  <2>10. y.pc \in Imported3 /\ y.kind # "project" => backup[y.name].id = y.id
    BY <1>2, <1>4 DEF Imported3
  <2>11. \A t \in Stages : user'[t].pc \in Imported3 /\ user'[t].kind # "project" =>
            backup'[user'[t].name].id = user'[t].id
    BY <1>2, <1>4, <2>4, <2>10 DEF Stages, Imported3
  <2>12. \A t \in Stages : backupID'[t] = 0
    BY <1>2, <2>1, <2>2, <2>3 DEF Stages
  <2>13. settles'["frontend"] = 0
    BY <1>2, <2>1, <2>2
  <2> QED
    BY <2>5, <2>7, <2>8, <2>9, <2>11, <2>12, <2>13 DEF Course, Stages
<1> QED
  BY <1>1, <1>2, <1>5, <1>6, RowsStay DEF Goes, Course

LEMMA FollowImportGoes ==
    ASSUME KeptInv, FollowImport
    PROVE  Goes
<1> DEFINE u == user["frontend"]
           x == [u EXCEPT !.pc = "clearing"]
<1>1. /\ u.pc = "loaded" /\ user' = [user EXCEPT !["frontend"] = x] /\ Clear("frontend")
      /\ UNCHANGED <<file, backup, lastId, up, backupID, settles, timer, saves, edits, risk>>
  BY DEF FollowImport, rows, open, counts
<1>2. "frontend" \in Stages /\ u.pc \in Imported3
  BY <1>1 DEF Stages, Imported3
<1>3. Shape /\ Aged /\ Ids /\ u \in Imports
  BY <1>2, ImportFacts DEF KeptInv
<1>4. /\ x.pc = "clearing" /\ x.boot = u.boot /\ x.kind = u.kind /\ x.name = u.name
      /\ x.id = u.id /\ x.scene = u.scene
  BY <1>3 DEF Imports
<1> HIDE DEF x
<1>5. user'["frontend"] = x /\ user'["backend"] = user["backend"]
  BY <1>1, <1>3 DEF Shape, Stages
<1>6. Age(scene', edits)
  BY <1>1, <1>3 DEF Aged, Age, Clear, Shape, Scenes, Names
<1>7. Age(x.scene, edits)
  BY <1>2, <1>3, <1>4 DEF Aged
<1>8. Aged'
  BY <1>1, <1>3, <1>5, <1>6, <1>7 DEF Aged, Stages
<1>9. ASSUME ~risk, up
      PROVE  Course'
  <2>1. /\ u.boot /\ Calm /\ FrontendNext /\ Halfway(u)
        /\ u.kind # "project" => backup[u.name].id = u.id
    BY <1>2, <1>9, StartFacts
  <2>2. user'["backend"] = Free /\ Free.pc = "idle"
    BY <1>5, <2>1 DEF FrontendNext, Free
  <2>3. importing'["frontend"] /\ importing'["backend"] = importing["backend"]
        /\ scene'["backend"] = scene["backend"]
    BY <1>1, <1>3 DEF Clear, Shape, Scenes, Stages
  <2>4. settles["frontend"] = 0
    BY <1>1, <1>2, <2>1 DEF Calm
  <2>5. Saving' = {} /\ ~timer'
    BY <1>1, <2>1 DEF Calm, Saving
  <2>6. Calm'
    BY <1>1, <1>4, <1>5, <2>1, <2>2, <2>3, <2>4, <2>5 DEF Calm, Stages
  <2>7. Halfway(user["frontend"])'
    BY <1>1, <1>4, <1>5, <2>1, <2>3 DEF Halfway
  <2>8. Booting' /\ ~Boots("backend")'
    BY <1>4, <1>5, <2>1, <2>2 DEF Booting, Boots, Busy, Stages
  <2>9. \A t \in Stages : user'[t].pc \in Imported3 =>
           /\ user'[t].pc = "looking" => user'[t].kind # "project"
           /\ user'[t].kind # "project" => backup'[user'[t].name].id = user'[t].id
    BY <1>1, <1>4, <1>5, <2>1, <2>2 DEF Stages, Imported3
  <2> QED
    BY <2>5, <2>6, <2>7, <2>8, <2>9 DEF Course
<1> QED
  BY <1>1, <1>3, <1>8, <1>9, RowsStay DEF Goes, Course

\* A backup imported as a whole is on the screen; if that has not the newest
\* change, its row has not either.
LEMMA OlderOrShown ==
    ASSUME Shape, Ids, NEW u \in Imports, Source(u), u.kind # "project",
           backup[u.name].id = u.id, Age(u.scene, edits),
           \A t \in Stages : scene'[t] = u.scene[t], UNCHANGED <<backup, edits>>
    PROVE  Shown' \/ Older(u.id, backup', edits')
<1> SUFFICES ASSUME ~Older(u.id, backup, edits)
             PROVE  Shown'
  OBVIOUS
<1>1. PICK n \in Names, t \in Stages :
         backup[n] # None /\ backup[n].id = u.id /\ backup[n].scene[t] = edits
  BY DEF Older
<1>2. backup[u.name] # None /\ backup[u.name].scene = u.scene /\ u.name \in Names
  BY DEF Source, Imports
<1>3. n = u.name
  BY <1>1, <1>2 DEF Ids
<1>4. u.scene[t] = edits /\ edits \in Nat
  BY <1>1, <1>2, <1>3, EditsType
<1>5. edits > 0
  BY <1>4, Numbered
<1> QED
  BY <1>4, <1>5 DEF Shown

\* Half of a session's start, or all of it, is done.
LEMMA FinishGoes ==
    ASSUME KeptInv, ~risk, up, NEW s \in Stages, user[s].pc \in {"clearing", "looking"}, Finish(s),
           UNCHANGED <<file, backup, saves, edits, up, importing>>, timer' => timer,
           \A t \in Stages : \/ settles'[t] = settles[t]
                             \/ t = s /\ user[s].pc = "clearing" /\ settles'[s] = 1,
           scene'[s] = user[s].scene[s], \A t \in Stages \ {s} : scene'[t] = scene[t],
           \A t \in Stages \ {s} : backupID'[t] = backupID[t],
           backupID'[s] = IF user[s].kind = "project" THEN 0 ELSE user[s].id
    PROVE  Course'
<1> DEFINE u == user[s]
           x == [u EXCEPT !.pc = "loaded"]
<1>1. Shape /\ Ids /\ BootInv /\ u.pc \in Imported3
  BY DEF KeptInv, SafeInv, Imported3
<1>2. /\ u.boot /\ Calm
      /\ s = "backend" => BackendFirst /\ backupID["backend"] = 0 /\ settles["frontend"] = 0
      /\ s = "frontend" => FrontendNext /\ Halfway(user["frontend"])
      /\ Source(u) /\ (u.kind # "project" => backup[u.name].id = u.id)
  BY <1>1, StartFacts
<1>3. u \in Imports /\ Age(u.scene, edits)
  BY <1>1, ImportFacts DEF KeptInv, Aged
<1>4. /\ x.pc = "loaded" /\ x.boot /\ x.kind = u.kind /\ x.name = u.name
      /\ x.id = u.id /\ x.scene = u.scene
  BY <1>2, <1>3 DEF Imports
<1>5. s = "backend" => scene'["backend"] = u.scene["backend"] /\ backupID'["frontend"] = 0
  BY <1>2 DEF BackendFirst, Stages
<1>6. /\ user'["backend"] = Free
      /\ s = "backend" => user'["frontend"] = x
      /\ s = "frontend" => user'["frontend"] = Free
  BY <1>1, <1>2, <1>5, Follow
<1> HIDE DEF x
<1>7. Free.pc = "idle"
  BY DEF Free
<1>8. Saving' = {} /\ ~timer'
  BY <1>2 DEF Calm, Saving
<1>9. u.pc = "clearing" => importing[s]
  BY <1>2 DEF Calm
<1>10. \A t \in Stages : settles'[t] = 0 \/ (settles'[t] = 1 /\ importing'[t])
  BY <1>2, <1>9 DEF Calm
<1>11. CASE s = "backend"
  <2>1. settles'["frontend"] = 0
    BY <1>2, <1>11 DEF Stages
  <2>2. Calm'
    BY <1>4, <1>6, <1>7, <1>8, <1>10, <1>11, <2>1 DEF Calm, Stages
  <2>3. Halfway(user["frontend"])'
    BY <1>4, <1>5, <1>6, <1>11 DEF Halfway
  <2>4. Booting' /\ ~Boots("backend")'
    BY <1>4, <1>6, <1>7, <1>11 DEF Booting, Boots, Busy, Stages
  <2>5. \A t \in Stages : user'[t].pc \in Imported3 =>
           /\ user'[t].pc = "looking" => user'[t].kind # "project"
           /\ user'[t].kind # "project" => backup'[user'[t].name].id = user'[t].id
    BY <1>2, <1>4, <1>6, <1>7, <1>11 DEF Stages, Imported3
  <2> QED
    BY <1>8, <2>2, <2>3, <2>4, <2>5 DEF Course
<1>12. CASE s = "frontend"
  <2>1. \A t \in Stages : user'[t].pc = "idle"
    BY <1>6, <1>7, <1>12 DEF Stages
  <2>2. Calm'
    BY <1>8, <1>10, <2>1 DEF Calm
  <2>3. ~Boots("backend")' /\ ~Boots("frontend")'
    BY <2>1 DEF Boots, Busy, Stages
  <2>4. \A t \in Stages : scene'[t] = u.scene[t]
    BY <1>2, <1>12 DEF Halfway, Stages
  <2>5. \A t \in Stages : backupID'[t] = IF u.kind = "project" THEN 0 ELSE u.id
    BY <1>2, <1>12 DEF Halfway, Stages
  <2>6. u.kind # "project" => Shown' \/ Older(u.id, backup', edits')
    BY <1>1, <1>2, <1>3, <2>4, OlderOrShown
  <2>7. ASSUME ~Shown', NEW t \in Stages, backupID'[t] # 0
        PROVE  Older(backupID'[t], backup', edits')
    BY <2>5, <2>6, <2>7
  <2> QED
    BY <1>8, <2>1, <2>2, <2>3, <2>7 DEF Course, Imported3
<1> QED
  BY <1>11, <1>12 DEF Stages

LEMMA LookedGoes ==
    ASSUME KeptInv, NEW s \in Stages, NEW o \in Outcomes, Looked(s, o)
    PROVE  Goes
<1> DEFINE u == user[s]
<1>1. /\ u.pc = "looking" /\ Finish(s)
      /\ backupID' = IF u.boot THEN [backupID EXCEPT ![s] = u.id] ELSE backupID
      /\ UNCHANGED <<file, backup, lastId, up, scene, importing, settles, timer, saves, edits, risk>>
  BY DEF Looked, rows, stage, counts
<1>2. /\ Shape /\ Aged /\ Ids /\ BootInv /\ u.boot \in BOOLEAN /\ u \in Imports /\ up
      /\ u.pc \in Imported3
  BY <1>1, ImportFacts DEF KeptInv, Imported3
<1>3. ASSUME ~risk
      PROVE  Course'
  <2>1. /\ u.boot /\ u.kind # "project"
        /\ s = "backend" => BackendFirst
        /\ s = "frontend" => Halfway(user["frontend"])
    BY <1>1, <1>2, <1>3, StartFacts
  <2>2. backupID' = [backupID EXCEPT ![s] = u.id]
    BY <1>1, <2>1
  <2>3. backupID'[s] = u.id /\ \A t \in Stages \ {s} : backupID'[t] = backupID[t]
    BY <1>2, <2>2 DEF Shape
  <2>4. scene'[s] = u.scene[s]
    BY <1>1, <2>1 DEF BackendFirst, Halfway, Stages
  <2> QED
    BY <1>1, <1>2, <1>3, <2>1, <2>3, <2>4, FinishGoes
<1>4. \A t \in Stages : \/ user'[t] = user[t] \/ user'[t] = Free
                        \/ user'[t] = [u EXCEPT !.pc = "loaded"]
  BY <1>1, <1>2 DEF Finish, Shape
<1>5. Age([u EXCEPT !.pc = "loaded"].scene, edits)
  BY <1>2 DEF Aged, Imports
<1>6. Free.pc = "idle"
  BY DEF Free
<1>7. \A t \in Stages : user'[t].pc \in Saves \cup Imported3 => Age(user'[t].scene, edits)
  BY <1>2, <1>4, <1>5, <1>6 DEF Aged, Saves, Imported3
<1>8. Aged'
  BY <1>1, <1>2, <1>7 DEF Aged
<1> QED
  BY <1>1, <1>2, <1>3, <1>8, RowsStay DEF Goes, Course

LEMMA ImportedGoes ==
    ASSUME KeptInv, NEW s \in Stages, Imported(s)
    PROVE  Goes
<1> DEFINE u == user[s]
<1>1. /\ u.pc = "clearing"
      /\ scene' = [scene EXCEPT ![s] = u.scene[s]]
      /\ settles' = [settles EXCEPT ![s] = @ + 1]
      /\ UNCHANGED <<file, backup, lastId, up, importing, saves, edits, risk>>
  BY DEF Imported, rows, counts
<1>2. /\ Shape /\ Aged /\ Ids /\ BootInv /\ u.boot \in BOOLEAN /\ u \in Imports /\ up
      /\ u.pc \in Imported3
  BY <1>1, ImportFacts DEF KeptInv, Imported3
<1>3. /\ scene'[s] = u.scene[s] /\ \A t \in Stages \ {s} : scene'[t] = scene[t]
      /\ settles'[s] = settles[s] + 1 /\ \A t \in Stages \ {s} : settles'[t] = settles[t]
  BY <1>1, <1>2 DEF Shape, Scenes
<1>4. Age(u.scene, edits)
  BY <1>2 DEF Aged
<1>5. Age(scene', edits)
  BY <1>2, <1>3, <1>4 DEF Aged, Age
<1>6. Free.pc = "idle"
  BY DEF Free
<1>7. CASE u.kind = "project"
  <2>1. DeleteBackup(s, FALSE) /\ backupID' = backupID
    BY <1>7 DEF Imported
  <2>2. timer' => timer
    BY <2>1 DEF DeleteBackup
  <2>3. ASSUME ~risk
        PROVE  Course'
    <3>1. /\ u.boot /\ Calm /\ backupID[s] = 0
      <4>1. /\ u.boot /\ Calm
            /\ s = "backend" => backupID["backend"] = 0
            /\ s = "frontend" => Halfway(user["frontend"])
        BY <1>2, <2>3, StartFacts
      <4> QED
        BY <4>1 DEF Halfway, Stages
    <3>2. Finish(s)
      BY <2>1, <3>1 DEF DeleteBackup
    <3>3. settles[s] = 0
      BY <1>1, <3>1 DEF Calm
    <3>4. settles'[s] = 1
      BY <1>3, <3>3
    <3> QED
      BY <1>1, <1>2, <1>3, <1>7, <2>1, <2>2, <2>3, <3>1, <3>2, <3>4, FinishGoes
  <2>4. \A t \in Stages : \/ user'[t] = user[t] \/ user'[t] = Free
                          \/ user'[t] = [u EXCEPT !.pc = "loaded"]
                          \/ user'[t].pc = "deleting"
    BY <1>2, <2>1 DEF DeleteBackup, Finish, Shape
  <2>5. Age([u EXCEPT !.pc = "loaded"].scene, edits)
    BY <1>2, <1>4 DEF Imports
  <2>6. \A t \in Stages : user'[t].pc \in Saves \cup Imported3 => Age(user'[t].scene, edits)
    BY <1>2, <1>6, <2>4, <2>5 DEF Aged, Saves, Imported3
  <2>7. Aged'
    BY <1>1, <1>2, <1>5, <2>6 DEF Aged
  <2> QED
    BY <1>1, <1>2, <2>3, <2>7, RowsStay DEF Goes, Course
<1>8. CASE u.kind # "project"
  <2> DEFINE x == [u EXCEPT !.pc = "looking"]
  <2>1. /\ backupID' = IF u.boot THEN backupID ELSE [backupID EXCEPT ![s] = u.id]
        /\ user' = [user EXCEPT ![s] = x]
        /\ timer' = (timer \/ ~importing[s])
    BY <1>8 DEF Imported
  <2>2. /\ x.pc = "looking" /\ x.boot = u.boot /\ x.kind = u.kind /\ x.name = u.name
        /\ x.id = u.id /\ x.scene = u.scene
    BY <1>2 DEF Imports
  <2> HIDE DEF x
  <2>3. user'[s] = x /\ \A t \in Stages \ {s} : user'[t] = user[t]
    BY <1>2, <2>1 DEF Shape
  <2>4. Aged'
    <3>1. \A t \in Stages : user'[t].pc \in Saves \cup Imported3 => Age(user'[t].scene, edits)
      BY <1>2, <1>4, <2>2, <2>3 DEF Aged
    <3> QED
      BY <1>1, <1>2, <1>5, <3>1 DEF Aged
  <2>5. ASSUME ~risk
        PROVE  Course'
    <3>1. /\ u.boot /\ Calm
          /\ s = "backend" => BackendFirst /\ backupID["backend"] = 0 /\ settles["frontend"] = 0
          /\ s = "frontend" => FrontendNext /\ Halfway(user["frontend"])
          /\ backup[u.name].id = u.id
      BY <1>2, <1>8, <2>5, StartFacts
    <3>2. importing[s] /\ settles[s] = 0
      BY <1>1, <3>1 DEF Calm
    <3>3. settles'[s] = 1 /\ backupID' = backupID /\ ~timer' /\ Saving' = {}
      <4>1. settles'[s] = 1
        BY <1>3, <3>2
      <4>2. backupID' = backupID
        BY <2>1, <3>1
      <4>3. ~timer'
        BY <2>1, <3>1, <3>2 DEF Calm
      <4>4. Saving' = {}
        BY <1>1, <3>1 DEF Calm, Saving
      <4> QED
        BY <4>1, <4>2, <4>3, <4>4
    <3>4. \A t \in Stages : t # s => user[t] = Free
      BY <3>1 DEF BackendFirst, FrontendNext, Stages
    <3>5. Calm'
      <4>1. \A t \in Stages : settles'[t] = 0 \/ (settles'[t] = 1 /\ importing'[t])
        BY <1>1, <1>3, <3>1, <3>2, <3>3 DEF Calm
      <4>2. \A t \in Stages : user'[t].pc \notin {"loaded", "clearing"}
        BY <1>6, <2>2, <2>3, <3>4
      <4> QED
        BY <3>3, <4>1, <4>2 DEF Calm
    <3>6. Boots("backend")' => backupID'["backend"] = 0 /\ settles'["frontend"] = 0
      <4> HAVE Boots("backend")'
      <4>1. s = "backend"
        BY <1>6, <2>3, <3>4 DEF Boots, Busy, Stages
      <4> QED
        BY <1>3, <3>1, <3>3, <4>1 DEF Stages
    <3>7. Boots("frontend")' => Halfway(user["frontend"])'
      <4> HAVE Boots("frontend")'
      <4>1. s = "frontend"
        BY <1>6, <2>3, <3>4 DEF Boots, Busy, Stages
      <4>2. user'["frontend"] = x /\ scene'["backend"] = scene["backend"]
            /\ scene'["frontend"] = u.scene["frontend"]
        BY <1>3, <2>3, <4>1 DEF Stages
      <4> QED
        BY <2>2, <3>1, <3>3, <4>1, <4>2 DEF Halfway
    <3>8. Booting'
      BY <2>2, <2>3, <3>1 DEF Booting, Busy
    <3>9. \A t \in Stages : user'[t].pc \in Imported3 =>
             /\ user'[t].pc = "looking" => user'[t].kind # "project"
             /\ user'[t].kind # "project" => backup'[user'[t].name].id = user'[t].id
      BY <1>1, <1>6, <1>8, <2>2, <2>3, <3>1, <3>4 DEF Imported3
    <3> QED
      BY <3>3, <3>5, <3>6, <3>7, <3>8, <3>9 DEF Course
  <2> QED
    BY <1>1, <1>2, <2>4, <2>5, RowsStay DEF Goes, Course
<1> QED
  BY <1>7, <1>8

LEMMA InitKept == Init => KeptInv
<1> SUFFICES ASSUME Init
             PROVE  KeptInv
  OBVIOUS
<1>1. Free.pc = "idle"
  BY DEF Free
<1>2. /\ \A n \in Names : backup[n] = None
      /\ \A k \in Slots : saves[k].pc = "idle"
      /\ \A s \in Stages : user[s].pc = "idle"
      /\ scene = Blank /\ ~up
  BY <1>1 DEF Init
<1>3. \A p \in Projects : file[p] # None => Age(file[p], edits)
  BY DEF Init, Age, Names
<1>4. Age(Blank, edits)
  BY DEF Age, Blank, Names
<1>5. Aged
  BY <1>2, <1>3, <1>4 DEF Aged, Saves, Imported3
<1> QED
  BY <1>2, <1>5, InitSafe DEF KeptInv, Ids, Course

LEMMA StutterGoes ==
    ASSUME KeptInv, UNCHANGED vars
    PROVE  Goes
<1>1. UNCHANGED <<file, backup, lastId, up, backupID, scene, importing, settles,
                  timer, saves, user, edits, risk>>
  BY DEF vars, rows, open, stage, counts
<1>2. Aged'
  BY <1>1 DEF KeptInv, Aged
<1>3. Course'
  BY <1>1 DEF KeptInv, Course, Calm, Halfway, Older, Saving, Booting, Boots, Busy, Shown,
              BackedUp, Holds
<1> QED
  BY <1>1, <1>2, <1>3, RowsStay DEF KeptInv, Goes

LEMMA NextGoes ==
    ASSUME KeptInv, [Next]_vars
    PROVE  Goes
<1>1. CASE Start
  BY <1>1, StartGoes
<1>2. CASE Reload
  BY <1>2, ReloadGoes
<1>3. CASE FollowImport
  BY <1>3, FollowImportGoes
<1>4. ASSUME NEW s \in Stages, Edit(s) \/ Settled(s)
      PROVE  Goes
  BY <1>4, EditGoes, SettledGoes
<1>5. ASSUME NEW s \in Stages, Asked(s)
      PROVE  Goes
  BY <1>5, AskedGoes
<1>6. ASSUME NEW s \in Stages, Answered(s)
      PROVE  Goes
  BY <1>6, AnsweredSaveGoes, DeletedGoes, LoadedGoes, LookedGoes, ImportedGoes DEF Answered
<1>7. ASSUME NEW n \in Names, DeleteRow(n)
      PROVE  Goes
  BY <1>7, DeleteRowGoes
<1>8. ASSUME NEW k \in Slots, SaveStep(k)
      PROVE  Goes
  BY <1>8, DebouncedGoes, UpdatedGoes, ListedGoes, AdoptedGoes, CreatedGoes DEF SaveStep
<1>9. CASE UNCHANGED vars
  BY <1>9, StutterGoes
<1> QED
  BY <1>1, <1>2, <1>3, <1>4, <1>5, <1>6, <1>7, <1>8, <1>9 DEF Next

\* A backup that has the newest change is removed or overwritten by nothing but a
\* save that has it, or by the user: neither an older run of saveBackup, nor a
\* crash and what is restored after it, nor an import (workspace.go, deleteBackup
\* and saveBackup).  Except in the windows that Exposed lists.
THEOREM KeptCorrect == Spec => Kept
<1>1. Init => KeptInv
  BY InitKept
<1>2. KeptInv /\ [Next]_vars => KeptInv'
  <2> SUFFICES ASSUME KeptInv, [Next]_vars
               PROVE  KeptInv'
    OBVIOUS
  <2>1. SafeInv'
    BY NextKeeps DEF KeptInv
  <2>2. Goes
    BY NextGoes
  <2> QED
    BY <2>1, <2>2 DEF KeptInv, Goes
<1>3. KeptInv /\ [Next]_vars => [BackedUp /\ ~Exposed /\ edits' = edits => Held' \/ Exposed']_vars
  <2> SUFFICES ASSUME KeptInv, [Next]_vars
               PROVE  BackedUp /\ ~Exposed /\ edits' = edits => Held' \/ Exposed'
    OBVIOUS
  <2> QED
    BY NextGoes DEF Goes, Exposed
<1> QED
  BY <1>1, <1>2, <1>3, PTL DEF Spec, Kept
=============================================================================
