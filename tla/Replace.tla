------------------------------ MODULE Replace ------------------------------
(***************************************************************************)
(* How the credential, the profile (with the harness status) and the leave *)
(* journal replace and remove their file, on Unix, down to what a power    *)
(* loss may undo: an entry of the directory between two syncs of the       *)
(* directory, and the data of a file that was not synced.  One writer, the *)
(* owner of the profile lock, and a reader that has no lock.               *)
(***************************************************************************)
EXTENDS Naturals, FiniteSets

CONSTANTS Style,   \* whose code: one of the three below
          Value,   \* records to store
          Temp,    \* names a temporary file may have: bounds journal remnants
          File,    \* bounds the files that exist, or may after a power loss
          Absent, Torn, Idle

ASSUME StyleAssumption == Style \in {"credential", "profile", "journal"}
ASSUME DistinctAssumption ==
  /\ Absent \notin File \cup Value /\ Torn \notin Value \cup {Absent}
  /\ Idle \notin Value \cup {Absent}
ASSUME TempAssumption == "target" \notin Temp /\ Temp # {}

VARIABLES
  dir,      \* directory: what each name refers to
  maybe,    \* directory on disk: what each name may refer to
  data,     \* contents of each file
  synced,   \* the files whose contents are on disk
  stage, op, temp,
  outcome,  \* what the last operation returned
  handle,   \* the file the writer has open
  reading   \* the file the reader has open

replaceVars == <<dir, maybe, data, synced, stage, op, temp, outcome, handle, reading>>

Name == Temp \cup {"target"}
SomeTemp == CHOOSE t \in Temp : TRUE

\* Faulty: the contents are not synced.
StepsUnsynced == [Ready |-> "Clear", Clear |-> "Create", Create |-> "Write",
                  Write |-> "Rename", Sync |-> "Rename", Rename |-> "SyncDir"]

\* The steps of a store and what follows each.  The journal draws a random
\* name for every temporary file; the others have one, which they clear first.
CredentialSteps == [Ready |-> "Clear", Clear |-> "Create", Create |-> "Write",
                    Write |-> "Sync", Sync |-> "Rename", Rename |-> "SyncDir"]
ProfileSteps == [Ready |-> "Clear", Clear |-> "Create", Create |-> "Write",
                 Write |-> "Sync", Sync |-> "Rename", Rename |-> "SyncDir"]
JournalSteps == [Ready |-> "Create", Clear |-> "Create", Create |-> "Write",
                 Write |-> "Sync", Sync |-> "Rename", Rename |-> "SyncDir"]
Steps == CASE Style = "credential" -> CredentialSteps
           [] Style = "profile" -> ProfileSteps
           [] Style = "journal" -> JournalSteps

FixedName == Style # "journal"
RecoversAtOpen == Style = "credential"

ReplaceInit ==
  /\ dir = [n \in Name |-> Absent] /\ maybe = [n \in Name |-> {Absent}]
  /\ data = [f \in File |-> Torn] /\ synced = File
  /\ stage = "Closed" /\ op = Idle
  /\ temp = SomeTemp /\ handle = Absent /\ reading = Absent /\ outcome = "none"

Unused(f) ==
  /\ f # handle /\ f # reading
  /\ \A n \in Name : f # dir[n] /\ f \notin maybe[n]

\* An entry is changed at once; on disk it may be the old one or the new.
Link(names) ==
  /\ dir' = [n \in Name |-> IF n \in DOMAIN names THEN names[n] ELSE dir[n]]
  /\ maybe' = [n \in Name |-> maybe[n] \cup {dir'[n]}]

Unlink(n) == Link([m \in {n} |-> Absent])

Enter(s) == stage' = s
Advance == Enter(Steps[stage])
End(how) == Enter("Ready") /\ op' = Idle /\ handle' = Absent /\ outcome' = how

\* Any step of the operation may fail; the operation ends, and what it did
\* stays.
Fails ==
  /\ stage \notin {"Closed", "Ready", "Gone"}
  /\ End("failed")
  /\ UNCHANGED <<dir, maybe, data, synced, temp, reading>>

-----------------------------------------------------------------------------
(* open() *)

OpenStore ==
  /\ stage = "Closed"
  /\ Enter("Ready")
  /\ IF RecoversAtOpen THEN Unlink(SomeTemp) ELSE UNCHANGED <<dir, maybe>>
  /\ UNCHANGED <<data, synced, op, temp, handle, reading, outcome>>

-----------------------------------------------------------------------------
(* store() *)

Store(v) ==
  /\ stage = "Ready"
  /\ op' = v /\ outcome' = "none"
  /\ temp' \in IF FixedName THEN {SomeTemp} ELSE {t \in Temp : dir[t] = Absent}
  /\ Advance
  /\ UNCHANGED <<dir, maybe, data, synced, handle, reading>>

\* Its failure is ignored.
ClearTemp ==
  /\ stage = "Clear"
  /\ Unlink(temp) \/ UNCHANGED <<dir, maybe>>
  /\ Advance
  /\ UNCHANGED <<data, synced, op, temp, handle, reading, outcome>>

\* O_EXCL: an entry that is still there is an error.
Create ==
  /\ stage = "Create"
  /\ dir[temp] = Absent
  /\ \E f \in File :
       /\ Unused(f)
       /\ Link([m \in {temp} |-> f])
       /\ handle' = f
       /\ data' = [data EXCEPT ![f] = Torn]
       /\ synced' = synced \ {f}
  /\ Advance
  /\ UNCHANGED <<op, temp, outcome, reading>>

Write ==
  /\ stage = "Write"
  /\ data' = [data EXCEPT ![handle] = op]
  /\ Advance
  /\ UNCHANGED <<dir, maybe, synced, op, temp, handle, reading, outcome>>

\* sync_all() and, of the credential, the check of the permissions.
Sync ==
  /\ stage = "Sync"
  /\ synced' = synced \cup {handle}
  /\ Advance
  /\ UNCHANGED <<dir, maybe, data, op, temp, handle, reading, outcome>>

Rename ==
  /\ stage = "Rename"
  /\ Link([m \in {"target", temp} |-> IF m = temp THEN Absent ELSE dir[temp]])
  /\ Advance
  /\ UNCHANGED <<data, synced, op, temp, handle, reading, outcome>>

\* Faulty: the store is over with the rename.
SyncDirNot ==
  /\ stage = "SyncDir"
  /\ End("ok")
  /\ UNCHANGED <<dir, maybe, data, synced, temp, reading>>

SyncDir ==
  /\ stage = "SyncDir"
  /\ maybe' = [n \in Name |-> {dir[n]}]
  /\ End("ok")
  /\ UNCHANGED <<dir, data, synced, temp, reading>>

-----------------------------------------------------------------------------
(* clear(), clear_profile(), remove(): of a file that is not there, nothing. *)

Remove ==
  /\ stage = "Ready"
  /\ op' = Absent /\ outcome' = "none"
  /\ Enter("Remove")
  /\ UNCHANGED <<dir, maybe, data, synced, temp, handle, reading>>

Removing ==
  /\ stage = "Remove"
  /\ IF dir["target"] = Absent
     THEN Enter("Gone") /\ UNCHANGED <<dir, maybe>>
     ELSE Enter("SyncDir") /\ Unlink("target")
  /\ UNCHANGED <<data, synced, op, temp, handle, reading, outcome>>

Gone ==
  /\ stage = "Gone"
  /\ End("ok")
  /\ UNCHANGED <<dir, maybe, data, synced, temp, reading>>

-----------------------------------------------------------------------------
(* load(), by anyone *)

ReadOpen ==
  /\ reading = Absent
  /\ reading' = dir["target"] /\ reading' # Absent
  /\ UNCHANGED <<dir, maybe, data, synced, stage, op, temp, handle, outcome>>

ReadDone ==
  /\ reading # Absent
  /\ reading' = Absent
  /\ UNCHANGED <<dir, maybe, data, synced, stage, op, temp, handle, outcome>>

-----------------------------------------------------------------------------
(* The process dies; the machine stops. *)

WriterDies ==
  /\ stage # "Closed"
  /\ Enter("Closed") /\ op' = Idle /\ handle' = Absent /\ outcome' = "none"
  /\ UNCHANGED <<dir, maybe, data, synced, temp, reading>>

PowerLoss ==
  /\ dir' \in [Name -> File \cup {Absent}]
  /\ \A n \in Name : dir'[n] \in maybe[n]
  /\ maybe' = [n \in Name |-> {dir'[n]}]
  /\ \E lost \in SUBSET (File \ synced) :
       data' = [f \in File |-> IF f \in lost THEN Torn ELSE data[f]]
  /\ synced' = File
  /\ Enter("Closed") /\ op' = Idle /\ handle' = Absent /\ outcome' = "none" /\ reading' = Absent
  /\ UNCHANGED temp

Writing == ClearTemp \/ Create \/ Write \/ Sync \/ Rename \/ SyncDir \/ Removing \/ Gone

ReplaceNext ==
  \/ OpenStore \/ Remove \/ Writing \/ Fails
  \/ \E v \in Value : Store(v)
  \/ ReadOpen \/ ReadDone
  \/ WriterDies \/ PowerLoss

ReplaceSpec == ReplaceInit /\ [][ReplaceNext]_replaceVars

-----------------------------------------------------------------------------
\* The directory, its durable alternatives and the operation under way.
ReplaceTypeOK ==
  /\ dir \in [Name -> File \cup {Absent}]
  /\ maybe \in [Name -> SUBSET (File \cup {Absent})]
  /\ data \in [File -> Value \cup {Torn}] /\ synced \subseteq File
  /\ stage \in {"Closed", "Ready", "Clear", "Create", "Write", "Sync", "Rename", "SyncDir",
             "Remove", "Gone"}
  /\ op \in Value \cup {Absent, Idle} /\ temp \in Temp
  /\ handle \in File \cup {Absent} /\ reading \in File \cup {Absent}
  /\ outcome \in {"none", "ok", "failed"}

Contents(f) == IF f = Absent THEN Absent ELSE data[f]

\* No load finds a part of a record, whenever it opens the file, and neither
\* does one after a crash or a power loss: a torn record is refused by every
\* load, and the profile would be lost.
RecordsAreWhole ==
  /\ reading # Absent => data[reading] \in Value
  /\ \A f \in maybe["target"] \cup {dir["target"]} :
       f # Absent => f \in synced /\ data[f] \in Value

\* Remnants of crashes and failures do not pile up: the credential and the
\* profile have at most one, which the next store removes.
RemnantsAreBounded == FixedName => Cardinality({t \in Temp : dir[t] # Absent}) <= 1

\* "returns durable removal failures": a removal that reports success is not
\* undone by a power loss.
RemovalIsDurable == stage = "Gone" => maybe["target"] = {Absent}

DR == INSTANCE DurableRecord WITH
  value <- Contents(dir["target"]),
  stable <- {Contents(f) : f \in maybe["target"]},
  reply <- outcome

\* The three replacements implement the durable record.
IsDurableRecord == DR!Spec
=============================================================================
