--------------------------- MODULE ProfileProofs ---------------------------
(***************************************************************************)
(* The local profile: the files it is kept in (module Replace), then its   *)
(* life across processes (module Binding).                                 *)
(*                                                                         *)
(* The file replacement, whatever the records, names and files: records    *)
(* are whole, and it implements the durable record.                        *)
(*                                                                         *)
(* The life of a profile, for any number of processes, memberships,        *)
(* instances and misbehaviours and for every combination of the admitted   *)
(* faults: what the disk says is true, and local authority is given up     *)
(* only after the relay has ended the membership.  Both rest on three      *)
(* facts that no single property states.  Only the holder of the profile   *)
(* lock changes a record, and what it knows of the disk follows from where *)
(* it is.  An instance is closed only when its lease is over or its        *)
(* membership was left, so that NotMember tells of the membership and not  *)
(* of the instance alone.  What the relay answered stays true until the    *)
(* answer is taken.                                                        *)
(***************************************************************************)
EXTENDS Binding, Replace, TLAPS

-----------------------------------------------------------------------------
(* The records of a profile. *)

\* A file that is whole and on disk.
WholeFile(f) == f \in synced /\ data[f] \in Value

\* What a load finds now, or may find after a power loss, is whole.
Published ==
  /\ \A n \in Name : dir[n] \in maybe[n]
  /\ \A f \in maybe["target"] : f # Absent => WholeFile(f)
  /\ reading # Absent => data[reading] \in Value

\* The writer's file is its own until it is renamed, and ready by then.
Private ==
  /\ stage \in {"Write", "Sync", "Rename"} =>
       /\ handle \in File /\ dir[temp] = handle
       /\ handle \notin maybe["target"] /\ handle # reading
  /\ stage \in {"Sync", "Rename"} => data[handle] = op
  /\ stage = "Rename" => handle \in synced

\* What the operation under way is, and has done.
Progress ==
  /\ stage \in {"Closed", "Ready"} <=> op = Idle
  /\ stage \in {"Clear", "Create", "Write", "Sync", "Rename"} => op \in Value
  /\ stage \in {"Remove", "Gone"} => op = Absent
  /\ stage = "Gone" => dir["target"] = Absent
  /\ stage = "SyncDir" => Contents(dir["target"]) = op

\* The inductive invariant.
ReplaceIInv == ReplaceTypeOK /\ Published /\ Private /\ Progress

\* The steps of the three stores are in the same order.
LEMMA StepOrder ==
  /\ Steps["Ready"] \in {"Clear", "Create"} /\ Steps["Clear"] = "Create"
  /\ Steps["Create"] = "Write" /\ Steps["Write"] = "Sync"
  /\ Steps["Sync"] = "Rename" /\ Steps["Rename"] = "SyncDir"
BY StyleAssumption, Zenon DEF Steps, CredentialSteps, ProfileSteps, JournalSteps

\* SomeTemp is a temporary name.
LEMMA SomeTempType == SomeTemp \in Temp
BY TempAssumption, Zenon DEF SomeTemp

\* Nothing is published, opened or stored at first.
LEMMA InitReplaceIInv == ReplaceInit => ReplaceIInv
BY DistinctAssumption, TempAssumption, SomeTempType
   DEF ReplaceInit, ReplaceIInv, ReplaceTypeOK, Published, Private, Progress, Name, WholeFile

\* Clearing an entry of a temporary file publishes nothing.
LEMMA UnlinkTemp ==
  ASSUME ReplaceTypeOK, Published, NEW t \in Temp, Unlink(t)
  PROVE  /\ dir' \in [Name -> File \cup {Absent}]
         /\ maybe' \in [Name -> SUBSET (File \cup {Absent})]
         /\ \A n \in Name : dir'[n] \in maybe'[n]
         /\ maybe'["target"] = maybe["target"] /\ dir'["target"] = dir["target"]
         /\ dir'[t] = Absent
<1>1. t \in Name /\ "target" \in Name /\ t # "target"
  BY TempAssumption, Zenon DEF Name
<1>2. /\ dir' = [n \in Name |-> IF n = t THEN Absent ELSE dir[n]]
      /\ maybe' = [n \in Name |-> maybe[n] \cup {dir'[n]}]
  BY Zenon DEF Unlink, Link
<1> QED BY <1>1, <1>2, Zenon DEF ReplaceTypeOK, Published

\* Opening with recovery keeps the invariant.
LEMMA OpenIInv == ReplaceIInv /\ OpenStore => ReplaceIInv'
<1> SUFFICES ASSUME ReplaceIInv, OpenStore PROVE ReplaceIInv' BY Zenon
<1>1. /\ dir' \in [Name -> File \cup {Absent}]
      /\ maybe' \in [Name -> SUBSET (File \cup {Absent})]
      /\ \A n \in Name : dir'[n] \in maybe'[n]
      /\ maybe'["target"] = maybe["target"] /\ dir'["target"] = dir["target"]
  BY UnlinkTemp, SomeTempType, Zenon DEF OpenStore, ReplaceIInv, ReplaceTypeOK, Published
<1> QED BY <1>1, Zenon DEF OpenStore, Enter, ReplaceIInv, ReplaceTypeOK, Published, Private, Progress, WholeFile

\* Starting a store keeps the invariant.
LEMMA StoreIInv == \A v \in Value : ReplaceIInv /\ Store(v) => ReplaceIInv'
BY StepOrder, SomeTempType, DistinctAssumption, Zenon
   DEF Store, Advance, Enter, ReplaceIInv, ReplaceTypeOK, Published, Private, Progress, WholeFile, Contents

\* Removing a remnant keeps the invariant.
LEMMA ClearTempIInv == ReplaceIInv /\ ClearTemp => ReplaceIInv'
<1> SUFFICES ASSUME ReplaceIInv, ClearTemp PROVE ReplaceIInv' BY Zenon
<1>1. /\ dir' \in [Name -> File \cup {Absent}]
      /\ maybe' \in [Name -> SUBSET (File \cup {Absent})]
      /\ \A n \in Name : dir'[n] \in maybe'[n]
      /\ maybe'["target"] = maybe["target"] /\ dir'["target"] = dir["target"]
  BY UnlinkTemp, Zenon DEF ClearTemp, ReplaceIInv, ReplaceTypeOK, Published
<1> QED BY <1>1, StepOrder, Zenon DEF ClearTemp, Advance, Enter, ReplaceIInv, ReplaceTypeOK, Published, Private, Progress, WholeFile

\* A new temporary file is private until it is renamed.
LEMMA CreateIInv == ReplaceIInv /\ Create => ReplaceIInv'
<1> SUFFICES ASSUME ReplaceIInv, Create PROVE ReplaceIInv' BY Zenon
<1>1. PICK f \in File :
        /\ Unused(f) /\ Link([m \in {temp} |-> f]) /\ handle' = f
        /\ data' = [data EXCEPT ![f] = Torn] /\ synced' = synced \ {f}
  BY Zenon DEF Create
<1>2. /\ dir' \in [Name -> File \cup {Absent}]
      /\ maybe' \in [Name -> SUBSET (File \cup {Absent})]
      /\ \A n \in Name : dir'[n] \in maybe'[n]
      /\ maybe'["target"] = maybe["target"] /\ dir'["target"] = dir["target"]
      /\ dir'[temp] = f
  <2>1. temp \in Name /\ "target" \in Name /\ temp # "target"
    BY TempAssumption, Zenon DEF ReplaceIInv, ReplaceTypeOK, Name
  <2>2. dir' = [n \in Name |-> IF n = temp THEN f ELSE dir[n]]
    BY <1>1, Zenon DEF Link
  <2>3. maybe' = [n \in Name |-> maybe[n] \cup {dir'[n]}]
    BY <1>1, Zenon DEF Link
  <2> QED BY <2>1, <2>2, <2>3, Zenon DEF ReplaceIInv, ReplaceTypeOK, Published
<1>3. f \notin maybe["target"] /\ f # reading
  BY <1>1, Zenon DEF Unused, Name
<1>4. stage' = "Write" /\ UNCHANGED <<op, temp, outcome, reading>> /\ op \in Value
  BY StepOrder, Zenon DEF Create, Advance, Enter, ReplaceIInv, Progress
<1> QED BY <1>1, <1>2, <1>3, <1>4, DistinctAssumption, Zenon
        DEF ReplaceIInv, ReplaceTypeOK, Published, Private, Progress, WholeFile

\* Writing reaches the private file only.
LEMMA WriteIInv == ReplaceIInv /\ Write => ReplaceIInv'
BY StepOrder, DistinctAssumption
   DEF Write, Advance, Enter, ReplaceIInv, ReplaceTypeOK, Published, Private, Progress, WholeFile

\* The fsync comes after the whole record is written.
LEMMA SyncIInv == ReplaceIInv /\ Sync => ReplaceIInv'
BY StepOrder, DistinctAssumption
   DEF Sync, Advance, Enter, ReplaceIInv, ReplaceTypeOK, Published, Private, Progress, WholeFile

\* What the rename and the removal do to the directory.
LEMMA RenameLinks ==
  ASSUME ReplaceIInv, Rename
  PROVE  /\ dir' \in [Name -> File \cup {Absent}]
         /\ maybe' \in [Name -> SUBSET (File \cup {Absent})]
         /\ \A n \in Name : dir'[n] \in maybe'[n]
         /\ maybe'["target"] = maybe["target"] \cup {handle} /\ dir'["target"] = handle
<1>1. dir[temp] = handle /\ handle \in File /\ temp \in Name /\ temp # "target"
  BY TempAssumption, Zenon DEF Rename, ReplaceIInv, ReplaceTypeOK, Private, Name
<1>2. /\ dir' = [n \in Name |-> IF n = temp THEN Absent
                              ELSE IF n = "target" THEN handle ELSE dir[n]]
      /\ maybe' = [n \in Name |-> maybe[n] \cup {dir'[n]}]
  BY <1>1, Zenon DEF Rename, Link
<1>3. dir' \in [Name -> File \cup {Absent}] /\ dir'["target"] = handle
  BY <1>1, <1>2, Zenon DEF ReplaceIInv, ReplaceTypeOK, Name
<1>4. maybe' \in [Name -> SUBSET (File \cup {Absent})]
  BY <1>2, <1>3, Zenon DEF ReplaceIInv, ReplaceTypeOK
<1> QED BY <1>2, <1>3, <1>4, Zenon DEF Name

\* A removal links no file anew.
LEMMA RemovingLinks ==
  ASSUME ReplaceIInv, Removing
  PROVE  /\ dir' \in [Name -> File \cup {Absent}]
         /\ maybe' \in [Name -> SUBSET (File \cup {Absent})]
         /\ \A n \in Name : dir'[n] \in maybe'[n]
         /\ maybe'["target"] = maybe["target"] \cup {Absent} /\ dir'["target"] = Absent
BY TempAssumption DEF Removing, Unlink, Link, ReplaceIInv, ReplaceTypeOK, Published, Name

\* Renaming a synced file over the target keeps the invariant.
LEMMA RenameIInv == ReplaceIInv /\ Rename => ReplaceIInv'
<1> SUFFICES ASSUME ReplaceIInv, Rename PROVE ReplaceIInv' BY Zenon
<1>1. /\ dir' \in [Name -> File \cup {Absent}]
      /\ maybe' \in [Name -> SUBSET (File \cup {Absent})]
      /\ \A n \in Name : dir'[n] \in maybe'[n]
      /\ maybe'["target"] = maybe["target"] \cup {handle} /\ dir'["target"] = handle
  BY RenameLinks, Zenon
<1>2. stage = "Rename" /\ stage' = "SyncDir" /\ UNCHANGED <<data, synced, op, temp, handle, reading, outcome>>
  BY StepOrder, Zenon DEF Rename, Advance, Enter
<1>3. handle \in File /\ WholeFile(handle) /\ data[handle] = op /\ op \in Value
  BY <1>2, Zenon DEF ReplaceIInv, Private, Progress, WholeFile
<1> QED BY <1>1, <1>2, <1>3, DistinctAssumption, Zenon
        DEF ReplaceIInv, ReplaceTypeOK, Published, Private, Progress, WholeFile, Contents

\* The fsync of the directory forgets older entries.
LEMMA SyncDirIInv == ReplaceIInv /\ SyncDir => ReplaceIInv'
BY DistinctAssumption DEF SyncDir, End, Enter, ReplaceIInv, ReplaceTypeOK, Published, Private, Progress, WholeFile, Name

\* The removal of the target publishes nothing.
LEMMA RemovingIInv == ReplaceIInv /\ Removing => ReplaceIInv'
<1> SUFFICES ASSUME ReplaceIInv, Removing PROVE ReplaceIInv' BY Zenon
<1>1. /\ dir' \in [Name -> File \cup {Absent}]
      /\ maybe' \in [Name -> SUBSET (File \cup {Absent})]
      /\ \A n \in Name : dir'[n] \in maybe'[n]
      /\ maybe'["target"] = maybe["target"] \cup {Absent} /\ dir'["target"] = Absent
  BY RemovingLinks, Zenon
<1>2. /\ stage = "Remove" /\ stage' \in {"Gone", "SyncDir"}
      /\ UNCHANGED <<data, synced, op, temp, handle, reading, outcome>>
  BY Zenon DEF Removing, Enter
<1> QED BY <1>1, <1>2, DistinctAssumption, Zenon
        DEF ReplaceIInv, ReplaceTypeOK, Published, Private, Progress, WholeFile, Contents

\* An operation may fail, end or die at any step.
LEMMA EndIInv == ReplaceIInv /\ (Fails \/ Gone \/ WriterDies \/ Remove) => ReplaceIInv'
BY DistinctAssumption, Zenon
   DEF Fails, Gone, WriterDies, Remove, End, Enter, ReplaceIInv, ReplaceTypeOK, Published, Private, Progress, WholeFile

\* A load opens what is published.
LEMMA ReadIInv == ReplaceIInv /\ (ReadOpen \/ ReadDone) => ReplaceIInv'
BY DistinctAssumption
   DEF ReadOpen, ReadDone, ReplaceIInv, ReplaceTypeOK, Published, Private, Progress, WholeFile, Contents, Name

\* A power loss leaves what may have been on disk, and that was whole.
LEMMA PowerLossIInv == ReplaceIInv /\ PowerLoss => ReplaceIInv'
<1> SUFFICES ASSUME ReplaceIInv, PowerLoss PROVE ReplaceIInv' BY Zenon
<1>1. /\ dir' \in [Name -> File \cup {Absent}] /\ synced' = File
      /\ \A n \in Name : dir'[n] \in maybe[n]
      /\ maybe' = [n \in Name |-> {dir'[n]}]
      /\ stage' = "Closed" /\ op' = Idle /\ handle' = Absent /\ reading' = Absent /\ outcome' = "none"
      /\ temp' = temp
  BY Zenon DEF PowerLoss, Enter
<1>2. data' \in [File -> Value \cup {Torn}] /\ \A f \in synced : data'[f] = data[f]
  BY Zenon DEF PowerLoss, ReplaceIInv, ReplaceTypeOK
<1> QED BY <1>1, <1>2, DistinctAssumption
        DEF ReplaceIInv, ReplaceTypeOK, Published, Private, Progress, WholeFile, Name

\* Every step keeps the invariant.
LEMMA NextReplaceIInv == ReplaceIInv /\ [ReplaceNext]_replaceVars => ReplaceIInv'
<1> SUFFICES ASSUME ReplaceIInv, [ReplaceNext]_replaceVars PROVE ReplaceIInv' BY Zenon
<1>1. CASE ReplaceNext
  BY <1>1, OpenIInv, StoreIInv, ClearTempIInv, CreateIInv, WriteIInv, SyncIInv, RenameIInv,
     SyncDirIInv, RemovingIInv, EndIInv, ReadIInv, PowerLossIInv, Zenon DEF ReplaceNext, Writing
<1>2. CASE UNCHANGED replaceVars
  BY <1>2 DEF replaceVars, ReplaceIInv, ReplaceTypeOK, Published, Private, Progress, WholeFile, Contents
<1> QED BY <1>1, <1>2, Zenon

\* The invariant on which both results rest.
THEOREM ReplaceInvariance == ReplaceSpec => []ReplaceIInv
<1>1. ReplaceInit => ReplaceIInv BY InitReplaceIInv, Zenon
<1>2. ReplaceIInv /\ [ReplaceNext]_replaceVars => ReplaceIInv' BY NextReplaceIInv, Zenon
<1> QED BY <1>1, <1>2, PTL DEF ReplaceSpec

\* No load finds a part of a record, now or after a power loss, of the
\* credential, the profile or the journal.
THEOREM Wholeness == ReplaceSpec => []RecordsAreWhole
<1>1. ReplaceIInv => RecordsAreWhole
  BY Zenon DEF ReplaceIInv, ReplaceTypeOK, Published, WholeFile, RecordsAreWhole, Name
<1> QED BY <1>1, ReplaceInvariance, PTL

-----------------------------------------------------------------------------
(* The refinement: the renaming and the unlinking are the effect, a sync of  *)
(* the directory completes it, all that is done to temporary files stutters. *)

stable == {Contents(f) : f \in maybe["target"]}
value == Contents(dir["target"])

\* Data that may be found is not touched: the mapping changes with the
\* directory only.
LEMMA ContentsKept ==
  ASSUME ReplaceIInv, \A f \in maybe["target"] : f # Absent => data'[f] = data[f]
  PROVE  /\ dir'["target"] = dir["target"] => value' = value
         /\ maybe'["target"] = maybe["target"] => stable' = stable
BY Zenon DEF value, stable, Contents, ReplaceIInv, Published, Name

\* Every step is one of the durable record, or none.
LEMMA StepRefines == ReplaceIInv /\ [ReplaceNext]_replaceVars => [DR!Next]_(DR!vars)
<1> SUFFICES ASSUME ReplaceIInv, [ReplaceNext]_replaceVars PROVE [DR!Next]_(DR!vars) BY Zenon
<1> USE DEF DR!vars, value, stable
<1>1. CASE UNCHANGED replaceVars
  BY <1>1, ContentsKept, Zenon DEF replaceVars, DR!vars, value, stable
<1>2. CASE OpenStore
  BY <1>2, UnlinkTemp, SomeTempType, ContentsKept, Zenon DEF OpenStore, ReplaceIInv, DR!vars
<1>3. ASSUME NEW v \in Value, Store(v) PROVE DR!Begin(v)
  BY <1>3, ContentsKept, Zenon DEF Store, DR!Begin, ReplaceIInv, Progress
<1>4. CASE ClearTemp
  BY <1>4, UnlinkTemp, ContentsKept, Zenon DEF ClearTemp, ReplaceIInv, ReplaceTypeOK, DR!vars
<1>5. CASE Create
  <2>1. PICK f \in File :
          /\ Unused(f) /\ Link([m \in {temp} |-> f])
          /\ data' = [data EXCEPT ![f] = Torn]
    BY <1>5, Zenon DEF Create
  <2>2. temp \in Name /\ "target" \in Name /\ temp # "target"
    BY TempAssumption, Zenon DEF ReplaceIInv, ReplaceTypeOK, Name
  <2>3. maybe'["target"] = maybe["target"] /\ dir'["target"] = dir["target"]
    BY <2>1, <2>2, Zenon DEF Link, ReplaceIInv, ReplaceTypeOK, Published
  <2>4. \A g \in maybe["target"] : g # Absent => data'[g] = data[g]
    BY <2>1, <2>2, Zenon DEF Unused, ReplaceIInv, ReplaceTypeOK, Published, WholeFile
  <2> QED BY <1>5, <2>3, <2>4, ContentsKept, Zenon DEF Create
<1>6. CASE Write
  <2>1. \A g \in maybe["target"] : g # Absent => data'[g] = data[g]
    BY <1>6, Zenon DEF Write, ReplaceIInv, ReplaceTypeOK, Published, Private, WholeFile
  <2> QED BY <1>6, <2>1, ContentsKept, Zenon DEF Write
<1>7. CASE Sync \/ ReadOpen \/ ReadDone
  BY <1>7, ContentsKept, Zenon DEF Sync, ReadOpen, ReadDone
<1>8. CASE Rename
  <2>1. maybe'["target"] = maybe["target"] \cup {handle} /\ dir'["target"] = handle
    BY <1>8, RenameLinks, Zenon
  <2>2. data' = data /\ op' = op /\ outcome' = outcome /\ op # Idle
    BY <1>8, DistinctAssumption, Zenon DEF Rename, ReplaceIInv, Progress
  <2>3. Contents(handle) = op
    BY <1>8, DistinctAssumption, Zenon DEF Rename, ReplaceIInv, Private, Contents
  <2>4. DR!Effect
    BY <2>1, <2>2, <2>3, Zenon DEF DR!Effect, Contents
  <2> QED BY <2>4, Zenon DEF DR!Next
<1>9. CASE SyncDir
  <2>1. maybe'["target"] = {dir["target"]} /\ dir' = dir /\ data' = data
    BY <1>9, Zenon DEF SyncDir, Name
  <2>2. op # Idle /\ value = op /\ op' = Idle /\ outcome' = "ok"
    BY <1>9, DistinctAssumption, Zenon DEF SyncDir, End, ReplaceIInv, Progress
  <2>3. DR!Stored
    BY <2>1, <2>2, Zenon DEF DR!Stored, Contents
  <2> QED BY <2>3, Zenon DEF DR!Next
<1>10. CASE Removing
  <2>1. maybe'["target"] = maybe["target"] \cup {Absent} /\ dir'["target"] = Absent
    BY <1>10, RemovingLinks, Zenon
  <2>2. data' = data /\ op' = op /\ outcome' = outcome /\ op = Absent /\ op # Idle
    BY <1>10, DistinctAssumption, Zenon DEF Removing, ReplaceIInv, Progress
  <2>3. DR!Effect
    BY <2>1, <2>2, Zenon DEF DR!Effect, Contents
  <2> QED BY <2>3, Zenon DEF DR!Next
<1>11. CASE Remove
  <2>1. DR!Begin(Absent)
    BY <1>11, ContentsKept, Zenon DEF Remove, DR!Begin, ReplaceIInv, Progress
  <2> QED BY <2>1, Zenon DEF DR!Next
<1>12. CASE Fails
  <2>1. DR!Failed
    BY <1>12, ContentsKept, DistinctAssumption, Zenon DEF Fails, End, DR!Failed, ReplaceIInv, ReplaceTypeOK, Progress
  <2> QED BY <2>1, Zenon DEF DR!Next
<1>13. CASE Gone
  <2>1. op = Absent /\ value = Absent
    BY <1>13, Zenon DEF Gone, ReplaceIInv, Progress, Contents
  <2>2. DR!AlreadyGone
    BY <1>13, <2>1, ContentsKept, Zenon DEF Gone, End, DR!AlreadyGone
  <2> QED BY <2>2, Zenon DEF DR!Next
<1>14. CASE WriterDies
  <2>1. DR!Crash
    BY <1>14, ContentsKept, Zenon DEF WriterDies, DR!Crash
  <2> QED BY <2>1, Zenon DEF DR!Next
<1>15. CASE PowerLoss
  <2>1. /\ dir'["target"] \in maybe["target"] /\ maybe'["target"] = {dir'["target"]}
        /\ op' = Idle /\ outcome' = "none"
    BY <1>15, Zenon DEF PowerLoss, Name
  <2>2. \A f \in synced : data'[f] = data[f]
    BY <1>15, Zenon DEF PowerLoss, ReplaceIInv, ReplaceTypeOK
  <2>3. value' = Contents(dir'["target"]) /\ stable' = {value'}
    BY <2>1, <2>2, Zenon DEF Contents, ReplaceIInv, Published, WholeFile
  <2>4. DR!PowerLoss
    BY <2>1, <2>3, Zenon DEF DR!PowerLoss
  <2> QED BY <2>4, Zenon DEF DR!Next
<1> QED
  BY <1>1, <1>2, <1>3, <1>4, <1>5, <1>6, <1>7, <1>8, <1>9, <1>10, <1>11, <1>12, <1>13, <1>14, <1>15, Zenon
     DEF ReplaceNext, Writing, DR!Next

\* The first states are those of the durable record.
LEMMA InitRefines == ReplaceInit => DR!Init
BY Zenon DEF ReplaceInit, DR!Init, Contents, Name

\* The code that replaces and removes the credential, the profile and the
\* journal implements the durable record, for any records and any number of
\* files: what module Binding takes for granted.
THEOREM Refinement == ReplaceSpec => IsDurableRecord
<1>1. ReplaceInit => DR!Init BY InitRefines, Zenon
<1>2. ReplaceIInv /\ [ReplaceNext]_replaceVars => [DR!Next]_(DR!vars) BY StepRefines, Zenon
<1> QED BY <1>1, <1>2, ReplaceInvariance, PTL DEF ReplaceSpec, IsDurableRecord, DR!Spec

-----------------------------------------------------------------------------
(* The life of a profile: the inductive invariant. *)

\* Where a process uses the credential that is on disk ...
InUse == {"FirstHeartbeat", "FirstResume", "RemoveIntent", "ConfirmRecovered", "Running",
          "Beat", "Recovering", "Persist", "StoreIntent", "SendLeave", "LeaveReply",
          "Retract", "Confirm"}

\* ... where it has one of the profile's membership ...
Holding == InUse \cup {"PersistFirst", "Fenced"}

\* ... and where the profile on disk is the one it works for.
Bound == Holding \cup {"Load"}

\* A join before it has written the profile.
Unbound == {"JoinReply", "StoreCredential", "StoreProfile"}

\* The cleanup in leave itself, and the one of a start or a recovery.
Leaves == {"LeaveCredential", "LeaveProfile", "LeaveJournal", "Left"}
Clears == {"ClearCredential", "ClearProfile", "ClearJournal"}

\* The places of a process that has the profile lock, and all places.
Owning == Bound \cup Unbound \cup Leaves \cup Clears \cup {"ClearNew"}
Place == Owning \cup {"Idle", "Start", "Recover", "Join"}

\* A call other than a join is made with the credential of a membership.
CallFits(c) == c.op # "Join" => c.instance \in Instance /\ Owner(c.instance) \in Membership

\* What the relay answered to a call, and what still follows from it.
Told(c, a) ==
  /\ a = "SquadArchived" => squad = "archived"
  /\ a = "NotMember" => c.op # "Join" /\ Ended(Owner(c.instance))
  /\ a = "Ok" /\ c.op = "Leave" => Ended(Owner(c.instance))
  /\ a \in Instance => /\ Owner(a) \in Membership
                       /\ c.op = "Resume" => Owner(a) = Owner(c.instance)

\* The call that is under way is the one the place says.
Asks(p) ==
  /\ pc[p] \in {"FirstHeartbeat", "Beat"} => request[p] = Call("Heartbeat", cred[p])
  /\ pc[p] \in {"FirstResume", "Recovering"} => request[p] = Call("Resume", cred[p])
  /\ pc[p] = "LeaveReply" => request[p] = Call("Leave", cred[p])
  /\ pc[p] = "JoinReply" => request[p] = Call("Join", None)
  /\ pc[p] \notin {"FirstHeartbeat", "Beat", "FirstResume", "Recovering", "LeaveReply",
                   "JoinReply"} => request[p] = None
  /\ request[p] # None => Told(request[p], reply[p])

\* What a process knows where it is.
Knows(p) ==
  /\ pc[p] \in Owning <=> lock = p
  /\ pc[p] \in Bound => metadata = bound[p]
  /\ pc[p] \in Bound \cup Leaves \cup {"Start", "StoreCredential", "StoreProfile"}
       => bound[p] \in Membership
  /\ pc[p] \in Holding \cup {"StoreCredential", "StoreProfile"}
       => cred[p] \in Instance /\ Owner(cred[p]) = bound[p]
  /\ pc[p] \in InUse => credential = cred[p]
  /\ pc[p] \in Unbound => metadata = None
  /\ pc[p] \in Leaves \cup {"Confirm", "ConfirmRecovered"} => Ended(bound[p])
  /\ pc[p] \in Leaves \cup Clears => metadata = None \/ Ended(metadata)
  /\ pc[p] = "Persist" => reply[p] \in Instance /\ Owner(reply[p]) = bound[p]

\* The records are well formed, and a Confirmed one is true.
DiskFits ==
  /\ credential \in Instance \cup {None}
  /\ metadata \in Membership \cup {None}
  /\ journal \in Journal \cup {None}
  /\ ConfirmedMeansEnded

\* The processes' variables are well formed.
ProcessesFit ==
  /\ lock \in Process \cup {None}
  /\ pc \in [Process -> Place]
  /\ bound \in [Process -> Membership \cup {None}]
  /\ cred \in [Process -> Instance \cup {None}]
  /\ request \in [Process -> Calls \cup {None}]
  /\ reply \in [Process -> Answers \cup {None}]

\* The relay's rows are well formed, and an instance is closed for a reason.
RelayFits ==
  /\ squad \in {"active", "archived"}
  /\ left \subseteq Membership
  /\ instances \in [Instance -> [membership : Membership \cup {None},
                                 closed : BOOLEAN, expired : BOOLEAN]]
  /\ \A i \in Instance : instances[i].closed => instances[i].expired \/ Owner(i) \in left

\* Calls that may still be executed were made by members.
LateFits ==
  /\ \A c \in late : c \in Calls /\ CallFits(c)
  /\ trouble \in 0..MaxTrouble

\* The inductive invariant.
Sound ==
  /\ NoneAssumption /\ TroubleAssumption
  /\ DiskFits /\ ProcessesFit /\ RelayFits /\ LateFits
  /\ \A p \in Process : Knows(p) /\ Asks(p)

-----------------------------------------------------------------------------
(* The relay. *)

\* The relay forgets nothing: an instance keeps its membership, what has ended
\* stays ended.
Grows ==
  /\ \A i \in Instance : Owner(i) \in Membership => Owner(i)' = Owner(i)
  /\ left \subseteq left'
  /\ squad = "archived" => squad' = "archived"

\* What one call may do to the relay and to its caller.
Effect(c, a) == RelayFits' /\ Grows /\ Told(c, a)'

\* Authorize tells the truth about the membership.
LEMMA AuthorizeIsTruthful ==
  ASSUME Sound, NEW i \in Instance
  PROVE  /\ Authorize(i) \notin Instance
         /\ Authorize(i) = "SquadArchived" => squad = "archived"
         /\ Authorize(i) = "NotMember" => Ended(Owner(i))
         /\ Authorize(i) = "Ok" => squad # "archived" /\ ~instances[i].expired
BY Zenon DEF Sound, RelayFits, Authorize, Ended, NoneAssumption, Refusal

\* A heartbeat changes nothing.
LEMMA HeartbeatEffect ==
  ASSUME Sound, NEW c, CallFits(c), c.op = "Heartbeat", NEW a, Executed(c, a)
  PROVE  Effect(c, a)
<1>1. a = Authorize(c.instance) /\ UNCHANGED relayVars
  BY Zenon DEF Executed
<1>2. c.instance \in Instance
  BY Zenon DEF CallFits
<1>3. RelayFits'
  BY <1>1, Zenon DEF Sound, RelayFits, relayVars, Owner
<1> QED BY <1>1, <1>2, <1>3, AuthorizeIsTruthful, Zenon
        DEF Effect, Grows, Told, relayVars, Owner, Ended

\* A leave that is granted ends the membership with the instance.
LEMMA LeaveEffect ==
  ASSUME Sound, NEW c, CallFits(c), c.op = "Leave", NEW a, Executed(c, a)
  PROVE  Effect(c, a)
<1>1. /\ a = Authorize(c.instance)
      /\ left' = IF a = "Ok" THEN left \cup {Owner(c.instance)} ELSE left
      /\ instances' = IF a = "Ok" THEN [instances EXCEPT ![c.instance].closed = TRUE]
                                  ELSE instances
      /\ squad' = squad
  BY Zenon DEF Executed
<1>2. c.instance \in Instance /\ Owner(c.instance) \in Membership
  BY Zenon DEF CallFits
<1>3. CASE a = "Ok"
  <2>1. /\ instances' = [instances EXCEPT ![c.instance].closed = TRUE]
        /\ left' = left \cup {Owner(c.instance)}
    BY <1>1, <1>3, Zenon
  <2>2. /\ instances' \in [Instance -> [membership : Membership \cup {None},
                                        closed : BOOLEAN, expired : BOOLEAN]]
        /\ \A i \in Instance : /\ instances'[i].membership = instances[i].membership
                               /\ instances'[i].expired = instances[i].expired
                               /\ i # c.instance => instances'[i] = instances[i]
    BY <2>1, <1>2, Zenon DEF Sound, RelayFits
  <2>3. RelayFits'
    BY <2>1, <2>2, <1>1, <1>2, Zenon DEF Sound, RelayFits, Owner
  <2>4. Grows
    BY <2>1, <2>2, <1>1, Zenon DEF Grows, Owner
  <2>5. Told(c, a)'
    BY <2>1, <2>2, <1>1, <1>2, <1>3, AuthorizeIsTruthful, Zenon DEF Told, Ended, Owner
  <2> QED BY <2>3, <2>4, <2>5, Zenon DEF Effect
<1>4. CASE a # "Ok"
  <2>1. UNCHANGED relayVars
    BY <1>1, <1>4, Zenon DEF relayVars
  <2>2. RelayFits'
    BY <2>1, Zenon DEF Sound, RelayFits, relayVars, Owner
  <2> QED BY <1>1, <1>2, <1>4, <2>1, <2>2, AuthorizeIsTruthful, Zenon
          DEF Effect, Grows, Told, relayVars, Owner, Ended
<1> QED BY <1>3, <1>4, Zenon

\* A resume opens an instance of the same membership and closes the others,
\* none of which was live.
LEMMA ResumeEffect ==
  ASSUME Sound, NEW c, CallFits(c), c.op = "Resume", NEW a, Executed(c, a)
  PROVE  Effect(c, a)
<1>2. c.instance \in Instance /\ Owner(c.instance) \in Membership
  BY Zenon DEF CallFits
<1>3. CASE /\ ResumeVerdict(c.instance) # "Ok" \/ Fresh = {}
           /\ a = IF ResumeVerdict(c.instance) = "Ok" THEN "Busy"
                  ELSE ResumeVerdict(c.instance)
           /\ UNCHANGED relayVars
  <2>1. RelayFits'
    BY <1>3, Zenon DEF Sound, RelayFits, relayVars, Owner
  <2>2. /\ a \in {"Busy", "NotFound", "SquadArchived", "NameInUse"}
        /\ a = "SquadArchived" => squad = "archived"
    BY <1>3, Zenon DEF ResumeVerdict
  <2>3. a \notin Instance
    BY <2>2, Zenon DEF Sound, NoneAssumption, Refusal
  <2> QED BY <1>3, <2>1, <2>2, <2>3, Zenon DEF Effect, Grows, Told, relayVars, Owner
<1>4. ASSUME NEW j \in Fresh,
             ResumeVerdict(c.instance) = "Ok", a = j,
             instances' = [i \in Instance |->
                   IF i = j THEN Opened(j, Owner(c.instance))
                   ELSE IF Owner(i) = Owner(c.instance)
                        THEN [instances[i] EXCEPT !.closed = TRUE]
                   ELSE instances[i]],
             UNCHANGED <<squad, left>>
      PROVE  Effect(c, a)
  <2>1. Owner(c.instance) \notin left /\ Live(Owner(c.instance)) = {}
    BY <1>4, Zenon DEF ResumeVerdict
  <2>2. j \in Instance /\ Owner(j) = None /\ None \notin Membership
    BY Zenon DEF Fresh, Sound, NoneAssumption
  <2>3. /\ instances'[j] = Opened(j, Owner(c.instance))
        /\ \A i \in Instance : i # j => instances'[i].membership = instances[i].membership
        /\ \A i \in Instance : i # j => instances'[i].expired = instances[i].expired
        /\ \A i \in Instance : i # j =>
             \/ instances'[i] = instances[i]
             \/ Owner(i) = Owner(c.instance) /\ instances'[i] = [instances[i] EXCEPT !.closed = TRUE]
    BY <1>4, <2>2, Zenon DEF Sound, RelayFits
  <2>4. instances' \in [Instance -> [membership : Membership \cup {None},
                                     closed : BOOLEAN, expired : BOOLEAN]]
    BY <1>4, <1>2, Zenon DEF Sound, RelayFits, Opened
  <2>5. ASSUME NEW i \in Instance, instances'[i].closed
        PROVE  instances'[i].expired \/ Owner(i)' \in left'
    <3>1. CASE i = j
      BY <2>3, <2>5, <3>1 DEF Opened
    <3>2. CASE i # j /\ instances'[i] = instances[i]
      BY <1>4, <2>5, <3>2, Zenon DEF Sound, RelayFits, Owner
    <3>3. CASE i # j /\ Owner(i) = Owner(c.instance)
      <4>1. instances[i].closed \/ instances[i].expired
        BY <2>1, <3>3, Zenon DEF Live
      <4>2. instances[i].expired
        BY <2>1, <3>3, <4>1, Zenon DEF Sound, RelayFits
      <4> QED BY <2>3, <3>3, <4>2, Zenon
    <3> QED BY <2>3, <3>1, <3>2, <3>3, Zenon
  <2>6. RelayFits'
    BY <1>4, <2>4, <2>5, Zenon DEF Sound, RelayFits
  <2>7. Grows
    BY <1>4, <2>2, <2>3, Zenon DEF Grows, Owner
  <2>8. Told(c, a)'
    <3>1. a \in Instance /\ Owner(a)' = Owner(c.instance)
      BY <1>4, <2>2, <2>3, Zenon DEF Owner, Opened
    <3>2. a \notin {"SquadArchived", "NotMember", "Ok"}
      BY <3>1, Zenon DEF Sound, NoneAssumption, Refusal
    <3>3. Owner(c.instance)' = Owner(c.instance)
      BY <1>2, <2>7, Zenon DEF Grows
    <3> QED BY <1>2, <3>1, <3>2, <3>3, Zenon DEF Told
  <2> QED BY <2>6, <2>7, <2>8, Zenon DEF Effect
<1> QED BY <1>3, <1>4, Zenon DEF Executed

\* A join takes a fresh instance for a new membership.
LEMMA JoinEffect ==
  ASSUME Sound, NEW c, c.op = "Join", NEW a, Executed(c, a)
  PROVE  Effect(c, a)
<1>1. CASE /\ a = IF squad = "archived" THEN "SquadArchived" ELSE "NameInUse"
           /\ UNCHANGED relayVars
  <2>1. RelayFits'
    BY <1>1, Zenon DEF Sound, RelayFits, relayVars, Owner
  <2>2. a \in {"SquadArchived", "NameInUse"} /\ (a = "SquadArchived" => squad = "archived")
    BY <1>1, Zenon
  <2>3. a \notin Instance
    BY <2>2, Zenon DEF Sound, NoneAssumption, Refusal
  <2> QED BY <1>1, <2>1, <2>2, <2>3, Zenon DEF Effect, Grows, Told, relayVars, Owner
<1>2. ASSUME NEW j \in Fresh, NEW m \in Membership \ Issued,
             squad = "active", a = j,
             instances' = [instances EXCEPT ![j] = Opened(j, m)],
             UNCHANGED <<squad, left>>
      PROVE  Effect(c, a)
  <2>2. j \in Instance /\ Owner(j) = None /\ None \notin Membership
    BY Zenon DEF Fresh, Sound, NoneAssumption
  <2>3. /\ instances'[j] = Opened(j, m)
        /\ \A i \in Instance : i # j => instances'[i] = instances[i]
        /\ instances' \in [Instance -> [membership : Membership \cup {None},
                                        closed : BOOLEAN, expired : BOOLEAN]]
    BY <1>2, <2>2, Zenon DEF Sound, RelayFits, Opened
  <2>4. ASSUME NEW i \in Instance, instances'[i].closed
        PROVE  instances'[i].expired \/ Owner(i)' \in left'
    <3>1. CASE i = j
      BY <2>3, <2>4, <3>1 DEF Opened
    <3>2. CASE i # j
      BY <1>2, <2>3, <2>4, <3>2, Zenon DEF Sound, RelayFits, Owner
    <3> QED BY <3>1, <3>2, Zenon
  <2>6. RelayFits'
    BY <1>2, <2>3, <2>4, Zenon DEF Sound, RelayFits
  <2>7. Grows
    BY <1>2, <2>2, <2>3, Zenon DEF Grows, Owner
  <2>8. Told(c, a)'
    <3>1. a \in Instance /\ Owner(a)' = m
      BY <1>2, <2>2, <2>3, Zenon DEF Owner, Opened
    <3>2. a \notin {"SquadArchived", "NotMember", "Ok"}
      BY <3>1, Zenon DEF Sound, NoneAssumption, Refusal
    <3> QED BY <3>1, <3>2, Zenon DEF Told
  <2> QED BY <2>6, <2>7, <2>8, Zenon DEF Effect
<1> QED BY <1>1, <1>2, Zenon DEF Executed

\* Whatever the call, the relay answers truthfully and forgets nothing.
LEMMA ExecutedEffect ==
  ASSUME Sound, NEW c \in Calls, CallFits(c), NEW a, Executed(c, a)
  PROVE  Effect(c, a)
<1>1. c.op \in Op
  BY DEF Calls, Call
<1> QED BY <1>1, HeartbeatEffect, LeaveEffect, ResumeEffect, JoinEffect, Zenon DEF Op

\* Where the relay only grows, a process that changes nothing but perhaps its
\* reply knows what it knew.
LEMMA RelayStepKeeps ==
  ASSUME Sound, Grows, RelayFits', LateFits', ProcessesFit',
         UNCHANGED <<diskVars, lock, pc, bound, cred, request>>,
         \A p \in Process : \/ reply'[p] = reply[p]
                            \/ request[p] # None /\ Told(request[p], reply[p])'
  PROVE  Sound'
<1>1. DiskFits'
  BY Zenon DEF Sound, DiskFits, ConfirmedMeansEnded, Ended, Grows, diskVars
<1>2. ASSUME NEW p \in Process
      PROVE  Knows(p)'
  <2>1. Knows(p) /\ Asks(p)
    BY Zenon DEF Sound
  <2>2. pc[p] = "Persist" => reply'[p] = reply[p]
    BY <2>1, Zenon DEF Asks
  <2> QED BY <2>1, <2>2, Zenon DEF Sound, Knows, Grows, Owner, Ended, diskVars, Holding, Bound, InUse
<1>3. ASSUME NEW p \in Process
      PROVE  Asks(p)'
  <2>1. Knows(p) /\ Asks(p)
    BY Zenon DEF Sound
  <2>2. CASE request[p] = None
    BY <2>1, <2>2, Zenon DEF Asks
  <2>3. CASE request[p] # None
    <3>1. request[p].op # "Join" =>
            request[p].instance \in Instance /\ Owner(request[p].instance) \in Membership
      BY <2>1, <2>3 DEF Asks, Knows, Call, Holding, Bound, InUse
    <3>2. CASE reply'[p] = reply[p]
      BY <2>1, <3>1, <3>2, Zenon DEF Asks, Told, Grows, Owner, Ended
    <3>3. CASE Told(request[p], reply[p])'
      BY <2>1, <3>3, Zenon DEF Asks
    <3> QED BY <2>3, <3>2, <3>3, Zenon
  <2> QED BY <2>2, <2>3, Zenon
<1> QED BY <1>1, <1>2, <1>3, Zenon DEF Sound

\* Every call that is under way was made by a member.
LEMMA RequestFits ==
  ASSUME Sound, NEW p \in Process, request[p] # None
  PROVE  request[p] \in Calls /\ CallFits(request[p])
<1>1. Knows(p) /\ Asks(p) /\ request[p] \in Calls
  BY Zenon DEF Sound, ProcessesFit
<1> QED BY <1>1 DEF Asks, Knows, CallFits, Call, Holding, Bound, InUse

\* The relay executes a call.
LEMMA ExecuteKeeps == \A p \in Process : Sound /\ Execute(p) => Sound'
<1> SUFFICES ASSUME NEW p \in Process, Sound, Execute(p) PROVE Sound'
  BY Zenon
<1>1. PICK a \in Answers : Executed(request[p], a) /\ reply' = [reply EXCEPT ![p] = a]
  BY Zenon DEF Execute
<1>2. PICK c : c = request[p]
  BY Zenon
<1>3. c = request[p] /\ Executed(c, a) /\ reply' = [reply EXCEPT ![p] = a]
  BY <1>1, <1>2, Zenon
<1>4. request[p] # None /\ c \in Calls /\ CallFits(c)
  BY <1>3, RequestFits, Zenon DEF Execute
<1>5. Effect(c, a)
  BY <1>3, <1>4, ExecutedEffect, Zenon
<1>6. ProcessesFit'
  BY <1>3, Zenon DEF Execute, Sound, ProcessesFit
<1>7. LateFits'
  BY <1>5, Zenon DEF Execute, Sound, LateFits, CallFits, Effect, Grows, Owner
<1>8. \A q \in Process : reply'[q] = IF q = p THEN a ELSE reply[q]
  BY <1>3, Zenon DEF Sound, ProcessesFit
<1>9. UNCHANGED <<diskVars, lock, pc, bound, cred, request>>
  BY Zenon DEF Execute
<1>10. Told(request[p], reply[p])'
  BY <1>3, <1>5, <1>8, <1>9, Zenon DEF Effect, Told, Owner, Ended
<1> QED BY <1>4, <1>5, <1>6, <1>7, <1>8, <1>9, <1>10, RelayStepKeeps, Zenon DEF Effect

\* The relay executes a call nobody waits for any more.
LEMMA ExecuteLateKeeps == Sound /\ ExecuteLate => Sound'
<1> SUFFICES ASSUME Sound, ExecuteLate PROVE Sound'
  BY Zenon
<1>1. PICK c \in late, a \in Answers : Executed(c, a) /\ late' = late \ {c}
  BY Zenon DEF ExecuteLate
<1>2. Effect(c, a)
  BY <1>1, ExecutedEffect, Zenon DEF Sound, LateFits
<1>3. ProcessesFit'
  BY Zenon DEF ExecuteLate, callVars, Sound, ProcessesFit
<1>4. LateFits'
  BY <1>1, <1>2, Zenon DEF ExecuteLate, Sound, LateFits, CallFits, Effect, Grows, Owner
<1> QED BY <1>2, <1>3, <1>4, RelayStepKeeps, Zenon DEF Effect, ExecuteLate, callVars

\* What may be executed later once a call is given up.
LEMMA AbandonedFits ==
  ASSUME Sound, NEW p \in Process, late' \in Abandoned(p), UNCHANGED relayVars,
         trouble' \in 0..MaxTrouble
  PROVE  LateFits'
<1>1. late' = late \/ (request[p] # None /\ late' = late \cup {request[p]})
  BY Zenon DEF Abandoned
<1>2. \A c \in late' : c \in Calls /\ CallFits(c)
  BY <1>1, RequestFits DEF Sound, LateFits
<1> QED BY <1>2, Zenon DEF LateFits, CallFits, Owner, relayVars

\* One more misbehaviour is within the bound.
LEMMA MisbehaveFits == Sound /\ Misbehave => trouble' \in 0..MaxTrouble
BY DEF Sound, TroubleAssumption, LateFits, Misbehave

\* A caller that gives up knows nothing new, and one that is told Busy neither.
LEMMA GiveUpKeeps == \A p \in Process : Sound /\ (GiveUp(p) \/ AnswerBusy(p)) => Sound'
<1> SUFFICES ASSUME NEW p \in Process, Sound, GiveUp(p) \/ AnswerBusy(p) PROVE Sound'
  BY Zenon
<1>1. PICK a \in {"OutcomeUnknown", "Busy"} : reply' = [reply EXCEPT ![p] = a]
  BY Zenon DEF GiveUp, AnswerBusy
<1>2. /\ request[p] # None /\ late' \in Abandoned(p) /\ Misbehave
      /\ UNCHANGED <<diskVars, lock, relayVars, pc, bound, cred, request>>
  BY Zenon DEF GiveUp, AnswerBusy
<1>3. a \in Answers /\ a \notin Instance
  BY Zenon DEF Answers, Sound, NoneAssumption, Refusal
<1>4. LateFits'
  BY <1>2, AbandonedFits, MisbehaveFits, Zenon
<1>5. ProcessesFit'
  BY <1>1, <1>2, <1>3, Zenon DEF Sound, ProcessesFit
<1>6. RelayFits' /\ Grows
  BY <1>2, Zenon DEF Sound, RelayFits, relayVars, Owner, Grows
<1>8. \A q \in Process : reply'[q] = IF q = p THEN a ELSE reply[q]
  BY <1>1, Zenon DEF Sound, ProcessesFit
<1>7. Told(request[p], reply[p])'
  BY <1>3, <1>8, Zenon DEF Told
<1> QED BY <1>2, <1>4, <1>5, <1>6, <1>7, <1>8, RelayStepKeeps, Zenon

\* A lease ends, or another member archives the squad.
LEMMA RelayEventKeeps == Sound /\ ((\E i \in Instance : Expire(i)) \/ Archive) => Sound'
<1>1. ASSUME Sound, NEW i \in Instance, Expire(i) PROVE Sound'
  <2>1. /\ instances' \in [Instance -> [membership : Membership \cup {None},
                                        closed : BOOLEAN, expired : BOOLEAN]]
        /\ \A k \in Instance : /\ instances'[k].membership = instances[k].membership
                               /\ instances'[k].closed = instances[k].closed
                               /\ k # i => instances'[k] = instances[k]
        /\ instances'[i].expired
    BY <1>1, Zenon DEF Sound, RelayFits, Expire
  <2>2. RelayFits'
    BY <1>1, <2>1, Zenon DEF Sound, RelayFits, Expire, Owner
  <2>3. Grows
    BY <1>1, <2>1, Zenon DEF Grows, Owner, Expire
  <2>4. LateFits'
    BY <1>1, <2>1, Zenon DEF Sound, LateFits, CallFits, Owner, Expire
  <2>5. ProcessesFit'
    BY <1>1, Zenon DEF Sound, ProcessesFit, Expire, callVars
  <2> QED BY <1>1, <2>2, <2>3, <2>4, <2>5, RelayStepKeeps, Zenon DEF Expire, callVars
<1>2. ASSUME Sound, Archive PROVE Sound'
  <2>1. RelayFits' /\ Grows
    BY <1>2, Zenon DEF Sound, RelayFits, Grows, Owner, Archive
  <2>2. LateFits' /\ ProcessesFit'
    BY <1>2, Zenon DEF Sound, LateFits, ProcessesFit, CallFits, Owner, Archive, callVars
  <2> QED BY <1>2, <2>1, <2>2, RelayStepKeeps, Zenon DEF Archive, callVars
<1> QED BY <1>1, <1>2, Zenon

-----------------------------------------------------------------------------
(* The processes. *)

\* Where a call is under way.
Waits == {"FirstHeartbeat", "Beat", "FirstResume", "Recovering", "LeaveReply", "JoinReply"}

\* A step of p leaves the relay and the other processes alone, and the disk
\* too unless p has the lock.
Acts(p) ==
  /\ UNCHANGED relayVars
  /\ lock = p \/ UNCHANGED diskVars
  /\ \/ lock' = lock
     \/ lock = None /\ lock' = p
     \/ lock = p /\ lock' = None
  /\ \A q \in Process : q # p => /\ pc'[q] = pc[q] /\ bound'[q] = bound[q]
                                 /\ cred'[q] = cred[q] /\ request'[q] = request[q]
                                 /\ reply'[q] = reply[q]
  /\ DiskFits' /\ ProcessesFit' /\ LateFits'

\* So it is enough to look at p.
LEMMA ActsKeeps ==
  ASSUME Sound, NEW p \in Process, Acts(p), Knows(p)', Asks(p)'
  PROVE  Sound'
<1>1. RelayFits'
  BY Zenon DEF Sound, RelayFits, Acts, relayVars, Owner
<1>2. ASSUME NEW q \in Process, q # p
      PROVE  Knows(q)' /\ Asks(q)'
  <2>1. Knows(q) /\ Asks(q)
    BY Zenon DEF Sound
  <2>2. /\ pc'[q] = pc[q] /\ bound'[q] = bound[q] /\ cred'[q] = cred[q]
        /\ request'[q] = request[q] /\ reply'[q] = reply[q]
        /\ squad' = squad /\ left' = left /\ instances' = instances
    BY <1>2, Zenon DEF Acts, relayVars
  <2>3. lock' = q <=> lock = q
    BY <1>2 DEF Acts, Sound, NoneAssumption
  <2>4. Asks(q)'
    BY <2>1, <2>2, Zenon DEF Asks, Told, Owner, Ended
  <2>5. CASE lock = p
    <3>1. pc[q] \notin Owning
      BY <1>2, <2>1, <2>5, Zenon DEF Knows
    <3> QED BY <2>1, <2>2, <2>3, <2>4, <3>1, Zenon
            DEF Knows, Owner, Ended, Owning, Bound, Holding, Unbound, Leaves, Clears, InUse
  <2>6. CASE UNCHANGED diskVars
    BY <2>1, <2>2, <2>3, <2>4, <2>6, Zenon DEF Knows, Owner, Ended, diskVars
  <2> QED BY <2>5, <2>6, Zenon DEF Acts
<1> QED BY <1>1, <1>2, Zenon DEF Acts, Sound

\* Who gives the profile up knows nothing more.
LEMMA ExitKeeps ==
  ASSUME Sound, NEW p \in Process, Exit(p), UNCHANGED relayVars, DiskFits', LateFits',
         lock = p \/ UNCHANGED diskVars
  PROVE  Sound'
<1>1. /\ pc'[p] = "Idle" /\ request'[p] = None
      /\ lock' = IF lock = p THEN None ELSE lock
      /\ \A q \in Process : q # p => /\ pc'[q] = pc[q] /\ bound'[q] = bound[q]
                                     /\ cred'[q] = cred[q] /\ request'[q] = request[q]
                                     /\ reply'[q] = reply[q]
  BY Zenon DEF Exit, Goto, Sound, ProcessesFit
<1>2. ProcessesFit'
  BY Zenon DEF Exit, Goto, Sound, ProcessesFit, Place
<1>3. Acts(p)
  BY <1>1, <1>2, Zenon DEF Acts
<1>4. lock' # p
  BY <1>1, Zenon DEF Sound, NoneAssumption
<1>5. Knows(p)' /\ Asks(p)'
  BY <1>1, <1>4, Zenon DEF Knows, Asks, Owning, Bound, Holding, Unbound, Leaves, Clears, InUse
<1> QED BY <1>3, <1>5, ActsKeeps, Zenon

\* A step that ends where no call is under way.
LEMMA QuietKeeps ==
  ASSUME Sound, NEW p \in Process, NEW s \in Owning \ Waits, Goto(p, s),
         request' = [request EXCEPT ![p] = None],
         reply' \in {reply, [reply EXCEPT ![p] = None]},
         bound' \in [Process -> Membership \cup {None}],
         cred' \in [Process -> Instance \cup {None}],
         \A q \in Process : q # p => bound'[q] = bound[q] /\ cred'[q] = cred[q],
         lock = p \/ (lock = None /\ UNCHANGED diskVars), lock' = p,
         UNCHANGED relayVars, DiskFits', LateFits', Knows(p)'
  PROVE  Sound'
<1>1. /\ pc'[p] = s /\ request'[p] = None
      /\ \A q \in Process : q # p => /\ pc'[q] = pc[q] /\ request'[q] = request[q]
                                     /\ reply'[q] = reply[q]
  BY Zenon DEF Goto, Sound, ProcessesFit
<1>2. ProcessesFit'
  BY Zenon DEF Goto, Sound, ProcessesFit, Place
<1>3. Acts(p)
  BY <1>1, <1>2, Zenon DEF Acts
<1>4. Asks(p)'
  BY <1>1, Zenon DEF Asks, Waits
<1> QED BY <1>3, <1>4, ActsKeeps, Zenon

\* A step of the owner that changes its place and perhaps the disk.
LEMMA MoveKeeps ==
  ASSUME Sound, NEW p \in Process, NEW s \in Owning \ Waits, Goto(p, s), Stay,
         pc[p] \in Owning \ Waits, UNCHANGED relayVars, DiskFits', LateFits', Knows(p)'
  PROVE  Sound'
<1>1. lock = p /\ request[p] = None
  BY Zenon DEF Sound, Knows, Asks, Waits
<1>2. request' = [request EXCEPT ![p] = None]
  BY <1>1, Zenon DEF Stay, callVars, Sound, ProcessesFit
<1> QED BY <1>1, <1>2, QuietKeeps, Zenon DEF Stay, callVars, Sound, ProcessesFit

\* A call is sent with the credential in memory, or a join without one.
LEMMA SendKeeps ==
  ASSUME Sound, NEW p \in Process, NEW s \in Waits, NEW act \in Op, NEW i \in Instance \cup {None},
         Send(p, act, i, s),
         \/ s \in {"FirstHeartbeat", "Beat"} /\ act = "Heartbeat" /\ i = cred'[p]
         \/ s \in {"FirstResume", "Recovering"} /\ act = "Resume" /\ i = cred'[p]
         \/ s = "LeaveReply" /\ act = "Leave" /\ i = cred'[p]
         \/ s = "JoinReply" /\ act = "Join" /\ i = None,
         cred' \in [Process -> Instance \cup {None}],
         \A q \in Process : q # p => cred'[q] = cred[q],
         lock = p \/ lock = None, lock' = p,
         UNCHANGED <<bound, relayVars, diskVars, late, trouble>>, Knows(p)'
  PROVE  Sound'
<1>1. /\ pc'[p] = s /\ request'[p] = Call(act, i) /\ reply'[p] = None
      /\ \A q \in Process : q # p => /\ pc'[q] = pc[q] /\ request'[q] = request[q]
                                     /\ reply'[q] = reply[q]
  BY Zenon DEF Send, Goto, Sound, ProcessesFit
<1>2. ProcessesFit'
  <2>1. Call(act, i) \in Calls
    BY DEF Calls
  <2>2. s \in Place
    BY Zenon DEF Waits, Place, Owning, Bound, Holding, InUse, Unbound
  <2> QED BY <2>1, <2>2, Zenon DEF Send, Goto, Sound, ProcessesFit
<1>3. DiskFits' /\ LateFits'
  BY Zenon DEF Sound, DiskFits, LateFits, ConfirmedMeansEnded, Ended, CallFits, Owner, diskVars, relayVars
<1>4. Acts(p)
  BY <1>1, <1>2, <1>3, Zenon DEF Acts
<1>5. None \notin Instance /\ None \notin {"SquadArchived", "NotMember", "Ok"}
  BY Zenon DEF Sound, NoneAssumption, Answers, Refusal
<1>6. Asks(p)'
  BY <1>1, <1>5, Zenon DEF Asks, Waits, Told
<1> QED BY <1>4, <1>6, ActsKeeps, Zenon

\* What may be written: any credential and profile, and a journal that does
\* not claim too much.
LEMMA DiskWritten ==
  ASSUME Sound, UNCHANGED relayVars,
         credential' \in Instance \cup {None}, metadata' \in Membership \cup {None},
         \/ journal' \in {journal, None}
         \/ \E m \in Membership : \/ journal' = Intent(m)
                                  \/ journal' = Confirmed(m) /\ Ended(m)
  PROVE  DiskFits'
<1>1. CASE journal' = journal
  BY <1>1, Zenon DEF Sound, DiskFits, ConfirmedMeansEnded, Ended, relayVars
<1>2. CASE journal' = None
  BY <1>2, Zenon DEF Sound, NoneAssumption, DiskFits, ConfirmedMeansEnded, Journal
<1>3. ASSUME NEW m \in Membership, journal' = Intent(m)
      PROVE  DiskFits'
  <2>1. Intent(m) \notin ConfirmedRecord
    BY Zenon DEF Intent, Confirmed, ConfirmedRecord
  <2> QED BY <1>3, <2>1, Zenon DEF DiskFits, ConfirmedMeansEnded, Journal
<1>4. ASSUME NEW m \in Membership, journal' = Confirmed(m), Ended(m)
      PROVE  DiskFits'
  <2>1. Confirmed(m).membership = m /\ Confirmed(m) \in Journal
    BY Zenon DEF Confirmed, ConfirmedRecord, Journal
  <2> QED BY <1>4, <2>1, Zenon DEF DiskFits, ConfirmedMeansEnded, Ended, relayVars
<1> QED BY <1>1, <1>2, <1>3, <1>4, Zenon

\* What a step of a process that is not a crash leaves alone.
LEMMA LateSame ==
  ASSUME Sound, UNCHANGED <<relayVars, late>>, trouble' = trouble \/ Misbehave
  PROVE  LateFits'
BY MisbehaveFits, Zenon DEF Sound, LateFits, CallFits, Owner, relayVars

-----------------------------------------------------------------------------
(* Opening. *)

\* Choosing a command changes nothing but the place.
LEMMA CommandKeeps ==
  ASSUME Sound, NEW p \in Process, Open(p) \/ JoinCommand(p) PROVE Sound'
<1>1. /\ pc[p] = "Idle" /\ pc'[p] \in {"Recover", "Start", "Join"}
      /\ pc'[p] = "Start" => bound'[p] \in Membership
      /\ \A q \in Process : q # p => pc'[q] = pc[q] /\ bound'[q] = bound[q]
      /\ pc' \in [Process -> Place] /\ bound' \in [Process -> Membership \cup {None}]
      /\ UNCHANGED <<diskVars, lock, relayVars, cred, callVars, late, trouble>>
  BY DEF Open, JoinCommand, At, Goto, Sound, ProcessesFit, DiskFits, Place
<1>2. DiskFits' /\ LateFits' /\ ProcessesFit'
  BY <1>1, DiskWritten, LateSame, Zenon DEF Sound, DiskFits, ProcessesFit, diskVars, callVars
<1>3. Acts(p)
  BY <1>1, <1>2, Zenon DEF Acts, callVars
<1>4. request[p] = None /\ lock # p
  BY <1>1, Zenon DEF Sound, Asks, Knows, Owning, Bound, Holding, Unbound, Leaves, Clears, InUse
<1>5. Asks(p)'
  BY <1>1, <1>4, Zenon DEF Asks, callVars
<1>6. Knows(p)'
  BY <1>1, <1>4, Zenon DEF Knows, Owning, Bound, Holding, Unbound, Leaves, Clears, InUse
<1> QED BY <1>3, <1>5, <1>6, ActsKeeps, Zenon

\* Ending without touching the disk.
LEMMA LeavesDiskKeeps ==
  ASSUME Sound, NEW p \in Process, Exit(p), UNCHANGED <<diskVars, relayVars, late, trouble>>
  PROVE  Sound'
<1>1. DiskFits' /\ LateFits'
  BY DiskWritten, LateSame, Zenon DEF Sound, DiskFits, diskVars
<1> QED BY <1>1, ExitKeeps, Zenon

\* Taking the lock for a start: the profile on disk is the one that was read.
LEMMA StartKeeps ==
  ASSUME Sound, NEW p \in Process, Start(p) PROVE Sound'
<1>1. CASE Exit(p)
  BY <1>1, LeavesDiskKeeps, Zenon DEF Start
<1>2. CASE /\ metadata = bound[p] /\ lock' = p /\ Goto(p, "Load")
           /\ UNCHANGED <<bound, cred, callVars>>
  <2>1. Knows(p) /\ Asks(p) /\ pc[p] = "Start" /\ lock = None
    BY Zenon DEF Sound, Start, At
  <2>2. bound[p] \in Membership /\ request[p] = None /\ pc'[p] = "Load"
    BY <1>2, <2>1, Zenon DEF Knows, Asks, Goto, Sound, ProcessesFit
  <2>3. DiskFits' /\ LateFits'
    BY DiskWritten, LateSame, Zenon DEF Start, Sound, DiskFits, diskVars
  <2>4. Knows(p)'
    BY <1>2, <2>2, Zenon DEF Knows, Start, diskVars, Owning, Bound, Holding, Unbound, Leaves, Clears, InUse
  <2>5. request' = [request EXCEPT ![p] = None]
    BY <1>2, <2>2, Zenon DEF callVars, Sound, ProcessesFit
  <2>6. "Load" \in Owning \ Waits
    BY Zenon DEF Owning, Bound, Waits
  <2> QED BY <1>2, <2>1, <2>3, <2>4, <2>5, <2>6, QuietKeeps, Zenon
          DEF Start, callVars, Sound, ProcessesFit
<1> QED BY <1>1, <1>2, Zenon DEF Start

\* Taking the lock for a recovery: there is no profile any more.
LEMMA RecoverKeeps ==
  ASSUME Sound, NEW p \in Process, RecoverOrphanedLeave(p) PROVE Sound'
<1>1. CASE Exit(p)
  BY <1>1, LeavesDiskKeeps, Zenon DEF RecoverOrphanedLeave
<1>2. CASE /\ metadata = None /\ lock' = p /\ Goto(p, "ClearCredential")
           /\ UNCHANGED <<bound, cred, callVars>>
  <2>1. Knows(p) /\ Asks(p) /\ pc[p] = "Recover" /\ lock = None
    BY Zenon DEF Sound, RecoverOrphanedLeave, At
  <2>2. request[p] = None /\ pc'[p] = "ClearCredential"
    BY <1>2, <2>1, Zenon DEF Asks, Goto, Sound, ProcessesFit
  <2>3. DiskFits' /\ LateFits'
    BY DiskWritten, LateSame, Zenon DEF RecoverOrphanedLeave, Sound, DiskFits, diskVars
  <2>4. Knows(p)'
    BY <1>2, <2>2, Zenon DEF Knows, RecoverOrphanedLeave, diskVars, Owning, Bound, Holding, Unbound,
                      Leaves, Clears, InUse
  <2>5. request' = [request EXCEPT ![p] = None]
    BY <1>2, <2>2, Zenon DEF callVars, Sound, ProcessesFit
  <2>6. "ClearCredential" \in Owning \ Waits
    BY Zenon DEF Owning, Clears, Waits
  <2> QED BY <1>2, <2>1, <2>3, <2>4, <2>5, <2>6, QuietKeeps, Zenon
          DEF RecoverOrphanedLeave, callVars, Sound, ProcessesFit
<1> QED BY <1>1, <1>2, Zenon DEF RecoverOrphanedLeave

\* The journal and the credential are read: a Confirmed journal goes on to the
\* cleanup, a credential of the profile's membership to the first heartbeat.
LEMMA LoadKeeps ==
  ASSUME Sound, NEW p \in Process, Load(p) PROVE Sound'
<1>1. /\ Knows(p) /\ Asks(p) /\ pc[p] = "Load" /\ lock = p
      /\ bound[p] \in Membership /\ metadata = bound[p] /\ request[p] = None
  BY Zenon DEF Sound, Load, At, Knows, Asks, Owning, Bound
<1>2. CASE Exit(p)
  BY <1>2, LeavesDiskKeeps, Zenon DEF Load
<1>3. CASE journal = Confirmed(bound[p]) /\ Goto(p, "ClearCredential") /\ Stay
  <2>1. Ended(metadata)
    BY <1>1, <1>3, Zenon DEF Sound, DiskFits, ConfirmedMeansEnded, ConfirmedRecord, Confirmed
  <2>2. pc'[p] = "ClearCredential"
    BY <1>3, Zenon DEF Goto, Sound, ProcessesFit
  <2>3. DiskFits' /\ LateFits'
    BY DiskWritten, LateSame, Zenon DEF Load, Sound, DiskFits, diskVars
  <2>4. Knows(p)'
    BY <1>1, <1>3, <2>1, <2>2, Zenon DEF Knows, Load, Stay, Ended, diskVars, relayVars, Owning, Bound,
                                  Holding, Unbound, Leaves, Clears, InUse
  <2>5. {"Load", "ClearCredential"} \subseteq Owning \ Waits
    BY Zenon DEF Owning, Bound, Clears, Waits
  <2> QED BY <1>1, <1>3, <2>3, <2>4, <2>5, MoveKeeps, Zenon DEF Load
<1>4. CASE /\ credential # None /\ Owner(credential) = bound[p]
           /\ cred' = [cred EXCEPT ![p] = credential]
           /\ Send(p, "Heartbeat", credential, "FirstHeartbeat")
           /\ UNCHANGED <<lock, bound>>
  <2>1. credential \in Instance
    BY <1>4, Zenon DEF Sound, DiskFits
  <2>2. pc'[p] = "FirstHeartbeat" /\ cred'[p] = credential
    BY <1>4, Zenon DEF Send, Goto, Sound, ProcessesFit
  <2>3. cred' \in [Process -> Instance \cup {None}] /\ \A q \in Process : q # p => cred'[q] = cred[q]
    BY <1>4, <2>1, Zenon DEF Sound, ProcessesFit
  <2>4. Knows(p)'
    BY <1>1, <1>4, <2>1, <2>2, Zenon DEF Knows, Load, Owner, diskVars, relayVars, Owning, Bound, Holding,
                                  Unbound, Leaves, Clears, InUse
  <2>5. "FirstHeartbeat" \in Waits /\ "Heartbeat" \in Op
    BY Zenon DEF Waits, Op
  <2> QED BY <1>1, <1>4, <2>1, <2>2, <2>3, <2>4, <2>5, SendKeeps, Zenon DEF Load
<1> QED BY <1>2, <1>3, <1>4, Zenon DEF Load

\* A call is something, and is made of its operation and its instance.
LEMMA CallFacts ==
  ASSUME Sound, NEW act \in Op, NEW i \in Instance \cup {None}
  PROVE  Call(act, i) # None /\ Call(act, i).op = act /\ Call(act, i).instance = i
<1>1. Call(act, i) \in Calls
  BY DEF Calls
<1> QED BY <1>1, Zenon DEF Call, Sound, NoneAssumption

\* A reply is taken by the owner.
LEMMA TakeKeeps ==
  ASSUME Sound, NEW p \in Process, NEW s \in Owning \ Waits, Take(p, s), pc[p] \in Owning,
         bound' \in [Process -> Membership \cup {None}],
         cred' \in [Process -> Instance \cup {None}],
         \A q \in Process : q # p => bound'[q] = bound[q] /\ cred'[q] = cred[q],
         UNCHANGED <<lock, relayVars>>, DiskFits', LateFits', Knows(p)'
  PROVE  Sound'
<1>1. lock = p
  BY Zenon DEF Sound, Knows
<1> QED BY <1>1, QuietKeeps, Zenon DEF Take

\* The first heartbeat: Ready, a resume, a leave that did happen, or an error.
LEMMA FirstHeartbeatKeeps ==
  ASSUME Sound, NEW p \in Process, FirstHeartbeat(p) PROVE Sound'
<1>1. /\ Knows(p) /\ Asks(p) /\ pc[p] = "FirstHeartbeat" /\ lock = p
      /\ bound[p] \in Membership /\ metadata = bound[p] /\ request[p] = Call("Heartbeat", cred[p])
      /\ cred[p] \in Instance /\ Owner(cred[p]) = bound[p] /\ credential = cred[p]
  BY Zenon DEF Sound, FirstHeartbeat, At, Knows, Asks, Owning, Bound, Holding, InUse
<1>2. CASE Exit(p)
  BY <1>2, LeavesDiskKeeps, Zenon DEF FirstHeartbeat
<1>3. ASSUME NEW s \in {"Running", "RemoveIntent", "ConfirmRecovered"}, Take(p, s),
             s = "ConfirmRecovered" => reply[p] \in {"NotMember", "SquadArchived"},
             UNCHANGED <<lock, bound, cred>>
      PROVE  Sound'
  <2>1. pc'[p] = s
    BY <1>3, Zenon DEF Take, Goto, Sound, ProcessesFit
  <2>2. s = "ConfirmRecovered" => Ended(bound[p])
    <3>1. request[p] # None /\ request[p].instance = cred[p]
      BY <1>1, CallFacts DEF Op
    <3> QED BY <1>1, <1>3, <3>1, Zenon DEF Asks, Told, Ended
  <2>3. DiskFits' /\ LateFits'
    BY DiskWritten, LateSame, Zenon DEF FirstHeartbeat, Sound, DiskFits, diskVars
  <2>4. Knows(p)'
    BY <1>1, <1>3, <2>1, <2>2, Zenon DEF Knows, FirstHeartbeat, Ended, Owner, diskVars, relayVars, Owning,
                                  Bound, Holding, Unbound, Leaves, Clears, InUse
  <2>5. s \in Owning \ Waits /\ pc[p] \in Owning
    BY <1>1, <1>3, Zenon DEF Owning, Bound, Holding, InUse, Waits
  <2> QED BY <1>3, <2>3, <2>4, <2>5, TakeKeeps, Zenon DEF FirstHeartbeat, Sound, ProcessesFit
<1>4. CASE Send(p, "Resume", cred[p], "FirstResume") /\ UNCHANGED <<lock, bound, cred>>
  <2>1. pc'[p] = "FirstResume"
    BY <1>4, Zenon DEF Send, Goto, Sound, ProcessesFit
  <2>2. Knows(p)'
    BY <1>1, <1>4, <2>1, Zenon DEF Knows, FirstHeartbeat, Owner, diskVars, relayVars, Owning, Bound,
                            Holding, Unbound, Leaves, Clears, InUse
  <2>3. "FirstResume" \in Waits /\ "Resume" \in Op
    BY Zenon DEF Waits, Op
  <2> QED BY <1>1, <1>4, <2>2, <2>3, SendKeeps, Zenon DEF FirstHeartbeat, Sound, ProcessesFit
<1> QED BY <1>2, <1>3, <1>4, Zenon DEF FirstHeartbeat, Publish

\* The replacement of an expired instance belongs to the same membership.
LEMMA FirstResumeKeeps ==
  ASSUME Sound, NEW p \in Process, FirstResume(p) PROVE Sound'
<1>1. /\ Knows(p) /\ Asks(p) /\ pc[p] = "FirstResume" /\ lock = p
      /\ bound[p] \in Membership /\ metadata = bound[p] /\ request[p] = Call("Resume", cred[p])
      /\ cred[p] \in Instance /\ Owner(cred[p]) = bound[p]
  BY Zenon DEF Sound, FirstResume, At, Knows, Asks, Owning, Bound, Holding, InUse
<1>2. CASE Exit(p)
  BY <1>2, LeavesDiskKeeps, Zenon DEF FirstResume
<1>3. CASE /\ reply[p] \in Instance /\ Take(p, "PersistFirst")
           /\ cred' = [cred EXCEPT ![p] = reply[p]] /\ UNCHANGED <<lock, bound>>
  <2>1. pc'[p] = "PersistFirst" /\ cred'[p] = reply[p]
    BY <1>3, Zenon DEF Take, Goto, Sound, ProcessesFit
  <2>2. Owner(reply[p]) = bound[p]
    <3>1. request[p] # None /\ request[p].instance = cred[p] /\ request[p].op = "Resume"
      BY <1>1, CallFacts DEF Op
    <3> QED BY <1>1, <1>3, <3>1, Zenon DEF Asks, Told
  <2>3. DiskFits' /\ LateFits'
    BY DiskWritten, LateSame, Zenon DEF FirstResume, Sound, DiskFits, diskVars
  <2>4. Knows(p)'
    BY <1>1, <1>3, <2>1, <2>2, Zenon DEF Knows, FirstResume, Owner, diskVars, relayVars, Owning,
                                  Bound, Holding, Unbound, Leaves, Clears, InUse
  <2>5. "PersistFirst" \in Owning \ Waits /\ pc[p] \in Owning
    BY <1>1, Zenon DEF Owning, Bound, Holding, InUse, Waits
  <2>6. cred' \in [Process -> Instance \cup {None}] /\ \A q \in Process : q # p => cred'[q] = cred[q]
    BY <1>3, Zenon DEF Sound, ProcessesFit
  <2> QED BY <1>3, <2>3, <2>4, <2>5, <2>6, TakeKeeps, Zenon DEF FirstResume, Sound, ProcessesFit
<1> QED BY <1>2, <1>3, Zenon DEF FirstResume

\* The three writes of a start.
LEMMA OpeningWriteKeeps ==
  ASSUME Sound, NEW p \in Process, PersistFirst(p) \/ RemoveIntent(p) \/ ConfirmRecovered(p)
  PROVE  Sound'
<1>1. /\ Knows(p) /\ Asks(p) /\ pc[p] \in {"PersistFirst", "RemoveIntent", "ConfirmRecovered"}
      /\ lock = p /\ bound[p] \in Membership /\ metadata = bound[p]
      /\ cred[p] \in Instance /\ Owner(cred[p]) = bound[p]
      /\ pc[p] # "PersistFirst" => credential = cred[p]
      /\ pc[p] = "ConfirmRecovered" => Ended(bound[p])
  BY Zenon DEF Sound, PersistFirst, RemoveIntent, ConfirmRecovered, At, Knows, Owning, Bound, Holding, InUse
<1>2. /\ metadata' = metadata /\ UNCHANGED <<relayVars, late>>
      /\ trouble' = trouble \/ Misbehave
      /\ credential' \in {credential, cred[p]}
      /\ \/ journal' \in {journal, None}
         \/ journal' = Confirmed(bound[p]) /\ Ended(bound[p])
  BY <1>1, Zenon DEF PersistFirst, RemoveIntent, ConfirmRecovered, At, Written
<1>3. DiskFits' /\ LateFits'
  BY <1>1, <1>2, DiskWritten, LateSame, Zenon DEF Sound, DiskFits
<1>4. \/ Exit(p)
      \/ /\ Stay
         /\ \/ pc[p] = "PersistFirst" /\ credential' = cred[p]
               /\ (Goto(p, "Running") \/ Goto(p, "RemoveIntent"))
            \/ pc[p] = "RemoveIntent" /\ credential' = credential /\ Goto(p, "Running")
            \/ pc[p] = "ConfirmRecovered" /\ Goto(p, "ClearCredential")
  BY Zenon DEF PersistFirst, RemoveIntent, ConfirmRecovered, At, Written
<1>5. CASE Exit(p)
  BY <1>1, <1>2, <1>3, <1>5, ExitKeeps, Zenon
<1>6. ASSUME NEW s \in {"Running", "RemoveIntent", "ClearCredential"}, Goto(p, s), Stay,
             s # "ClearCredential" => credential' = cred[p],
             s = "ClearCredential" => Ended(bound[p])
      PROVE  Sound'
  <2>1. pc'[p] = s
    BY <1>6, Zenon DEF Goto, Sound, ProcessesFit
  <2>2. Knows(p)'
    BY <1>1, <1>2, <1>6, <2>1, Zenon DEF Knows, Stay, Owner, Ended, relayVars, Owning, Bound, Holding,
                                  Unbound, Leaves, Clears, InUse
  <2>3. s \in Owning \ Waits /\ pc[p] \in Owning \ Waits
    BY <1>1, <1>6, Zenon DEF Owning, Bound, Holding, InUse, Clears, Waits
  <2> QED BY <1>2, <1>3, <1>6, <2>2, <2>3, MoveKeeps, Zenon
<1> QED BY <1>1, <1>4, <1>5, <1>6, Zenon

-----------------------------------------------------------------------------
(* Joining. *)

\* A join is asked for while there is neither profile nor credential.
LEMMA JoinKeeps ==
  ASSUME Sound, NEW p \in Process, Join(p) PROVE Sound'
<1>1. Knows(p) /\ Asks(p) /\ pc[p] = "Join" /\ lock = None
  BY Zenon DEF Sound, Join, At
<1>2. CASE Exit(p)
  BY <1>2, LeavesDiskKeeps, Zenon DEF Join
<1>3. CASE /\ metadata = None /\ lock' = p /\ Send(p, "Join", None, "JoinReply")
           /\ UNCHANGED <<bound, cred>>
  <2>1. pc'[p] = "JoinReply"
    BY <1>3, Zenon DEF Send, Goto, Sound, ProcessesFit
  <2>2. Knows(p)'
    BY <1>1, <1>3, <2>1, Zenon DEF Knows, Join, diskVars, Owning, Bound, Holding, Unbound, Leaves,
                            Clears, InUse
  <2>3. "JoinReply" \in Waits /\ "Join" \in Op
    BY Zenon DEF Waits, Op
  <2> QED BY <1>1, <1>3, <2>2, <2>3, SendKeeps, Zenon DEF Join, Sound, ProcessesFit
<1> QED BY <1>2, <1>3, Zenon DEF Join

\* The new instance belongs to the membership the profile will name.
LEMMA JoinReplyKeeps ==
  ASSUME Sound, NEW p \in Process, JoinReply(p) PROVE Sound'
<1>1. /\ Knows(p) /\ Asks(p) /\ pc[p] = "JoinReply" /\ lock = p
      /\ metadata = None /\ request[p] = Call("Join", None)
  BY Zenon DEF Sound, JoinReply, At, Knows, Asks, Owning, Unbound
<1>2. CASE Exit(p)
  BY <1>2, LeavesDiskKeeps, Zenon DEF JoinReply
<1>3. CASE /\ reply[p] \in Instance
           /\ bound' = [bound EXCEPT ![p] = Owner(reply[p])]
           /\ cred' = [cred EXCEPT ![p] = reply[p]]
           /\ Take(p, "StoreCredential")
           /\ UNCHANGED lock
  <2>1. Owner(reply[p]) \in Membership
    BY <1>1, <1>3, CallFacts DEF Asks, Told, Op
  <2>2. pc'[p] = "StoreCredential" /\ cred'[p] = reply[p] /\ bound'[p] = Owner(reply[p])
    BY <1>3, Zenon DEF Take, Goto, Sound, ProcessesFit
  <2>3. DiskFits' /\ LateFits'
    BY DiskWritten, LateSame, Zenon DEF JoinReply, Sound, DiskFits, diskVars
  <2>4. Knows(p)'
    BY <1>1, <1>3, <2>1, <2>2, Zenon DEF Knows, JoinReply, Owner, diskVars, relayVars, Owning,
                                  Bound, Holding, Unbound, Leaves, Clears, InUse
  <2>5. "StoreCredential" \in Owning \ Waits /\ pc[p] \in Owning
    BY <1>1, Zenon DEF Owning, Unbound, Waits
  <2>6. /\ bound' \in [Process -> Membership \cup {None}] /\ cred' \in [Process -> Instance \cup {None}]
        /\ \A q \in Process : q # p => bound'[q] = bound[q] /\ cred'[q] = cred[q]
    BY <1>3, <2>1, Zenon DEF Sound, ProcessesFit
  <2> QED BY <1>3, <2>3, <2>4, <2>5, <2>6, TakeKeeps, Zenon DEF JoinReply
<1> QED BY <1>2, <1>3, Zenon DEF JoinReply

\* The writes of a join, and the removal that follows a failed one.
LEMMA JoinWriteKeeps ==
  ASSUME Sound, NEW p \in Process, StoreCredential(p) \/ StoreProfile(p) \/ ClearNew(p)
  PROVE  Sound'
<1>1. /\ Knows(p) /\ Asks(p) /\ pc[p] \in {"StoreCredential", "StoreProfile", "ClearNew"}
      /\ lock = p
      /\ pc[p] # "ClearNew" => /\ bound[p] \in Membership /\ metadata = None
                               /\ cred[p] \in Instance /\ Owner(cred[p]) = bound[p]
  BY Zenon DEF Sound, StoreCredential, StoreProfile, ClearNew, At, Knows, Owning, Unbound
<1>2. /\ journal' = journal /\ UNCHANGED <<relayVars, late>>
      /\ trouble' = trouble \/ Misbehave
      /\ credential' \in {credential, None} \/ (pc[p] = "StoreCredential" /\ credential' = cred[p])
      /\ metadata' = metadata \/ (pc[p] = "StoreProfile" /\ metadata' = bound[p])
  BY Zenon DEF StoreCredential, StoreProfile, ClearNew, At, Written
<1>3. DiskFits' /\ LateFits'
  BY <1>1, <1>2, DiskWritten, LateSame, Zenon DEF Sound, DiskFits
<1>4. \/ Exit(p)
      \/ /\ Stay
         /\ \/ pc[p] = "StoreCredential" /\ Goto(p, "StoreProfile")
            \/ pc[p] = "StoreProfile" /\ metadata' = bound[p] /\ Goto(p, "Load")
            \/ pc[p] = "StoreProfile" /\ Goto(p, "ClearNew")
  BY Zenon DEF StoreCredential, StoreProfile, ClearNew, At, Written
<1>5. CASE Exit(p)
  BY <1>1, <1>2, <1>3, <1>5, ExitKeeps, Zenon
<1>6. ASSUME NEW s \in {"StoreProfile", "Load", "ClearNew"}, Goto(p, s), Stay,
             pc[p] # "ClearNew",
             s = "Load" => metadata' = bound[p],
             s = "StoreProfile" => pc[p] = "StoreCredential"
      PROVE  Sound'
  <2>1. pc'[p] = s
    BY <1>6, Zenon DEF Goto, Sound, ProcessesFit
  <2>2. Knows(p)'
    BY <1>1, <1>2, <1>6, <2>1, Zenon DEF Knows, Stay, Owner, relayVars, Owning, Bound, Holding,
                                  Unbound, Leaves, Clears, InUse
  <2>3. s \in Owning \ Waits /\ pc[p] \in Owning \ Waits
    BY <1>1, <1>6, Zenon DEF Owning, Bound, Unbound, Waits
  <2> QED BY <1>2, <1>3, <1>6, <2>2, <2>3, MoveKeeps, Zenon
<1> QED BY <1>1, <1>4, <1>5, <1>6, Zenon

-----------------------------------------------------------------------------
(* Running. *)

\* What a process knows that runs a session.
LEMMA SessionFacts ==
  ASSUME Sound, NEW p \in Process, pc[p] \in Holding
  PROVE  /\ Knows(p) /\ Asks(p) /\ lock = p
         /\ bound[p] \in Membership /\ metadata = bound[p]
         /\ cred[p] \in Instance /\ Owner(cred[p]) = bound[p]
BY Zenon DEF Sound, Knows, Bound, Owning

\* Calls of a session go out with the credential that is on disk.
LEMMA SessionSendKeeps ==
  ASSUME Sound, NEW p \in Process,
         Heartbeat(p) \/ SendLeave(p) \/ (Beat(p) /\ Send(p, "Resume", cred[p], "Recovering"))
  PROVE  Sound'
<1>1. PICK act \in {"Heartbeat", "Leave", "Resume"}, s \in {"Beat", "LeaveReply", "Recovering"} :
        /\ Send(p, act, cred[p], s) /\ pc[p] \in InUse
        /\ act = "Heartbeat" <=> s = "Beat"
        /\ act = "Leave" <=> s = "LeaveReply"
        /\ UNCHANGED <<diskVars, lock, relayVars, bound, cred, late, trouble>>
  BY Zenon DEF Heartbeat, SendLeave, Beat, At, InUse
<1>2. /\ Knows(p) /\ lock = p /\ bound[p] \in Membership /\ metadata = bound[p]
      /\ cred[p] \in Instance /\ Owner(cred[p]) = bound[p] /\ credential = cred[p]
  BY <1>1, SessionFacts, Zenon DEF Holding, Knows
<1>3. pc'[p] = s
  BY <1>1, Zenon DEF Send, Goto, Sound, ProcessesFit
<1>4. Knows(p)'
  BY <1>1, <1>2, <1>3, Zenon DEF Knows, Owner, diskVars, relayVars, Owning, Bound, Holding, Unbound,
                          Leaves, Clears, InUse
<1>5. act \in Op /\ s \in Waits
  BY <1>1, Zenon DEF Op, Waits
<1> QED BY <1>1, <1>2, <1>4, <1>5, SendKeeps, Zenon DEF Sound, ProcessesFit

\* Answers a session takes and goes on: a leave that was confirmed has ended
\* the membership.
LEMMA SessionTakeKeeps ==
  ASSUME Sound, NEW p \in Process,
         \/ Beat(p) /\ Take(p, "Running")
         \/ Recovering(p) /\ (Take(p, "Fenced") \/ Take(p, "Running"))
         \/ LeaveReply(p)
  PROVE  Sound'
<1>1. PICK s \in {"Running", "Fenced", "Confirm", "Retract"} :
        /\ Take(p, s) /\ pc[p] \in {"Beat", "Recovering", "LeaveReply"}
        /\ s = "Confirm" => /\ pc[p] = "LeaveReply"
                            /\ reply[p] \in {"Ok", "NotMember", "SquadArchived"}
        /\ UNCHANGED <<diskVars, lock, relayVars, bound, cred, late, trouble>>
  BY Zenon DEF Beat, Recovering, LeaveReply, At
<1>2. /\ Knows(p) /\ Asks(p) /\ lock = p /\ bound[p] \in Membership /\ metadata = bound[p]
      /\ cred[p] \in Instance /\ Owner(cred[p]) = bound[p] /\ credential = cred[p]
  BY <1>1, SessionFacts, Zenon DEF Holding, InUse, Knows
<1>3. pc'[p] = s
  BY <1>1, Zenon DEF Take, Goto, Sound, ProcessesFit
<1>4. s = "Confirm" => Ended(bound[p])
  <2>1. pc[p] = "LeaveReply" => /\ request[p] # None /\ request[p].op = "Leave"
                                /\ request[p].instance = cred[p]
    BY <1>2, CallFacts DEF Asks, Op
  <2> QED BY <1>1, <1>2, <2>1, Zenon DEF Asks, Told, Ended
<1>5. DiskFits' /\ LateFits'
  BY <1>1, DiskWritten, LateSame, Zenon DEF Sound, DiskFits, diskVars
<1>6. Knows(p)'
  BY <1>1, <1>2, <1>3, <1>4, Zenon DEF Knows, Owner, Ended, diskVars, relayVars, Owning, Bound, Holding,
                                Unbound, Leaves, Clears, InUse
<1>7. s \in Owning \ Waits /\ pc[p] \in Owning
  BY <1>1, Zenon DEF Owning, Bound, Holding, InUse, Waits
<1> QED BY <1>1, <1>5, <1>6, <1>7, TakeKeeps, Zenon DEF Sound, ProcessesFit

\* The replacement waits, in the reply, to be stored.
LEMMA RecoveringKeeps ==
  ASSUME Sound, NEW p \in Process, Recovering(p) PROVE Sound'
<1>1. CASE Take(p, "Fenced") \/ Take(p, "Running")
  BY <1>1, SessionTakeKeeps, Zenon
<1>2. CASE /\ reply[p] \in Instance /\ Goto(p, "Persist")
           /\ request' = [request EXCEPT ![p] = None] /\ UNCHANGED reply
  <2>1. pc[p] = "Recovering" /\ UNCHANGED <<diskVars, lock, relayVars, bound, cred, late, trouble>>
    BY Zenon DEF Recovering, At
  <2>2. /\ Knows(p) /\ Asks(p) /\ lock = p /\ bound[p] \in Membership /\ metadata = bound[p]
        /\ cred[p] \in Instance /\ Owner(cred[p]) = bound[p] /\ credential = cred[p]
    BY <2>1, SessionFacts, Zenon DEF Holding, InUse, Knows
  <2>3. pc'[p] = "Persist"
    BY <1>2, Zenon DEF Goto, Sound, ProcessesFit
  <2>4. Owner(reply[p]) = bound[p]
    BY <1>2, <2>1, <2>2, CallFacts DEF Asks, Told, Op
  <2>5. DiskFits' /\ LateFits'
    BY <2>1, DiskWritten, LateSame, Zenon DEF Sound, DiskFits, diskVars
  <2>6. Knows(p)'
    BY <1>2, <2>1, <2>2, <2>3, <2>4, Zenon DEF Knows, Owner, diskVars, relayVars, Owning, Bound, Holding,
                                        Unbound, Leaves, Clears, InUse
  <2>7. "Persist" \in Owning \ Waits
    BY Zenon DEF Owning, Bound, Holding, InUse, Waits
  <2> QED BY <1>2, <2>1, <2>2, <2>5, <2>6, <2>7, QuietKeeps, Zenon DEF Sound, ProcessesFit
<1> QED BY <1>1, <1>2, Zenon DEF Recovering

\* The replacement is stored, and used only then.
LEMMA PersistKeeps ==
  ASSUME Sound, NEW p \in Process, Persist(p) PROVE Sound'
<1>1. pc[p] = "Persist" /\ UNCHANGED <<metadata, journal, lock, bound, relayVars, late>>
  BY Zenon DEF Persist, At
<1>2. /\ Knows(p) /\ lock = p /\ bound[p] \in Membership /\ metadata = bound[p]
      /\ cred[p] \in Instance /\ Owner(cred[p]) = bound[p]
      /\ reply[p] \in Instance /\ Owner(reply[p]) = bound[p]
  BY <1>1, SessionFacts, Zenon DEF Holding, InUse, Knows
<1>3. PICK s \in {"Running", "Fenced"} :
        /\ Take(p, s) /\ credential' \in {credential, reply[p]}
        /\ trouble' = trouble \/ Misbehave
        /\ s = "Running" => credential' = reply[p] /\ cred' = [cred EXCEPT ![p] = reply[p]]
        /\ s = "Fenced" => cred' = cred
  BY Zenon DEF Persist
<1>4. pc'[p] = s
  BY <1>3, Zenon DEF Take, Goto, Sound, ProcessesFit
<1>5. DiskFits' /\ LateFits'
  BY <1>1, <1>2, <1>3, DiskWritten, LateSame, Zenon DEF Sound, DiskFits
<1>6. /\ cred' \in [Process -> Instance \cup {None}] /\ \A q \in Process : q # p => cred'[q] = cred[q]
      /\ s = "Running" => cred'[p] = reply[p]
      /\ s = "Fenced" => cred'[p] = cred[p]
  BY <1>2, <1>3, Zenon DEF Sound, ProcessesFit
<1>7. Knows(p)'
  BY <1>1, <1>2, <1>3, <1>4, <1>6, Zenon DEF Knows, Owner, relayVars, Owning, Bound, Holding, Unbound,
                                      Leaves, Clears, InUse
<1>8. s \in Owning \ Waits /\ pc[p] \in Owning
  BY <1>1, <1>3, Zenon DEF Owning, Bound, Holding, InUse, Waits
<1> QED BY <1>1, <1>3, <1>5, <1>6, <1>7, <1>8, TakeKeeps, Zenon DEF Sound, ProcessesFit

-----------------------------------------------------------------------------
(* Leaving. *)

\* The steps of a leave that only the journal sees.
LEMMA LeavingKeeps ==
  ASSUME Sound, NEW p \in Process,
         LeaveCommand(p) \/ StoreIntent(p) \/ Retract(p) \/ Confirm(p)
  PROVE  Sound'
<1>1. pc[p] \in {"Running", "StoreIntent", "Retract", "Confirm"}
  BY Zenon DEF LeaveCommand, StoreIntent, Retract, Confirm, At
<1>2. /\ Knows(p) /\ lock = p /\ bound[p] \in Membership /\ metadata = bound[p]
      /\ cred[p] \in Instance /\ Owner(cred[p]) = bound[p] /\ credential = cred[p]
      /\ pc[p] = "Confirm" => Ended(bound[p])
  BY <1>1, SessionFacts, Zenon DEF Holding, InUse, Knows
<1>3. /\ UNCHANGED <<credential, metadata, relayVars, late>>
      /\ trouble' = trouble \/ Misbehave
      /\ \/ journal' \in {journal, None, Intent(bound[p])}
         \/ pc[p] = "Confirm" /\ journal' = Confirmed(bound[p])
  BY Zenon DEF LeaveCommand, StoreIntent, Retract, Confirm, At, Written, diskVars
<1>4. PICK s \in {"StoreIntent", "SendLeave", "Running", "Fenced", "LeaveCredential"} :
        Goto(p, s) /\ Stay /\ (s = "LeaveCredential" => pc[p] = "Confirm")
  BY Zenon DEF LeaveCommand, StoreIntent, Retract, Confirm, At, Written, Stay
<1>5. pc'[p] = s
  BY <1>4, Zenon DEF Goto, Sound, ProcessesFit
<1>6. DiskFits' /\ LateFits'
  BY <1>2, <1>3, DiskWritten, LateSame, Zenon DEF Sound, DiskFits
<1>7. Knows(p)'
  BY <1>2, <1>3, <1>4, <1>5, Zenon DEF Knows, Stay, Owner, Ended, relayVars, Owning, Bound, Holding,
                                Unbound, Leaves, Clears, InUse
<1>8. s \in Owning \ Waits /\ pc[p] \in Owning \ Waits
  BY <1>1, <1>4, Zenon DEF Owning, Bound, Holding, InUse, Leaves, Waits
<1> QED BY <1>3, <1>4, <1>6, <1>7, <1>8, MoveKeeps, Zenon

\* The cleanup of a confirmed leave, in the leave itself.
LEMMA LeaveCleanupKeeps ==
  ASSUME Sound, NEW p \in Process,
         LeaveCredential(p) \/ LeaveProfile(p) \/ LeaveJournal(p) \/ LeaveAgain(p)
  PROVE  Sound'
<1>1. pc[p] \in Leaves
  BY Zenon DEF LeaveCredential, LeaveProfile, LeaveJournal, LeaveAgain, At, Leaves
<1>2. /\ Knows(p) /\ lock = p /\ bound[p] \in Membership /\ Ended(bound[p])
      /\ metadata = None \/ Ended(metadata)
  BY <1>1, Zenon DEF Sound, Knows, Owning
<1>3. /\ UNCHANGED <<relayVars, late>> /\ (trouble' = trouble \/ Misbehave)
      /\ credential' \in {credential, None} /\ metadata' \in {metadata, None}
      /\ journal' \in {journal, None}
  BY Zenon DEF LeaveCredential, LeaveProfile, LeaveJournal, LeaveAgain, At, Written, diskVars
<1>4. PICK s \in Leaves : Goto(p, s) /\ Stay
  BY Zenon DEF LeaveCredential, LeaveProfile, LeaveJournal, LeaveAgain, At, Written, Stay, Leaves
<1>5. pc'[p] = s
  BY <1>4, Zenon DEF Goto, Sound, ProcessesFit
<1>6. DiskFits' /\ LateFits'
  BY <1>3, DiskWritten, LateSame, Zenon DEF Sound, DiskFits
<1>7. Knows(p)'
  BY <1>2, <1>3, <1>4, <1>5, Zenon DEF Knows, Stay, Ended, relayVars, Owning, Bound, Holding,
                                Unbound, Leaves, Clears, InUse
<1>8. s \in Owning \ Waits /\ pc[p] \in Owning \ Waits
  BY <1>1, <1>4, Zenon DEF Owning, Leaves, Waits
<1> QED BY <1>3, <1>4, <1>6, <1>7, <1>8, MoveKeeps, Zenon

\* The same cleanup, in a start or a recovery.
LEMMA ClearingKeeps ==
  ASSUME Sound, NEW p \in Process, ClearCredential(p) \/ ClearProfile(p) \/ ClearJournal(p)
  PROVE  Sound'
<1>1. pc[p] \in Clears
  BY Zenon DEF ClearCredential, ClearProfile, ClearJournal, At, Clears
<1>2. Knows(p) /\ lock = p /\ (metadata = None \/ Ended(metadata))
  BY <1>1, Zenon DEF Sound, Knows, Owning
<1>3. /\ UNCHANGED <<relayVars, late>> /\ (trouble' = trouble \/ Misbehave)
      /\ credential' \in {credential, None} /\ metadata' \in {metadata, None}
      /\ journal' \in {journal, None}
  BY Zenon DEF ClearCredential, ClearProfile, ClearJournal, At, Written
<1>4. DiskFits' /\ LateFits'
  BY <1>3, DiskWritten, LateSame, Zenon DEF Sound, DiskFits
<1>5. CASE Exit(p)
  BY <1>2, <1>3, <1>4, <1>5, ExitKeeps, Zenon
<1>6. ASSUME NEW s \in Clears, Goto(p, s), Stay PROVE Sound'
  <2>1. pc'[p] = s
    BY <1>6, Zenon DEF Goto, Sound, ProcessesFit
  <2>2. Knows(p)'
    BY <1>2, <1>3, <1>6, <2>1, Zenon DEF Knows, Stay, Ended, relayVars, Owning, Bound, Holding,
                                  Unbound, Leaves, Clears, InUse
  <2>3. s \in Owning \ Waits /\ pc[p] \in Owning \ Waits
    BY <1>1, <1>6, Zenon DEF Owning, Clears, Waits
  <2> QED BY <1>3, <1>4, <1>6, <2>2, <2>3, MoveKeeps, Zenon
<1>7. Exit(p) \/ \E s \in Clears : Goto(p, s) /\ Stay
  BY Zenon DEF ClearCredential, ClearProfile, ClearJournal, Written, Clears
<1> QED BY <1>5, <1>6, <1>7, Zenon

\* A lock that another process has, a shutdown and a crash end the process.
LEMMA EndKeeps ==
  ASSUME Sound, NEW p \in Process, LockTaken(p) \/ Stop(p) \/ Crash(p) PROVE Sound'
<1>1. CASE LockTaken(p) \/ Stop(p)
  BY <1>1, LeavesDiskKeeps, Zenon DEF LockTaken, Stop
<1>2. CASE Crash(p)
  <2>1. LateFits'
    BY <1>2, AbandonedFits, MisbehaveFits, Zenon DEF Crash
  <2>2. DiskFits'
    BY <1>2, DiskWritten, Zenon DEF Crash, Sound, DiskFits, diskVars
  <2> QED BY <1>2, <2>1, <2>2, ExitKeeps, Zenon DEF Crash
<1> QED BY <1>1, <1>2, Zenon

-----------------------------------------------------------------------------
(* The theorems. *)

\* The empty profile is sound.
LEMMA InitIsSound ==
  ASSUME NoneAssumption, TroubleAssumption, Init PROVE Sound
<1>1. DiskFits
  BY Zenon DEF Init, DiskFits, ConfirmedMeansEnded, NoneAssumption, Journal
<1>2. ProcessesFit
  BY Zenon DEF Init, ProcessesFit, Place
<1>3. RelayFits
  BY Zenon DEF Init, RelayFits, NoInstance
<1>4. LateFits
  BY DEF Init, LateFits, TroubleAssumption
<1>5. ASSUME NEW p \in Process PROVE Knows(p) /\ Asks(p)
  <2>1. pc[p] = "Idle" /\ request[p] = None /\ lock = None
    BY Zenon DEF Init
  <2>2. None # p
    BY Zenon DEF NoneAssumption
  <2> QED BY <2>1, <2>2, Zenon DEF Knows, Asks, Owning, Bound, Holding, InUse, Unbound, Leaves, Clears
<1> QED BY <1>1, <1>2, <1>3, <1>4, <1>5, Zenon DEF Sound

\* Every step of a process keeps it.
LEMMA ProcessKeeps ==
  ASSUME Sound, NEW p \in Process,
         \/ Command(p) \/ Opening(p) \/ Joining(p) \/ Running(p)
         \/ LeaveCommand(p) \/ Leaving(p) \/ LeaveAgain(p)
         \/ Clearing(p) \/ Stop(p) \/ Crash(p)
         \/ Execute(p) \/ GiveUp(p) \/ AnswerBusy(p)
  PROVE  Sound'
<1>1. CASE Command(p)
  BY <1>1, CommandKeeps, EndKeeps, StartKeeps, RecoverKeeps, JoinKeeps, Zenon DEF Command
<1>2. CASE Opening(p)
  BY <1>2, LoadKeeps, FirstHeartbeatKeeps, FirstResumeKeeps, OpeningWriteKeeps, Zenon DEF Opening
<1>3. CASE Joining(p)
  BY <1>3, JoinReplyKeeps, JoinWriteKeeps, Zenon DEF Joining
<1>4. CASE Running(p)
  <2>1. CASE Heartbeat(p)
    BY <2>1, SessionSendKeeps, Zenon
  <2>2. CASE Beat(p)
    BY <2>2, SessionSendKeeps, SessionTakeKeeps, Zenon DEF Beat
  <2> QED BY <1>4, <2>1, <2>2, RecoveringKeeps, PersistKeeps, Zenon DEF Running
<1>5. CASE LeaveCommand(p) \/ Leaving(p)
  BY <1>5, LeavingKeeps, SessionSendKeeps, SessionTakeKeeps, Zenon DEF Leaving
<1>6. CASE LeaveAgain(p) \/ Clearing(p)
  BY <1>6, LeaveCleanupKeeps, ClearingKeeps, Zenon DEF Clearing
<1>7. CASE Stop(p) \/ Crash(p)
  BY <1>7, EndKeeps, Zenon
<1>8. CASE Execute(p) \/ GiveUp(p) \/ AnswerBusy(p)
  BY <1>8, ExecuteKeeps, GiveUpKeeps, Zenon
<1> QED BY <1>1, <1>2, <1>3, <1>4, <1>5, <1>6, <1>7, <1>8, Zenon

\* Every step keeps it, and so does a stuttering step.
LEMMA NextKeeps == Sound /\ [Next]_vars => Sound'
<1> SUFFICES ASSUME Sound, [Next]_vars PROVE Sound'
  BY Zenon
<1>1. CASE Next
  BY <1>1, ProcessKeeps, ExecuteLateKeeps, RelayEventKeeps, Zenon DEF Next
<1>2. CASE UNCHANGED vars
  <2>1. UNCHANGED <<diskVars, lock, relayVars, pc, bound, cred, callVars, late, trouble>>
    BY <1>2, Zenon DEF vars
  <2>2. UNCHANGED <<credential, metadata, journal, squad, left, instances, request, reply>>
    BY <2>1, Zenon DEF diskVars, relayVars, callVars
  <2>3. DiskFits' /\ LateFits'
    BY <2>1, <2>2, Zenon DEF Sound, DiskFits, LateFits, ConfirmedMeansEnded, Ended, CallFits, Owner
  <2>4. ProcessesFit' /\ RelayFits'
    BY <2>1, <2>2, Zenon DEF Sound, ProcessesFit, RelayFits, Owner
  <2>5. ASSUME NEW p \in Process PROVE Knows(p)' /\ Asks(p)'
    BY <2>1, <2>2, Zenon DEF Sound, Knows, Asks, Told, Ended, Owner
  <2> QED BY <2>3, <2>4, <2>5, Zenon DEF Sound
<1> QED BY <1>1, <1>2, Zenon

\* The invariant says what the disk promises.
LEMMA SoundTellsTruth == Sound => DiskTellsTruth
<1> SUFFICES ASSUME Sound PROVE DiskTellsTruth
  BY Zenon
<1>1. TypeOK /\ ConfirmedMeansEnded
  BY Zenon DEF Sound, DiskFits, ProcessesFit, RelayFits, LateFits, TypeOK
<1>2. RunningMatchesDisk
  <2> SUFFICES ASSUME NEW p \in Process,
                      pc[p] \in {"Running", "Beat", "Recovering", "StoreIntent", "SendLeave",
                                 "LeaveReply", "Retract", "Confirm"}
               PROVE  lock = p /\ metadata = bound[p] /\ credential = cred[p]
    BY Zenon DEF RunningMatchesDisk
  <2>1. pc[p] \in InUse
    BY Zenon DEF InUse
  <2> QED BY <2>1, Zenon DEF Sound, Knows, Owning, Bound, Holding
<1>3. CredentialCanRecover
  <2> SUFFICES ASSUME credential # None, ~Ended(Owner(credential))
               PROVE  \/ Authorize(credential) = "Ok"
                      \/ /\ instances[credential].expired
                         /\ ResumeVerdict(credential) \in {"Ok", "NameInUse"}
    BY Zenon DEF CredentialCanRecover
  <2>1. credential \in Instance
    BY Zenon DEF Sound, DiskFits
  <2>2. instances[credential].closed => instances[credential].expired
    BY <2>1, Zenon DEF Sound, RelayFits, Ended
  <2> QED BY <2>1, <2>2, Zenon DEF Authorize, ResumeVerdict, Ended
<1> QED BY <1>1, <1>2, <1>3, Zenon DEF DiskTellsTruth

\* Whatever the processes, the relay and the environment do, a Confirmed
\* journal names a membership that has ended, a running session is the one on
\* disk, and a stored credential can still act: start, leave and the cleanups
\* of session.rs, with every fault the model admits.
THEOREM DiskAlwaysTellsTruth ==
  ASSUME NoneAssumption, TroubleAssumption
  PROVE  Spec => []DiskTellsTruth
<1>1. Init => Sound
  BY InitIsSound, Zenon
<1>2. Sound /\ [Next]_vars => Sound'
  BY NextKeeps, Zenon
<1>3. Sound => DiskTellsTruth
  BY SoundTellsTruth, Zenon
<1> QED BY <1>1, <1>2, <1>3, PTL DEF Spec

\* What a step may do to the authority on disk.
Surrenders ==
  /\ metadata # None /\ metadata' # metadata => Ended(metadata)
  /\ metadata # None /\ credential # None /\ credential' = None
       => Ended(metadata) \/ \E p \in Process : At(p, "ClearNew")

\* The steps that write neither record.
LEMMA OtherStepsLeaveAuthority ==
  ASSUME NEW p \in Process,
         \/ Command(p) \/ Load(p) \/ FirstHeartbeat(p) \/ FirstResume(p) \/ RemoveIntent(p)
         \/ ConfirmRecovered(p) \/ JoinReply(p) \/ Heartbeat(p) \/ Beat(p) \/ Recovering(p)
         \/ LeaveCommand(p) \/ Leaving(p) \/ LeaveAgain(p) \/ LeaveJournal(p)
         \/ ClearJournal(p) \/ Stop(p) \/ Crash(p) \/ Execute(p) \/ GiveUp(p) \/ AnswerBusy(p)
  PROVE  UNCHANGED <<metadata, credential>>
<1>1. CASE Command(p)
  BY <1>1, Zenon DEF Command, Open, JoinCommand, LockTaken, Start, RecoverOrphanedLeave, Join,
                     diskVars
<1>2. CASE Load(p) \/ FirstHeartbeat(p) \/ FirstResume(p) \/ RemoveIntent(p)
           \/ ConfirmRecovered(p) \/ JoinReply(p)
  BY <1>2, Zenon DEF Load, FirstHeartbeat, FirstResume, RemoveIntent, ConfirmRecovered, JoinReply,
                     diskVars
<1>3. CASE Heartbeat(p) \/ Beat(p) \/ Recovering(p) \/ LeaveCommand(p) \/ Leaving(p)
  BY <1>3, Zenon DEF Heartbeat, Beat, Recovering, LeaveCommand, Leaving, StoreIntent, SendLeave,
                     LeaveReply, Retract, Confirm, diskVars
<1>4. CASE LeaveAgain(p) \/ LeaveJournal(p) \/ ClearJournal(p) \/ Stop(p) \/ Crash(p)
           \/ Execute(p) \/ GiveUp(p) \/ AnswerBusy(p)
  BY <1>4, Zenon DEF LeaveAgain, LeaveJournal, ClearJournal, Stop, Crash, Execute, GiveUp,
                     AnswerBusy, diskVars
<1> QED BY <1>1, <1>2, <1>3, <1>4, Zenon

\* The steps that write the credential of a membership that goes on.
LEMMA StoresSurrenderNothing ==
  ASSUME Sound, NEW p \in Process,
         PersistFirst(p) \/ Persist(p) \/ StoreCredential(p) \/ StoreProfile(p) \/ ClearNew(p)
  PROVE  Surrenders
<1>1. CASE Persist(p)
  <2>1. pc[p] = "Persist" /\ metadata' = metadata /\ credential' \in {credential, reply[p]}
    BY <1>1, Zenon DEF Persist, At
  <2>2. reply[p] # None
    BY <2>1, Zenon DEF Sound, Knows, NoneAssumption, Answers
  <2> QED BY <2>1, <2>2, Zenon DEF Surrenders
<1>2. CASE PersistFirst(p)
  <2>1. pc[p] = "PersistFirst" /\ metadata' = metadata /\ credential' \in {credential, cred[p]}
    BY <1>2, Zenon DEF PersistFirst, Written, At
  <2>2. cred[p] # None
    BY <2>1, Zenon DEF Sound, Knows, NoneAssumption, Answers, Holding
  <2> QED BY <2>1, <2>2, Zenon DEF Surrenders
<1>3. CASE StoreCredential(p) \/ StoreProfile(p)
  BY <1>3, Zenon DEF StoreCredential, StoreProfile, At, Written, Sound, Knows, Unbound, Surrenders
<1>4. CASE ClearNew(p)
  BY <1>4, Zenon DEF ClearNew, Surrenders
<1> QED BY <1>1, <1>2, <1>3, <1>4, Zenon

\* The steps of the cleanups remove what belongs to an ended membership.
LEMMA CleanupsSurrenderTheEnded ==
  ASSUME Sound, NEW p \in Process,
         LeaveCredential(p) \/ LeaveProfile(p) \/ ClearCredential(p) \/ ClearProfile(p)
  PROVE  Surrenders
BY Zenon DEF LeaveCredential, LeaveProfile, ClearCredential, ClearProfile, At, Sound, Knows, Leaves,
       Clears, Surrenders

\* The profile record, and the credential beside it, disappear only when the
\* relay has ended the membership or the join that wrote them failed: leave,
\* clear_confirmed_leave and join_and_bind, with every fault the model admits.
THEOREM AuthorityIsKept ==
  ASSUME NoneAssumption, TroubleAssumption
  PROVE  Spec => AuthorityOutlivesMembership
<1>1. Init => Sound
  BY InitIsSound, Zenon
<1>2. Sound /\ [Next]_vars => Sound'
  BY NextKeeps, Zenon
<1>3. Sound /\ [Next]_vars => [Surrenders]_vars
  <2> SUFFICES ASSUME Sound, Next PROVE Surrenders
    BY Zenon
  <2>1. CASE ExecuteLate \/ (\E i \in Instance : Expire(i)) \/ Archive
    BY <2>1, Zenon DEF ExecuteLate, Expire, Archive, diskVars, Surrenders
  <2>2. ASSUME NEW p \in Process,
               \/ Command(p) \/ Opening(p) \/ Joining(p) \/ Running(p)
               \/ LeaveCommand(p) \/ Leaving(p) \/ LeaveAgain(p)
               \/ Clearing(p) \/ Stop(p) \/ Crash(p)
               \/ Execute(p) \/ GiveUp(p) \/ AnswerBusy(p)
        PROVE  Surrenders
    <3>1. UNCHANGED <<metadata, credential>> => Surrenders
      BY Zenon DEF Surrenders
    <3> QED BY <2>2, <3>1, OtherStepsLeaveAuthority, StoresSurrenderNothing,
               CleanupsSurrenderTheEnded, Zenon DEF Opening, Joining, Running, Clearing
  <2> QED BY <2>1, <2>2, Zenon DEF Next
<1>4. AuthorityOutlivesMembership <=> [][Surrenders]_vars
  BY Zenon DEF AuthorityOutlivesMembership, Surrenders
<1> QED BY <1>1, <1>2, <1>3, <1>4, PTL DEF Spec
=============================================================================
