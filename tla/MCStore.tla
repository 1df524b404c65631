------------------------------ MODULE MCStore ------------------------------
(***************************************************************************)
(* Three instances of the store's operations, each with tables of its own: *)
(* "relay" is Store with the constants of the cfg, "squads" two squads and *)
(* three messages, "library" the library's operations beside the relay's.  *)
(* A behaviour is a behaviour of the one that part names.                  *)
(***************************************************************************)
EXTENDS Store, TLC

CONSTANTS Parts, q1, q2, a, m1, m2, i1, i2, k1, k2, small, large,
          Caller, LibSquad, LibName,
          LibLease, LibMillis, LibMessages

VARIABLES part, archiving, excuse,
          squads2, memberships2, instances2, messages2,
          squadsL, membershipsL, instancesL, messagesL

\* A page holds two small messages, or one of each, or one large one.
MCSize == [p \in Payload |-> IF p = small THEN 1 ELSE 3]
UnitSize == [p \in {small} |-> 1]

Two == INSTANCE Store WITH
  SquadName <- {q1, q2}, MemberName <- {a}, MembershipId <- {m1, m2}, InstanceId <- {i1, i2},
  DedupeKey <- {k1, k2}, Payload <- {small}, Size <- UnitSize, PageBytes <- 7,
  Lease <- 1, MaxMillis <- 1, MaxMessages <- 3,
  squads <- squads2, memberships <- memberships2, instances <- instances2, messages <- messages2

Lib == INSTANCE Library WITH
  SquadName <- LibSquad, MemberName <- LibName, DedupeKey <- {k1}, Payload <- {small}, Size <- UnitSize,
  PageBytes <- 4, Lease <- LibLease, MaxMillis <- LibMillis, MaxMessages <- LibMessages,
  squads <- squadsL, memberships <- membershipsL, instances <- instancesL, messages <- messagesL

twoVars == <<squads2, memberships2, instances2, messages2>>
libVars == <<squadsL, membershipsL, instancesL, messagesL, archiving, excuse>>

MCInit == part \in Parts /\ Init /\ Two!Init /\ Lib!LibraryInit

MCNext ==
  \/ part = "relay" /\ Next /\ UNCHANGED <<part, twoVars, libVars>>
  \/ part = "squads" /\ Two!Next /\ UNCHANGED <<part, vars, libVars>>
  \/ part = "library" /\ Lib!LibraryNext /\ UNCHANGED <<part, vars, twoVars>>

MCSpec == MCInit /\ [][MCNext]_<<part, vars, twoVars, libVars>>

\* Memberships are interchangeable, and so are instances, except in "squads",
\* which has values of its own.
Symmetry == Permutations(MembershipId) \cup Permutations(InstanceId)

\* In a message table that two squads share, the pages of a squad's transcript
\* show all of its messages and no other's, however they were interleaved
\* (authenticated_transcript).
SquadsReadTheirOwn == Two!TranscriptHasNoGaps

\* Mixed with the relay's operations, those of the library agree with them:
\* who owns a membership, who may resume it, what a send or its repetition
\* answers (instance.rs and message.rs against authenticated.rs).
FamiliesAgree == Lib!LibraryInvariant
=============================================================================
