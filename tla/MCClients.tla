----------------------------- MODULE MCClients -----------------------------
(***************************************************************************)
(* Clients of the relay: the Codex harness, and what the relay's pages     *)
(* must be for the typed client to take them.  A behaviour is a behaviour  *)
(* of the one that part names.                                             *)
(***************************************************************************)
EXTENDS Codex, TLC

CONSTANTS Parts, a, b

VARIABLES part, now, stepped, squads, members, log, held, answer

pageVars == <<now, stepped, squads, members, log, held, answer>>

\* One byte of plain text; the longest body of control characters, with every
\* optional field.
Small == [body |-> 1, escape |-> 1, dedupe |-> 1, reply_to |-> 0, correlation |-> 0,
          priority |-> "normal"]
Large == [body |-> 65536, escape |-> 6, dedupe |-> 1, reply_to |-> 36, correlation |-> 256,
          priority |-> "high"]
ShortMission == [bytes |-> 1, escape |-> 1]
LongMission == [bytes |-> 4096, escape |-> 6]

\* Three messages of any size for one reader; two members on a clock that may
\* be set back; two members and squads on one that is not; and many squads.
Mailbox == INSTANCE Pages WITH
  Member <- {b}, Reader <- b, Shapes <- {Small, Large}, Missions <- {ShortMission},
  Limits <- {1, 100}, MaxNow <- 0, StepsBack <- 0, MaxMessages <- 3, MaxSquads <- 1, Lease <- 2
Clock == INSTANCE Pages WITH
  Member <- {a, b}, Reader <- b, Shapes <- {Small}, Missions <- {ShortMission},
  Limits <- {1}, MaxNow <- 2, StepsBack <- 1, MaxMessages <- 1, MaxSquads <- 1, Lease <- 1
Steady == INSTANCE Pages WITH
  Member <- {a, b}, Reader <- b, Shapes <- {Small}, Missions <- {ShortMission},
  Limits <- {0, 1, 100, 101}, MaxNow <- 1, StepsBack <- 0, MaxMessages <- 1, MaxSquads <- 2,
  Lease <- 1
Squads == INSTANCE Pages WITH
  Member <- {b}, Reader <- b, Shapes <- {Small}, Missions <- {LongMission},
  Limits <- {100}, MaxNow <- 0, StepsBack <- 0, MaxMessages <- 0, MaxSquads <- 44, Lease <- 1

ASSUME CodexAssumption
ASSUME Mailbox!PagesAssumption /\ Clock!PagesAssumption
       /\ Steady!PagesAssumption /\ Squads!PagesAssumption

MCInit ==
  /\ part \in Parts
  /\ Init /\ (part # "codex" => config.policy.kind = "Create" /\ config.lacks = {})
  /\ CASE part = "clock" -> Clock!Init
       [] part = "steady" -> Steady!Init
       [] part = "squads" -> Squads!Init
       [] OTHER -> Mailbox!Init

MCNext ==
  \/ part = "codex" /\ Next /\ UNCHANGED <<part, pageVars>>
  \/ /\ \/ part = "mailbox" /\ Mailbox!Next
        \/ part = "clock" /\ Clock!Next
        \/ part = "steady" /\ Steady!Next
        \/ part = "squads" /\ Squads!Next
     /\ UNCHANGED <<part, vars>>

MCSpec == MCInit /\ [][MCNext]_<<part, vars, pageVars>>

\* Messages are interchangeable.
Symmetry == Permutations(Message)

=============================================================================
