------------------------------ MODULE MCGates ------------------------------
(***************************************************************************)
(* The session's two admission gates: the send ledger with a leave and a   *)
(* shutdown ("ledger"), the ledger at its limits with neither ("limits"),  *)
(* and the report tracker ("tracker").  A behaviour is a behaviour of the  *)
(* one that part names.                                                    *)
(***************************************************************************)
EXTENDS Ledger

CONSTANTS Large, Few, FewRequests, Reporter, MaxReports

VARIABLES part, active, cancelled, closedT, lockT, pcT, wakeT, stoppedT

trackerVars == <<active, cancelled, closedT, lockT, pcT, wakeT, stoppedT>>

\* Two entries and three bytes: a third unit is one entry too many and not too
\* many bytes, a unit and the large send are too many bytes and not too many
\* entries, and the large send takes the place of one finished unit or of two.
MCSize == [i \in Id |-> IF i = Large THEN 3 ELSE 1]

T == INSTANCE Tracker WITH
  closed <- closedT, lock <- lockT, pc <- pcT, wake <- wakeT, stopped <- stoppedT

ASSUME TrackerAssumption == T!RolesAssumption /\ T!MaxReportsAssumption

MCInit == part \in {"ledger", "limits", "tracker"} /\ Init /\ T!Init

MCNext ==
  \/ /\ part = "ledger" /\ Next
     /\ requests' + Cardinality({c \in Sender : pc'[c] \in {"Reserve", "Admit"}}) <= FewRequests
     /\ \A c \in Sender : asks'[c] \in Few \cup {Free}
     /\ UNCHANGED <<part, trackerVars>>
  \/ /\ part = "limits" /\ Next
     /\ pc'[Leaver] = "Idle" /\ (pc'[Closer] = "Idle" \/ requests = MaxRequests)
     /\ UNCHANGED <<part, trackerVars>>
  \/ part = "tracker" /\ T!Next /\ UNCHANGED <<part, vars>>

\* Initially no action with a fairness condition is enabled in either gate, so
\* the conditions of the one that does not run hold trivially.
MCSpec == MCInit /\ [][MCNext]_<<part, vars, trackerVars>> /\ Fairness /\ T!Fairness

\* The gates know what they have admitted: the ledger's counts and bytes are
\* those of its entries, no entry in flight is evicted, an idle ledger has room
\* for any send; the tracker counts its reports; and a leave that has drained
\* either finds nothing in it (reserve, finish_send, register, drain).
GatesAreExact ==
  /\ part \in {"ledger", "limits"} => LedgerInvariant
  /\ part = "tracker" => T!TrackerInvariant

\* Ledger and tracker are admission gates: once closed they admit nothing and
\* stay closed, and a drain that succeeds after that has left nothing behind
\* (module Admission; stop_admission, close and drain of both).
GatesKeepTheirPromise == IsAdmissionGate /\ T!IsAdmissionGate

\* No notification is missed: who waits for a send gets its answer, and the
\* drain that shutdown waits for ends with the last send or report.
GatesDrain == WaitersAreAnswered /\ CloserDrains /\ T!CloserDrains
=============================================================================
