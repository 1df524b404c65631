----------------------------- MODULE Admission -----------------------------
(***************************************************************************)
(* What the session expects of a gate that admits work: it can be stopped  *)
(* and reopened, until it is closed; a drain that reports success after    *)
(* that is final.  Modules Ledger and Tracker implement it.                *)
(***************************************************************************)
CONSTANT Work        \* what can be admitted

VARIABLES admitted,  \* admitted and not finished
          open,      \* admission is possible
          closed,    \* closed for good
          drained    \* a drain succeeded after that

gateVars == <<admitted, open, closed, drained>>

Init == admitted = {} /\ open = TRUE /\ closed = FALSE /\ drained = FALSE

Admit(w) ==
  /\ open /\ w \notin admitted
  /\ admitted' = admitted \cup {w}
  /\ UNCHANGED <<open, closed, drained>>

Finish(w) ==
  /\ w \in admitted
  /\ admitted' = admitted \ {w}
  /\ UNCHANGED <<open, closed, drained>>

Stop == open' = FALSE /\ UNCHANGED <<admitted, closed, drained>>

Reopen == ~closed /\ open' = TRUE /\ UNCHANGED <<admitted, closed, drained>>

Close == closed' = TRUE /\ open' = FALSE /\ UNCHANGED <<admitted, drained>>

Drain ==
  /\ closed /\ admitted = {}
  /\ drained' = TRUE
  /\ UNCHANGED <<admitted, open, closed>>

Next ==
  \/ \E w \in Work : Admit(w) \/ Finish(w)
  \/ Stop \/ Reopen \/ Close \/ Drain

Spec == Init /\ [][Next]_gateVars
=============================================================================
