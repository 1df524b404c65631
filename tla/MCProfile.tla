----------------------------- MODULE MCProfile -----------------------------
(***************************************************************************)
(* The local profile: module Binding, and the file operations it builds    *)
(* on, in the three variants of module Replace.  A behaviour is a          *)
(* behaviour of the one that part names.                                   *)
(***************************************************************************)
EXTENDS Replace, Binding, TLC

CONSTANT Parts

VARIABLE part

\* Style is "credential" in the cfg; the variants use the same variables.
ProfileFile == INSTANCE Replace WITH Style <- "profile"
JournalFile == INSTANCE Replace WITH Style <- "journal"

ASSUME NoneAssumption /\ TroubleAssumption

\* Ids are interchangeable, so the relay issues them in one order: a symmetry
\* that liveness properties allow.
InOrder ==
  /\ \A i \in Fresh \ Fresh' : i = CHOOSE j \in Fresh : TRUE
  /\ \A m \in Issued' \ Issued : m = CHOOSE n \in Membership \ Issued : TRUE

MCInit == part \in Parts /\ ReplaceInit /\ Init

MCNext ==
  \/ part = "credential" /\ ReplaceNext /\ UNCHANGED <<part, vars>>
  \/ part = "profile" /\ ProfileFile!ReplaceNext /\ UNCHANGED <<part, vars>>
  \/ part = "journal" /\ JournalFile!ReplaceNext /\ UNCHANGED <<part, vars>>
  \/ part = "binding" /\ Next /\ InOrder /\ UNCHANGED <<part, replaceVars>>

MCSpec == MCInit /\ [][MCNext]_<<part, replaceVars, vars>>

\* For Parts = {"binding"}.
MCFairSpec == MCSpec /\ Fairness

\* Records are interchangeable, and so are files.
Symmetry == Permutations(Value) \cup Permutations(File)
=============================================================================
