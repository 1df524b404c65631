------------------------------ MODULE MCRelay ------------------------------
EXTENDS Relay, TLC

\* Requests are interchangeable, and so are mailboxes.
Symmetry == Permutations(Request) \cup Permutations(Member)
============================================================================
