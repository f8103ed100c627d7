--------------------------- MODULE MCSessionStore ---------------------------
(* Small instances of SessionStore: the store_*.cfg files.                  *)
EXTENDS SessionStore, TLC

NoJumps == {}
\* Back by more than a TTL of 2, and forward by one.
SomeJumps == {-2, 1}

\* Handles are interchangeable: nothing orders them.
Handles == Permutations(SessionId)

=============================================================================
