--------------------------- MODULE MCStateManager ---------------------------
(* Instances of StateManager for TLC. *)
EXTENDS StateManager, TLC

CONSTANTS w1, w2, b1, b2, f1, f2

\* One goroutine updating one field.
ScopeOne == [w \in {w1} |-> {<<b1, f1>>}]

\* Two goroutines updating the same field, as OnConnected and OnDisconnected do
\* with IsWebsocketAlive.
ScopeShared == [w \in {w1, w2} |-> {<<b1, f1>>}]
=============================================================================
