-------------------------- MODULE MCGracefulContext --------------------------
(* Instances of GracefulContext for TLC. *)
EXTENDS GracefulContext

CONSTANTS app, baby, socket

\* App.Run > handleBaby > websocket attempt, as main, app.go and websocket.go nest them.
Chain == [n \in {baby, socket} |-> IF n = baby THEN app ELSE baby]
=============================================================================
