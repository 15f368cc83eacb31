------------------------------ MODULE MCStreams ------------------------------
(* Instances of Streams for TLC. *)
EXTENDS Streams

CONSTANTS p1, p2

\* Both publishers send configs, and one of them a packet of data.  It repeats a config, so
\* that its player is owed more headers than one in the queue and one being written.
TwoCameras ==
    [p \in {p1, p2} |->
        IF p = p1 THEN <<"audio config", "audio config", "video config", "key frame">>
                  ELSE <<"video config">>]
=============================================================================
