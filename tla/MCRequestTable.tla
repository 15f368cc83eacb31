--------------------------- MODULE MCRequestTable ---------------------------
(* Instances of RequestTable for TLC. *)
EXTENDS RequestTable

\* A streaming request, the request that repeats it, and one of the first snapshot.
RetryTypes == [r \in {"start", "again", "snapshot"} |->
                  IF r = "snapshot" THEN "GET_STATUS" ELSE "PUT_STREAMING"]
=============================================================================
