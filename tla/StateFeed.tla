----------------------------- MODULE StateFeed ------------------------------
(***************************************************************************)
(* What StateManager promises a subscriber, without locks, queues, priming *)
(* or goroutines: there is one order of updates (log), and each subscriber *)
(* reads it forwards, field by field.  It may skip entries, and it may be  *)
(* given an entry again, but it never sees a value that was not stored and *)
(* never goes back to an older one.                                        *)
(***************************************************************************)
EXTENDS Naturals, Sequences

CONSTANTS Babies, Fields, Values, Nil, Subscribers

VARIABLES log, view

feedVars == <<log, view>>

Unset == [val |-> Nil, at |-> 0]

\* The fields an update sets, stamped with its position in the log.
Stamped(v, n) ==
    [f \in Fields |-> IF v[f] = Nil THEN Unset ELSE [val |-> v[f], at |-> n]]

FeedInit ==
    /\ log = <<>>
    /\ view = [s \in Subscribers |-> [b \in Babies |-> [f \in Fields |-> Unset]]]

Publish ==
    /\ \E b \in Babies, v \in [Fields -> Values \cup {Nil}] :
          log' = Append(log, [baby |-> b, upd |-> Stamped(v, Len(log) + 1)])
    /\ UNCHANGED view

\* c is the cell that the log holds for the field at position c.at.
InLog(c, b, f) ==
    /\ c.at \in 1 .. Len(log)
    /\ log[c.at].baby = b
    /\ log[c.at].upd[f] = c

\* The callback of s is told about one baby.
Show(s) ==
    /\ \E b \in Babies :
          /\ view' = [view EXCEPT ![s][b] = view'[s][b]]
          /\ \A f \in Fields :
                \/ view'[s][b][f] = view[s][b][f]
                \/ /\ InLog(view'[s][b][f], b, f)
                   /\ view'[s][b][f].at >= view[s][b][f].at
    /\ UNCHANGED log

FeedNext == Publish \/ \E s \in Subscribers : Show(s)

FeedSpec == FeedInit /\ [][FeedNext]_feedVars
=============================================================================
