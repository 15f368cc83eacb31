----------------------------- MODULE MCMirrors ------------------------------
(* Bridges with motion and ONVIF, with a page, with MQTT, and a small one with both. *)
EXTENDS Mirrors

Given(m, ov, s, p, l, c, o, st) ==
    [motion |-> m, onvif |-> ov, start |-> s, page |-> p, link |-> l, change |-> c,
     outage |-> o, stream |-> st]

MCBudgets ==
    {Given(2, TRUE, 0, 0, 0, 0, 0, 0), Given(1, TRUE, 0, 0, 1, 0, 0, 0),
     Given(1, FALSE, 0, 1, 1, 0, 0, 0), Given(0, FALSE, 0, 2, 1, 0, 0, 1),
     Given(0, FALSE, 1, 0, 2, 1, 1, 0), Given(0, FALSE, 1, 0, 1, 2, 0, 0),
     Given(0, FALSE, 1, 1, 1, 0, 0, 0)}
=============================================================================
