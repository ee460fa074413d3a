------------------------- MODULE MCScheduledMessages --------------------------
(* Small instances of ScheduledMessages for TLC. *)
EXTENDS ScheduledMessages, TLC

CONSTANTS w1, w2, c1, m1

TwoWorkers == {w1, w2}
OneClient == {c1}
OneMsg == {m1}

=============================================================================
