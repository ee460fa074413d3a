--------------------------- MODULE MCSendPipeline ----------------------------
(* Small instances of SendPipeline for TLC: a is text, m carries media, x is *)
(* refused by the checks.                                                    *)
EXTENDS SendPipeline, TLC

CONSTANTS w1, w2, a, m, x

MCWorkers == {w1, w2}
TextOnly == {a}
OneMedia == {m}
TextAndRejected == {a, x}
None == {}
Rejected == {x}
WorkerSymmetry == Permutations(MCWorkers)

=============================================================================
