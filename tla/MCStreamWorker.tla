--------------------------- MODULE MCStreamWorker ----------------------------
(* Small instances of StreamWorker for TLC. *)
EXTENDS StreamWorker, TLC

CONSTANTS w1, w2, p1

MCWorkers == {w1, w2}
MCPayloads == {p1}

=============================================================================
