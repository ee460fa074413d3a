---------------------------- MODULE MCReceiptLog -----------------------------
(* Small instances of ReceiptLog for TLC. *)
EXTENDS ReceiptLog, TLC

CONSTANTS w1, w2, k1, k2

MCWorkers == {w1, w2}
MCKeys == {k1, k2}
MCHiding == {k2}

Receipt(k, m) == [key |-> k, upTo |-> m]

MCPayloads == {Receipt(k1, 1), Receipt(k1, 2), Receipt(k2, 1), Receipt(k2, 2)}
MCRefused == {Receipt(k2, 2)}

=============================================================================
