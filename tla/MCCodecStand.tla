---------------------------- MODULE MCCodecStand ----------------------------
(* The codec stand with a few command lines, one of them refused.          *)
EXTENDS CodecStand

CONSTANTS L, R

Other == [i \in {L, R} |-> IF i = L THEN R ELSE L]

Line == [native |-> TRUE, files |-> TRUE, checkpoint |-> 0, shaped |-> TRUE,
         ordered |-> TRUE, isolated |-> TRUE, compact |-> FALSE, shared_ipc |-> TRUE]

Lines ==
    {Line,
     [Line EXCEPT !.native = FALSE, !.checkpoint = 1, !.isolated = FALSE,
                  !.compact = TRUE, !.shared_ipc = FALSE],
     [Line EXCEPT !.files = FALSE, !.shaped = FALSE, !.isolated = FALSE],
     [Line EXCEPT !.shaped = FALSE]}
=============================================================================
