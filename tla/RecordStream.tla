---------------------------- MODULE RecordStream ----------------------------
(***************************************************************************)
(* What an Arrow IPC stream promises its two ends: the reader is handed    *)
(* the record batches whose Write succeeded, each once, in order and with  *)
(* the dictionaries it was written with.                                   *)
(***************************************************************************)
EXTENDS Naturals, Sequences

CONSTANT Batch              \* the record batches a caller may write

VARIABLES
    sent,           \* the batches whose Write succeeded, in order
    got             \* the batches the reader has returned, in order

vars == <<sent, got>>

Init == sent = << >> /\ got = << >>

Put == /\ \E b \in Batch : sent' = Append(sent, b)
       /\ UNCHANGED got

Get == /\ Len(got) < Len(sent)
       /\ got' = Append(got, sent[Len(got) + 1])
       /\ UNCHANGED sent

Next == Put \/ Get

Spec == Init /\ [][Next]_vars
=============================================================================
