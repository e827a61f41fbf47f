----------------------------- MODULE MCSqlRows ------------------------------
(* SqlRows with one endpoint that may fail before or after its batches. *)
EXTENDS SqlRows

MCEndpoints ==
    {[sizes |-> s, fate |-> f] : s \in {<< >>, << 1 >>}, f \in {"ok", "mid"}}
        \cup {[sizes |-> << >>, fate |-> "get"]}
=============================================================================
