----------------------------- MODULE ChunkFiles -----------------------------
(* Parquet files of one column for ColumnChunk: one chunk of any shape and a *)
(* second, short one.                                                        *)
EXTENDS Integers, Sequences, SequencesExt

Bits(n) == [1 .. n -> {0, 1}]

\* Pages end anywhere, or before the start of a row (doBatches in column_writer.go)
PageEnds(rep, aligned) ==
    LET cuts == {k \in 1 .. Len(rep) - 1 : aligned => rep[k + 1] = 0}
    IN  {SetToSortSeq(S \union {Len(rep)}, <) : S \in SUBSET cuts}

Reps(k, n) == {r \in Bits(n) : r[1] = 0 /\ (k # "repeated" => \A i \in DOMAIN r : r[i] = 0)}
Defs(k, n) == {d \in Bits(n) : /\ k = "required" => \A i \in DOMAIN d : d[i] = 1
                               /\ \A i \in 3 .. n : d[i] = d[i - 2]}
Second     == [rep |-> <<0, 0>>, def |-> <<1, 1>>, ends |-> <<2>>]

\* The files of kind k with n levels, pages of version v and an offset index or not, and the calls made on them
FilesOf(k, v, x, n, aligned, seeks, reads) ==
    UNION {{[kind |-> k, version |-> v, indexed |-> x, seeks |-> seeks, reads |-> reads,
             chunks |-> <<[rep |-> r, def |-> d, ends |-> e], Second>>]
             : d \in Defs(k, n), e \in PageEnds(r, aligned)}
           : r \in Reps(k, n)}

\* Flat columns; repeated ones with V1 pages that cut rows, without seeks; repeated ones with V2 pages and one seek.
MCFiles ==
    UNION {FilesOf(k, v, x, 3, TRUE, 2, 2) : k \in {"required", "optional"}, v \in {1, 2}, x \in BOOLEAN}
    \union FilesOf("repeated", 1, FALSE, 4, FALSE, 0, 4)
    \union UNION {FilesOf("repeated", 2, x, 4, TRUE, 1, 2) : x \in BOOLEAN}

\* Repeated columns with V1 pages of whole rows and one seek
MCRepeatedV1 == FilesOf("repeated", 1, TRUE, 4, TRUE, 1, 2)
=============================================================================
