----------------------------- MODULE RowSchemas -----------------------------
(***************************************************************************)
(* The schemas RowBuilder is checked on: a failure finds every kind of     *)
(* builder changed under every kind of parent.  With a second, plain       *)
(* column the row can still fail after the first column took its value.    *)
(***************************************************************************)
EXTENDS Naturals, Sequences

No == << >>

WithPlain(kind, kids, limit) ==
    [kind |-> Append(kind, "leaf"), kids |-> Append(kids, No),
     columns |-> <<1, Len(kind) + 1>>, limit |-> limit]

\* Run-end encoded values stand alone, in a dense union and first in a sparse one.
MCSchemas ==
    {[kind |-> <<"list", "dict">>, kids |-> << <<2>>, No >>, columns |-> <<1>>, limit |-> 2],
     WithPlain(<<"view">>, << No >>, 3),
     WithPlain(<<"list", "view">>, << <<2>>, No >>, 2),
     WithPlain(<<"sparse", "leaf", "view">>, << <<2, 3>>, No, No >>, 2),
     WithPlain(<<"sparse", "ree", "dict", "leaf">>, << <<2, 3>>, <<4>>, No, No >>, 2),
     WithPlain(<<"dense", "binary", "ree", "leaf">>, << <<2, 3>>, No, <<4>>, No >>, 2),
     WithPlain(<<"ree", "binary">>, << <<2>>, No >>, 3),
     [kind |-> <<"struct", "dict", "ree", "leaf">>, kids |-> << <<2, 3>>, No, <<4>>, No >>,
      columns |-> <<1>>, limit |-> 2]}

\* A run-end encoded child that is not the first of a sparse union.
MCLateRuns ==
    {[kind |-> <<"sparse", "leaf", "ree", "leaf">>, kids |-> << <<2, 3>>, No, <<4>>, No >>,
      columns |-> <<1>>, limit |-> 3]}

\* A list of run-end encoded values.
MCRunLists ==
    {[kind |-> <<"list", "ree", "leaf">>, kids |-> << <<2>>, <<3>>, No >>,
      columns |-> <<1>>, limit |-> 3]}
=============================================================================
