-------------------------- MODULE MCDatasetPipeline --------------------------
(* Model checking of DatasetPipeline: sources whose rows are clean, thin and
   about to expire, or bad, and every short sequence of requests. *)
EXTENDS DatasetPipeline, TLC

CONSTANT MaxAsked

MCKind ==
    {[rows |-> 8, filled |-> 8, typed |-> 8, months |-> {1, 2}, broken |-> {}],
     [rows |-> 8, filled |-> 4, typed |-> 4, months |-> {1, 2, 3}, broken |-> {2}],
     [rows |-> 8, filled |-> 2, typed |-> 1, months |-> {1}, broken |-> {}]}

MCAsked ==
    UNION {{a \in [1 .. n -> [at : Clock, up : BOOLEAN]] :
                \A i \in 2 .. n : a[i - 1].at <= a[i].at} : n \in 0 .. MaxAsked}
=============================================================================
