--------------------------- MODULE MCGraphMutator ---------------------------
EXTENDS GraphMutator

\* open produces a value, send borrows one and has data, merge consumes one and
\* borrows another, bind turns one into a value of the second type.
MCNodes == << [inputs |-> << >>, passthroughs |-> << >>, outputs |-> << 1 >>, data |-> NoData],
              [inputs |-> << >>, passthroughs |-> << 1 >>, outputs |-> << >>, data |-> Dynamic(0, 2, 1)],
              [inputs |-> << 1 >>, passthroughs |-> << 1 >>, outputs |-> << >>, data |-> Fixed(1)],
              [inputs |-> << 1 >>, passthroughs |-> << >>, outputs |-> << 2 >>, data |-> NoData] >>

All == {"generate", "generate_tail", "data_only", "splice_random", "repeat", "splice", "minimize"}

\* In a small buffer every strategy but splice runs into is_full; splice, which does
\* not look at it for the nodes it takes from another graph, has a larger one.
MCScenarios ==
    {[cap |-> [ops |-> 9, data |-> 6], queue |-> 1, generate |-> 3, strategies |-> All \ {"splice"}],
     [cap |-> [ops |-> 30, data |-> 20], queue |-> 2, generate |-> 2, strategies |-> {"generate", "splice", "minimize"}]}
=============================================================================
