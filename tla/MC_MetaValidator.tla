-------------------------- MODULE MC_MetaValidator --------------------------
EXTENDS MetaValidator

CONSTANTS a1, m1, m2, nilMsg

MCArrays == {a1}
MCMaps == {m1, m2}

\* A Task with nothing but its own Metadata.
MetaOnlyTasks == {[status |-> nilMsg, history |-> <<>>, artifacts |-> <<>>, meta |-> m1]}

\* A Task with every kind of holder of Metadata: a status message with a
\* part, a nil history entry, an artifact with a part, and its own; m2 is
\* reached through the status message's part only.
FullTasks == {[status |-> [parts |-> <<m2>>, meta |-> m1],
               history |-> <<nilMsg>>,
               artifacts |-> <<[parts |-> <<m1>>, meta |-> m1]>>,
               meta |-> m1]}

=============================================================================
