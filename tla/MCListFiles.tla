---------------------------- MODULE MCListFiles -----------------------------
EXTENDS ListFiles

\* A value; a comment that atol takes for 0; an empty line; a value so long that
\* it is read as two.
MCLine == {[read |-> <<1>>, written |-> {1}],
           [read |-> <<2>>, written |-> {2}],
           [read |-> <<0>>, written |-> {}],
           [read |-> <<>>, written |-> {}],
           [read |-> <<3, 1>>, written |-> {3}]}
=============================================================================
