------------------------------ MODULE MCRuntime ------------------------------
(***************************************************************************)
(* Values for the constants of Runtime.                                    *)
(***************************************************************************)
EXTENDS Runtime

\* The default, a shorter configuration, and one that Validate refuses.
Long == [length |-> 2, valid |-> TRUE]
Short == [length |-> 1, valid |-> TRUE]
Refused == [length |-> 2, valid |-> FALSE]
SomeConfigs == {Long, Short, Refused}
=============================================================================
