------------------------------ MODULE MCLoader ------------------------------
(* The settings that the two sources of properties may give the loader. *)
EXTENDS Loader

Unset == [use |-> NULL, path |-> NULL]
AllSystemProps == {Unset, [use |-> FALSE, path |-> NULL], [use |-> NULL, path |-> TRUE]}
AllFileProps == {Unset, [use |-> TRUE, path |-> NULL]}
=============================================================================
