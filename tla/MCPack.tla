------------------------------ MODULE MCPack ------------------------------
(* Two regions, up to three runs and three edits: version 1 fails the gate, *)
(* version 2 passes it, and version 3 passes it and then fails to build.    *)
EXTENDS Pack

Sorted == <<"jp", "usa">>
SmallArguments == {<<>>, <<"jp">>, <<"usa", "usa">>, <<"usa", "eu">>}
=============================================================================
