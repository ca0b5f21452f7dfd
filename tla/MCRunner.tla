------------------------------ MODULE MCRunner ------------------------------
EXTENDS Runner
CONSTANTS read, look, edit, plan, spawn, file

MCKindOf == read :> "read" @@ look :> "look" @@ edit :> "change"
              @@ plan :> "plan_read" @@ spawn :> "spawn"
MCReadsOf == [c \in Call |-> IF c \in {read, look} THEN {file} ELSE {}]
MCReplies == {<<read, read, read>>, <<look, edit, read>>, <<spawn, spawn>>, <<plan>>}
=============================================================================
