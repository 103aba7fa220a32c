------------------------------- MODULE MCHeap -------------------------------
EXTENDS Heap

MCWorkspaces == [buf : {64, 67}, size : {0, 15, 16, 39, 64, 72}]
MCFields == {"inners", "flags"}
MCItemSize == [f \in MCFields |-> IF f = "inners" THEN 16 ELSE 1]
=============================================================================
