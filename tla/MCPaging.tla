------------------------------ MODULE MCPaging ------------------------------
(* Two processes with fewer frames than pages: one with a mapped file, one   *)
(* with a stack, two segments, which fill its pool, and a mapped file.       *)
EXTENDS Paging

MCOwner == [p \in Page |-> IF p = "mmap1" THEN 1 ELSE 2]
MCKind ==
    [p \in Page |-> CASE p = "stack2" -> "stack"
                      [] p = "code2" -> "code"
                      [] p = "data2" -> "data"
                      [] OTHER -> "mmap"]
\* Enough calls for process 1 to map, load, unmap and map its file again
MCCalls == [t \in Process |-> IF t = 1 THEN 4 ELSE 2]
=============================================================================
