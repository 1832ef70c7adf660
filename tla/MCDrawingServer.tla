--------------------------- MODULE MCDrawingServer ---------------------------
EXTENDS DrawingServer

\* Two columns with one stem, the shorter of which is stored over the longer
\* one; one that has no elements, and one that does not exist.
MCStems == {"x", "y"}
MCStem == [long |-> "x", short |-> "x", blank |-> "y", missing |-> "y"]
MCLines == [long |-> <<<<97, 98>>, << >>, <<98>>>>, short |-> <<<<98>>, <<97>>>>, blank |-> <<<< >>>>]
MCTrained == [long |-> <<<<97, 98>>>>, short |-> <<<<98>>>>, blank |-> << >>]

MCRequest(endpoint, column, pattern, language, segments) ==
    [endpoint |-> endpoint, column |-> column, pattern |-> pattern,
     language |-> language, segments |-> segments]

MCEarlier == {"long"}

MCRequests ==
    {MCRequest("compress", column, "legal", "other", 1) : column \in {"short", "blank", "missing"}}
    \cup {MCRequest("generate", "long", "legal", "other", 2),
          MCRequest("codegen", "long", "legal", "cpp", 1),
          MCRequest("codegen", "long", "legal", "llvm", 1),
          MCRequest("codegen", "long", "illegal", "other", 1)}
=============================================================================
