------------------------------- MODULE MCMcp -------------------------------
EXTENDS Mcp
CONSTANTS child, stream, added

MCServerName == [c \in Conns |-> IF c = stream THEN "b" ELSE "a"]
MCTransport == [c \in Conns |-> CASE c = child -> "stdio" [] c = stream -> "sse" [] OTHER -> "http"]
MCDeployments ==
  { [configured |-> {child, stream}, added |-> {}],
    [configured |-> {child}, added |-> {added}],
    [configured |-> {stream}, added |-> {added}] }
=============================================================================
