------------------------------- MODULE MCData -------------------------------
(* Two endpoints that send to each other: y is B's, the rest are A's.  The   *)
(* chunks of w are more than can be counted, v is more than B takes.         *)
EXTENDS Data

CONSTANTS A, B, v, w, x, y, z

MCFrom == [t \in Transfers |-> IF t = y THEN B ELSE A]
MCBytes == [t \in Transfers |-> CASE t = v -> 12 [] t = w -> 11 [] t = x -> 5
                                  [] t = y -> 2 [] t = z -> 1]
MCLoads == {{v}, {w}, {x, z}, {y, z}}
MCCrossed == {{y, z}}
=============================================================================
