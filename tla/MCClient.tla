------------------------------ MODULE MCClient ------------------------------
EXTENDS Client

MCTexts == {<<"t", "t">>, <<"u">>}
MCFiles == {<<"f">>}
MCCommands == {"FILE", "SHARE"} \X MCFiles
MCTextCommands == {"TEXT"} \X MCTexts
MCPeer == [a \in Clients |-> IF a = 1 THEN None ELSE 1]
=============================================================================
