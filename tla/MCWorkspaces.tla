--------------------------- MODULE MCWorkspaces ----------------------------
EXTENDS Workspaces, TLC

CONSTANTS A, B, C, S

MCReal == {A, B, C}
MCIds == 1 .. 7
MCRule == [w \in MCIds |-> IF w = 2 THEN B ELSE None]
MCDefault == [m \in MCReal |-> IF m = B THEN 1 ELSE None]
MCPersistent == <<2>>
MCUserIds == {1, 2}
Mirror == Permutations({A, C})
=============================================================================
