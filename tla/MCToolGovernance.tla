--------------------------- MODULE MCToolGovernance ---------------------------
EXTENDS ToolGovernance

CONSTANTS read1, bash1

MCCall == {read1, bash1}
MCEffectOf == [c \in MCCall |-> IF c = read1 THEN "READ_ONLY" ELSE "UNKNOWN_EFFECT"]
=============================================================================
