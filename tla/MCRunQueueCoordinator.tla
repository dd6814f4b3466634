------------------------ MODULE MCRunQueueCoordinator ------------------------
(* Constants of the model-checked instances of RunQueueCoordinator. *)
EXTENDS RunQueueCoordinator

CONSTANTS t1, none

\* Two runs of one tenant, without a conversation.
MCPair == {1, 2}
MCPairTenantOf == [r \in MCPair |-> t1]
MCPairSessionOf == [r \in MCPair |-> none]

MCTenant == {t1}

\* One run, for longer histories of crashes and checkpoints.
MCOne == {1}
MCOneTenantOf == [r \in MCOne |-> t1]
MCOneSessionOf == [r \in MCOne |-> none]
=============================================================================
