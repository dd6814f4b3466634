-------------------------- MODULE MCManagedRuntime --------------------------
(* Two runs of one tenant share an instance; two attempts in all, so either both
   runs execute side by side or one is resumed. *)
EXTENDS ManagedRuntime

CONSTANTS r1, r2, i1

MCRun == {r1, r2}
MCInstances == {i1}
MCInstanceOf == [r \in Run |-> i1]
=============================================================================
