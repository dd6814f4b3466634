------------------------------ MODULE ToolLedger ------------------------------
(***************************************************************************)
(* What the governance of tools promises about real side effects, without  *)
(* processes or messages: a call is recorded before it is performed, one   *)
(* that may not be replayed is performed at most once, success is recorded *)
(* only of what was performed, and a settled record never changes.         *)
(* ToolGovernance implements it (ToolGovernance!Promise).                  *)
(***************************************************************************)
EXTENDS Integers

CONSTANTS
  Call,      \* tool calls of a run
  EffectOf   \* Call -> Effect

VARIABLES
  ledger,    \* Call -> status of its record, "NONE" if there is none
  performed  \* Call -> how often the tool was really started

vars == <<ledger, performed>>

Replayable(c) == EffectOf[c] = "READ_ONLY"

Init ==
  /\ ledger = [c \in Call |-> "NONE"]
  /\ performed = [c \in Call |-> 0]

Record(c) ==
  /\ ledger[c] = "NONE"
  /\ ledger' = [ledger EXCEPT ![c] = "PREPARED"]
  /\ UNCHANGED performed

Perform(c) ==
  /\ ledger[c] # "NONE"
  /\ performed[c] = 0 \/ Replayable(c)
  /\ performed' = [performed EXCEPT ![c] = @ + 1]
  /\ UNCHANGED ledger

\* One result, or the ruling of a person on everything in doubt.
Settle(C) ==
  /\ \A c \in C : ledger[c] = "PREPARED"
  /\ \/ ledger' = [c \in Call |-> IF c \in C THEN "FAILED" ELSE ledger[c]]
     \/ /\ \A c \in C : performed[c] > 0
        /\ ledger' = [c \in Call |-> IF c \in C THEN "SUCCEEDED" ELSE ledger[c]]
  /\ UNCHANGED performed

Next ==
  \/ \E c \in Call : Record(c) \/ Perform(c)
  \/ \E C \in SUBSET Call : Settle(C)

Spec == Init /\ [][Next]_vars
=============================================================================
