------------------------------ MODULE Delivery ------------------------------
(***************************************************************************)
(* What the hub promises about the commands it receives.  A command is     *)
(* held until it leaves the hub, once: answered by the hub itself,         *)
(* confirmed by its node, or dropped.  Only a command that is held is      *)
(* written to its node, and each write it executes without confirming it   *)
(* is one whose answer was lost.  CmdDispatcher is shown to implement this *)
(* specification.                                                          *)
(***************************************************************************)
EXTENDS Naturals, Sequences

CONSTANTS
    Node,     \* nodes a command can name
    Hub,      \* the target of a command for the hub itself
    Kinds,    \* kinds of command
    MaxCmds   \* bound: commands received

VARIABLES
    cmds,       \* the commands received, in order: [target, kind]
    exec,       \* what each node has executed, in order
    fate,       \* "open" while the hub holds the command, then how it left
    unanswered  \* commands a node has executed without confirming it

vars == <<cmds, exec, fate, unanswered>>

Id == 1 .. MaxCmds

Held(c) == c <= Len(cmds) /\ fate[c] = "open"

Init ==
    /\ cmds = <<>>
    /\ exec = [n \in Node |-> <<>>]
    /\ fate = [c \in Id |-> "open"]
    /\ unanswered = {}

Accept(t, k) ==
    /\ Len(cmds) < MaxCmds
    /\ cmds' = Append(cmds, [target |-> t, kind |-> k])
    /\ UNCHANGED <<exec, fate, unanswered>>

Execute(c) == exec' = [exec EXCEPT ![cmds[c].target] = Append(@, c)]

Answer(c) ==
    /\ Held(c)
    /\ cmds[c].target = Hub
    /\ fate' = [fate EXCEPT ![c] = "hub"]
    /\ UNCHANGED <<cmds, exec, unanswered>>

Confirm(c) ==
    /\ Held(c)
    /\ cmds[c].target \in Node
    /\ Execute(c)
    /\ fate' = [fate EXCEPT ![c] = "sent"]
    /\ UNCHANGED <<cmds, unanswered>>

ExecuteUnanswered(c) ==
    /\ Held(c)
    /\ cmds[c].target \in Node
    /\ c \notin unanswered
    /\ Execute(c)
    /\ unanswered' = unanswered \cup {c}
    /\ UNCHANGED <<cmds, fate>>

Drop(C) ==
    /\ \A c \in C : Held(c)
    /\ fate' = [c \in Id |-> IF c \in C THEN "dropped" ELSE fate[c]]
    /\ UNCHANGED <<cmds, exec, unanswered>>

Next ==
    \/ \E t \in Node \cup {Hub}, k \in Kinds : Accept(t, k)
    \/ \E c \in Id : Answer(c) \/ Confirm(c) \/ ExecuteUnanswered(c)
    \/ \E C \in SUBSET Id : Drop(C)

Spec == Init /\ [][Next]_vars

=============================================================================
