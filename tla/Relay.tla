------------------------------- MODULE Relay --------------------------------
(***************************************************************************)
(* What the hub promises about the notifications of its nodes.  A          *)
(* notification is turned down when it arrives or held; what is held       *)
(* leaves the hub once.  One at a time, the oldest held one of a kind is   *)
(* published or given up; all at once, when the hub restarts, they are     *)
(* lost.  So within a kind nothing overtakes, and nothing the broker got   *)
(* comes again.  Uplink is shown to implement this specification.          *)
(***************************************************************************)
EXTENDS Naturals, Sequences

CONSTANTS
    Kind,     \* kinds of notification, each with a queue of its own
    MaxNotes  \* bound: notifications received

VARIABLES
    notes,   \* the kind of each notification received, in order
    fate,    \* "open" while the hub holds the notification, then how it left
    broker   \* the notifications the broker received, in order

vars == <<notes, fate, broker>>

Id == 1 .. MaxNotes

Held(c) == c <= Len(notes) /\ fate[c] = "open"

(* The next of its kind to leave. *)
Oldest(c) ==
    /\ Held(c)
    /\ \A d \in Id : (Held(d) /\ notes[d] = notes[c]) => c <= d

Init ==
    /\ notes = <<>>
    /\ fate = [c \in Id |-> "open"]
    /\ broker = <<>>

Arrive(k) ==
    /\ Len(notes) < MaxNotes
    /\ notes' = Append(notes, k)
    /\ \/ UNCHANGED fate
       \/ fate' = [fate EXCEPT ![Len(notes) + 1] = "dropped"]
    /\ UNCHANGED broker

Deliver(c) ==
    /\ Oldest(c)
    /\ fate' = [fate EXCEPT ![c] = "delivered"]
    /\ broker' = Append(broker, c)
    /\ UNCHANGED notes

GiveUp(c) ==
    /\ Oldest(c)
    /\ fate' = [fate EXCEPT ![c] = "dropped"]
    /\ UNCHANGED <<notes, broker>>

LoseAll ==
    /\ fate' = [c \in Id |-> IF Held(c) THEN "dropped" ELSE fate[c]]
    /\ UNCHANGED <<notes, broker>>

Next ==
    \/ \E k \in Kind : Arrive(k)
    \/ \E c \in Id : Deliver(c) \/ GiveUp(c)
    \/ LoseAll

Spec == Init /\ [][Next]_vars

=============================================================================
