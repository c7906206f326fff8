--------------------------- MODULE OrderedMulticast ---------------------------
(***************************************************************************)
(* What a subscriber of the fan-out is promised: from the moment it joins  *)
(* to the moment it leaves it receives some of the messages published      *)
(* since, in the order they were published.  Messages may be skipped (a    *)
(* slow subscriber loses some), never repeated or reordered.               *)
(***************************************************************************)
EXTENDS Integers, Sequences

CONSTANT Client

VARIABLES
  published,  \* number of messages published
  status,     \* each client is out, in or has left
  joined,     \* published when the client joined
  received    \* the messages each client received, in order

vars == <<published, status, joined, received>>

Init ==
  /\ published = 0
  /\ status = [c \in Client |-> "out"]
  /\ joined = [c \in Client |-> 0]
  /\ received = [c \in Client |-> << >>]

Publish ==
  /\ published' = published + 1
  /\ UNCHANGED <<status, joined, received>>

Join(c) ==
  /\ status[c] = "out"
  /\ status' = [status EXCEPT ![c] = "in"]
  /\ joined' = [joined EXCEPT ![c] = published]
  /\ UNCHANGED <<published, received>>

\* n is newer than everything c has received or missed by joining late.
Receive(c, n) ==
  /\ status[c] = "in"
  /\ joined[c] < n
  /\ n <= published
  /\ \A i \in 1..Len(received[c]) : received[c][i] < n
  /\ received' = [received EXCEPT ![c] = Append(@, n)]
  /\ UNCHANGED <<published, status, joined>>

Leave(c) ==
  /\ status[c] = "in"
  /\ status' = [status EXCEPT ![c] = "left"]
  /\ UNCHANGED <<published, joined, received>>

Next ==
  \/ Publish
  \/ \E c \in Client : Join(c) \/ Leave(c)
  \/ \E c \in Client : \E n \in 1..published : Receive(c, n)

Spec == Init /\ [][Next]_vars
==============================================================================
