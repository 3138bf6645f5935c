---------------------------- MODULE BoundedChannel ----------------------------
(***************************************************************************)
(* What an OSMessageQueue promises: a first-in first-out channel of at     *)
(* most Capacity messages.  Messages are numbered in the order they are    *)
(* sent.                                                                   *)
(***************************************************************************)
EXTENDS Naturals, Sequences

CONSTANT Capacity

VARIABLES
  chan,   \* the messages in the channel
  sent,   \* how many were sent
  taken   \* the last message received, 0 before the first

vars == <<chan, sent, taken>>

Init == chan = <<>> /\ sent = 0 /\ taken = 0

Put ==
  /\ Len(chan) < Capacity
  /\ sent' = sent + 1
  /\ chan' = Append(chan, sent')
  /\ UNCHANGED taken

Take ==
  /\ chan # <<>>
  /\ taken' = Head(chan)
  /\ chan' = Tail(chan)
  /\ UNCHANGED sent

Reset == chan' = <<>> /\ UNCHANGED <<sent, taken>>

Next == Put \/ Take \/ Reset

Spec == Init /\ [][Next]_vars
===============================================================================
