---------------------------- MODULE BlockStream ----------------------------
(***************************************************************************)
(* The BlockReceiver that Sender::run is given, as Sender sees it: numbers *)
(* that are ready, and whether more can come.  BlockFeed implements it.    *)
(***************************************************************************)
EXTENDS Naturals

CONSTANT Capacity     \* of the channel

VARIABLES
  blocks,             \* notifications that are ready
  stream_open,        \* is the sending half alive
  running             \* has run() not returned

vars == <<blocks, stream_open, running>>

Init == blocks = 0 /\ stream_open = TRUE /\ running = TRUE

NewBlock ==
  /\ stream_open
  /\ blocks < Capacity
  /\ blocks' = blocks + 1
  /\ UNCHANGED <<stream_open, running>>

CloseStream == stream_open' = FALSE /\ UNCHANGED <<blocks, running>>

Receive ==
  /\ running
  /\ blocks > 0
  /\ blocks' = blocks - 1
  /\ UNCHANGED <<stream_open, running>>

\* run() returns, and what is ready is dropped with the stream.
Return == running' = FALSE /\ blocks' = 0 /\ UNCHANGED stream_open

Next == NewBlock \/ CloseStream \/ Receive \/ Return

Spec == Init /\ [][Next]_vars
=============================================================================
