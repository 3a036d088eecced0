----------------------------- MODULE BlockFeed -----------------------------
(***************************************************************************)
(* The way of a block notification from the node to replay.sync(): the     *)
(* subscription, the forwarding tasks of subscribe_new_blocks, and the     *)
(* block arm of Sender::run.                                               *)
(*                                                                         *)
(* Ethereum has two forwarders: chain::Chain's, which reads a bounded      *)
(* broadcast buffer, and EthClient's behind it.  Solana has one, a thread  *)
(* that reads an unbounded channel.  Each forwarder feeds a channel of     *)
(* its own.  A notification is the number of headers or slots announced    *)
(* so far.                                                                 *)
(***************************************************************************)
EXTENDS Naturals, Sequences

CONSTANTS
  Capacity,     \* 32 in the code: slots of a forwarder's channel
  Backlog,      \* slots of the broadcast buffer of an Ethereum subscription
  MaxHeaders    \* bound: notifications of the node

ASSUME FeedAssumption ==
  Capacity \in Nat \ {0} /\ Backlog \in Nat \ {0} /\ MaxHeaders \in Nat

VARIABLES
  adapter,      \* "eth" or "sol"
  announced,    \* notifications the node has sent
  subscription, \* the ones the first forwarder has not read
  lagged,       \* one of them was overwritten in the broadcast buffer
  node_open,    \* the node has not closed the subscription
  forwarder,    \* where each forwarder is
  held,         \* the number a forwarder has read and not yet sent
  channel,      \* what each has sent and its reader has not received
  loop,         \* where run() is
  received,     \* notifications run() has received
  late          \* history: headers read after run() has returned

nodeVars == <<announced, subscription, lagged, node_open>>
forwardVars == <<subscription, forwarder, held, channel, late>>
feedVars == <<adapter, nodeVars, forwarder, held, channel, loop, received, late>>

Forwarders == {1, 2}

\* The forwarder that feeds run().
Last == IF adapter = "eth" THEN 2 ELSE 1

\* Is the receiver of forwarder k gone?
ReceiverGone(k) == IF k = Last THEN loop = "ended" ELSE forwarder[k + 1] = "ended"

FeedInit ==
  /\ adapter \in {"eth", "sol"}
  /\ announced = 0
  /\ subscription = <<>>
  /\ lagged = FALSE
  /\ node_open = TRUE
  /\ forwarder = [k \in Forwarders |-> IF k <= Last THEN "recv" ELSE "none"]
  /\ held = [k \in Forwarders |-> 0]
  /\ channel = [k \in Forwarders |-> <<>>]
  /\ loop = "recv"
  /\ received = 0
  /\ late = 0

-----------------------------------------------------------------------------
(* The node *)

\* A new head or slot.  A full broadcast buffer loses its oldest entry.
Announce ==
  /\ node_open
  /\ announced < MaxHeaders
  /\ announced' = announced + 1
  /\ IF adapter = "eth" /\ Len(subscription) = Backlog
     THEN /\ subscription' = Append(Tail(subscription), announced')
          /\ lagged' = TRUE
     ELSE /\ subscription' = Append(subscription, announced')
          /\ UNCHANGED lagged
  /\ UNCHANGED <<adapter, node_open, forwarder, held, channel, loop, received, late>>

\* The websocket is gone.
CloseSubscription ==
  /\ node_open
  /\ node_open' = FALSE
  /\ UNCHANGED <<adapter, announced, subscription, lagged, forwarder, held, channel,
                 loop, received, late>>

-----------------------------------------------------------------------------
(* subscribe_new_blocks: the loop of a forwarder *)

\* recv() yields a number.
recv(k) ==
  /\ forwarder[k] = "recv"
  /\ IF k = 1
     THEN /\ ~lagged
          /\ subscription # <<>>
          /\ held' = [held EXCEPT ![k] = Head(subscription)]
          /\ subscription' = Tail(subscription)
          /\ late' = IF loop = "ended" THEN late + 1 ELSE late
          /\ UNCHANGED channel
     ELSE /\ channel[k - 1] # <<>>
          /\ held' = [held EXCEPT ![k] = Head(channel[k - 1])]
          /\ channel' = [channel EXCEPT ![k - 1] = Tail(@)]
          /\ UNCHANGED <<subscription, late>>
  /\ forwarder' = [forwarder EXCEPT ![k] = "send"]
  /\ UNCHANGED <<adapter, announced, lagged, node_open, loop, received>>

\* The forwarder ends, and with it its two channel ends.
Ends(k) ==
  /\ forwarder' = [forwarder EXCEPT ![k] = "ended"]
  /\ held' = [held EXCEPT ![k] = 0]
  /\ channel' = IF k = 1 THEN channel ELSE [channel EXCEPT ![k - 1] = <<>>]

\* recv() yields no more: the first forwarder also takes Lagged for the end.
NoMore(k) ==
  IF k = 1 THEN lagged \/ (subscription = <<>> /\ ~node_open)
           ELSE channel[k - 1] = <<>> /\ forwarder[k - 1] = "ended"

\* Mutant: after Lagged the forwarder goes on with what is still there.
RecvErrOnlyClosed(k) ==
  /\ forwarder[k] = "recv"
  /\ NoMore(k)
  /\ IF k = 1 /\ lagged
     THEN lagged' = FALSE /\ UNCHANGED <<forwarder, held, channel>>
     ELSE Ends(k) /\ UNCHANGED lagged
  /\ UNCHANGED <<adapter, announced, subscription, node_open, loop, received, late>>

\* Mutant: a closed subscription is asked again.
RecvErrRetried(k) ==
  /\ forwarder[k] = "recv"
  /\ NoMore(k)
  /\ k # 1
  /\ Ends(k)
  /\ UNCHANGED <<adapter, nodeVars, loop, received, late>>

recv_err(k) ==
  /\ forwarder[k] = "recv"
  /\ NoMore(k)
  /\ Ends(k)
  /\ UNCHANGED <<adapter, nodeVars, loop, received, late>>

\* The number goes into the channel.
Put(k) ==
  /\ channel' = [channel EXCEPT ![k] = Append(@, held[k])]
  /\ held' = [held EXCEPT ![k] = 0]
  /\ forwarder' = [forwarder EXCEPT ![k] = "recv"]

\* Mutant: try_send.  What does not fit is dropped.
SendOrDrop(k) ==
  /\ forwarder[k] = "send"
  /\ IF ReceiverGone(k) THEN Ends(k)
     ELSE IF Len(channel[k]) < Capacity THEN Put(k)
     ELSE /\ held' = [held EXCEPT ![k] = 0]
          /\ forwarder' = [forwarder EXCEPT ![k] = "recv"]
          /\ UNCHANGED channel
  /\ UNCHANGED <<adapter, nodeVars, loop, received, late>>

\* Mutant: unbounded channels.
SendUnbounded(k) ==
  /\ forwarder[k] = "send"
  /\ IF ReceiverGone(k) THEN Ends(k) ELSE Put(k)
  /\ UNCHANGED <<adapter, nodeVars, loop, received, late>>

\* Mutant: the result of send is not looked at.
SendIgnoringErrors(k) ==
  /\ forwarder[k] = "send"
  /\ IF ReceiverGone(k)
     THEN /\ held' = [held EXCEPT ![k] = 0]
          /\ forwarder' = [forwarder EXCEPT ![k] = "recv"]
          /\ UNCHANGED channel
     ELSE Len(channel[k]) < Capacity /\ Put(k)
  /\ UNCHANGED <<adapter, nodeVars, loop, received, late>>

\* send(number).await or blocking_send: waits for room; fails when the receiver is
\* gone, also while it waits.
send(k) ==
  /\ forwarder[k] = "send"
  /\ IF ReceiverGone(k) THEN Ends(k) ELSE Len(channel[k]) < Capacity /\ Put(k)
  /\ UNCHANGED <<adapter, nodeVars, loop, received, late>>

Forward(k) == recv(k) \/ recv_err(k) \/ send(k)

-----------------------------------------------------------------------------
(* The block arm of run() *)

\* block_stream.recv() yields a number, and sync is called.
receive_block ==
  /\ loop = "recv"
  /\ channel[Last] # <<>>
  /\ received' = Head(channel[Last])
  /\ channel' = [channel EXCEPT ![Last] = Tail(@)]
  /\ loop' = "sync"
  /\ UNCHANGED <<adapter, nodeVars, forwarder, held, late>>

\* run() returns an error; the stream is dropped.
Return ==
  /\ loop' = "ended"
  /\ channel' = [channel EXCEPT ![Last] = <<>>]
  /\ UNCHANGED <<adapter, nodeVars, forwarder, held, received, late>>

\* SubscriptionClosed.
subscription_closed ==
  /\ loop = "recv"
  /\ channel[Last] = <<>>
  /\ forwarder[Last] = "ended"
  /\ Return

\* sync of the Ethereum adapter, which Sender models, succeeds or fails.
sync_nonce ==
  /\ loop = "sync"
  /\ adapter = "eth"
  /\ \/ loop' = "recv" /\ UNCHANGED <<adapter, nodeVars, forwarder, held, channel, received, late>>
     \/ Return

-----------------------------------------------------------------------------
(* Properties *)

\* The types of the feed; an "eth" buffer and a channel never hold more than fits.
FeedTypeOK ==
  /\ adapter \in {"eth", "sol"}
  /\ announced \in 0 .. MaxHeaders
  /\ subscription \in Seq(1 .. MaxHeaders)
  /\ adapter = "eth" => Len(subscription) <= Backlog
  /\ lagged \in BOOLEAN /\ node_open \in BOOLEAN
  /\ forwarder \in [Forwarders -> {"none", "recv", "send", "ended"}]
  /\ \A k \in Forwarders : held[k] \in 0 .. MaxHeaders /\ (held[k] > 0 <=> forwarder[k] = "send")
  /\ \A k \in Forwarders : channel[k] \in Seq(1 .. MaxHeaders) /\ Len(channel[k]) <= Capacity
  /\ loop \in {"recv", "sync", "latest", "store", "ended"}
  /\ received \in 0 .. MaxHeaders
  /\ late \in Nat

\* What forwarder k has in hand.
InHand(k) == IF held[k] = 0 THEN <<>> ELSE <<held[k]>>

\* What the forwarders have taken and run() has not received, oldest first.
InTransit == channel[Last] \o
  (IF adapter = "eth" THEN InHand(2) \o channel[1] ELSE <<>>) \o InHand(1)

\* As long as run() is in its loop it gets every notification, in order and once:
\* none is lost in a forwarder that waits for room or in one that ends.  After an
\* overflow of the broadcast buffer it gets the ones before it and no later one.
NothingSkipped ==
  loop # "ended" =>
    /\ \A i \in DOMAIN InTransit : InTransit[i] = received + i
    /\ ~lagged => received + Len(InTransit) + Len(subscription) = announced

\* A forwarder notices that its receiver is gone only when it sends.  Once run() has
\* returned, and with it sync or the stream, the first forwarder reads at most as
\* many headers as the channel behind it and the two hands hold before the
\* subscription is dropped.
FewReadLate == late <= IF adapter = "eth" THEN Capacity + 2 ELSE 1

\* When the subscription is closed or has lagged, run() returns, after it has synced
\* for what came before; no forwarder is left behind once both the node and run()
\* are gone.
FeedEnds ==
  /\ (~node_open \/ lagged) ~> (loop = "ended")
  /\ (~node_open /\ loop = "ended") ~> (\A k \in Forwarders : forwarder[k] \in {"ended", "none"})

\* Every notification reaches run() or finds it ended.
EveryHeaderArrives ==
  \A n \in 1 .. MaxHeaders : (announced = n) ~> (received >= n \/ loop = "ended")

\* The feed is the stream that Sender assumes.
Stream == INSTANCE BlockStream WITH
  blocks <- Len(channel[Last]),
  stream_open <- forwarder[Last] # "ended",
  running <- loop # "ended"

ImplementsStream == Stream!Spec
=============================================================================
