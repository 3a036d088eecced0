-------------------------- MODULE SolReplayProofs --------------------------
(***************************************************************************)
(* The feed for every capacity and every number of notifications: what is  *)
(* under way is in order and complete, little is read too late, and        *)
(* BlockStream is what Sender sees of it.  Then TokenValid for every       *)
(* window, margin and lag, wherever the feed loses or holds slots up.      *)
(***************************************************************************)
EXTENDS SolReplay, SequenceTheorems, TLAPS

-----------------------------------------------------------------------------
(* The feed: what holds of it *)

Notices == 1 .. MaxHeaders

\* The types, and that Solana has no second forwarder.
FeedTyped ==
  /\ FeedTypeOK
  /\ held \in [Forwarders -> 0 .. MaxHeaders]
  /\ channel \in [Forwarders -> Seq(Notices)]
  /\ adapter = "sol" => forwarder[2] = "none" /\ channel[2] = <<>>

\* s holds the notifications that follow number b.
Follows(s, b) == \A i \in 1 .. Len(s) : s[i] = b + i

Hand(k) == IF held[k] = 0 THEN 0 ELSE 1

\* Notifications beyond channel 1 that run() has not received.
Beyond == IF adapter = "eth" THEN Len(channel[2]) + Hand(2) ELSE 0

\* The last notification that the forwarders have taken.
Taken == received + Beyond + Len(channel[1]) + Hand(1)

\* Each place holds the notifications that follow those ahead of it.
Ordered ==
  loop # "ended" =>
    /\ adapter = "eth" =>
         /\ Follows(channel[2], received)
         /\ held[2] # 0 => held[2] = received + Len(channel[2]) + 1
    /\ Follows(channel[1], received + Beyond)
    /\ held[1] # 0 => held[1] = received + Beyond + Len(channel[1]) + 1
    /\ ~lagged => Follows(subscription, Taken) /\ announced = Taken + Len(subscription)

\* While run() is in its loop the second forwarder ends only after the first.
EndInOrder ==
  loop # "ended" /\ adapter = "eth" /\ forwarder[2] = "ended" =>
    forwarder[1] = "ended" /\ channel[1] = <<>>

\* Headers read late are behind the forwarder that has not noticed yet; it takes
\* one more of them, and so does the first one.
LateAreKept ==
  IF loop # "ended" THEN late = 0
  ELSE IF adapter = "sol" THEN late = 0 \/ (late = 1 /\ forwarder[1] # "recv")
  ELSE CASE forwarder[2] = "ended" ->
              late <= IF forwarder[1] = "recv" THEN Capacity + 1 ELSE Capacity + 2
         [] forwarder[2] = "send" -> late <= 1 + Len(channel[1]) + Hand(1)
         [] OTHER -> late <= Len(channel[1]) + Hand(1)

\* The inductive invariant of the feed.
FeedInv == FeedTyped /\ Ordered /\ EndInOrder /\ LateAreKept

(* Lemmas about sequences of notifications *)

\* The next notification is put behind.
LEMMA FollowsAppend ==
  ASSUME NEW s \in Seq(Notices), NEW n \in Notices
  PROVE  /\ Append(s, n) \in Seq(Notices)
         /\ Len(Append(s, n)) = Len(s) + 1
         /\ \A b \in Nat : Follows(s, b) /\ n = b + Len(s) + 1 => Follows(Append(s, n), b)
<1>1. /\ Len(s) \in Nat /\ Append(s, n) \in Seq(Notices) /\ Len(Append(s, n)) = Len(s) + 1
      /\ \A i \in 1 .. Len(s) : Append(s, n)[i] = s[i]
      /\ Append(s, n)[Len(s) + 1] = n
  BY AppendProperties, LenProperties
<1>2. ASSUME NEW b \in Nat, Follows(s, b), n = b + Len(s) + 1,
             NEW i \in 1 .. Len(s) + 1
      PROVE  Append(s, n)[i] = b + i
  <2>1. CASE i = Len(s) + 1
    BY <1>1, <1>2, <2>1
  <2>2. CASE i # Len(s) + 1
    <3>1. i \in 1 .. Len(s)
      BY <1>1, <2>2
    <3> QED
      BY <1>1, <1>2, <3>1 DEF Follows
  <2> QED
    BY <2>1, <2>2
<1> QED
  BY <1>1, <1>2 DEF Follows

\* The oldest notification is taken off.
LEMMA FollowsTail ==
  ASSUME NEW s \in Seq(Notices), s # <<>>
  PROVE  /\ Head(s) \in Notices
         /\ Tail(s) \in Seq(Notices)
         /\ Len(s) \in Nat \ {0}
         /\ Len(Tail(s)) = Len(s) - 1
         /\ \A b \in Nat : Follows(s, b) => Head(s) = b + 1 /\ Follows(Tail(s), b + 1)
<1>1. /\ Head(s) \in Notices /\ Tail(s) \in Seq(Notices) /\ Len(s) \in Nat \ {0}
      /\ Len(Tail(s)) = Len(s) - 1
      /\ \A i \in 1 .. Len(Tail(s)) : Tail(s)[i] = s[i + 1]
  BY HeadTailProperties, EmptySeq
<1>2. Head(s) = s[1]
  OBVIOUS
<1>3. ASSUME NEW b \in Nat, Follows(s, b)
      PROVE  Head(s) = b + 1 /\ Follows(Tail(s), b + 1)
  <2>1. s[1] = b + 1
    BY <1>1, <1>3 DEF Follows
  <2>2. ASSUME NEW i \in 1 .. Len(Tail(s)) PROVE Tail(s)[i] = (b + 1) + i
    <3>1. i \in Nat /\ i + 1 \in 1 .. Len(s) /\ Tail(s)[i] = s[i + 1]
      BY <1>1
    <3>2. s[i + 1] = b + (i + 1)
      BY <1>3, <3>1 DEF Follows
    <3> QED
      BY <3>1, <3>2
  <2> QED
    BY <1>2, <2>1, <2>2 DEF Follows
<1> QED
  BY <1>1, <1>3

\* Two runs, one behind the other.
LEMMA FollowsConcat ==
  ASSUME NEW s \in Seq(Notices), NEW t \in Seq(Notices), NEW b \in Nat,
         Follows(s, b), Follows(t, b + Len(s))
  PROVE  /\ s \o t \in Seq(Notices)
         /\ Len(s \o t) = Len(s) + Len(t)
         /\ Follows(s \o t, b)
<1>1. /\ s \o t \in Seq(Notices) /\ Len(s \o t) = Len(s) + Len(t)
      /\ \A i \in 1 .. Len(s) + Len(t) :
           (s \o t)[i] = IF i <= Len(s) THEN s[i] ELSE t[i - Len(s)]
  BY ConcatProperties, Zenon
<1>2. Len(s) \in Nat /\ Len(t) \in Nat
  BY LenProperties
<1> DEFINE u == s \o t
<1> HIDE DEF u
<1>3. ASSUME NEW i \in 1 .. Len(s) + Len(t) PROVE u[i] = b + i
  <2>1. CASE i <= Len(s)
    <3>1. u[i] = s[i] /\ i \in 1 .. Len(s)
      BY <1>1, <1>2, <2>1 DEF u
    <3> QED
      BY <3>1 DEF Follows
  <2>2. CASE ~(i <= Len(s))
    <3>1. i - Len(s) \in 1 .. Len(t)
      BY <1>2, <2>2
    <3>2. u[i] = t[i - Len(s)]
      BY <1>1, <2>2, Zenon DEF u
    <3>3. t[i - Len(s)] = (b + Len(s)) + (i - Len(s))
      BY <3>1 DEF Follows
    <3> QED
      BY <1>2, <3>2, <3>3
  <2> QED
    BY <2>1, <2>2
<1> QED
  BY <1>1, <1>3 DEF Follows, u

\* An empty place.
LEMMA FollowsEmpty ==
  /\ <<>> \in Seq(Notices) /\ Len(<<>>) = 0
  /\ \A b : Follows(<<>>, b)
<1>1. <<>> \in Seq(Notices) /\ Len(<<>>) = 0
  BY EmptySeq
<1> QED
  BY <1>1 DEF Follows

-----------------------------------------------------------------------------
(* The feed: the invariant is inductive *)

\* What the types say of the places in numbers.
LEMMA FeedNumbers ==
  ASSUME FeedTyped
  PROVE  /\ 1 \in Forwarders /\ 2 \in Forwarders
         /\ Capacity \in Nat \ {0} /\ Backlog \in Nat \ {0} /\ MaxHeaders \in Nat
         /\ adapter \in {"eth", "sol"} /\ late \in Nat
         /\ announced \in Nat /\ announced <= MaxHeaders
         /\ received \in Nat /\ received <= MaxHeaders
         /\ subscription \in Seq(Notices) /\ Len(subscription) \in Nat
         /\ \A k \in Forwarders :
              /\ held[k] \in 0 .. MaxHeaders /\ Hand(k) \in {0, 1}
              /\ held[k] # 0 <=> forwarder[k] = "send"
              /\ channel[k] \in Seq(Notices) /\ Len(channel[k]) \in Nat
              /\ Len(channel[k]) <= Capacity
         /\ Beyond \in Nat /\ Taken \in Nat
         /\ Last \in Forwarders /\ (adapter = "eth" => Last = 2) /\ (adapter = "sol" => Last = 1)
<1>1. /\ 1 \in Forwarders /\ 2 \in Forwarders
      /\ \A k \in Forwarders : channel[k] \in Seq(Notices) /\ held[k] \in 0 .. MaxHeaders
      /\ subscription \in Seq(Notices)
  BY DEF FeedTyped, FeedTypeOK, Forwarders, Notices
<1>2. Len(subscription) \in Nat /\ \A k \in Forwarders : Len(channel[k]) \in Nat
  BY <1>1, LenProperties
<1>3. /\ Capacity \in Nat \ {0} /\ Backlog \in Nat \ {0} /\ MaxHeaders \in Nat
  BY FeedAssumption
<1>4. \A k \in Forwarders : Hand(k) \in {0, 1}
  BY DEF Hand
<1>5. received \in Nat /\ received <= MaxHeaders /\ announced \in Nat /\ announced <= MaxHeaders
  BY <1>3 DEF FeedTyped, FeedTypeOK
<1>6. Beyond \in Nat
  BY <1>1, <1>2, <1>4 DEF Beyond
<1>7. Taken \in Nat
  <2>1. Len(channel[1]) \in Nat /\ Hand(1) \in Nat
    BY <1>1, <1>2, <1>4
  <2>2. \A a, b, c, d \in Nat : a + b + c + d \in Nat
    OBVIOUS
  <2> QED
    BY <1>5, <1>6, <2>1, <2>2, Zenon DEF Taken
<1>8. \A k \in Forwarders : (held[k] # 0 <=> forwarder[k] = "send") /\ Len(channel[k]) <= Capacity
  BY <1>1, <1>3 DEF FeedTyped, FeedTypeOK
<1>9. adapter \in {"eth", "sol"} /\ late \in Nat
  BY DEF FeedTyped, FeedTypeOK
<1> QED
  BY <1>1, <1>2, <1>3, <1>4, <1>5, <1>6, <1>7, <1>8, <1>9 DEF Last

\* Nothing is on its way at the start.
LEMMA FeedInvInit == Init => FeedInv
<1> SUFFICES ASSUME Init PROVE FeedInv
  OBVIOUS
<1>1. /\ adapter \in {"eth", "sol"} /\ announced = 0 /\ subscription = <<>>
      /\ lagged = FALSE /\ node_open = TRUE
      /\ forwarder = [k \in Forwarders |-> IF k <= Last THEN "recv" ELSE "none"]
      /\ held = [k \in Forwarders |-> 0]
      /\ channel = [k \in Forwarders |-> <<>>]
      /\ loop = "recv" /\ received = 0 /\ late = 0
  BY DEF Init, FeedInit
<1>2. <<>> \in Seq(Notices) /\ Len(<<>>) = 0 /\ \A b : Follows(<<>>, b)
  BY FollowsEmpty
<1>3. FeedTyped
  <2>1. /\ forwarder \in [Forwarders -> {"none", "recv", "send", "ended"}]
        /\ \A k \in Forwarders : forwarder[k] # "send"
        /\ adapter = "sol" => forwarder[2] = "none"
    BY <1>1 DEF Forwarders, Last
  <2>2. /\ channel \in [Forwarders -> Seq(Notices)]
        /\ \A k \in Forwarders : channel[k] = <<>>
        /\ 2 \in Forwarders
    BY <1>1, <1>2 DEF Forwarders
  <2>3. \A k \in Forwarders : held[k] = 0
    BY <1>1
  <2>4. held \in [Forwarders -> 0 .. MaxHeaders] /\ 0 \in 0 .. MaxHeaders
    BY <1>1, FeedAssumption
  <2>5. Capacity \in Nat /\ Backlog \in Nat
    BY FeedAssumption
  <2>6. FeedTypeOK
    <3>1. \A k \in Forwarders :
            held[k] \in 0 .. MaxHeaders /\ (held[k] > 0 <=> forwarder[k] = "send")
      BY <2>1, <2>3, <2>4
    <3>2. \A k \in Forwarders :
            channel[k] \in Seq(1 .. MaxHeaders) /\ Len(channel[k]) <= Capacity
      BY <1>2, <2>2, <2>5 DEF Notices
    <3>3. subscription \in Seq(1 .. MaxHeaders) /\ Len(subscription) <= Backlog
      BY <1>1, <1>2, <2>5 DEF Notices
    <3> QED
      BY <1>1, <2>1, <2>4, <3>1, <3>2, <3>3 DEF FeedTypeOK
  <2> QED
    BY <2>1, <2>2, <2>4, <2>6 DEF FeedTyped
<1>4. Ordered
  BY <1>1, <1>2 DEF Ordered, Beyond, Taken, Hand, Forwarders
<1> QED
  BY <1>1, <1>3, <1>4 DEF FeedInv, EndInOrder, LateAreKept, Forwarders, Last

\* A header or slot is announced: it follows those before it, unless the buffer
\* overflows, and then the forwarder reads no more.
LEMMA FeedInvAnnounce ==
  ASSUME FeedInv, Announce
  PROVE  FeedInv'
<1>1. FeedTyped /\ Ordered /\ EndInOrder /\ LateAreKept
  BY DEF FeedInv
<1>2. /\ announced < MaxHeaders /\ announced' = announced + 1
      /\ IF adapter = "eth" /\ Len(subscription) = Backlog
         THEN subscription' = Append(Tail(subscription), announced') /\ lagged' = TRUE
         ELSE subscription' = Append(subscription, announced') /\ lagged' = lagged
      /\ UNCHANGED <<adapter, node_open, forwarder, held, channel, loop, received, late>>
  BY DEF Announce
<1>3. /\ Backlog \in Nat \ {0} /\ MaxHeaders \in Nat /\ announced \in Nat
      /\ subscription \in Seq(Notices) /\ Len(subscription) \in Nat /\ Taken \in Nat
  BY <1>1, FeedNumbers
<1>4. announced' \in Notices
  BY <1>2, <1>3 DEF Notices
<1>5. /\ Taken' = Taken /\ Beyond' = Beyond
  BY <1>2 DEF Taken, Beyond, Hand
<1>6. CASE adapter = "eth" /\ Len(subscription) = Backlog
  <2>1. subscription # <<>>
    BY <1>3, <1>6, FollowsEmpty
  <2>2. Tail(subscription) \in Seq(Notices) /\ Len(Tail(subscription)) = Len(subscription) - 1
    BY <1>3, <2>1, FollowsTail
  <2>3. /\ subscription' \in Seq(Notices) /\ Len(subscription') = Len(Tail(subscription)) + 1
        /\ lagged' = TRUE
    BY <1>2, <1>4, <1>6, <2>2, FollowsAppend
  <2>4. Len(subscription') <= Backlog /\ announced' \in 0 .. MaxHeaders
    BY <1>2, <1>3, <1>6, <2>2, <2>3
  <2>5. FeedTyped'
    BY <1>1, <1>2, <2>3, <2>4 DEF FeedTyped, FeedTypeOK, Notices
  <2>6. Ordered'
    BY <1>1, <1>2, <1>5, <2>3 DEF Ordered, Follows
  <2> QED
    BY <1>1, <1>2, <2>5, <2>6 DEF FeedInv, EndInOrder, LateAreKept, Hand
<1>7. CASE ~(adapter = "eth" /\ Len(subscription) = Backlog)
  <2>1. subscription' = Append(subscription, announced') /\ lagged' = lagged
    BY <1>2, <1>7
  <2>2. /\ subscription' \in Seq(Notices) /\ Len(subscription') = Len(subscription) + 1
        /\ \A b \in Nat : Follows(subscription, b) /\ announced' = b + Len(subscription) + 1 =>
             Follows(subscription', b)
    BY <1>3, <1>4, <2>1, FollowsAppend
  <2>3. announced' \in 0 .. MaxHeaders
    BY <1>2, <1>3
  <2>4. adapter = "eth" => Len(subscription') <= Backlog
    BY <1>1, <1>3, <1>7, <2>2 DEF FeedTyped, FeedTypeOK
  <2>5. FeedTyped'
    BY <1>1, <1>2, <2>1, <2>2, <2>3, <2>4 DEF FeedTyped, FeedTypeOK, Notices
  <2>6. loop # "ended" /\ ~lagged =>
          Follows(subscription', Taken) /\ announced' = Taken + Len(subscription')
    BY <1>1, <1>2, <1>3, <2>2 DEF Ordered
  <2>7. Ordered'
    BY <1>1, <1>2, <1>5, <2>1, <2>6 DEF Ordered, Follows
  <2> QED
    BY <1>1, <1>2, <2>5, <2>7 DEF FeedInv, EndInOrder, LateAreKept, Hand
<1> QED
  BY <1>6, <1>7

\* Steps of run() and of the node that leave what is on its way alone.
LEMMA FeedInvStill ==
  ASSUME FeedInv, UNCHANGED <<adapter, announced, subscription, lagged, forwarder, held,
                              channel, received, late>>,
         node_open' \in BOOLEAN, loop' \in {"recv", "sync", "latest", "store", "ended"},
         loop' = "ended" <=> loop = "ended"
  PROVE  FeedInv'
<1>1. FeedTyped /\ Ordered /\ EndInOrder /\ LateAreKept
  BY DEF FeedInv
<1>2. FeedTyped'
  BY <1>1 DEF FeedTyped, FeedTypeOK
<1>3. Taken' = Taken /\ Beyond' = Beyond
  BY DEF Taken, Beyond, Hand
<1>4. Ordered'
  BY <1>1, <1>3 DEF Ordered, Follows
<1> QED
  BY <1>1, <1>2, <1>4 DEF FeedInv, EndInOrder, LateAreKept, Hand

\* run() returns: the order of what is dropped no longer matters, and nothing has
\* been read late.
LEMMA FeedInvReturn ==
  ASSUME FeedInv, loop # "ended", Return
  PROVE  FeedInv'
<1>1. FeedTyped /\ LateAreKept
  BY DEF FeedInv
<1>2. /\ loop' = "ended" /\ channel' = [channel EXCEPT ![Last] = <<>>]
      /\ UNCHANGED <<adapter, announced, subscription, lagged, node_open, forwarder, held,
                     received, late>>
  BY DEF Return, nodeVars
<1>3. /\ Last \in Forwarders /\ 1 \in Forwarders /\ 2 \in Forwarders
      /\ channel \in [Forwarders -> Seq(Notices)] /\ Capacity \in Nat
  BY <1>1, FeedNumbers DEF FeedTyped
<1>4. <<>> \in Seq(Notices) /\ Len(<<>>) = 0
  BY FollowsEmpty
<1>5. /\ channel' \in [Forwarders -> Seq(Notices)]
      /\ \A k \in Forwarders : channel'[k] = IF k = Last THEN <<>> ELSE channel[k]
  BY <1>2, <1>3, <1>4
<1>6. \A k \in Forwarders : channel'[k] \in Seq(Notices) /\ Len(channel'[k]) <= Capacity
  BY <1>1, <1>3, <1>4, <1>5 DEF FeedTyped, FeedTypeOK
<1>7. FeedTyped'
  BY <1>1, <1>2, <1>3, <1>5, <1>6 DEF FeedTyped, FeedTypeOK, Notices
<1>8. \A k \in Forwarders : Len(channel'[k]) \in Nat /\ Hand(k)' \in Nat
  BY <1>5, LenProperties DEF Hand
<1>9. late' = 0
  BY <1>1, <1>2 DEF LateAreKept
<1>10. LateAreKept'
  BY <1>2, <1>3, <1>8, <1>9 DEF LateAreKept
<1> QED
  BY <1>2, <1>7, <1>10 DEF FeedInv, Ordered, EndInOrder

\* run() receives the oldest notification there is.
LEMMA FeedInvReceive ==
  ASSUME FeedInv, receive_block
  PROVE  FeedInv'
<1>1. FeedTyped /\ Ordered /\ EndInOrder /\ LateAreKept
  BY DEF FeedInv
<1>2. /\ loop = "recv" /\ loop' = "sync" /\ channel[Last] # <<>>
      /\ received' = Head(channel[Last])
      /\ channel' = [channel EXCEPT ![Last] = Tail(channel[Last])]
      /\ UNCHANGED <<adapter, announced, subscription, lagged, node_open, forwarder, held, late>>
  BY DEF receive_block, nodeVars
<1>3. /\ Last \in Forwarders /\ 1 \in Forwarders /\ 2 \in Forwarders
      /\ channel \in [Forwarders -> Seq(Notices)]
      /\ adapter \in {"eth", "sol"} /\ (adapter = "eth" => Last = 2) /\ (adapter = "sol" => Last = 1)
      /\ received \in Nat /\ Beyond \in Nat /\ Taken \in Nat /\ Capacity \in Nat
      /\ MaxHeaders \in Nat
      /\ \A k \in Forwarders :
           /\ Len(channel[k]) \in Nat /\ Len(channel[k]) <= Capacity /\ Hand(k) \in {0, 1}
  BY <1>1, FeedNumbers DEF FeedTyped
<1>4. /\ Head(channel[Last]) \in Notices /\ Tail(channel[Last]) \in Seq(Notices)
      /\ Len(channel[Last]) \in Nat \ {0}
      /\ Len(Tail(channel[Last])) = Len(channel[Last]) - 1
      /\ \A b \in Nat : Follows(channel[Last], b) =>
           Head(channel[Last]) = b + 1 /\ Follows(Tail(channel[Last]), b + 1)
  BY <1>2, <1>3, FollowsTail
<1>5. /\ channel' \in [Forwarders -> Seq(Notices)]
      /\ channel'[Last] = Tail(channel[Last])
      /\ \A k \in Forwarders : k # Last => channel'[k] = channel[k]
  BY <1>2, <1>3, <1>4
<1>6. FeedTyped'
  <2>1. \A k \in Forwarders : channel'[k] \in Seq(Notices) /\ Len(channel'[k]) <= Capacity
    <3>1. Len(channel'[Last]) <= Capacity
      BY <1>3, <1>4, <1>5
    <3>2. \A k \in Forwarders : k # Last => Len(channel'[k]) <= Capacity
      BY <1>3, <1>5
    <3> QED
      BY <1>5, <3>1, <3>2
  <2>2. received' \in 0 .. MaxHeaders
    BY <1>2, <1>3, <1>4 DEF Notices
  <2>3. adapter = "sol" => channel'[2] = <<>>
    BY <1>1, <1>3, <1>5 DEF FeedTyped
  <2> QED
    BY <1>1, <1>2, <1>5, <2>1, <2>2, <2>3 DEF FeedTyped, FeedTypeOK, Notices
<1>7. CASE adapter = "eth"
  <2>1. Last = 2 /\ Hand(1)' = Hand(1) /\ Hand(2)' = Hand(2)
    BY <1>2, <1>3, <1>7 DEF Hand
  <2>2. received' = received + 1 /\ Follows(channel'[2], received')
    BY <1>1, <1>2, <1>3, <1>4, <1>5, <1>7, <2>1 DEF Ordered
  <2>3. Len(channel'[2]) = Len(channel[2]) - 1 /\ channel'[1] = channel[1]
    BY <1>3, <1>4, <1>5, <2>1
  <2>4. received' + Len(channel'[2]) = received + Len(channel[2])
    BY <1>3, <2>2, <2>3
  <2>5. Beyond = Len(channel[2]) + Hand(2) /\ Beyond' = Len(channel'[2]) + Hand(2)
    BY <1>2, <1>7, <2>1 DEF Beyond
  <2>6. received' + Beyond' = received + Beyond
    <3>1. /\ Len(channel[2]) \in Int /\ Len(channel'[2]) \in Int
          /\ received \in Int /\ received' \in Int /\ Hand(2) \in Int
      BY <1>3, <2>2, <2>3
    <3>2. received' = received + 1 /\ Len(channel'[2]) = Len(channel[2]) - 1
      BY <2>2, <2>3
    <3>3. \A r, n, h \in Int : (r + 1) + ((n - 1) + h) = r + (n + h)
      OBVIOUS
    <3>4. (received + 1) + ((Len(channel[2]) - 1) + Hand(2)) = received + (Len(channel[2]) + Hand(2))
      BY <3>1, <3>3, Zenon
    <3> QED
      BY <2>5, <3>2, <3>4, Zenon
  <2>7. Taken' = Taken
    BY <2>1, <2>3, <2>6, Zenon DEF Taken
  <2>8. Ordered'
    BY <1>1, <1>2, <2>2, <2>3, <2>4, <2>6, <2>7 DEF Ordered, Follows
  <2> QED
    BY <1>1, <1>2, <1>6, <2>3, <2>8 DEF FeedInv, EndInOrder, LateAreKept
<1>8. CASE adapter = "sol"
  <2>1. Last = 1 /\ Hand(1)' = Hand(1) /\ Beyond = 0 /\ Beyond' = 0
    BY <1>2, <1>3, <1>8 DEF Hand, Beyond
  <2>2. received' = received + 1 /\ Follows(channel'[1], received')
    BY <1>1, <1>2, <1>3, <1>4, <1>5, <2>1 DEF Ordered
  <2>3. received' + Len(channel'[1]) = received + Len(channel[1])
    BY <1>3, <1>4, <1>5, <2>1, <2>2
  <2>4. Taken' = Taken /\ received' + Beyond' = received'
    <3>1. /\ received' + Beyond' = received'
          /\ received' + Beyond' + Len(channel'[1]) = received + Beyond + Len(channel[1])
      BY <1>2, <1>3, <1>8, <2>2, <2>3 DEF Beyond
    <3> QED
      BY <2>1, <3>1, Zenon DEF Taken
  <2>5. held'[1] # 0 => held'[1] = received' + Beyond' + Len(channel'[1]) + 1
    BY <1>1, <1>2, <1>3, <2>1, <2>2, <2>3 DEF Ordered
  <2>6. Ordered'
    BY <1>1, <1>2, <1>8, <2>2, <2>4, <2>5 DEF Ordered, Follows
  <2> QED
    BY <1>1, <1>2, <1>6, <1>8, <2>6 DEF FeedInv, EndInOrder, LateAreKept
<1> QED
  BY <1>3, <1>7, <1>8

\* The first forwarder reads the subscription.
LEMMA FeedInvRecvFirst ==
  ASSUME FeedInv, recv(1)
  PROVE  FeedInv'
<1>1. FeedTyped /\ Ordered /\ EndInOrder /\ LateAreKept
  BY DEF FeedInv
<1>2. /\ forwarder[1] = "recv" /\ ~lagged /\ subscription # <<>>
      /\ held' = [held EXCEPT ![1] = Head(subscription)]
      /\ subscription' = Tail(subscription)
      /\ late' = IF loop = "ended" THEN late + 1 ELSE late
      /\ forwarder' = [forwarder EXCEPT ![1] = "send"]
      /\ UNCHANGED <<channel, adapter, announced, lagged, node_open, loop, received>>
  BY DEF recv
<1>3. /\ 1 \in Forwarders /\ 2 \in Forwarders
      /\ adapter \in {"eth", "sol"} /\ late \in Nat /\ received \in Nat
      /\ Capacity \in Nat /\ MaxHeaders \in Nat /\ Backlog \in Nat
      /\ subscription \in Seq(Notices) /\ Len(subscription) \in Nat
      /\ Len(channel[1]) \in Nat /\ Len(channel[1]) <= Capacity /\ Len(channel[2]) \in Nat
      /\ Beyond \in Nat /\ Taken \in Nat
      /\ held[1] = 0 /\ held \in [Forwarders -> 0 .. MaxHeaders]
      /\ forwarder \in [Forwarders -> {"none", "recv", "send", "ended"}]
  BY <1>1, <1>2, FeedNumbers DEF FeedTyped, FeedTypeOK
<1>4. /\ Head(subscription) \in Notices /\ Tail(subscription) \in Seq(Notices)
      /\ Len(Tail(subscription)) = Len(subscription) - 1
      /\ \A b \in Nat : Follows(subscription, b) =>
           Head(subscription) = b + 1 /\ Follows(Tail(subscription), b + 1)
  BY <1>2, <1>3, FollowsTail
<1>5. /\ held' \in [Forwarders -> 0 .. MaxHeaders]
      /\ held'[1] = Head(subscription) /\ held'[1] # 0 /\ held'[2] = held[2]
      /\ forwarder' \in [Forwarders -> {"none", "recv", "send", "ended"}]
      /\ forwarder'[1] = "send" /\ forwarder'[2] = forwarder[2]
  BY <1>2, <1>3, <1>4 DEF Notices, Forwarders
<1>6. FeedTyped'
  <2>1. \A k \in Forwarders :
          held'[k] \in 0 .. MaxHeaders /\ (held'[k] > 0 <=> forwarder'[k] = "send")
    BY <1>1, <1>3, <1>5 DEF FeedTyped, FeedTypeOK, Forwarders
  <2>2. subscription' \in Seq(Notices) /\ (adapter = "eth" => Len(subscription') <= Backlog)
    BY <1>1, <1>2, <1>3, <1>4 DEF FeedTyped, FeedTypeOK
  <2>3. late' \in Nat
    BY <1>2, <1>3
  <2> QED
    BY <1>1, <1>2, <1>5, <2>1, <2>2, <2>3 DEF FeedTyped, FeedTypeOK, Notices
<1>7. Hand(1) = 0 /\ Hand(1)' = 1 /\ Beyond' = Beyond
  BY <1>2, <1>3, <1>5 DEF Hand, Beyond
<1>8. Ordered'
  <2> SUFFICES ASSUME loop # "ended" PROVE Ordered'
    BY <1>2 DEF Ordered
  <2>1. Follows(subscription, Taken) /\ announced = Taken + Len(subscription)
    BY <1>1, <1>2 DEF Ordered
  <2>2. Taken = received + Beyond + Len(channel[1])
    <3>1. Taken = received + Beyond + Len(channel[1]) + 0
      BY <1>7, Zenon DEF Taken
    <3> QED
      BY <1>3, <3>1
  <2>3. Taken' = Taken + 1
    BY <1>2, <1>3, <1>7, <2>2 DEF Taken
  <2>4. held'[1] = received' + Beyond' + Len(channel'[1]) + 1
    BY <1>2, <1>3, <1>4, <1>5, <1>7, <2>1, <2>2
  <2>5. Follows(subscription', Taken') /\ announced' = Taken' + Len(subscription')
    BY <1>2, <1>3, <1>4, <2>1, <2>3
  <2> QED
    BY <1>1, <1>2, <1>5, <1>7, <2>4, <2>5 DEF Ordered, Follows
<1>9. EndInOrder'
  BY <1>1, <1>2, <1>5 DEF EndInOrder
<1>10. LateAreKept'
  <2>1. CASE loop # "ended"
    BY <1>1, <1>2, <2>1 DEF LateAreKept
  <2>2. CASE loop = "ended" /\ adapter = "sol"
    BY <1>1, <1>2, <1>5, <2>2 DEF LateAreKept
  <2>3. CASE loop = "ended" /\ adapter # "sol"
    <3>1. late' = late + 1
      BY <1>2, <2>3
    <3>2. CASE forwarder[2] = "ended"
      <4>1. late <= Capacity + 1
        BY <1>1, <1>2, <2>3, <3>2 DEF LateAreKept
      <4>2. late' <= Capacity + 2
        BY <1>3, <3>1, <4>1
      <4> QED
        BY <1>2, <1>5, <2>3, <3>2, <4>2 DEF LateAreKept
    <3>3. CASE forwarder[2] = "send"
      <4>1. late <= 1 + Len(channel[1]) + 0
        BY <1>1, <1>2, <1>7, <2>3, <3>3 DEF LateAreKept
      <4>2. late' <= 1 + Len(channel'[1]) + 1
        BY <1>2, <1>3, <3>1, <4>1
      <4> QED
        BY <1>2, <1>5, <1>7, <2>3, <3>3, <4>2 DEF LateAreKept
    <3>4. CASE forwarder[2] \notin {"send", "ended"}
      <4>1. late <= Len(channel[1]) + 0
        BY <1>1, <1>2, <1>7, <2>3, <3>4 DEF LateAreKept
      <4>2. late' <= Len(channel'[1]) + 1
        BY <1>2, <1>3, <3>1, <4>1
      <4> QED
        BY <1>2, <1>5, <1>7, <2>3, <3>4, <4>2 DEF LateAreKept
    <3> QED
      BY <3>2, <3>3, <3>4
  <2> QED
    BY <2>1, <2>2, <2>3
<1> QED
  BY <1>6, <1>8, <1>9, <1>10 DEF FeedInv

\* The second forwarder takes what the first has sent.
LEMMA FeedInvRecvSecond ==
  ASSUME FeedInv, recv(2)
  PROVE  FeedInv'
<1>1. FeedTyped /\ Ordered /\ EndInOrder /\ LateAreKept
  BY DEF FeedInv
<1>2. /\ forwarder[2] = "recv" /\ channel[1] # <<>>
      /\ held' = [held EXCEPT ![2] = Head(channel[1])]
      /\ channel' = [channel EXCEPT ![1] = Tail(channel[1])]
      /\ forwarder' = [forwarder EXCEPT ![2] = "send"]
      /\ UNCHANGED <<subscription, late, adapter, announced, lagged, node_open, loop, received>>
  BY DEF recv
<1>3. /\ 1 \in Forwarders /\ 2 \in Forwarders
      /\ adapter = "eth" /\ late \in Nat /\ received \in Nat
      /\ Capacity \in Nat /\ MaxHeaders \in Nat
      /\ channel \in [Forwarders -> Seq(Notices)]
      /\ Len(channel[1]) \in Nat /\ Len(channel[1]) <= Capacity /\ Len(channel[2]) \in Nat
      /\ Beyond \in Nat /\ Taken \in Nat /\ Hand(1) \in Nat
      /\ held[2] = 0 /\ held \in [Forwarders -> 0 .. MaxHeaders]
      /\ forwarder \in [Forwarders -> {"none", "recv", "send", "ended"}]
  <2>1. adapter \in {"eth", "sol"} /\ adapter # "sol"
    BY <1>1, <1>2, FeedNumbers DEF FeedTyped
  <2>2. Hand(1) \in {0, 1}
    BY <1>1, FeedNumbers
  <2>3. Hand(1) \in Nat
    BY <2>2
  <2> QED
    BY <1>1, <1>2, <2>1, <2>3, FeedNumbers DEF FeedTyped, FeedTypeOK
<1>4. /\ Head(channel[1]) \in Notices /\ Tail(channel[1]) \in Seq(Notices)
      /\ Len(Tail(channel[1])) = Len(channel[1]) - 1
      /\ \A b \in Nat : Follows(channel[1], b) =>
           Head(channel[1]) = b + 1 /\ Follows(Tail(channel[1]), b + 1)
  BY <1>2, <1>3, FollowsTail
<1>5. /\ held' \in [Forwarders -> 0 .. MaxHeaders]
      /\ held'[2] = Head(channel[1]) /\ held'[2] # 0 /\ held'[1] = held[1]
      /\ channel' \in [Forwarders -> Seq(Notices)]
      /\ channel'[1] = Tail(channel[1]) /\ channel'[2] = channel[2]
      /\ forwarder' \in [Forwarders -> {"none", "recv", "send", "ended"}]
      /\ forwarder'[2] = "send" /\ forwarder'[1] = forwarder[1]
  BY <1>2, <1>3, <1>4 DEF Notices, Forwarders
<1>6. FeedTyped'
  <2>1. \A k \in Forwarders :
          held'[k] \in 0 .. MaxHeaders /\ (held'[k] > 0 <=> forwarder'[k] = "send")
    BY <1>1, <1>3, <1>5 DEF FeedTyped, FeedTypeOK, Forwarders
  <2>2. \A k \in Forwarders : channel'[k] \in Seq(Notices) /\ Len(channel'[k]) <= Capacity
    <3>1. Len(channel'[1]) <= Capacity
      BY <1>3, <1>4, <1>5
    <3> QED
      BY <1>1, <1>3, <1>5, <3>1 DEF FeedTyped, FeedTypeOK, Forwarders
  <2> QED
    BY <1>1, <1>2, <1>3, <1>5, <2>1, <2>2 DEF FeedTyped, FeedTypeOK, Notices
<1>7. /\ Hand(2) = 0 /\ Hand(2)' = 1 /\ Hand(1)' = Hand(1)
      /\ Beyond = Len(channel[2]) /\ Beyond' = Beyond + 1
  <2>1. Hand(2) = 0 /\ Hand(2)' = 1 /\ Hand(1)' = Hand(1)
    BY <1>2, <1>3, <1>5 DEF Hand
  <2>2. Beyond = Len(channel[2]) + 0 /\ Beyond' = Len(channel[2]) + 1
    BY <1>2, <1>3, <1>5, <2>1 DEF Beyond
  <2> QED
    BY <1>3, <2>1, <2>2
<1>8. Ordered'
  <2> SUFFICES ASSUME loop # "ended" PROVE Ordered'
    BY <1>2 DEF Ordered
  <2>1. Follows(channel[1], received + Beyond)
    BY <1>1 DEF Ordered
  <2>2. /\ Head(channel[1]) = received + Beyond + 1
        /\ Follows(Tail(channel[1]), received + Beyond + 1)
    BY <1>3, <1>4, <2>1
  <2>3. received' + Beyond' = received + Beyond + 1
    BY <1>2, <1>3, <1>7
  <2>4. received' + Beyond' + Len(channel'[1]) = received + Beyond + Len(channel[1])
    BY <1>2, <1>3, <1>4, <1>5, <1>7
  <2>5. Taken' = Taken
    BY <1>7, <2>4, Zenon DEF Taken
  <2>6. held'[2] = received' + Len(channel'[2]) + 1
    BY <1>2, <1>3, <1>5, <1>7, <2>2
  <2>7. held'[1] # 0 => held'[1] = received' + Beyond' + Len(channel'[1]) + 1
    BY <1>1, <1>5, <2>4 DEF Ordered
  <2>8. Follows(channel'[1], received' + Beyond')
    BY <1>5, <2>2, <2>3
  <2> QED
    BY <1>1, <1>2, <1>5, <2>5, <2>6, <2>7, <2>8 DEF Ordered, Follows
<1>9. EndInOrder'
  BY <1>5 DEF EndInOrder
<1>10. LateAreKept'
  <2>1. CASE loop # "ended"
    BY <1>1, <1>2, <2>1 DEF LateAreKept
  <2>2. CASE loop = "ended"
    <3>1. late <= Len(channel[1]) + Hand(1)
      BY <1>1, <1>2, <1>3, <2>2 DEF LateAreKept
    <3>2. late' <= 1 + Len(channel'[1]) + Hand(1)
      BY <1>2, <1>3, <1>4, <1>5, <3>1
    <3> QED
      BY <1>2, <1>3, <1>5, <1>7, <2>2, <3>2 DEF LateAreKept
  <2> QED
    BY <2>1, <2>2
<1> QED
  BY <1>6, <1>8, <1>9, <1>10 DEF FeedInv

\* The first forwarder sends.
LEMMA FeedInvSendFirst ==
  ASSUME FeedInv, send(1), ~ReceiverGone(1)
  PROVE  FeedInv'
<1>1. FeedTyped /\ Ordered /\ EndInOrder /\ LateAreKept
  BY DEF FeedInv
<1>2. /\ forwarder[1] = "send" /\ Len(channel[1]) < Capacity
      /\ channel' = [channel EXCEPT ![1] = Append(channel[1], held[1])]
      /\ held' = [held EXCEPT ![1] = 0]
      /\ forwarder' = [forwarder EXCEPT ![1] = "recv"]
      /\ UNCHANGED <<adapter, announced, subscription, lagged, node_open, loop, received, late>>
  BY DEF send, Put, nodeVars
<1>3. /\ 1 \in Forwarders /\ 2 \in Forwarders
      /\ adapter \in {"eth", "sol"} /\ late \in Nat /\ received \in Nat
      /\ Capacity \in Nat /\ MaxHeaders \in Nat
      /\ channel \in [Forwarders -> Seq(Notices)]
      /\ Len(channel[1]) \in Nat /\ Len(channel[2]) \in Nat
      /\ Beyond \in Nat /\ Taken \in Nat
      /\ held[1] \in Notices /\ held \in [Forwarders -> 0 .. MaxHeaders]
      /\ forwarder \in [Forwarders -> {"none", "recv", "send", "ended"}]
      /\ (adapter = "eth" => Last = 2) /\ (adapter = "sol" => Last = 1)
  <2>1. held[1] \in 0 .. MaxHeaders /\ held[1] # 0 /\ MaxHeaders \in Nat
    BY <1>1, <1>2, FeedNumbers
  <2>2. held[1] \in Notices
    BY <2>1 DEF Notices
  <2> QED
    BY <1>1, <1>2, <2>2, FeedNumbers DEF FeedTyped, FeedTypeOK
<1>4. /\ Append(channel[1], held[1]) \in Seq(Notices)
      /\ Len(Append(channel[1], held[1])) = Len(channel[1]) + 1
      /\ \A b \in Nat : Follows(channel[1], b) /\ held[1] = b + Len(channel[1]) + 1 =>
           Follows(Append(channel[1], held[1]), b)
  BY <1>3, FollowsAppend
<1>5. /\ held' \in [Forwarders -> 0 .. MaxHeaders]
      /\ held'[1] = 0 /\ held'[2] = held[2]
      /\ channel' \in [Forwarders -> Seq(Notices)]
      /\ channel'[1] = Append(channel[1], held[1]) /\ channel'[2] = channel[2]
      /\ forwarder' \in [Forwarders -> {"none", "recv", "send", "ended"}]
      /\ forwarder'[1] = "recv" /\ forwarder'[2] = forwarder[2]
  BY <1>2, <1>3, <1>4 DEF Forwarders
<1>6. FeedTyped'
  <2>1. \A k \in Forwarders :
          held'[k] \in 0 .. MaxHeaders /\ (held'[k] > 0 <=> forwarder'[k] = "send")
    BY <1>1, <1>3, <1>5 DEF FeedTyped, FeedTypeOK, Forwarders
  <2>2. \A k \in Forwarders : channel'[k] \in Seq(Notices) /\ Len(channel'[k]) <= Capacity
    <3>1. Len(channel'[1]) <= Capacity
      BY <1>2, <1>3, <1>4, <1>5
    <3> QED
      BY <1>1, <1>3, <1>5, <3>1 DEF FeedTyped, FeedTypeOK, Forwarders
  <2> QED
    BY <1>1, <1>2, <1>5, <2>1, <2>2 DEF FeedTyped, FeedTypeOK, Notices
<1>7. /\ Hand(1) = 1 /\ Hand(1)' = 0 /\ Hand(2)' = Hand(2) /\ Beyond' = Beyond
      /\ held[1] # 0
  <2>1. held[1] # 0
    BY <1>3 DEF Notices
  <2>2. Hand(1) = 1 /\ Hand(1)' = 0 /\ Hand(2)' = Hand(2)
    BY <1>5, <2>1 DEF Hand
  <2> QED
    BY <1>2, <1>5, <2>1, <2>2 DEF Beyond
<1>8. Ordered'
  <2> SUFFICES ASSUME loop # "ended" PROVE Ordered'
    BY <1>2 DEF Ordered
  <2>1. /\ Follows(channel[1], received + Beyond)
        /\ held[1] = received + Beyond + Len(channel[1]) + 1
    BY <1>1, <1>7 DEF Ordered
  <2>2. received + Beyond \in Nat
    BY <1>3
  <2>3. Follows(channel'[1], received' + Beyond')
    BY <1>2, <1>4, <1>5, <1>7, <2>1, <2>2
  <2>4. received' + Beyond' + Len(channel'[1]) + 0 = received + Beyond + Len(channel[1]) + 1
    BY <1>2, <1>3, <1>4, <1>5, <1>7
  <2>5. Taken' = Taken
    BY <1>7, <2>4, Zenon DEF Taken
  <2> QED
    BY <1>1, <1>2, <1>5, <2>3, <2>5 DEF Ordered, Follows
<1>9. EndInOrder'
  BY <1>1, <1>2, <1>5 DEF EndInOrder
<1>10. LateAreKept'
  <2>1. CASE loop # "ended"
    BY <1>1, <1>2, <2>1 DEF LateAreKept
  <2>2. CASE loop = "ended"
    <3>1. adapter # "sol" /\ forwarder[2] # "ended"
      BY <1>3, <2>2 DEF ReceiverGone
    <3>2. Len(channel'[1]) + 0 = Len(channel[1]) + 1
      BY <1>3, <1>4, <1>5
    <3>3. 1 + Len(channel'[1]) + 0 = 1 + Len(channel[1]) + 1
      BY <1>3, <1>4, <1>5
    <3> QED
      BY <1>1, <1>2, <1>5, <1>7, <2>2, <3>1, <3>2, <3>3 DEF LateAreKept
  <2> QED
    BY <2>1, <2>2
<1> QED
  BY <1>6, <1>8, <1>9, <1>10 DEF FeedInv

\* EthClient's forwarder sends to run().
LEMMA FeedInvSendSecond ==
  ASSUME FeedInv, send(2), ~ReceiverGone(2)
  PROVE  FeedInv'
<1>1. FeedTyped /\ Ordered /\ EndInOrder /\ LateAreKept
  BY DEF FeedInv
<1>2. /\ forwarder[2] = "send" /\ Len(channel[2]) < Capacity
      /\ channel' = [channel EXCEPT ![2] = Append(channel[2], held[2])]
      /\ held' = [held EXCEPT ![2] = 0]
      /\ forwarder' = [forwarder EXCEPT ![2] = "recv"]
      /\ UNCHANGED <<adapter, announced, subscription, lagged, node_open, loop, received, late>>
  BY DEF send, Put, nodeVars
<1>3. /\ 1 \in Forwarders /\ 2 \in Forwarders
      /\ adapter = "eth" /\ late \in Nat /\ received \in Nat
      /\ Capacity \in Nat /\ MaxHeaders \in Nat
      /\ channel \in [Forwarders -> Seq(Notices)]
      /\ Len(channel[1]) \in Nat /\ Len(channel[2]) \in Nat
      /\ Beyond \in Nat /\ Taken \in Nat
      /\ held[2] \in Notices /\ held \in [Forwarders -> 0 .. MaxHeaders]
      /\ forwarder \in [Forwarders -> {"none", "recv", "send", "ended"}]
      /\ Last = 2
  <2>1. held[2] \in 0 .. MaxHeaders /\ held[2] # 0 /\ MaxHeaders \in Nat
    BY <1>1, <1>2, FeedNumbers
  <2>2. held[2] \in Notices
    BY <2>1 DEF Notices
  <2>3. adapter \in {"eth", "sol"} /\ adapter # "sol"
    BY <1>1, <1>2, FeedNumbers DEF FeedTyped
  <2> QED
    BY <1>1, <1>2, <2>2, <2>3, FeedNumbers DEF FeedTyped, FeedTypeOK
<1>4. /\ Append(channel[2], held[2]) \in Seq(Notices)
      /\ Len(Append(channel[2], held[2])) = Len(channel[2]) + 1
      /\ \A b \in Nat : Follows(channel[2], b) /\ held[2] = b + Len(channel[2]) + 1 =>
           Follows(Append(channel[2], held[2]), b)
  BY <1>3, FollowsAppend
<1>5. /\ held' \in [Forwarders -> 0 .. MaxHeaders]
      /\ held'[2] = 0 /\ held'[1] = held[1]
      /\ channel' \in [Forwarders -> Seq(Notices)]
      /\ channel'[2] = Append(channel[2], held[2]) /\ channel'[1] = channel[1]
      /\ forwarder' \in [Forwarders -> {"none", "recv", "send", "ended"}]
      /\ forwarder'[2] = "recv" /\ forwarder'[1] = forwarder[1]
  BY <1>2, <1>3, <1>4 DEF Forwarders
<1>6. FeedTyped'
  <2>1. \A k \in Forwarders :
          held'[k] \in 0 .. MaxHeaders /\ (held'[k] > 0 <=> forwarder'[k] = "send")
    BY <1>1, <1>3, <1>5 DEF FeedTyped, FeedTypeOK, Forwarders
  <2>2. \A k \in Forwarders : channel'[k] \in Seq(Notices) /\ Len(channel'[k]) <= Capacity
    <3>1. Len(channel'[2]) <= Capacity
      BY <1>2, <1>3, <1>4, <1>5
    <3> QED
      BY <1>1, <1>3, <1>5, <3>1 DEF FeedTyped, FeedTypeOK, Forwarders
  <2> QED
    BY <1>1, <1>2, <1>3, <1>5, <2>1, <2>2 DEF FeedTyped, FeedTypeOK, Notices
<1>7. /\ Hand(2) = 1 /\ Hand(2)' = 0 /\ Hand(1)' = Hand(1) /\ Beyond' = Beyond
      /\ held[2] # 0
  <2>1. held[2] # 0
    BY <1>3 DEF Notices
  <2>2. Hand(2) = 1 /\ Hand(2)' = 0 /\ Hand(1)' = Hand(1)
    BY <1>5, <2>1 DEF Hand
  <2>3. Len(channel'[2]) + 0 = Len(channel[2]) + 1
    BY <1>3, <1>4, <1>5
  <2> QED
    BY <1>2, <1>3, <2>1, <2>2, <2>3 DEF Beyond
<1>8. loop # "ended"
  BY <1>3 DEF ReceiverGone
<1>9. Ordered'
  <2>1. /\ Follows(channel[2], received)
        /\ held[2] = received + Len(channel[2]) + 1
    BY <1>1, <1>3, <1>7, <1>8 DEF Ordered
  <2>2. Follows(channel'[2], received')
    BY <1>2, <1>3, <1>4, <1>5, <2>1
  <2>3. Taken' = Taken
    BY <1>2, <1>5, <1>7 DEF Taken
  <2> QED
    BY <1>1, <1>2, <1>5, <1>7, <2>2, <2>3 DEF Ordered, Follows
<1>10. EndInOrder' /\ LateAreKept'
  BY <1>1, <1>2, <1>5, <1>8 DEF EndInOrder, LateAreKept
<1> QED
  BY <1>6, <1>9, <1>10 DEF FeedInv

\* The first forwarder ends.  It loses a number only when run() is not in its loop.
LEMMA FeedInvEndsFirst ==
  ASSUME FeedInv, Ends(1), UNCHANGED <<adapter, nodeVars, loop, received, late>>,
         \/ forwarder[1] = "recv"
         \/ forwarder[1] = "send" /\ ReceiverGone(1)
  PROVE  FeedInv'
<1>1. FeedTyped /\ Ordered /\ EndInOrder /\ LateAreKept
  BY DEF FeedInv
<1>2. /\ forwarder' = [forwarder EXCEPT ![1] = "ended"]
      /\ held' = [held EXCEPT ![1] = 0]
      /\ UNCHANGED <<channel, adapter, announced, subscription, lagged, node_open, loop,
                     received, late>>
  BY DEF Ends, nodeVars
<1>3. /\ 1 \in Forwarders /\ 2 \in Forwarders
      /\ adapter \in {"eth", "sol"} /\ late \in Nat /\ received \in Nat
      /\ Capacity \in Nat /\ MaxHeaders \in Nat
      /\ Len(channel[1]) \in Nat /\ Len(channel[1]) <= Capacity
      /\ held \in [Forwarders -> 0 .. MaxHeaders]
      /\ held[1] # 0 <=> forwarder[1] = "send"
      /\ forwarder \in [Forwarders -> {"none", "recv", "send", "ended"}]
      /\ (adapter = "eth" => Last = 2) /\ (adapter = "sol" => Last = 1)
  BY <1>1, FeedNumbers DEF FeedTyped, FeedTypeOK
<1>4. /\ held' \in [Forwarders -> 0 .. MaxHeaders]
      /\ held'[1] = 0 /\ held'[2] = held[2]
      /\ forwarder' \in [Forwarders -> {"none", "recv", "send", "ended"}]
      /\ forwarder'[1] = "ended" /\ forwarder'[2] = forwarder[2]
  BY <1>2, <1>3 DEF Forwarders
<1>5. FeedTyped'
  <2>1. \A k \in Forwarders :
          held'[k] \in 0 .. MaxHeaders /\ (held'[k] > 0 <=> forwarder'[k] = "send")
    BY <1>1, <1>3, <1>4 DEF FeedTyped, FeedTypeOK, Forwarders
  <2> QED
    BY <1>1, <1>2, <1>4, <2>1 DEF FeedTyped, FeedTypeOK, Notices
<1>6. \/ forwarder[1] = "recv" /\ held[1] = 0
      \/ loop = "ended" /\ (adapter = "eth" => forwarder[2] = "ended")
  <2>1. CASE forwarder[1] = "recv"
    BY <1>3, <2>1
  <2>2. CASE forwarder[1] = "send" /\ ReceiverGone(1)
    BY <1>1, <1>3, <2>2 DEF ReceiverGone, EndInOrder
  <2> QED
    BY <2>1, <2>2
<1>7. Ordered'
  <2> SUFFICES ASSUME loop # "ended" PROVE Ordered'
    BY <1>2 DEF Ordered
  <2>1. held'[1] = held[1]
    BY <1>4, <1>6
  <2>2. Hand(1)' = Hand(1) /\ Beyond' = Beyond
    BY <1>2, <1>4, <2>1 DEF Hand, Beyond
  <2>3. Taken' = Taken
    BY <1>2, <2>2 DEF Taken
  <2> QED
    BY <1>1, <1>2, <1>4, <2>1, <2>2, <2>3 DEF Ordered, Follows
<1>8. EndInOrder'
  BY <1>1, <1>2, <1>4 DEF EndInOrder
<1>9. LateAreKept'
  <2>1. CASE loop # "ended"
    BY <1>1, <1>2, <2>1 DEF LateAreKept
  <2>2. CASE loop = "ended" /\ adapter = "sol"
    BY <1>1, <1>2, <1>4, <2>2 DEF LateAreKept
  <2>3. CASE loop = "ended" /\ adapter # "sol" /\ forwarder[2] = "ended"
    <3>1. late <= Capacity + 1 \/ late <= Capacity + 2
      BY <1>1, <1>2, <2>3 DEF LateAreKept
    <3>2. late <= Capacity + 2
      BY <1>3, <3>1
    <3> QED
      BY <1>2, <1>4, <2>3, <3>2 DEF LateAreKept
  <2>4. CASE loop = "ended" /\ adapter # "sol" /\ forwarder[2] # "ended"
    <3>1. held'[1] = held[1]
      BY <1>3, <1>4, <1>6, <2>4
    <3>2. Hand(1)' = Hand(1)
      BY <3>1 DEF Hand
    <3> QED
      BY <1>1, <1>2, <1>4, <2>4, <3>2 DEF LateAreKept
  <2> QED
    BY <2>1, <2>2, <2>3, <2>4
<1> QED
  BY <1>5, <1>7, <1>8, <1>9 DEF FeedInv

\* The second forwarder ends, and what it has not taken is lost with its receiver:
\* nothing, unless run() has returned.
LEMMA FeedInvEndsSecond ==
  ASSUME FeedInv, Ends(2), UNCHANGED <<adapter, nodeVars, loop, received, late>>,
         \/ forwarder[2] = "recv" /\ NoMore(2)
         \/ forwarder[2] = "send" /\ ReceiverGone(2)
  PROVE  FeedInv'
<1>1. FeedTyped /\ Ordered /\ EndInOrder /\ LateAreKept
  BY DEF FeedInv
<1>2. /\ forwarder' = [forwarder EXCEPT ![2] = "ended"]
      /\ held' = [held EXCEPT ![2] = 0]
      /\ channel' = [channel EXCEPT ![1] = <<>>]
      /\ UNCHANGED <<adapter, announced, subscription, lagged, node_open, loop, received, late>>
  BY DEF Ends, nodeVars
<1>3. /\ 1 \in Forwarders /\ 2 \in Forwarders
      /\ adapter = "eth" /\ late \in Nat /\ received \in Nat
      /\ Capacity \in Nat /\ MaxHeaders \in Nat
      /\ channel \in [Forwarders -> Seq(Notices)]
      /\ Len(channel[1]) \in Nat /\ Len(channel[1]) <= Capacity
      /\ held \in [Forwarders -> 0 .. MaxHeaders]
      /\ held[2] # 0 <=> forwarder[2] = "send"
      /\ held[1] # 0 <=> forwarder[1] = "send"
      /\ forwarder \in [Forwarders -> {"none", "recv", "send", "ended"}]
      /\ Last = 2
  <2>1. adapter \in {"eth", "sol"} /\ adapter # "sol"
    BY <1>1, FeedNumbers DEF FeedTyped
  <2> QED
    BY <1>1, <2>1, FeedNumbers DEF FeedTyped, FeedTypeOK
<1>4. /\ held' \in [Forwarders -> 0 .. MaxHeaders]
      /\ held'[2] = 0 /\ held'[1] = held[1]
      /\ channel' \in [Forwarders -> Seq(Notices)]
      /\ channel'[1] = <<>> /\ channel'[2] = channel[2] /\ Len(channel'[1]) = 0
      /\ forwarder' \in [Forwarders -> {"none", "recv", "send", "ended"}]
      /\ forwarder'[2] = "ended" /\ forwarder'[1] = forwarder[1]
  <2>1. <<>> \in Seq(Notices) /\ Len(<<>>) = 0
    OBVIOUS
  <2> QED
    BY <1>2, <1>3, <2>1 DEF Forwarders
<1>5. FeedTyped'
  <2>1. \A k \in Forwarders :
          held'[k] \in 0 .. MaxHeaders /\ (held'[k] > 0 <=> forwarder'[k] = "send")
    BY <1>1, <1>3, <1>4 DEF FeedTyped, FeedTypeOK, Forwarders
  <2>2. \A k \in Forwarders : channel'[k] \in Seq(Notices) /\ Len(channel'[k]) <= Capacity
    BY <1>1, <1>3, <1>4 DEF FeedTyped, FeedTypeOK, Forwarders
  <2> QED
    BY <1>1, <1>2, <1>3, <1>4, <2>1, <2>2 DEF FeedTyped, FeedTypeOK, Notices
<1>6. \/ channel[1] = <<>> /\ forwarder[1] = "ended" /\ held[2] = 0
      \/ loop = "ended"
  BY <1>3 DEF ReceiverGone, NoMore
<1>7. Ordered' /\ EndInOrder'
  <2>1. CASE loop = "ended"
    BY <1>2, <2>1 DEF Ordered, EndInOrder
  <2>2. CASE loop # "ended"
    <3>1. channel'[1] = channel[1] /\ held'[2] = held[2] /\ forwarder[1] = "ended"
      BY <1>4, <1>6, <2>2
    <3>2. Hand(1)' = Hand(1) /\ Hand(2)' = Hand(2)
      BY <1>4, <3>1 DEF Hand
    <3>3. Beyond' = Beyond
      BY <1>2, <1>4, <3>1, <3>2 DEF Beyond
    <3>4. Taken' = Taken
      BY <1>2, <3>1, <3>2, <3>3 DEF Taken
    <3>5. EndInOrder'
      BY <1>4, <3>1 DEF EndInOrder
    <3> QED
      BY <1>1, <1>2, <1>4, <3>1, <3>3, <3>4, <3>5 DEF Ordered, Follows
  <2> QED
    BY <2>1, <2>2
<1>8. LateAreKept'
  <2>1. CASE loop # "ended"
    BY <1>1, <1>2, <2>1 DEF LateAreKept
  <2>2. CASE loop = "ended"
    <3>1. \/ late <= 1 + Len(channel[1]) + Hand(1)
          \/ late <= Len(channel[1]) + Hand(1)
      BY <1>1, <1>3, <2>2 DEF LateAreKept
    <3>2. CASE forwarder[1] = "recv"
      <4>1. Hand(1) = 0
        BY <1>3, <3>2 DEF Hand
      <4>2. late <= 1 + Len(channel[1]) + 0 \/ late <= Len(channel[1]) + 0
        BY <3>1, <4>1
      <4>3. late <= Capacity + 1
        BY <1>3, <4>2
      <4> QED
        BY <1>2, <1>3, <1>4, <2>2, <3>2, <4>3 DEF LateAreKept
    <3>3. CASE forwarder[1] # "recv"
      <4>1. Hand(1) = 0 \/ Hand(1) = 1
        BY DEF Hand
      <4>2. \/ late <= 1 + Len(channel[1]) + 0 \/ late <= Len(channel[1]) + 0
            \/ late <= 1 + Len(channel[1]) + 1 \/ late <= Len(channel[1]) + 1
        BY <3>1, <4>1
      <4>3. late <= Capacity + 2
        BY <1>3, <4>2
      <4> QED
        BY <1>2, <1>3, <1>4, <2>2, <3>3, <4>3 DEF LateAreKept
    <3> QED
      BY <3>2, <3>3
  <2> QED
    BY <2>1, <2>2
<1> QED
  BY <1>5, <1>7, <1>8 DEF FeedInv

\* Every step preserves the invariant.
LEMMA FeedInvStep == FeedInv /\ [Next]_vars => FeedInv'
<1> SUFFICES ASSUME FeedInv, [Next]_vars PROVE FeedInv'
  OBVIOUS
<1>1. /\ loop \in {"recv", "sync", "latest", "store", "ended"}
      /\ node_open \in BOOLEAN
  BY DEF FeedInv, FeedTyped, FeedTypeOK
<1>2. CASE Slot
  BY <1>2, FeedInvAnnounce DEF Slot
<1>3. CASE CloseSubscription /\ UNCHANGED solVars
  BY <1>1, <1>3, FeedInvStill DEF CloseSubscription
<1>4. CASE \E k \in Forwarders : Forward(k) /\ UNCHANGED solVars
  <2>1. PICK k \in Forwarders : Forward(k)
    BY <1>4
  <2>2. k = 1 \/ k = 2
    BY DEF Forwarders
  <2>3. CASE recv(k)
    BY <2>2, <2>3, FeedInvRecvFirst, FeedInvRecvSecond
  <2>4. CASE recv_err(k)
    BY <2>2, <2>4, FeedInvEndsFirst, FeedInvEndsSecond DEF recv_err
  <2>5. CASE send(k) /\ ReceiverGone(k)
    BY <2>2, <2>5, FeedInvEndsFirst, FeedInvEndsSecond DEF send
  <2>6. CASE send(k) /\ ~ReceiverGone(k)
    BY <2>2, <2>6, FeedInvSendFirst, FeedInvSendSecond
  <2> QED
    BY <2>1, <2>3, <2>4, <2>5, <2>6 DEF Forward
<1>5. CASE RunStep
  <2>1. CASE receive_block
    BY <2>1, FeedInvReceive
  <2>2. CASE subscription_closed
    BY <2>2, FeedInvReturn DEF subscription_closed
  <2>3. CASE sync_nonce /\ loop' = "recv"
    BY <1>1, <2>3, FeedInvStill DEF sync_nonce, Return, nodeVars
  <2>4. CASE sync_nonce /\ Return
    BY <2>4, FeedInvReturn DEF sync_nonce
  <2> QED
    BY <1>5, <2>1, <2>2, <2>3, <2>4 DEF RunStep, sync_nonce
<1>6. CASE sync \/ sync_latest \/ sync_store
  BY <1>1, <1>6, FeedInvStill DEF sync, sync_latest, sync_store, nodeVars
<1>7. CASE sync_fails
  BY <1>7, FeedInvReturn DEF sync_fails
<1>8. CASE UNCHANGED vars
  BY <1>1, <1>8, FeedInvStill DEF vars, feedVars, nodeVars
<1> QED
  BY <1>2, <1>3, <1>4, <1>5, <1>6, <1>7, <1>8 DEF Next, Sync

\* The invariant of the feed holds for every number of notifications and every
\* capacity.
THEOREM FeedInvariance == Spec => []FeedInv
  BY FeedInvInit, FeedInvStep, PTL DEF Spec

\* What a forwarder has in hand is a sequence of none or one.
LEMMA HandIsSeq ==
  ASSUME FeedTyped, NEW k \in Forwarders
  PROVE  /\ InHand(k) \in Seq(Notices)
         /\ Len(InHand(k)) = Hand(k)
         /\ \A b \in Nat : (held[k] # 0 => held[k] = b + 1) => Follows(InHand(k), b)
<1>1. CASE held[k] = 0
  BY <1>1, FollowsEmpty DEF InHand, Hand
<1>2. CASE held[k] # 0
  <2>1. held[k] \in Notices
    BY <1>2, FeedNumbers DEF Notices
  <2>2. InHand(k) = <<held[k]>> /\ Hand(k) = 1
    BY <1>2 DEF InHand, Hand
  <2>3. /\ <<held[k]>> \in Seq(Notices) /\ Len(<<held[k]>>) = 1
        /\ <<held[k]>>[1] = held[k]
    BY <2>1
  <2>4. \A b \in Nat : held[k] = b + 1 => Follows(InHand(k), b)
    BY <2>2, <2>3 DEF Follows
  <2> QED
    BY <1>2, <2>2, <2>3, <2>4
<1> QED
  BY <1>1, <1>2

\* No notification is skipped, repeated or reordered on the way to run(), whatever
\* the channels hold, wherever a forwarder waits and whichever of them has ended.
THEOREM NothingIsSkipped == Spec => []NothingSkipped
<1>1. FeedInv => NothingSkipped
  <2> SUFFICES ASSUME FeedInv, loop # "ended" PROVE NothingSkipped
    BY DEF NothingSkipped
  <2>1. FeedTyped /\ Ordered
    BY DEF FeedInv
  <2>2. /\ 1 \in Forwarders /\ 2 \in Forwarders /\ received \in Nat
        /\ channel[1] \in Seq(Notices) /\ channel[2] \in Seq(Notices)
        /\ Len(channel[1]) \in Nat /\ Len(channel[2]) \in Nat
        /\ Beyond \in Nat /\ Taken \in Nat /\ Len(subscription) \in Nat
        /\ adapter \in {"eth", "sol"}
        /\ (adapter = "eth" => Last = 2) /\ (adapter = "sol" => Last = 1)
    BY <2>1, FeedNumbers
  <2>3. Hand(1) \in Nat /\ Hand(2) \in Nat
    BY DEF Hand
  <2>4. /\ InHand(1) \in Seq(Notices) /\ Len(InHand(1)) = Hand(1)
        /\ \A b \in Nat : (held[1] # 0 => held[1] = b + 1) => Follows(InHand(1), b)
    BY <2>1, <2>2, HandIsSeq
  <2>5. /\ InHand(2) \in Seq(Notices) /\ Len(InHand(2)) = Hand(2)
        /\ \A b \in Nat : (held[2] # 0 => held[2] = b + 1) => Follows(InHand(2), b)
    BY <2>1, <2>2, HandIsSeq
  <2>6. /\ Follows(channel[1], received + Beyond)
        /\ held[1] # 0 => held[1] = received + Beyond + Len(channel[1]) + 1
        /\ adapter = "eth" =>
             /\ Follows(channel[2], received)
             /\ held[2] # 0 => held[2] = received + Len(channel[2]) + 1
    BY <2>1 DEF Ordered
  <2>7. received + Beyond + Len(channel[1]) \in Nat
    <3>1. received \in Nat /\ Beyond \in Nat /\ Len(channel[1]) \in Nat
      BY <2>2
    <3>2. \A a, b, c \in Nat : a + b + c \in Nat
      OBVIOUS
    <3> QED
      BY <3>1, <3>2, Zenon
  <2>8. Follows(InHand(1), received + Beyond + Len(channel[1]))
    BY <2>4, <2>6, <2>7
  <2>9. /\ InTransit \in Seq(Notices)
        /\ Len(InTransit) = Beyond + Len(channel[1]) + Hand(1)
        /\ Follows(InTransit, received)
    <3>1. CASE adapter = "sol"
      <4>1. Beyond = 0
        BY <3>1 DEF Beyond
      <4>2. InTransit = (channel[1] \o <<>>) \o InHand(1)
        BY <2>2, <3>1 DEF InTransit
      <4>3. channel[1] \o <<>> = channel[1]
        BY <2>2, ConcatEmptySeq
      <4>4. InTransit = channel[1] \o InHand(1)
        BY <4>2, <4>3
      <4>5. received + Beyond = received /\ received + Beyond + Len(channel[1]) = received + Len(channel[1])
        BY <2>2, <4>1
      <4>6. Follows(channel[1], received) /\ Follows(InHand(1), received + Len(channel[1]))
        BY <2>6, <2>8, <4>5
      <4>7. /\ InTransit \in Seq(Notices)
            /\ Len(InTransit) = Len(channel[1]) + Len(InHand(1))
            /\ Follows(InTransit, received)
        BY <2>2, <2>4, <4>4, <4>6, FollowsConcat
      <4>8. Len(channel[1]) \in Nat /\ Hand(1) \in Nat
        BY <2>2, <2>3
      <4>9. 0 + Len(channel[1]) + Hand(1) = Len(channel[1]) + Hand(1)
        BY <4>8, SMT
      <4> QED
        BY <2>4, <4>1, <4>7, <4>9, Zenon
    <3>2. CASE adapter = "eth"
      <4> DEFINE t == InHand(2) \o channel[1]
                 u == channel[2] \o t
      <4>1. Beyond = Len(channel[2]) + Hand(2)
        BY <3>2 DEF Beyond
      <4>2. received + Len(channel[2]) \in Nat
        BY <2>2
      <4>3. Follows(InHand(2), received + Len(channel[2]))
        BY <2>5, <2>6, <3>2, <4>2
      <4>4. received + Beyond = received + Len(channel[2]) + Len(InHand(2))
        <5>1. received \in Nat /\ Len(channel[2]) \in Nat /\ Hand(2) \in Nat
          BY <2>2, <2>3
        <5>2. received + (Len(channel[2]) + Hand(2)) = received + Len(channel[2]) + Hand(2)
          BY <5>1, SMT
        <5> QED
          BY <2>5, <4>1, <5>2, Zenon
      <4>5. Follows(channel[1], received + Len(channel[2]) + Len(InHand(2)))
        BY <2>6, <4>4
      <4>6. /\ t \in Seq(Notices) /\ Len(t) = Len(InHand(2)) + Len(channel[1])
            /\ Follows(t, received + Len(channel[2]))
        BY <2>2, <2>5, <4>2, <4>3, <4>5, FollowsConcat
      <4> HIDE DEF t
      <4>7. /\ u \in Seq(Notices) /\ Len(u) = Len(channel[2]) + Len(t)
            /\ Follows(u, received)
        BY <2>2, <2>6, <3>2, <4>6, FollowsConcat
      <4>8. InTransit = u \o InHand(1)
        BY <2>2, <3>2 DEF InTransit, t
      <4> HIDE DEF u
      <4>9. Len(u) = Beyond + Len(channel[1])
        <5>1. Len(channel[1]) \in Nat /\ Len(channel[2]) \in Nat /\ Hand(2) \in Nat
          BY <2>2, <2>3
        <5>2. Len(channel[2]) + (Hand(2) + Len(channel[1])) =
                (Len(channel[2]) + Hand(2)) + Len(channel[1])
          BY <5>1, SMT
        <5> QED
          BY <2>5, <4>1, <4>6, <4>7, <5>2, Zenon
      <4>10. received + Beyond + Len(channel[1]) = received + Len(u)
        <5>1. received \in Nat /\ Beyond \in Nat /\ Len(channel[1]) \in Nat
          BY <2>2
        <5> DEFINE x == Beyond  y == Len(channel[1])
        <5>2. x \in Nat /\ y \in Nat /\ Len(u) = x + y
          BY <4>9, <5>1
        <5> HIDE DEF x, y
        <5>3. received + x + y = received + Len(u)
          BY <5>1, <5>2
        <5> QED
          BY <5>3, Zenon DEF x, y
      <4>11. Follows(InHand(1), received + Len(u))
        BY <2>8, <4>10
      <4>12. /\ u \o InHand(1) \in Seq(Notices)
             /\ Len(u \o InHand(1)) = Len(u) + Len(InHand(1))
             /\ Follows(u \o InHand(1), received)
        BY <2>2, <2>4, <4>7, <4>11, FollowsConcat
      <4> QED
        BY <2>4, <4>8, <4>9, <4>12
    <3> QED
      BY <2>2, <3>1, <3>2
  <2>10. \A j \in DOMAIN InTransit : InTransit[j] = received + j
    BY <2>9 DEF Follows
  <2>11. ~lagged => received + Len(InTransit) + Len(subscription) = announced
    <3> HAVE ~lagged
    <3>1. announced = Taken + Len(subscription)
      BY <2>1 DEF Ordered
    <3>2. Taken = received + Beyond + Len(channel[1]) + Hand(1)
      BY DEF Taken
    <3>3. Len(InTransit) = Beyond + Len(channel[1]) + Hand(1)
      BY <2>9
    <3>4. received \in Nat /\ Beyond \in Nat /\ Len(channel[1]) \in Nat /\ Hand(1) \in Nat
      BY <2>2, <2>3
    <3> DEFINE x == Beyond  y == Len(channel[1])  z == Hand(1)
    <3>5. x \in Nat /\ y \in Nat /\ z \in Nat /\ Len(InTransit) = x + y + z
      BY <3>3, <3>4
    <3> HIDE DEF x, y, z
    <3>6. received + Len(InTransit) = received + x + y + z
      BY <3>4, <3>5
    <3>7. received + Len(InTransit) = Taken
      BY <3>2, <3>6, Zenon DEF x, y, z
    <3> QED
      BY <3>1, <3>7, Zenon
  <2> QED
    BY <2>10, <2>11 DEF NothingSkipped
<1> QED
  BY <1>1, FeedInvariance, PTL

\* The first forwarder reads at most Capacity + 2 headers, on Solana at most one
\* slot, that nobody will sync for.
THEOREM FewAreReadLate == Spec => []FewReadLate
<1>1. FeedInv => FewReadLate
  <2> SUFFICES ASSUME FeedInv PROVE FewReadLate
    OBVIOUS
  <2>1. FeedTyped /\ LateAreKept
    BY DEF FeedInv
  <2>2. /\ Capacity \in Nat /\ late \in Nat /\ adapter \in {"eth", "sol"}
        /\ Len(channel[1]) \in Nat /\ Len(channel[1]) <= Capacity
    BY <2>1, FeedNumbers
  <2>3. Hand(1) = 0 \/ Hand(1) = 1
    BY DEF Hand
  <2>4. CASE loop # "ended" \/ adapter = "sol"
    BY <2>1, <2>2, <2>4 DEF LateAreKept, FewReadLate
  <2>5. CASE loop = "ended" /\ adapter = "eth"
    <3>1. \/ late <= Capacity + 1
          \/ late <= Capacity + 2
          \/ late <= 1 + Len(channel[1]) + Hand(1)
          \/ late <= Len(channel[1]) + Hand(1)
      BY <2>1, <2>5 DEF LateAreKept
    <3>2. late <= Capacity + 2
      BY <2>2, <2>3, <3>1
    <3> QED
      BY <2>5, <3>2 DEF FewReadLate
  <2> QED
    BY <2>2, <2>4, <2>5
<1> QED
  BY <1>1, FeedInvariance, PTL

(* The stream *)

\* What Sender sees of a step.
LEMMA StreamStep == FeedInv /\ [Next]_vars => [Stream!Next]_(Stream!vars)
<1> SUFFICES ASSUME FeedInv, [Next]_vars PROVE [Stream!Next]_(Stream!vars)
  OBVIOUS
<1>1. /\ 1 \in Forwarders /\ 2 \in Forwarders /\ Last \in Forwarders
      /\ (adapter = "eth" => Last = 2) /\ (adapter = "sol" => Last = 1)
      /\ adapter \in {"eth", "sol"} /\ (adapter = "sol" => forwarder[2] = "none")
      /\ channel \in [Forwarders -> Seq(Notices)]
      /\ forwarder \in [Forwarders -> {"none", "recv", "send", "ended"}]
      /\ \A k \in Forwarders : channel[k] \in Seq(Notices) /\ Len(channel[k]) \in Nat
  BY FeedNumbers DEF FeedInv, FeedTyped, FeedTypeOK
<1>2. ASSUME UNCHANGED adapter PROVE Last' = Last
  BY <1>2 DEF Last
<1>3. ASSUME UNCHANGED adapter, channel'[Last] = channel[Last],
             forwarder'[Last] = "ended" <=> forwarder[Last] = "ended",
             loop' = "ended" <=> loop = "ended"
      PROVE  [Stream!Next]_(Stream!vars)
  BY <1>2, <1>3 DEF Stream!vars
<1>4. ASSUME Return PROVE Stream!Return
  <2>1. channel'[Last] = <<>> /\ Len(<<>>) = 0
    BY <1>1, <1>4 DEF Return
  <2> QED
    BY <1>2, <1>4, <2>1 DEF Return, Stream!Return
<1>5. CASE Slot
  BY <1>3, <1>5 DEF Slot, Announce
<1>6. CASE CloseSubscription /\ UNCHANGED solVars
  BY <1>3, <1>6 DEF CloseSubscription
<1>7. CASE \E k \in Forwarders : Forward(k) /\ UNCHANGED solVars
  <2>1. PICK k \in Forwarders : Forward(k)
    BY <1>7
  <2>2. k = 1 \/ k = 2
    BY DEF Forwarders
  <2>3. CASE recv(k)
    <3>1. channel'[Last] = channel[Last]
      BY <1>1, <2>2, <2>3 DEF recv, Forwarders
    <3>2. forwarder'[Last] = "ended" <=> forwarder[Last] = "ended"
      BY <1>1, <2>3 DEF recv
    <3> QED
      BY <1>3, <2>3, <3>1, <3>2 DEF recv
  <2>4. CASE Ends(k) /\ UNCHANGED <<adapter, loop>> /\ forwarder[k] \in {"recv", "send"}
    <3>1. channel'[Last] = channel[Last]
      BY <1>1, <2>2, <2>4 DEF Ends, Forwarders
    <3>2. CASE k = Last
      <4>1. forwarder'[Last] = "ended"
        BY <1>1, <2>4, <3>2 DEF Ends
      <4> QED
        BY <1>2, <2>4, <3>1, <4>1 DEF Stream!Next, Stream!CloseStream
    <3>3. CASE k # Last
      <4>1. forwarder'[Last] = forwarder[Last]
        BY <1>1, <2>4, <3>3 DEF Ends
      <4> QED
        BY <1>3, <2>4, <3>1, <4>1
    <3> QED
      BY <3>2, <3>3
  <2>5. CASE send(k) /\ ~ReceiverGone(k)
    <3>1. /\ forwarder[k] = "send" /\ Len(channel[k]) < Capacity
          /\ channel' = [channel EXCEPT ![k] = Append(channel[k], held[k])]
          /\ forwarder' = [forwarder EXCEPT ![k] = "recv"]
          /\ UNCHANGED <<adapter, loop>>
      BY <2>5 DEF send, Put
    <3>2. CASE k = Last
      <4>1. held[k] \in Notices
        BY <2>2, <3>1, FeedNumbers DEF FeedInv, Notices
      <4>2. Len(Append(channel[k], held[k])) = Len(channel[k]) + 1
        BY <1>1, <4>1, FollowsAppend
      <4>3. channel'[Last] = Append(channel[Last], held[Last])
        BY <1>1, <3>1, <3>2
      <4>4. Len(channel'[Last]) = Len(channel[Last]) + 1
        BY <3>2, <4>2, <4>3
      <4>5. forwarder'[Last] = "recv" /\ forwarder[Last] = "send"
        BY <1>1, <3>1, <3>2
      <4> QED
        BY <1>2, <3>1, <3>2, <4>4, <4>5 DEF Stream!Next, Stream!NewBlock
    <3>3. CASE k # Last
      <4>1. channel'[Last] = channel[Last] /\ forwarder'[Last] = forwarder[Last]
        BY <1>1, <3>1, <3>3
      <4> QED
        BY <1>3, <3>1, <4>1
    <3> QED
      BY <3>2, <3>3
  <2> QED
    BY <2>1, <2>3, <2>4, <2>5 DEF Forward, recv_err, send
<1>8. CASE RunStep
  <2>1. CASE receive_block
    <3>1. /\ loop = "recv" /\ loop' = "sync" /\ channel[Last] # <<>>
          /\ UNCHANGED <<adapter, forwarder>>
          /\ channel'[Last] = Tail(channel[Last])
      BY <1>1, <2>1 DEF receive_block
    <3>2. Len(channel[Last]) \in Nat \ {0} /\ Len(Tail(channel[Last])) = Len(channel[Last]) - 1
      BY <1>1, <3>1, FollowsTail
    <3>3. Len(channel[Last]) > 0 /\ Len(channel'[Last]) = Len(channel[Last]) - 1
      BY <3>1, <3>2
    <3> QED
      BY <1>2, <3>1, <3>3 DEF Stream!Next, Stream!Receive
  <2>2. CASE subscription_closed
    BY <1>4, <2>2 DEF subscription_closed, Stream!Next
  <2>3. CASE sync_nonce
    BY <1>3, <1>4, <2>3 DEF sync_nonce, Stream!Next
  <2> QED
    BY <1>8, <2>1, <2>2, <2>3 DEF RunStep
<1>9. CASE sync \/ sync_latest \/ sync_store
  BY <1>3, <1>9 DEF sync, sync_latest, sync_store
<1>10. CASE sync_fails
  BY <1>4, <1>10 DEF sync_fails, Stream!Next
<1>11. CASE UNCHANGED vars
  BY <1>3, <1>11 DEF vars, feedVars
<1> QED
  BY <1>5, <1>6, <1>7, <1>8, <1>9, <1>10, <1>11 DEF Next, Sync

\* The forwarders and the block arm together are the stream that Sender assumes: a
\* channel that fills one by one, that is closed from outside, and that run() drops.
THEOREM FeedImplementsStream == Spec => ImplementsStream
<1>1. Init => Stream!Init
  <2> SUFFICES ASSUME Init PROVE Stream!Init
    OBVIOUS
  <2>1. /\ adapter \in {"eth", "sol"} /\ loop = "recv"
        /\ channel = [k \in Forwarders |-> <<>>]
        /\ forwarder = [k \in Forwarders |-> IF k <= Last THEN "recv" ELSE "none"]
    BY DEF Init, FeedInit
  <2>2. Last \in Forwarders /\ Last <= Last
    BY DEF Last, Forwarders
  <2>3. Len(channel[Last]) = 0 /\ forwarder[Last] = "recv"
    BY <2>1, <2>2
  <2> QED
    BY <2>1, <2>3 DEF Stream!Init
<1> QED
  BY <1>1, StreamStep, FeedInvariance, PTL DEF Spec, ImplementsStream, Stream!Spec

-----------------------------------------------------------------------------
(* The token *)

\* A blockhash is known with the height up to which it is valid.
HashesAreDated ==
  /\ state.last_valid_block_height = state.hash + Validity
  /\ latest.last_valid_block_height = latest.hash + Validity

\* The answer that is about to be stored is not older than the height this sync
\* has read.
AnswerIsNewer ==
  /\ read_at <= block_height
  /\ loop = "store" => read_at <= latest.hash

\* The cached blockhash was found, or fetched, to have more than the margin left.
MarginLeft ==
  state.last_valid_block_height + CommitmentLag > synced_at + BLOCKHASH_REFRESH_MARGIN

\* The inductive invariant.
TokenInv == ReplayTypeOK /\ HashesAreDated /\ AnswerIsNewer /\ MarginLeft

\* SolReplayProtection::new establishes it.
LEMMA TokenInvInit == Init => TokenInv
  BY ReplayAssumption
  DEF Init, FeedInit, get_latest_blockhash, TokenInv, ReplayTypeOK, HashesAreDated,
      AnswerIsNewer, MarginLeft

\* Steps that leave the cache alone and do not enter "store".
LEMMA CacheUntouched ==
  ASSUME TokenInv, UNCHANGED solVars, loop' = "store" => loop = "store"
  PROVE  TokenInv'
  BY DEF TokenInv, solVars, ReplayTypeOK, HashesAreDated, AnswerIsNewer, MarginLeft

\* Every step of the feed, of run() and of sync preserves it.
LEMMA TokenInvStep == TokenInv /\ [Next]_vars => TokenInv'
<1> SUFFICES ASSUME TokenInv, [Next]_vars PROVE TokenInv'
  OBVIOUS
<1>1. CASE Slot
  <2>1. /\ UNCHANGED <<state, latest, read_at, synced_at, loop>>
        /\ block_height' \in {block_height, block_height + 1}
    BY <1>1 DEF Slot, Announce
  <2> QED
    BY <2>1 DEF TokenInv, ReplayTypeOK, HashesAreDated, AnswerIsNewer, MarginLeft
<1>2. CASE CloseSubscription /\ UNCHANGED solVars
  BY <1>2, CacheUntouched DEF CloseSubscription
<1>3. CASE \E k \in Forwarders : Forward(k) /\ UNCHANGED solVars
  BY <1>3, CacheUntouched DEF Forward, recv, recv_err, send
<1>4. CASE RunStep
  BY <1>4, CacheUntouched
  DEF RunStep, receive_block, subscription_closed, sync_nonce, Return
<1>5. CASE sync
  <2>1. PICK current_height \in 0 .. block_height :
          /\ current_height + CommitmentLag >= block_height
          /\ IF should_refresh(current_height)
             THEN loop' = "latest" /\ UNCHANGED synced_at
             ELSE loop' = "recv" /\ synced_at' = read_at'
    BY <1>5 DEF sync
  <2>2. read_at' = block_height /\ UNCHANGED <<block_height, state, latest>>
    BY <1>5 DEF sync
  <2>3. loop' # "store"
    BY <2>1
  <2>4. MarginLeft'
    BY <2>1, <2>2, ReplayAssumption DEF TokenInv, ReplayTypeOK, MarginLeft, should_refresh
  <2>5. synced_at' \in Nat
    BY <2>1, <2>2 DEF TokenInv, ReplayTypeOK
  <2> QED
    BY <2>2, <2>3, <2>4, <2>5 DEF TokenInv, ReplayTypeOK, HashesAreDated, AnswerIsNewer
<1>6. CASE sync_latest
  BY <1>6, ReplayAssumption
  DEF sync_latest, get_latest_blockhash, TokenInv, ReplayTypeOK, HashesAreDated,
      AnswerIsNewer, MarginLeft
<1>7. CASE sync_store
  BY <1>7, ReplayAssumption
  DEF sync_store, TokenInv, ReplayTypeOK, HashesAreDated, AnswerIsNewer, MarginLeft
<1>8. CASE sync_fails
  BY <1>8, CacheUntouched DEF sync_fails, Return
<1>9. CASE UNCHANGED vars
  BY <1>9, CacheUntouched DEF vars, feedVars
<1> QED
  BY <1>1, <1>2, <1>3, <1>4, <1>5, <1>6, <1>7, <1>8, <1>9 DEF Next, Sync

\* A token that next() hands out is valid unless the chain has grown by more than
\* the margin, less the lag, since the last sync: sync compares before it fetches,
\* and the two requests of one sync may be any number of blocks apart.
THEOREM TokenStaysValid == Spec => []TokenValid
<1>1. TokenInv => TokenValid
  BY ReplayAssumption
  DEF TokenInv, ReplayTypeOK, HashesAreDated, MarginLeft, TokenValid, next
<1> QED
  BY <1>1, TokenInvInit, TokenInvStep, PTL DEF Spec

\* The type invariant: no broadcast buffer, channel or hand holds more than fits it.
THEOREM TypeCorrect == Spec => []TypeOK
<1>1. FeedInv /\ TokenInv => TypeOK
  BY DEF FeedInv, FeedTyped, TokenInv, TypeOK
<1> QED
  BY <1>1, FeedInvariance, TokenInvInit, TokenInvStep, PTL DEF Spec
=============================================================================
