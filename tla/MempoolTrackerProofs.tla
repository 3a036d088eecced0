------------------------ MODULE MempoolTrackerProofs ------------------------
(***************************************************************************)
(* Proofs about MempoolTracker, for any accounts, nonces, fees, capacities *)
(* and any number of events.                                               *)
(***************************************************************************)
EXTENDS MempoolTracker, SequenceTheorems, FiniteSetTheorems, TLAPS

Slots == PendingTx \cup {None}

Queues == [confirmed_nonce : Nat, slots : Seq(Slots)]

\* SlotsAligned for one account.
Aligned(a, q) ==
  \A k \in 1 .. Len(q.slots) :
    q.slots[k] # None =>
      q.slots[k].sender = a /\ q.slots[k].nonce = q.confirmed_nonce + k - 1

-----------------------------------------------------------------------------
(* Lemmas about queues *)

\* A run of empty slots.
LEMMA NonesSeq ==
  ASSUME NEW n \in Int
  PROVE  /\ Nones(n) \in Seq(Slots)
         /\ Len(Nones(n)) = IF n > 0 THEN n ELSE 0
         /\ \A k \in 1 .. Len(Nones(n)) : Nones(n)[k] = None
<1> DEFINE m == IF n > 0 THEN n ELSE 0
<1>1. m \in Nat /\ 1 .. n = 1 .. m
  OBVIOUS
<1>2. Nones(n) \in [1 .. m -> Slots]
  BY <1>1 DEF Nones, Slots
<1>3. Nones(n) \in Seq(Slots)
  BY <1>1, <1>2, SeqDef
<1>4. Len(Nones(n)) = m
  BY <1>1, <1>2, <1>3, LenProperties
<1> QED
  BY <1>1, <1>2, <1>3, <1>4 DEF Nones

\* Writing one slot.
LEMMA ExceptSlot ==
  ASSUME NEW s \in Seq(Slots), NEW k \in 1 .. Len(s), NEW e \in Slots
  PROVE  LET f == [s EXCEPT ![k] = e]
         IN /\ f \in Seq(Slots)
            /\ Len(f) = Len(s)
            /\ \A j \in 1 .. Len(s) : f[j] = IF j = k THEN e ELSE s[j]
<1> DEFINE f == [s EXCEPT ![k] = e]
<1>1. Len(s) \in Nat /\ s \in [1 .. Len(s) -> Slots] /\ DOMAIN s = 1 .. Len(s)
  BY LenProperties
<1>2. f \in [1 .. Len(s) -> Slots] /\ \A j \in 1 .. Len(s) : f[j] = IF j = k THEN e ELSE s[j]
  BY <1>1
<1> HIDE DEF f
<1>3. f \in Seq(Slots)
  BY <1>1, <1>2, SeqDef
<1>4. Len(f) = Len(s)
  BY <1>1, <1>2, <1>3, LenProperties
<1> QED
  BY <1>2, <1>3, <1>4 DEF f

\* Prepending empty slots keeps every transaction at its nonce.
LEMMA ShiftedQueue ==
  ASSUME NEW a, NEW q \in Queues, Aligned(a, q), NEW n \in Nat
  PROVE  LET r == Shifted(q, n) IN
           /\ r \in Queues
           /\ Aligned(a, r)
           /\ r.confirmed_nonce <= n /\ r.confirmed_nonce <= q.confirmed_nonce
           /\ Len(r.slots) >= Len(q.slots)
           /\ \A k \in 1 .. Len(r.slots) :
                r.slots[k] # None => \E j \in 1 .. Len(q.slots) : r.slots[k] = q.slots[j]
<1>1. CASE n >= q.confirmed_nonce
  BY <1>1 DEF Shifted, Queues
<1>2. CASE n < q.confirmed_nonce
  <2> DEFINE d == q.confirmed_nonce - n
             s == Nones(d) \o q.slots
             r == [confirmed_nonce |-> n, slots |-> s]
  <2>1. /\ q.confirmed_nonce \in Nat /\ q.slots \in Seq(Slots) /\ Len(q.slots) \in Nat
        /\ d \in Nat /\ d > 0 /\ q.confirmed_nonce = n + d
    BY <1>2, LenProperties DEF Queues
  <2>2. Shifted(q, n) = r
    BY <1>2, <2>1 DEF Shifted
  <2> HIDE DEF d
  <2>3. /\ Nones(d) \in Seq(Slots) /\ Len(Nones(d)) = d
        /\ \A k \in 1 .. d : Nones(d)[k] = None
    <3>1. d \in Int /\ (IF d > 0 THEN d ELSE 0) = d
      BY <2>1
    <3> QED
      BY <3>1, NonesSeq, Zenon
  <2>4. /\ s \in Seq(Slots) /\ Len(s) = d + Len(q.slots)
        /\ \A k \in 1 .. d + Len(q.slots) : s[k] = IF k <= d THEN Nones(d)[k] ELSE q.slots[k - d]
    <3>1. /\ s \in Seq(Slots) /\ Len(s) = Len(Nones(d)) + Len(q.slots)
          /\ \A k \in 1 .. Len(Nones(d)) + Len(q.slots) :
               s[k] = IF k <= Len(Nones(d)) THEN Nones(d)[k] ELSE q.slots[k - Len(Nones(d))]
      BY <2>1, <2>3, ConcatProperties, Zenon
    <3> QED
      BY <2>3, <3>1, Zenon
  <2> HIDE DEF s
  <2>5. \A k \in 1 .. Len(s) : s[k] # None => k - d \in 1 .. Len(q.slots) /\ s[k] = q.slots[k - d]
    BY <2>1, <2>3, <2>4
  <2>6. r \in Queues /\ r.confirmed_nonce = n /\ r.slots = s
    BY <2>4 DEF Queues
  <2>7. ASSUME NEW k \in 1 .. Len(s), s[k] # None
        PROVE  s[k].sender = a /\ s[k].nonce = n + k - 1
    <3>1. k - d \in 1 .. Len(q.slots) /\ s[k] = q.slots[k - d]
      BY <2>5, <2>7
    <3>2. s[k].sender = a /\ s[k].nonce = q.confirmed_nonce + (k - d) - 1
      BY <3>1, <2>7 DEF Aligned
    <3> QED
      BY <2>1, <3>2
  <2>8. Aligned(a, r)
    BY <2>6, <2>7 DEF Aligned
  <2> HIDE DEF r
  <2> QED
    BY <1>2, <2>1, <2>2, <2>4, <2>5, <2>6, <2>8
<1> QED
  BY <1>1, <1>2 DEF Queues

\* Filling a slot leaves the others as they are.
LEMMA FilledQueue ==
  ASSUME NEW q \in Queues, NEW tx \in PendingTx, Aligned(tx.sender, q),
         q.confirmed_nonce <= tx.nonce
  PROVE  LET r == Filled(q, tx)
             k == SlotIndex(q, tx.nonce)
         IN /\ r \in Queues
            /\ Aligned(tx.sender, r)
            /\ r.confirmed_nonce = q.confirmed_nonce
            /\ Len(r.slots) = IF k > Len(q.slots) THEN k ELSE Len(q.slots)
            /\ \A j \in 1 .. Len(r.slots) :
                 r.slots[j] # None =>
                   r.slots[j] = tx \/ (j \in 1 .. Len(q.slots) /\ r.slots[j] = q.slots[j])
<1> DEFINE k == SlotIndex(q, tx.nonce)
           e == Nones(k - Len(q.slots))
           s == q.slots \o e
           f == [s EXCEPT ![k] = tx]
           r == Filled(q, tx)
<1>1. /\ q.confirmed_nonce \in Nat /\ q.slots \in Seq(Slots) /\ Len(q.slots) \in Nat
      /\ tx.nonce \in Nat
  BY MempoolTrackerAssumption, LenProperties DEF Queues, PendingTx
<1>2. k \in Nat \ {0} /\ k - Len(q.slots) \in Int /\ tx.nonce = q.confirmed_nonce + k - 1
  BY <1>1 DEF SlotIndex
<1>3. r = [q EXCEPT !.slots = f]
  BY DEF Filled
<1> HIDE DEF k
<1>4. /\ e \in Seq(Slots)
      /\ Len(e) = IF k - Len(q.slots) > 0 THEN k - Len(q.slots) ELSE 0
      /\ \A j \in 1 .. Len(e) : e[j] = None
  BY <1>2, NonesSeq, Zenon
<1> HIDE DEF e
<1>5. /\ s \in Seq(Slots) /\ Len(s) = Len(q.slots) + Len(e)
      /\ \A j \in 1 .. Len(q.slots) + Len(e) :
           s[j] = IF j <= Len(q.slots) THEN q.slots[j] ELSE e[j - Len(q.slots)]
  BY <1>1, <1>4, ConcatProperties, Zenon
<1> HIDE DEF s
<1>6. /\ Len(s) = IF k > Len(q.slots) THEN k ELSE Len(q.slots)
      /\ k \in 1 .. Len(s)
      /\ \A j \in 1 .. Len(s) : s[j] # None => j \in 1 .. Len(q.slots) /\ s[j] = q.slots[j]
  <2>1. /\ Len(s) = IF k > Len(q.slots) THEN k ELSE Len(q.slots)
        /\ k \in 1 .. Len(s)
    <3>1. \A L \in Nat, K \in Nat \ {0} :
            LET E == IF K - L > 0 THEN K - L ELSE 0
            IN /\ L + E = IF K > L THEN K ELSE L
               /\ K \in 1 .. L + E
      OBVIOUS
    <3>2. /\ Len(q.slots) + Len(e) = IF k > Len(q.slots) THEN k ELSE Len(q.slots)
          /\ k \in 1 .. Len(q.slots) + Len(e)
      BY <1>1, <1>2, <1>4, <3>1, Zenon
    <3> QED
      BY <1>5, <3>2, Zenon
  <2>2. ASSUME NEW j \in 1 .. Len(s), s[j] # None
        PROVE  j \in 1 .. Len(q.slots) /\ s[j] = q.slots[j]
    <3>1. CASE j <= Len(q.slots)
      BY <1>1, <1>5, <3>1
    <3>2. CASE ~(j <= Len(q.slots))
      <4>1. j - Len(q.slots) \in 1 .. Len(e) /\ s[j] = e[j - Len(q.slots)]
        <5>1. Len(e) \in Nat
          BY <1>4, LenProperties
        <5>2. \A L, E \in Nat : \A J \in 1 .. L + E : ~(J <= L) => J - L \in 1 .. E
          OBVIOUS
        <5>3. j \in 1 .. Len(q.slots) + Len(e)
          BY <1>5, <2>2, Zenon
        <5>4. j - Len(q.slots) \in 1 .. Len(e)
          BY <1>1, <3>2, <5>1, <5>2, <5>3, Zenon
        <5> QED
          BY <1>5, <3>2, <5>3, <5>4, Zenon
      <4> QED
        BY <1>4, <2>2, <4>1, Zenon
    <3> QED
      BY <3>1, <3>2
  <2> QED
    BY <2>1, <2>2
<1>7. /\ f \in Seq(Slots) /\ Len(f) = Len(s)
      /\ \A j \in 1 .. Len(s) : f[j] = IF j = k THEN tx ELSE s[j]
  BY <1>5, <1>6, ExceptSlot DEF Slots
<1> HIDE DEF f
<1>8. r \in Queues /\ r.confirmed_nonce = q.confirmed_nonce /\ r.slots = f
  BY <1>3, <1>7 DEF Queues
<1>9. \A j \in 1 .. Len(f) :
        f[j] # None => f[j] = tx \/ (j \in 1 .. Len(q.slots) /\ f[j] = q.slots[j])
  BY <1>6, <1>7
<1>10. ASSUME NEW j \in 1 .. Len(f), f[j] # None
       PROVE  f[j].sender = tx.sender /\ f[j].nonce = q.confirmed_nonce + j - 1
  <2>1. CASE j = k
    BY <1>2, <1>7, <2>1
  <2>2. CASE j # k
    <3>1. j \in 1 .. Len(q.slots) /\ f[j] = q.slots[j]
      BY <1>6, <1>7, <1>10, <2>2
    <3> QED
      BY <3>1, <1>10 DEF Aligned
  <2> QED
    BY <2>1, <2>2
<1>11. Aligned(tx.sender, r)
  BY <1>8, <1>10 DEF Aligned
<1> HIDE DEF r
<1> QED
  BY <1>6, <1>7, <1>8, <1>9, <1>11 DEF k, r

\* A block moves a queue past its transactions and empties their slots; what is
\* left keeps its nonce.
LEMMA AdvancedQueue ==
  ASSUME NEW a, NEW q \in Queues, Aligned(a, q), NEW N \in SUBSET Nat,
         N = {} \/ \E h \in N : \A n \in N : n <= h
  PROVE  LET r == Advanced(q, N)
         IN /\ r \in Queues
            /\ Aligned(a, r)
            /\ r.confirmed_nonce >= q.confirmed_nonce
            /\ \A n \in N : r.confirmed_nonce > n
            /\ Len(r.slots) <= Len(q.slots)
            /\ \A j \in 1 .. Len(r.slots) :
                 r.slots[j] # None =>
                   \E l \in 1 .. Len(q.slots) :
                     r.slots[j] = q.slots[l] /\ q.confirmed_nonce + l - 1 \notin N
<1> DEFINE c == Max({q.confirmed_nonce} \cup {n + 1 : n \in N})
           e == [k \in DOMAIN q.slots |->
                   IF q.confirmed_nonce + k - 1 \in N THEN None ELSE q.slots[k]]
           d == c - q.confirmed_nonce
           s == IF d < Len(e) THEN SubSeq(e, d + 1, Len(e)) ELSE <<>>
           r == Advanced(q, N)
<1>1. /\ q.confirmed_nonce \in Nat /\ q.slots \in Seq(Slots) /\ Len(q.slots) \in Nat
      /\ DOMAIN q.slots = 1 .. Len(q.slots) /\ q.slots \in [1 .. Len(q.slots) -> Slots]
  BY LenProperties DEF Queues
<1>2. c \in Nat /\ c >= q.confirmed_nonce /\ \A n \in N : c > n
  <2> DEFINE S == {q.confirmed_nonce} \cup {n + 1 : n \in N}
  <2>1. S \subseteq Nat /\ q.confirmed_nonce \in S /\ \A n \in N : n + 1 \in S
    BY <1>1
  <2>2. \A y \in S : y = q.confirmed_nonce \/ \E n \in N : y = n + 1
    OBVIOUS
  <2> HIDE DEF S
  <2>3. \E x \in S : \A y \in S : x >= y
    <3>1. CASE N = {}
      BY <1>1, <2>1, <2>2, <3>1
    <3>2. CASE N # {}
      <4>1. PICK h \in N : \A n \in N : n <= h
        BY <3>2
      <4>2. h \in Nat /\ h + 1 \in S /\ \A n \in N : n + 1 <= h + 1
        BY <2>1, <4>1
      <4>3. CASE h + 1 >= q.confirmed_nonce
        <5>1. \A y \in S : h + 1 >= y
          BY <1>1, <2>2, <4>2, <4>3
        <5> QED
          BY <4>2, <5>1
      <4>4. CASE ~(h + 1 >= q.confirmed_nonce)
        <5>1. \A y \in S : q.confirmed_nonce >= y
          BY <1>1, <2>2, <4>2, <4>4
        <5> QED
          BY <2>1, <5>1
      <4> QED
        BY <4>3, <4>4
    <3> QED
      BY <3>1, <3>2
  <2>4. c = CHOOSE x \in S : \A y \in S : x >= y
    BY DEF Max, S
  <2> HIDE DEF c
  <2>5. c \in S /\ \A y \in S : c >= y
    BY <2>3, <2>4
  <2>6. c \in Nat /\ c >= q.confirmed_nonce
    BY <2>1, <2>5
  <2>7. ASSUME NEW n \in N PROVE c > n
    <3>1. c >= n + 1 /\ n \in Nat
      BY <2>1, <2>5
    <3> QED
      BY <2>6, <3>1
  <2> QED
    BY <2>6, <2>7
<1>3. r = [confirmed_nonce |-> c, slots |-> s]
  BY DEF Advanced
<1>4. e \in Seq(Slots) /\ Len(e) = Len(q.slots)
  <2>1. e \in [1 .. Len(q.slots) -> Slots]
    BY <1>1 DEF Slots
  <2>2. e \in Seq(Slots)
    BY <1>1, <2>1, SeqDef
  <2> QED
    BY <1>1, <2>1, <2>2, LenProperties
<1>5. \A k \in 1 .. Len(e) :
        e[k] # None => e[k] = q.slots[k] /\ q.confirmed_nonce + k - 1 \notin N
  BY <1>1, <1>4
<1> HIDE DEF c, e
<1>6. d \in Nat /\ c = q.confirmed_nonce + d
  BY <1>1, <1>2
<1> HIDE DEF d
<1>7. /\ s \in Seq(Slots) /\ Len(s) <= Len(e)
      /\ \A j \in 1 .. Len(s) : d + j \in 1 .. Len(e) /\ s[j] = e[d + j]
  <2>1. CASE d < Len(e)
    <3>1. d + 1 \in Int /\ Len(e) \in Int /\ \A k \in d + 1 .. Len(e) : e[k] \in Slots
      BY <1>1, <1>4, <1>6, ElementOfSeq
    <3>2. /\ s \in Seq(Slots)
          /\ Len(s) = IF d + 1 <= Len(e) THEN Len(e) - (d + 1) + 1 ELSE 0
          /\ \A j \in 1 .. Len(e) - (d + 1) + 1 : s[j] = e[d + 1 + j - 1]
      BY <2>1, <3>1, SubSeqProperties
    <3> HIDE DEF s
    <3> QED
      BY <1>1, <1>4, <1>6, <2>1, <3>2
  <2>2. CASE ~(d < Len(e))
    BY <1>1, <1>4, <2>2, EmptySeq
  <2> QED
    BY <2>1, <2>2
<1> HIDE DEF s
<1>8. r \in Queues /\ r.confirmed_nonce = c /\ r.slots = s
  BY <1>2, <1>3, <1>7 DEF Queues
<1>9. ASSUME NEW j \in 1 .. Len(s), s[j] # None
      PROVE  /\ s[j].sender = a /\ s[j].nonce = c + j - 1
             /\ \E l \in 1 .. Len(q.slots) : s[j] = q.slots[l] /\ q.confirmed_nonce + l - 1 \notin N
  <2>1. /\ d + j \in 1 .. Len(q.slots) /\ s[j] = q.slots[d + j]
        /\ q.confirmed_nonce + (d + j) - 1 \notin N
    BY <1>4, <1>5, <1>7, <1>9
  <2>2. s[j].sender = a /\ s[j].nonce = q.confirmed_nonce + (d + j) - 1
    BY <2>1, <1>9 DEF Aligned
  <2> QED
    BY <1>1, <1>6, <2>1, <2>2
<1>10. Aligned(a, r)
  BY <1>8, <1>9 DEF Aligned
<1> HIDE DEF r
<1> QED
  BY <1>2, <1>4, <1>7, <1>8, <1>9, <1>10 DEF r

\* The queue with a slot emptied.
Emptied(q, k) == [q EXCEPT !.slots = [q.slots EXCEPT ![k] = None]]

\* An evicted transaction leaves an empty slot.
LEMMA EmptiedQueue ==
  ASSUME NEW a, NEW q \in Queues, Aligned(a, q), NEW k \in 1 .. Len(q.slots)
  PROVE  LET r == Emptied(q, k)
         IN /\ r \in Queues
            /\ Aligned(a, r)
            /\ r.confirmed_nonce = q.confirmed_nonce
            /\ Len(r.slots) = Len(q.slots)
            /\ \A j \in 1 .. Len(r.slots) :
                 r.slots[j] # None => j # k /\ r.slots[j] = q.slots[j]
<1> DEFINE f == [q.slots EXCEPT ![k] = None]
           r == Emptied(q, k)
<1>1. q.slots \in Seq(Slots) /\ None \in Slots
  BY DEF Queues, Slots
<1>2. /\ f \in Seq(Slots) /\ Len(f) = Len(q.slots)
      /\ \A j \in 1 .. Len(q.slots) : f[j] = IF j = k THEN None ELSE q.slots[j]
  BY <1>1, ExceptSlot
<1>3. r = [q EXCEPT !.slots = f]
  BY DEF Emptied
<1> HIDE DEF f, r
<1>4. r \in Queues /\ r.confirmed_nonce = q.confirmed_nonce /\ r.slots = f
  BY <1>2, <1>3 DEF Queues
<1>5. \A j \in 1 .. Len(f) : f[j] # None => j # k /\ f[j] = q.slots[j]
  BY <1>2
<1>6. Aligned(a, r)
  BY <1>2, <1>4, <1>5 DEF Aligned
<1> QED
  BY <1>2, <1>4, <1>5, <1>6 DEF f, r

\* The slot of a nonce, and the nonce of a slot.
LEMMA SlotOfNonce ==
  ASSUME NEW a, NEW q \in Queues, Aligned(a, q)
  PROVE  /\ \A n \in Nat : SlotAt(q, n) # None =>
              /\ SlotIndex(q, n) \in 1 .. Len(q.slots)
              /\ SlotAt(q, n) = q.slots[SlotIndex(q, n)]
              /\ SlotAt(q, n) \in PendingTx
              /\ SlotAt(q, n).sender = a /\ SlotAt(q, n).nonce = n
         /\ \A k \in 1 .. Len(q.slots) : q.slots[k] # None =>
              /\ q.slots[k] \in PendingTx
              /\ q.slots[k].sender = a
              /\ q.slots[k].nonce \in Nat
              /\ q.slots[k].nonce >= q.confirmed_nonce
              /\ SlotIndex(q, q.slots[k].nonce) = k
              /\ SlotAt(q, q.slots[k].nonce) = q.slots[k]
<1>1. /\ q.confirmed_nonce \in Nat /\ Len(q.slots) \in Nat
      /\ DOMAIN q.slots = 1 .. Len(q.slots)
      /\ \A k \in 1 .. Len(q.slots) : q.slots[k] \in PendingTx \cup {None}
  BY LenProperties, ElementOfSeq DEF Queues, Slots
<1>2. ASSUME NEW n \in Nat, SlotAt(q, n) # None
      PROVE  /\ SlotIndex(q, n) \in 1 .. Len(q.slots)
             /\ SlotAt(q, n) = q.slots[SlotIndex(q, n)]
             /\ SlotAt(q, n) \in PendingTx
             /\ SlotAt(q, n).sender = a /\ SlotAt(q, n).nonce = n
  <2>1. SlotIndex(q, n) \in 1 .. Len(q.slots) /\ SlotAt(q, n) = q.slots[SlotIndex(q, n)]
    BY <1>1, <1>2 DEF SlotAt
  <2>2. q.confirmed_nonce + SlotIndex(q, n) - 1 = n
    BY <1>1 DEF SlotIndex
  <2> QED
    BY <1>1, <1>2, <2>1, <2>2 DEF Aligned
<1>3. ASSUME NEW k \in 1 .. Len(q.slots), q.slots[k] # None
      PROVE  /\ q.slots[k] \in PendingTx
             /\ q.slots[k].sender = a
             /\ q.slots[k].nonce \in Nat
             /\ q.slots[k].nonce >= q.confirmed_nonce
             /\ SlotIndex(q, q.slots[k].nonce) = k
             /\ SlotAt(q, q.slots[k].nonce) = q.slots[k]
  <2>1. /\ q.slots[k] \in PendingTx /\ q.slots[k].sender = a
        /\ q.slots[k].nonce = q.confirmed_nonce + k - 1
    BY <1>1, <1>3 DEF Aligned
  <2>2. /\ q.slots[k].nonce \in Nat /\ q.slots[k].nonce >= q.confirmed_nonce
        /\ SlotIndex(q, q.slots[k].nonce) = k
    BY <1>1, <2>1 DEF SlotIndex
  <2> QED
    BY <1>1, <2>1, <2>2 DEF SlotAt
<1> QED
  BY <1>2, <1>3

-----------------------------------------------------------------------------
(* Lemmas about keys *)

\* The order of the indexes is total.
LEMMA PrecedesOrder ==
  ASSUME NEW k \in Keys, NEW l \in Keys, NEW m \in Keys
  PROVE  /\ k # l => Precedes(k, l) \/ Precedes(l, k)
         /\ Precedes(k, l) /\ Precedes(l, m) => Precedes(k, m)
         /\ ~ Precedes(k, k)
<1>1. /\ k.fee \in Nat /\ l.fee \in Nat /\ m.fee \in Nat
      /\ k.addr \in Nat /\ l.addr \in Nat /\ m.addr \in Nat
      /\ k.nonce \in Nat /\ l.nonce \in Nat /\ m.nonce \in Nat
  BY MempoolTrackerAssumption DEF Keys
<1>2. k.fee = l.fee /\ k.addr = l.addr /\ k.nonce = l.nonce => k = l
  BY DEF Keys
<1> QED
  BY <1>1, <1>2 DEF Precedes

\* A finite set of keys that is not empty has a first one: what the eviction pops
\* is a key of the index.
LEMMA FirstIsKey ==
  ASSUME NEW keys \in SUBSET Keys, IsFiniteSet(keys), keys # {}
  PROVE  First(keys) \in keys
<1> DEFINE HasFirst(X) == \E k \in X : \A l \in X \ {k} : Precedes(k, l)
           T == {X \in SUBSET keys : X # {} /\ ~ HasFirst(X)}
<1>1. CASE T = {}
  <2>1. HasFirst(keys)
    BY <1>1
  <2> QED
    BY <2>1 DEF First
<1>2. CASE T # {}
  <2>1. IsWellFoundedOn(StrictSubsetOrdering(keys), SUBSET keys)
    BY FS_StrictSubsetOrderingWellFounded, FS_FiniteSubsetsOfFinite
  <2>2. T \subseteq SUBSET keys
    OBVIOUS
  <2>3. PICK X \in T : \A Y \in T : ~(<<Y, X>> \in StrictSubsetOrdering(keys))
    <3> HIDE DEF T
    <3> QED
      BY <1>2, <2>1, <2>2, WFMin, Zenon
  <2>4. X \subseteq keys /\ X # {} /\ ~ HasFirst(X)
    BY <2>3
  <2>5. PICK x \in X : TRUE
    BY <2>4
  <2>6. CASE X \ {x} = {}
    BY <2>4, <2>5, <2>6
  <2>7. CASE X \ {x} # {}
    <3>1. <<X \ {x}, X>> \in StrictSubsetOrdering(keys)
      BY <2>4, <2>5 DEF StrictSubsetOrdering
    <3>2. X \ {x} \notin T
      BY <2>3, <3>1
    <3>3. PICK m \in X \ {x} : \A l \in (X \ {x}) \ {m} : Precedes(m, l)
      BY <2>4, <2>7, <3>2
    <3>4. x \in Keys /\ m \in Keys /\ X \subseteq Keys /\ x # m
      BY <2>4, <2>5, <3>3
    <3>5. CASE Precedes(x, m)
      <4>1. \A l \in X \ {x} : Precedes(x, l)
        BY <3>3, <3>4, <3>5, PrecedesOrder
      <4> QED
        BY <2>4, <2>5, <4>1
    <3>6. CASE Precedes(m, x)
      <4>1. \A l \in X \ {m} : Precedes(m, l)
        BY <3>3, <3>6
      <4> QED
        BY <2>4, <3>3, <4>1
    <3> QED
      BY <3>4, <3>5, <3>6, PrecedesOrder
  <2> QED
    BY <2>6, <2>7
<1> QED
  BY <1>1, <1>2

-----------------------------------------------------------------------------
(* The inductive invariant *)

Inner ==
  [account_queues : UNION {[A -> Queues] : A \in SUBSET Addresses},
   base_fee_eligibility : SUBSET Keys, priority_queue : SUBSET Keys,
   current_base_fee : Nat]

\* What holds of one account's queue.
QueueInv(i, a) ==
  LET q == i.account_queues[a]
  IN /\ q \in Queues
     /\ Len(q.slots) <= per_account_capacity
     /\ Aligned(a, q)
     /\ \A k \in 1 .. Len(q.slots) :
          q.slots[k] # None =>
            Key(q.slots[k].max_fee_per_gas, q.slots[k]) \in i.base_fee_eligibility

\* What holds of a key of priority_queue.
KeyInv(i, k) ==
  /\ k.addr \in DOMAIN i.account_queues
  /\ k.nonce >= i.account_queues[k.addr].confirmed_nonce

\* What holds of MempoolInner.  Both indexes are finite: the first key of one that
\* is not empty exists, and the keys before a transaction can be counted.
InnerInv(i) ==
  /\ i \in Inner
  /\ \A a \in DOMAIN i.account_queues : QueueInv(i, a)
  /\ IsFiniteSet(i.base_fee_eligibility)
  /\ IsFiniteSet(i.priority_queue)
  /\ \A k \in i.priority_queue : KeyInv(i, k)

\* The invariant: after a block, priority_queue is the one rebuilt.
IInv ==
  /\ InnerInv(inner)
  /\ chain_nonce \in [Addresses -> Nat]
  /\ last_event = "block" => inner.priority_queue = Rebuild(inner)

-----------------------------------------------------------------------------
(* Lemmas about MempoolInner *)

\* Slot k of queue q holds a transaction of account a, in the place of its nonce.
InPlace(a, q, k) ==
  LET tx == q.slots[k]
  IN /\ tx \in PendingTx /\ tx.sender = a /\ tx.nonce \in Nat
     /\ tx.nonce >= q.confirmed_nonce
     /\ SlotIndex(q, tx.nonce) = k /\ SlotAt(q, tx.nonce) = tx

\* So does every slot in use.
LEMMA SlotInQueue ==
  ASSUME NEW i, NEW a \in DOMAIN i.account_queues, QueueInv(i, a),
         NEW k \in 1 .. Len(i.account_queues[a].slots), i.account_queues[a].slots[k] # None
  PROVE  InPlace(a, i.account_queues[a], k)
<1> DEFINE q == i.account_queues[a]
<1>1. q \in Queues /\ Aligned(a, q)
  BY DEF QueueInv
<1>2. k \in 1 .. Len(q.slots) /\ q.slots[k] # None
  OBVIOUS
<1> HIDE DEF q
<1>3. /\ q.slots[k] \in PendingTx /\ q.slots[k].sender = a /\ q.slots[k].nonce \in Nat
      /\ q.slots[k].nonce >= q.confirmed_nonce
      /\ SlotIndex(q, q.slots[k].nonce) = k /\ SlotAt(q, q.slots[k].nonce) = q.slots[k]
  BY <1>1, <1>2, SlotOfNonce
<1> QED
  BY <1>3 DEF q, InPlace

\* The fields of an Inner.
LEMMA InnerFields ==
  ASSUME NEW i \in Inner
  PROVE  /\ DOMAIN i.account_queues \subseteq Addresses
         /\ i.account_queues \in [DOMAIN i.account_queues -> Queues]
         /\ i.base_fee_eligibility \subseteq Keys
         /\ i.priority_queue \subseteq Keys
         /\ i.current_base_fee \in Nat
<1>1. /\ i.account_queues \in UNION {[A -> Queues] : A \in SUBSET Addresses}
      /\ i.base_fee_eligibility \subseteq Keys
      /\ i.priority_queue \subseteq Keys
      /\ i.current_base_fee \in Nat
  BY DEF Inner
<1>2. PICK A \in SUBSET Addresses : i.account_queues \in [A -> Queues]
  BY <1>1
<1> QED
  BY <1>1, <1>2

\* The effective priority fee is a number, never negative.
LEMMA EffectiveFee ==
  ASSUME NEW i, i.current_base_fee \in Nat, NEW tx \in PendingTx
  PROVE  /\ effective_priority_fee(i, tx) \in Nat
         /\ Key(effective_priority_fee(i, tx), tx) \in Keys
         /\ Key(tx.max_fee_per_gas, tx) \in Keys
<1> DEFINE x == tx.max_priority_fee_per_gas
           l == tx.max_fee_per_gas - i.current_base_fee
           y == IF l < 0 THEN 0 ELSE l
<1>1. /\ x \in Nat /\ tx.max_fee_per_gas \in Nat
      /\ tx.sender \in Addresses /\ tx.nonce \in Nonces
  BY MempoolTrackerAssumption DEF PendingTx
<1>2. y \in Nat
  BY <1>1
<1>3. effective_priority_fee(i, tx) = Min({x, y})
  BY DEF effective_priority_fee
<1> HIDE DEF x, y
<1>4. \E m \in {x, y} : \A n \in {x, y} : m =< n
  BY <1>1, <1>2
<1>5. Min({x, y}) \in {x, y}
  BY <1>4 DEF Min
<1>6. effective_priority_fee(i, tx) \in Nat
  BY <1>1, <1>2, <1>3, <1>5
<1> QED
  BY <1>1, <1>6 DEF Key, Keys

\* The eviction keeps the invariant: the slot emptied and the key removed from
\* base_fee_eligibility are those of one transaction.
LEMMA EvictInv ==
  ASSUME NEW i, InnerInv(i), i.priority_queue # {}
  PROVE  InnerInv(Evict(i))
<1> DEFINE key == First(i.priority_queue)
           q == i.account_queues[key.addr]
           k == SlotIndex(q, key.nonce)
           evicted == SlotAt(q, key.nonce)
           popped == [i EXCEPT !.priority_queue = @ \ {key}]
           r == Emptied(q, k)
           e == Evict(i)
<1>1. /\ i \in Inner /\ IsFiniteSet(i.base_fee_eligibility) /\ IsFiniteSet(i.priority_queue)
      /\ \A a \in DOMAIN i.account_queues : QueueInv(i, a)
      /\ \A l \in i.priority_queue : KeyInv(i, l)
  BY DEF InnerInv
<1>2. /\ DOMAIN i.account_queues \subseteq Addresses
      /\ i.account_queues \in [DOMAIN i.account_queues -> Queues]
      /\ i.base_fee_eligibility \subseteq Keys
      /\ i.priority_queue \subseteq Keys
  BY <1>1, InnerFields
<1>3. key \in i.priority_queue
  BY <1>1, <1>2, FirstIsKey
<1> HIDE DEF key
<1>4. key.addr \in DOMAIN i.account_queues /\ key.nonce \in Nat
  BY <1>1, <1>2, <1>3, MempoolTrackerAssumption DEF KeyInv, Keys
<1>5. IsFiniteSet(i.priority_queue \ {key})
  BY <1>1, FS_RemoveElement
<1>6. CASE evicted = None
  <2>1. e = popped
    BY <1>6 DEF Evict, key
  <2>2. /\ e \in Inner /\ e.account_queues = i.account_queues
        /\ e.base_fee_eligibility = i.base_fee_eligibility
        /\ e.priority_queue = i.priority_queue \ {key}
    BY <1>1, <2>1 DEF Inner
  <2> HIDE DEF e
  <2>3. \A a \in DOMAIN e.account_queues : QueueInv(e, a)
    BY <1>1, <2>2 DEF QueueInv
  <2>4. \A l \in e.priority_queue : KeyInv(e, l)
    BY <1>1, <2>2 DEF KeyInv
  <2> QED
    BY <1>1, <1>5, <2>2, <2>3, <2>4 DEF InnerInv, e
<1>7. CASE evicted # None
  <2>1. QueueInv(i, key.addr)
    BY <1>1, <1>4
  <2>2. q \in Queues /\ Aligned(key.addr, q) /\ Len(q.slots) <= per_account_capacity
    BY <2>1 DEF QueueInv
  <2>3. /\ k \in 1 .. Len(q.slots) /\ evicted = q.slots[k]
        /\ evicted \in PendingTx /\ evicted.sender = key.addr /\ evicted.nonce = key.nonce
    BY <1>4, <1>7, <2>2, SlotOfNonce
  <2> HIDE DEF q, k
  <2>4. /\ r \in Queues /\ Aligned(key.addr, r)
        /\ r.confirmed_nonce = q.confirmed_nonce
        /\ Len(r.slots) = Len(q.slots)
        /\ \A j \in 1 .. Len(r.slots) : r.slots[j] # None => j # k /\ r.slots[j] = q.slots[j]
    BY <2>2, <2>3, EmptiedQueue
  <2> USE DEF q, k
  <2>5. e = [popped EXCEPT
               !.base_fee_eligibility = @ \ {Key(evicted.max_fee_per_gas, evicted)},
               !.account_queues[key.addr].slots[k] = None]
    BY <1>7 DEF Evict, key
  <2>6. /\ e.account_queues = [i.account_queues EXCEPT ![key.addr] = r]
        /\ e.base_fee_eligibility =
             i.base_fee_eligibility \ {Key(evicted.max_fee_per_gas, evicted)}
        /\ e.priority_queue = i.priority_queue \ {key}
        /\ e.current_base_fee = i.current_base_fee
        /\ e = [account_queues |-> e.account_queues,
                base_fee_eligibility |-> e.base_fee_eligibility,
                priority_queue |-> e.priority_queue,
                current_base_fee |-> e.current_base_fee]
    BY <1>1, <1>4, <2>5 DEF Inner, Emptied
  <2> HIDE DEF e, r, k, q, evicted
  <2>7. /\ DOMAIN e.account_queues = DOMAIN i.account_queues
        /\ e.account_queues \in [DOMAIN i.account_queues -> Queues]
        /\ e.account_queues[key.addr] = r
        /\ \A a \in DOMAIN i.account_queues :
             a # key.addr => e.account_queues[a] = i.account_queues[a]
    BY <1>2, <1>4, <2>4, <2>6
  <2>8. e \in Inner
    <3>1. /\ e.account_queues \in UNION {[A -> Queues] : A \in SUBSET Addresses}
          /\ e.base_fee_eligibility \in SUBSET Keys /\ e.priority_queue \in SUBSET Keys
          /\ e.current_base_fee \in Nat
      BY <1>1, <1>2, <2>6, <2>7, InnerFields
    <3> QED
      BY <2>6, <3>1 DEF Inner
  <2>9. ASSUME NEW a \in DOMAIN i.account_queues PROVE QueueInv(e, a)
    <3>1. CASE a = key.addr
      <4>1. ASSUME NEW j \in 1 .. Len(r.slots), r.slots[j] # None
            PROVE  Key(r.slots[j].max_fee_per_gas, r.slots[j]) \in e.base_fee_eligibility
        <5>1. j # k /\ j \in 1 .. Len(q.slots) /\ r.slots[j] = q.slots[j]
          BY <2>4, <4>1
        <5>2. Key(q.slots[j].max_fee_per_gas, q.slots[j]) \in i.base_fee_eligibility
          BY <2>1, <4>1, <5>1 DEF QueueInv, q
        <5>3. q.slots[j].nonce # evicted.nonce
          BY <2>2, <2>3, <4>1, <5>1, SlotOfNonce, <1>7
        <5>4. Key(q.slots[j].max_fee_per_gas, q.slots[j]) # Key(evicted.max_fee_per_gas, evicted)
          BY <5>3 DEF Key
        <5> QED
          BY <2>6, <5>1, <5>2, <5>4
      <4> QED
        BY <2>2, <2>4, <2>7, <3>1, <4>1 DEF QueueInv
    <3>2. CASE a # key.addr
      <4>1. QueueInv(i, a) /\ e.account_queues[a] = i.account_queues[a]
        BY <1>1, <2>7, <3>2
      <4> DEFINE p == i.account_queues[a]
      <4>2. p \in Queues /\ Aligned(a, p) /\ Len(p.slots) <= per_account_capacity
        BY <4>1 DEF QueueInv
      <4>3. ASSUME NEW j \in 1 .. Len(p.slots), p.slots[j] # None
            PROVE  Key(p.slots[j].max_fee_per_gas, p.slots[j]) \in e.base_fee_eligibility
        <5>1. Key(p.slots[j].max_fee_per_gas, p.slots[j]) \in i.base_fee_eligibility
          BY <4>1, <4>3 DEF QueueInv
        <5>2. p.slots[j].sender = a
          BY <4>2, <4>3, SlotOfNonce
        <5>3. Key(p.slots[j].max_fee_per_gas, p.slots[j]) # Key(evicted.max_fee_per_gas, evicted)
          BY <2>3, <3>2, <5>2 DEF Key
        <5> QED
          BY <2>6, <5>1, <5>3
      <4> QED
        BY <4>1, <4>2, <4>3 DEF QueueInv
    <3> QED
      BY <3>1, <3>2
  <2>10. ASSUME NEW l \in e.priority_queue PROVE KeyInv(e, l)
    <3>1. KeyInv(i, l)
      BY <1>1, <2>6
    <3> QED
      BY <2>4, <2>7, <3>1 DEF KeyInv, q
  <2>11. IsFiniteSet(e.base_fee_eligibility)
    BY <1>1, <2>6, FS_RemoveElement
  <2> QED
    BY <1>5, <2>6, <2>7, <2>8, <2>9, <2>10, <2>11 DEF InnerInv, e
<1> QED
  BY <1>6, <1>7

\* Placing a transaction keeps the invariant.
LEMMA PlaceInv ==
  ASSUME NEW i, InnerInv(i), NEW tx \in PendingTx
  PROVE  InnerInv(Place(i, tx))
<1> DEFINE q == QueueFor(i, tx)
           k == SlotIndex(q, tx.nonce)
           r == Filled(q, tx)
           p == Place(i, tx)
           c == tx.sender
           key == Key(effective_priority_fee(i, tx), tx)
           max == Key(tx.max_fee_per_gas, tx)
<1>1. /\ i \in Inner /\ IsFiniteSet(i.base_fee_eligibility) /\ IsFiniteSet(i.priority_queue)
      /\ \A a \in DOMAIN i.account_queues : QueueInv(i, a)
      /\ \A l \in i.priority_queue : KeyInv(i, l)
  BY DEF InnerInv
<1>2. /\ DOMAIN i.account_queues \subseteq Addresses
      /\ i.account_queues \in [DOMAIN i.account_queues -> Queues]
      /\ i.base_fee_eligibility \subseteq Keys
      /\ i.priority_queue \subseteq Keys
      /\ i.current_base_fee \in Nat
  BY <1>1, InnerFields
<1>3. tx.nonce \in Nat /\ c \in Addresses /\ per_account_capacity \in Nat
  BY MempoolTrackerAssumption DEF PendingTx
<1>4. key \in Keys /\ max \in Keys
  BY <1>2, EffectiveFee
<1>5. /\ q \in Queues /\ Aligned(c, q) /\ q.confirmed_nonce <= tx.nonce
      /\ c \in DOMAIN i.account_queues =>
           q.confirmed_nonce <= i.account_queues[c].confirmed_nonce
      /\ \A j \in 1 .. Len(q.slots) :
           q.slots[j] # None =>
             Key(q.slots[j].max_fee_per_gas, q.slots[j]) \in i.base_fee_eligibility
  <2> DEFINE o == IF c \in DOMAIN i.account_queues THEN i.account_queues[c]
                  ELSE [confirmed_nonce |-> tx.nonce, slots |-> <<>>]
  <2>1. q = Shifted(o, tx.nonce)
    BY DEF QueueFor
  <2>2. /\ o \in Queues /\ Aligned(c, o)
        /\ \A j \in 1 .. Len(o.slots) :
             o.slots[j] # None =>
               Key(o.slots[j].max_fee_per_gas, o.slots[j]) \in i.base_fee_eligibility
    <3>1. CASE c \in DOMAIN i.account_queues
      BY <1>1, <3>1 DEF QueueInv
    <3>2. CASE c \notin DOMAIN i.account_queues
      <4>1. o = [confirmed_nonce |-> tx.nonce, slots |-> <<>>]
        BY <3>2
      <4> HIDE DEF o
      <4>2. <<>> \in Seq(Slots) /\ Len(<<>>) = 0
        BY EmptySeq
      <4>3. o \in Queues /\ o.slots = <<>>
        BY <1>3, <4>1, <4>2 DEF Queues
      <4>4. 1 .. Len(o.slots) = {}
        BY <4>2, <4>3
      <4> QED
        BY <4>3, <4>4 DEF Aligned
    <3> QED
      BY <3>1, <3>2
  <2>3. c \in DOMAIN i.account_queues => o = i.account_queues[c]
    OBVIOUS
  <2> HIDE DEF o
  <2>4. /\ q \in Queues /\ Aligned(c, q)
        /\ q.confirmed_nonce <= tx.nonce /\ q.confirmed_nonce <= o.confirmed_nonce
        /\ \A j \in 1 .. Len(q.slots) :
             q.slots[j] # None => \E l \in 1 .. Len(o.slots) : q.slots[j] = o.slots[l]
    BY <1>3, <2>1, <2>2, ShiftedQueue
  <2> HIDE DEF q
  <2> QED
    BY <2>2, <2>3, <2>4
<1> HIDE DEF q
<1>6. CASE OverCapacity(Len(q.slots), k)
  BY <1>6 DEF Place, q
<1>7. CASE ~OverCapacity(Len(q.slots), k)
  <2>1. /\ r \in Queues /\ Aligned(c, r)
        /\ r.confirmed_nonce = q.confirmed_nonce
        /\ Len(r.slots) = IF k > Len(q.slots) THEN k ELSE Len(q.slots)
        /\ \A j \in 1 .. Len(r.slots) :
             r.slots[j] # None =>
               r.slots[j] = tx \/ (j \in 1 .. Len(q.slots) /\ r.slots[j] = q.slots[j])
    BY <1>5, FilledQueue
  <2>2. Len(r.slots) <= per_account_capacity
    <3>1. Len(q.slots) \in Nat /\ k \in Int
      BY <1>3, <1>5, LenProperties DEF Queues, SlotIndex
    <3> QED
      BY <1>3, <1>7, <2>1, <3>1 DEF OverCapacity
  <2>3. p = [i EXCEPT
               !.account_queues = [a \in DOMAIN @ \cup {c} |-> IF a = c THEN r ELSE @[a]],
               !.base_fee_eligibility = @ \cup {max},
               !.priority_queue = @ \cup {key}]
    BY <1>7 DEF Place, q
  <2> HIDE DEF r, key, max, k
  <2>4. /\ p.account_queues =
             [a \in DOMAIN i.account_queues \cup {c} |->
                IF a = c THEN r ELSE i.account_queues[a]]
        /\ p.base_fee_eligibility = i.base_fee_eligibility \cup {max}
        /\ p.priority_queue = i.priority_queue \cup {key}
        /\ p.current_base_fee = i.current_base_fee
        /\ p = [account_queues |-> p.account_queues,
                base_fee_eligibility |-> p.base_fee_eligibility,
                priority_queue |-> p.priority_queue,
                current_base_fee |-> p.current_base_fee]
    BY <1>1, <2>3 DEF Inner
  <2> HIDE DEF p
  <2>5. /\ DOMAIN p.account_queues = DOMAIN i.account_queues \cup {c}
        /\ DOMAIN p.account_queues \in SUBSET Addresses
        /\ p.account_queues \in [DOMAIN p.account_queues -> Queues]
        /\ p.account_queues[c] = r
        /\ \A a \in DOMAIN i.account_queues :
             a # c => p.account_queues[a] = i.account_queues[a]
    BY <1>2, <1>3, <2>1, <2>4
  <2>6. p \in Inner
    <3>1. /\ p.account_queues \in UNION {[A -> Queues] : A \in SUBSET Addresses}
          /\ p.base_fee_eligibility \in SUBSET Keys /\ p.priority_queue \in SUBSET Keys
          /\ p.current_base_fee \in Nat
      BY <1>2, <1>4, <2>4, <2>5
    <3> QED
      BY <2>4, <3>1 DEF Inner
  <2>7. ASSUME NEW a \in DOMAIN p.account_queues PROVE QueueInv(p, a)
    <3>1. CASE a = c
      <4>1. \A j \in 1 .. Len(r.slots) :
              r.slots[j] # None =>
                Key(r.slots[j].max_fee_per_gas, r.slots[j]) \in p.base_fee_eligibility
        BY <1>5, <2>1, <2>4 DEF max
      <4> QED
        BY <2>1, <2>2, <2>5, <3>1, <4>1 DEF QueueInv
    <3>2. CASE a # c
      <4>1. QueueInv(i, a) /\ p.account_queues[a] = i.account_queues[a]
        BY <1>1, <2>5, <3>2
      <4> QED
        BY <2>4, <4>1 DEF QueueInv
    <3> QED
      BY <3>1, <3>2
  <2>8. ASSUME NEW l \in p.priority_queue PROVE KeyInv(p, l)
    <3>1. CASE l = key
      <4>1. l.addr = c /\ l.nonce = tx.nonce
        BY <3>1 DEF key, Key
      <4> QED
        BY <1>5, <2>1, <2>5, <4>1 DEF KeyInv, Queues
    <3>2. CASE l \in i.priority_queue
      <4>1. /\ l.addr \in DOMAIN i.account_queues /\ l.nonce \in Nat
            /\ l.nonce >= i.account_queues[l.addr].confirmed_nonce
        BY <1>1, <1>2, <3>2, MempoolTrackerAssumption DEF KeyInv, Keys
      <4>2. CASE l.addr = c
        <5>1. q.confirmed_nonce \in Nat /\ i.account_queues[c].confirmed_nonce \in Nat
          BY <1>2, <1>5, <4>1, <4>2 DEF Queues
        <5> QED
          BY <1>5, <2>1, <2>5, <4>1, <4>2, <5>1 DEF KeyInv
      <4>3. CASE l.addr # c
        BY <2>5, <4>1, <4>3 DEF KeyInv
      <4> QED
        BY <4>2, <4>3
    <3> QED
      BY <2>4, <3>1, <3>2
  <2>9. IsFiniteSet(p.base_fee_eligibility) /\ IsFiniteSet(p.priority_queue)
    <3>1. IsFiniteSet(i.base_fee_eligibility) /\ IsFiniteSet(i.priority_queue)
      BY <1>1
    <3>2. IsFiniteSet(i.base_fee_eligibility \cup {max}) /\ IsFiniteSet(i.priority_queue \cup {key})
      BY <3>1, FS_AddElement
    <3> QED
      BY <2>4, <3>2
  <2> QED
    BY <2>6, <2>7, <2>8, <2>9 DEF InnerInv, p
<1> QED
  BY <1>6, <1>7

\* insert keeps the invariant.
LEMMA InsertInv ==
  ASSUME NEW i, InnerInv(i), NEW tx \in PendingTx
  PROVE  InnerInv(insert(i, tx))
<1>1. i.priority_queue # {} => InnerInv(Place(Evict(i), tx))
  BY EvictInv, PlaceInv
<1> QED
  BY <1>1, PlaceInv DEF insert

\* What Rebuild collects: the keys of the slots that end a payable prefix.
LEMMA RebuildKeys ==
  ASSUME NEW i, \A a \in DOMAIN i.account_queues : i.account_queues[a] \in Queues
  PROVE  \A key :
           key \in Rebuild(i) <=>
             \E a \in DOMAIN i.account_queues :
               \E k \in 1 .. Len(i.account_queues[a].slots) :
                 /\ \A j \in 1 .. k : Payable(i, i.account_queues[a].slots[j])
                 /\ key = Key(effective_priority_fee(i, i.account_queues[a].slots[k]),
                              i.account_queues[a].slots[k])
<1>1. \A a \in DOMAIN i.account_queues :
        DOMAIN i.account_queues[a].slots = 1 .. Len(i.account_queues[a].slots)
  BY LenProperties DEF Queues
<1> DEFINE U == UNION {{q.slots[k] : k \in {k \in DOMAIN q.slots :
                                            \A j \in 1 .. k : Payable(i, q.slots[j])}}
                       : q \in {i.account_queues[a] : a \in DOMAIN i.account_queues}}
<1>2. \A tx :
        tx \in U <=>
          \E a \in DOMAIN i.account_queues :
            \E k \in 1 .. Len(i.account_queues[a].slots) :
              /\ \A j \in 1 .. k : Payable(i, i.account_queues[a].slots[j])
              /\ tx = i.account_queues[a].slots[k]
  BY <1>1
<1>3. Rebuild(i) = {Key(effective_priority_fee(i, tx), tx) : tx \in U}
  BY DEF Rebuild
<1> HIDE DEF U
<1>4. \A key : key \in Rebuild(i) <=>
        \E tx \in U : key = Key(effective_priority_fee(i, tx), tx)
  BY <1>3
<1>5. ASSUME NEW key, key \in Rebuild(i)
      PROVE  \E a \in DOMAIN i.account_queues :
               \E k \in 1 .. Len(i.account_queues[a].slots) :
                 /\ \A j \in 1 .. k : Payable(i, i.account_queues[a].slots[j])
                 /\ key = Key(effective_priority_fee(i, i.account_queues[a].slots[k]),
                              i.account_queues[a].slots[k])
  <2>1. PICK tx \in U : key = Key(effective_priority_fee(i, tx), tx)
    BY <1>4, <1>5
  <2> QED
    BY <1>2, <2>1
<1>6. ASSUME NEW key, NEW a \in DOMAIN i.account_queues,
             NEW k \in 1 .. Len(i.account_queues[a].slots),
             \A j \in 1 .. k : Payable(i, i.account_queues[a].slots[j]),
             key = Key(effective_priority_fee(i, i.account_queues[a].slots[k]),
                       i.account_queues[a].slots[k])
      PROVE  key \in Rebuild(i)
  <2>1. i.account_queues[a].slots[k] \in U
    BY <1>2, <1>6
  <2> QED
    BY <1>4, <1>6, <2>1
<1> QED
  BY <1>5, <1>6

\* The index that is rebuilt: every key is that of a tracked transaction, there
\* are finitely many, and none is below its account's confirmed_nonce.
LEMMA RebuildInv ==
  ASSUME NEW i \in Inner, IsFiniteSet(i.base_fee_eligibility),
         \A a \in DOMAIN i.account_queues : QueueInv(i, a)
  PROVE  /\ Rebuild(i) \subseteq Keys
         /\ IsFiniteSet(Rebuild(i))
         /\ \A key \in Rebuild(i) :
              LET tx == SlotAt(i.account_queues[key.addr], key.nonce)
              IN /\ KeyInv(i, key)
                 /\ tx # None /\ tx \in PendingTx
                 /\ key = Key(effective_priority_fee(i, tx), tx)
                 /\ Key(tx.max_fee_per_gas, tx) \in i.base_fee_eligibility
<1> DEFINE Tx(key) == SlotAt(i.account_queues[key.addr], key.nonce)
<1>1. /\ DOMAIN i.account_queues \subseteq Addresses
      /\ \A a \in DOMAIN i.account_queues : i.account_queues[a] \in Queues
      /\ i.current_base_fee \in Nat
  BY InnerFields
<1>2. ASSUME NEW key \in Rebuild(i)
      PROVE  /\ key \in Keys /\ KeyInv(i, key)
             /\ Tx(key) # None /\ Tx(key) \in PendingTx
             /\ key = Key(effective_priority_fee(i, Tx(key)), Tx(key))
             /\ Key(Tx(key).max_fee_per_gas, Tx(key)) \in i.base_fee_eligibility
  <2>0. PICK a \in DOMAIN i.account_queues :
          \E k \in 1 .. Len(i.account_queues[a].slots) :
            /\ \A j \in 1 .. k : Payable(i, i.account_queues[a].slots[j])
            /\ key = Key(effective_priority_fee(i, i.account_queues[a].slots[k]),
                         i.account_queues[a].slots[k])
    BY <1>1, <1>2, RebuildKeys, Zenon
  <2>1. PICK k \in 1 .. Len(i.account_queues[a].slots) :
          /\ \A j \in 1 .. k : Payable(i, i.account_queues[a].slots[j])
          /\ key = Key(effective_priority_fee(i, i.account_queues[a].slots[k]),
                       i.account_queues[a].slots[k])
    BY <2>0
  <2> DEFINE q == i.account_queues[a]
             tx == q.slots[k]
  <2>2. q \in Queues /\ Aligned(a, q)
    BY <2>1 DEF QueueInv
  <2>3. tx # None
    <3>1. Len(q.slots) \in Nat
      BY <2>2, LenProperties DEF Queues
    <3>2. k \in 1 .. k
      BY <2>1, <3>1
    <3> QED
      BY <2>1, <3>2 DEF Payable
  <2>4. /\ tx \in PendingTx /\ tx.sender = a /\ tx.nonce \in Nat
        /\ tx.nonce >= q.confirmed_nonce /\ SlotAt(q, tx.nonce) = tx
    <3>1. InPlace(a, i.account_queues[a], k)
      BY <2>3, SlotInQueue
    <3> QED
      BY <3>1 DEF InPlace
  <2>5. Key(tx.max_fee_per_gas, tx) \in i.base_fee_eligibility
    BY <2>1, <2>3 DEF QueueInv
  <2>6. key.addr = a /\ key.nonce = tx.nonce
    BY <2>1, <2>4 DEF Key
  <2>7. key \in Keys
    BY <1>1, <2>1, <2>4, EffectiveFee
  <2>8. Tx(key) = tx
    BY <2>4, <2>6
  <2>9. KeyInv(i, key)
    BY <2>1, <2>4, <2>6 DEF KeyInv
  <2> QED
    BY <2>1, <2>3, <2>4, <2>5, <2>7, <2>8, <2>9, Zenon
<1>3. IsFiniteSet(Rebuild(i))
  <2> DEFINE g == [key \in Rebuild(i) |-> Key(Tx(key).max_fee_per_gas, Tx(key))]
  <2>1. g \in [Rebuild(i) -> i.base_fee_eligibility]
    BY <1>2
  <2>2. ASSUME NEW k1 \in Rebuild(i), NEW k2 \in Rebuild(i), g[k1] = g[k2]
        PROVE  k1 = k2
    <3>1. /\ Key(Tx(k1).max_fee_per_gas, Tx(k1)) = Key(Tx(k2).max_fee_per_gas, Tx(k2))
          /\ k1 = Key(effective_priority_fee(i, Tx(k1)), Tx(k1))
          /\ k2 = Key(effective_priority_fee(i, Tx(k2)), Tx(k2))
      BY <1>2, <2>2
    <3> HIDE DEF Tx
    <3>2. k1.addr = k2.addr /\ k1.nonce = k2.nonce
      BY <3>1 DEF Key
    <3>3. Tx(k1) = Tx(k2)
      BY <3>2 DEF Tx
    <3> QED
      BY <3>1, <3>3
  <2>3. g \in Injection(Rebuild(i), i.base_fee_eligibility)
    <3> HIDE DEF g
    <3> QED
      BY <2>1, <2>2 DEF Injection, IsInjective
  <2> QED
    BY <2>3, FS_Injection
<1> QED
  BY <1>2, <1>3

\* Rebuild looks at the queues and the base fee, not at the index it replaces.
LEMMA RebuildSame ==
  ASSUME NEW i, \A a \in DOMAIN i.account_queues : i.account_queues[a] \in Queues,
         NEW h, h.account_queues = i.account_queues,
         h.current_base_fee = i.current_base_fee
  PROVE  Rebuild(h) = Rebuild(i)
<1>1. \A tx : effective_priority_fee(h, tx) = effective_priority_fee(i, tx)
  BY DEF effective_priority_fee
<1>2. \A tx : Payable(h, tx) <=> Payable(i, tx)
  BY <1>1 DEF Payable
<1>3. \A key :
        key \in Rebuild(i) <=>
          \E a \in DOMAIN i.account_queues :
            \E k \in 1 .. Len(i.account_queues[a].slots) :
              /\ \A j \in 1 .. k : Payable(i, i.account_queues[a].slots[j])
              /\ key = Key(effective_priority_fee(i, i.account_queues[a].slots[k]),
                           i.account_queues[a].slots[k])
  BY RebuildKeys
<1>4. \A a \in DOMAIN h.account_queues : h.account_queues[a] \in Queues
  OBVIOUS
<1>5. \A key :
        key \in Rebuild(h) <=>
          \E a \in DOMAIN h.account_queues :
            \E k \in 1 .. Len(h.account_queues[a].slots) :
              /\ \A j \in 1 .. k : Payable(h, h.account_queues[a].slots[j])
              /\ key = Key(effective_priority_fee(h, h.account_queues[a].slots[k]),
                           h.account_queues[a].slots[k])
  BY <1>4, RebuildKeys
<1>6. \A key : key \in Rebuild(h) <=> key \in Rebuild(i)
  BY <1>1, <1>2, <1>3, <1>5, ZenonT(30)
<1> QED
  BY <1>6

\* Sets of nonces that a block can include.
Inclusion(N) == N \subseteq Nat /\ (N = {} \/ \E h \in N : \A n \in N : n <= h)

\* The nonces of one account in a block: up to the one before the account's nonce
\* after it.
LEMMA BetweenNonces ==
  ASSUME NEW from \in [Addresses -> Nat], NEW to \in [Addresses -> Nonces],
         NEW a \in Addresses
  PROVE  LET N == NoncesOf(Between(from, to), a)
         IN /\ Inclusion(N)
            /\ to[a] > from[a] => to[a] - 1 \in N
<1> DEFINE N == NoncesOf(Between(from, to), a)
<1>1. /\ from[a] \in Nat /\ to[a] \in Nonces /\ to[a] \in Nat /\ Nonces \subseteq Nat
      /\ \A n \in Nonces : 0 .. n \subseteq Nonces
  BY MempoolTrackerAssumption
<1>2. \A n : n \in N <=> n \in Nonces /\ from[a] <= n /\ n < to[a]
  <2>1. ASSUME NEW n \in N PROVE n \in Nonces /\ from[a] <= n /\ n < to[a]
    BY <2>1 DEF NoncesOf, Between
  <2>2. ASSUME NEW n \in Nonces, from[a] <= n, n < to[a] PROVE n \in N
    <3> DEFINE tx == [sender |-> a, nonce |-> n]
    <3>1. tx \in Between(from, to) /\ tx.sender = a /\ tx.nonce = n
      BY <2>2 DEF Between
    <3> HIDE DEF tx
    <3> QED
      BY <3>1 DEF NoncesOf
  <2> QED
    BY <2>1, <2>2
<1> HIDE DEF N
<1>3. to[a] > from[a] => to[a] - 1 \in N
  <2>1. SUFFICES ASSUME to[a] > from[a] PROVE to[a] - 1 \in N
    OBVIOUS
  <2>2. to[a] - 1 \in 0 .. to[a] /\ from[a] <= to[a] - 1 /\ to[a] - 1 < to[a]
    BY <1>1, <2>1
  <2> QED
    BY <1>1, <1>2, <2>2
<1>4. CASE to[a] > from[a]
  <2>1. ASSUME NEW n \in N PROVE n <= to[a] - 1
    <3>1. n \in Nat /\ n < to[a]
      BY <1>1, <1>2
    <3> QED
      BY <1>1, <3>1
  <2> QED
    BY <1>1, <1>2, <1>3, <1>4, <2>1 DEF Inclusion, N
<1>5. CASE ~(to[a] > from[a])
  <2>1. ASSUME NEW n \in N PROVE FALSE
    <3>1. n \in Nat /\ from[a] <= n /\ n < to[a]
      BY <1>1, <1>2
    <3> QED
      BY <1>1, <1>5, <3>1
  <2> QED
    BY <1>5, <2>1 DEF Inclusion, N
<1> QED
  BY <1>4, <1>5

\* The transactions that leave the index of fees are those of the block.
LEMMA TakenKeys ==
  ASSUME NEW i, InnerInv(i), NEW included,
         \A a \in Addresses : Inclusion(NoncesOf(included, a)),
         NEW tx \in Taken(i, included)
  PROVE  /\ tx \in PendingTx
         /\ tx.nonce \in NoncesOf(included, tx.sender)
<1>1. tx # None /\ \E a \in DOMAIN i.account_queues :
                     \E n \in NoncesOf(included, a) : tx = SlotAt(i.account_queues[a], n)
  BY DEF Taken
<1>2. PICK a \in DOMAIN i.account_queues :
        \E n \in NoncesOf(included, a) : tx = SlotAt(i.account_queues[a], n)
  BY <1>1
<1>3. PICK n \in NoncesOf(included, a) : tx = SlotAt(i.account_queues[a], n)
  BY <1>2
<1>4. i.account_queues[a] \in Queues /\ Aligned(a, i.account_queues[a]) /\ a \in Addresses
  BY <1>2, InnerFields DEF InnerInv, QueueInv
<1>5. n \in Nat
  BY <1>3, <1>4 DEF Inclusion
<1>6. tx \in PendingTx /\ tx.sender = a /\ tx.nonce = n
  BY <1>1, <1>3, <1>4, <1>5, SlotOfNonce
<1> QED
  BY <1>3, <1>6

\* A block keeps the invariant, moves every queue past its transactions, and
\* leaves priority_queue rebuilt.
LEMMA ApplyBlockInv ==
  ASSUME NEW i, InnerInv(i), NEW included,
         \A a \in Addresses : Inclusion(NoncesOf(included, a)), NEW fee \in Nat
  PROVE  LET r == apply_block(i, included, fee)
         IN /\ InnerInv(r)
            /\ r.priority_queue = Rebuild(r)
            /\ \A a \in DOMAIN r.account_queues, n \in Nat :
                 n \in NoncesOf(included, a) => r.account_queues[a].confirmed_nonce > n
<1> DEFINE m == Moved(i, included, fee)
           gone == {Key(tx.max_fee_per_gas, tx) : tx \in Taken(i, included)}
           r == apply_block(i, included, fee)
<1>1. /\ i \in Inner /\ IsFiniteSet(i.base_fee_eligibility)
      /\ \A a \in DOMAIN i.account_queues : QueueInv(i, a)
  BY DEF InnerInv
<1>2. /\ DOMAIN i.account_queues \subseteq Addresses
      /\ i.account_queues \in [DOMAIN i.account_queues -> Queues]
      /\ i.base_fee_eligibility \subseteq Keys
      /\ i.priority_queue \subseteq Keys
  BY <1>1, InnerFields
<1>3. ASSUME NEW a \in DOMAIN i.account_queues
      PROVE  LET q == i.account_queues[a]
                 N == NoncesOf(included, a)
                 p == Advanced(q, N)
             IN /\ p \in Queues /\ Aligned(a, p)
                /\ \A n \in N : p.confirmed_nonce > n
                /\ Len(p.slots) <= per_account_capacity
                /\ \A j \in 1 .. Len(p.slots) :
                     p.slots[j] # None =>
                       \E l \in 1 .. Len(q.slots) :
                         p.slots[j] = q.slots[l] /\ q.confirmed_nonce + l - 1 \notin N
  <2> DEFINE q == i.account_queues[a]
             N == NoncesOf(included, a)
             p == Advanced(q, N)
  <2>1. q \in Queues /\ Aligned(a, q) /\ Len(q.slots) <= per_account_capacity
    BY <1>1 DEF QueueInv
  <2>2. N \in SUBSET Nat /\ (N = {} \/ \E h \in N : \A n \in N : n <= h)
    BY <1>2 DEF Inclusion
  <2> HIDE DEF q, N
  <2>3. /\ p \in Queues /\ Aligned(a, p)
        /\ \A n \in N : p.confirmed_nonce > n
        /\ Len(p.slots) <= Len(q.slots)
        /\ \A j \in 1 .. Len(p.slots) :
             p.slots[j] # None =>
               \E l \in 1 .. Len(q.slots) :
                 p.slots[j] = q.slots[l] /\ q.confirmed_nonce + l - 1 \notin N
    BY <2>1, <2>2, AdvancedQueue
  <2> HIDE DEF p
  <2>4. Len(p.slots) \in Nat /\ Len(q.slots) \in Nat /\ per_account_capacity \in Nat
    BY <2>1, <2>3, LenProperties, MempoolTrackerAssumption DEF Queues
  <2>5. Len(p.slots) <= per_account_capacity
    <3>1. Len(p.slots) <= Len(q.slots) /\ Len(q.slots) <= per_account_capacity
      BY <2>1, <2>3, Zenon
    <3> QED
      BY <2>4, <3>1
  <2> QED
    BY <2>3, <2>5, Zenon DEF p, q, N
<1>0. m = [i EXCEPT
             !.account_queues =
               [a \in DOMAIN @ |-> Advanced(@[a], NoncesOf(included, a))],
             !.base_fee_eligibility = @ \ gone,
             !.current_base_fee = fee]
  BY DEF Moved
<1> HIDE DEF m, gone
<1>4. /\ m.account_queues =
           [a \in DOMAIN i.account_queues |->
              Advanced(i.account_queues[a], NoncesOf(included, a))]
      /\ m.base_fee_eligibility = i.base_fee_eligibility \ gone
      /\ m.priority_queue = i.priority_queue
      /\ m.current_base_fee = fee
      /\ m = [account_queues |-> m.account_queues,
              base_fee_eligibility |-> m.base_fee_eligibility,
              priority_queue |-> m.priority_queue,
              current_base_fee |-> m.current_base_fee]
  BY <1>1, <1>0 DEF Inner
<1>5. /\ DOMAIN m.account_queues = DOMAIN i.account_queues
      /\ m.account_queues \in [DOMAIN m.account_queues -> Queues]
      /\ \A a \in DOMAIN i.account_queues :
           m.account_queues[a] = Advanced(i.account_queues[a], NoncesOf(included, a))
  BY <1>3, <1>4
<1>6. m \in Inner
  <2>1. /\ m.account_queues \in UNION {[A -> Queues] : A \in SUBSET Addresses}
        /\ m.base_fee_eligibility \in SUBSET Keys /\ m.priority_queue \in SUBSET Keys
        /\ m.current_base_fee \in Nat
    BY <1>2, <1>4, <1>5
  <2> QED
    BY <1>4, <2>1 DEF Inner
<1>7. IsFiniteSet(m.base_fee_eligibility)
  <2>1. IsFiniteSet(i.base_fee_eligibility \ gone)
    BY <1>1, FS_Difference
  <2> QED
    BY <1>4, <2>1
<1>8. ASSUME NEW a \in DOMAIN m.account_queues PROVE QueueInv(m, a)
  <2> DEFINE q == i.account_queues[a]
             N == NoncesOf(included, a)
             p == m.account_queues[a]
  <2>1. /\ p \in Queues /\ Aligned(a, p)
        /\ Len(p.slots) <= per_account_capacity
        /\ \A j \in 1 .. Len(p.slots) :
             p.slots[j] # None =>
               \E l \in 1 .. Len(q.slots) :
                 p.slots[j] = q.slots[l] /\ q.confirmed_nonce + l - 1 \notin N
    BY <1>3, <1>5
  <2>2. QueueInv(i, a)
    BY <1>1, <1>5
  <2>3. ASSUME NEW j \in 1 .. Len(p.slots), p.slots[j] # None
        PROVE  Key(p.slots[j].max_fee_per_gas, p.slots[j]) \in m.base_fee_eligibility
    <3>1. PICK l \in 1 .. Len(q.slots) :
            p.slots[j] = q.slots[l] /\ q.confirmed_nonce + l - 1 \notin N
      BY <2>1, <2>3
    <3> DEFINE tx == q.slots[l]
    <3>2. /\ Key(tx.max_fee_per_gas, tx) \in i.base_fee_eligibility
          /\ tx.sender = a /\ tx.nonce \notin N
      BY <2>2, <2>3, <3>1 DEF QueueInv, Aligned
    <3>3. ASSUME NEW t \in Taken(i, included)
          PROVE  Key(tx.max_fee_per_gas, tx) # Key(t.max_fee_per_gas, t)
      <4>1. t.nonce \in NoncesOf(included, t.sender)
        BY TakenKeys
      <4>2. ~(tx.sender = t.sender /\ tx.nonce = t.nonce)
        BY <3>2, <4>1
      <4> QED
        BY <4>2 DEF Key
    <3>4. Key(tx.max_fee_per_gas, tx) \notin gone
      BY <3>3, Zenon DEF gone
    <3> QED
      BY <1>4, <3>1, <3>2, <3>4, Zenon
  <2> QED
    BY <2>1, <2>3 DEF QueueInv
<1>9. /\ Rebuild(m) \subseteq Keys /\ IsFiniteSet(Rebuild(m))
      /\ \A key \in Rebuild(m) : KeyInv(m, key)
  BY <1>6, <1>7, <1>8, RebuildInv
<1>10. /\ r \in Inner /\ r.account_queues = m.account_queues
       /\ r.base_fee_eligibility = m.base_fee_eligibility
       /\ r.priority_queue = Rebuild(m)
       /\ r.current_base_fee = m.current_base_fee
  BY <1>6, <1>9 DEF apply_block, Inner, m
<1> HIDE DEF r
<1>11. Rebuild(r) = Rebuild(m)
  BY <1>5, <1>10, RebuildSame
<1>12. InnerInv(r)
  <2>1. \A a \in DOMAIN r.account_queues : QueueInv(r, a)
    BY <1>8, <1>10 DEF QueueInv
  <2>2. \A key \in r.priority_queue : KeyInv(r, key)
    BY <1>9, <1>10 DEF KeyInv
  <2> QED
    BY <1>7, <1>9, <1>10, <2>1, <2>2 DEF InnerInv
<1>13. \A a \in DOMAIN r.account_queues, n \in Nat :
         n \in NoncesOf(included, a) => r.account_queues[a].confirmed_nonce > n
  BY <1>3, <1>5, <1>10
<1> QED
  BY <1>10, <1>11, <1>12, <1>13 DEF r

\* The transactions in the slots.
LEMMA TrackedSlots ==
  ASSUME NEW i, InnerInv(i)
  PROVE  /\ \A tx \in Tracked(i) :
              /\ tx \in PendingTx /\ tx # None /\ tx.sender \in DOMAIN i.account_queues
              /\ i.account_queues[tx.sender] \in Queues
              /\ tx.nonce \in Nat /\ tx.nonce >= i.account_queues[tx.sender].confirmed_nonce
              /\ SlotAt(i.account_queues[tx.sender], tx.nonce) = tx
              /\ SlotIndex(i.account_queues[tx.sender], tx.nonce)
                   \in 1 .. Len(i.account_queues[tx.sender].slots)
              /\ Key(tx.max_fee_per_gas, tx) \in i.base_fee_eligibility
         /\ \A a \in DOMAIN i.account_queues, n \in Nat :
              SlotAt(i.account_queues[a], n) # None => SlotAt(i.account_queues[a], n) \in Tracked(i)
<1>1. \A a \in DOMAIN i.account_queues :
        /\ QueueInv(i, a) /\ i.account_queues[a] \in Queues /\ Aligned(a, i.account_queues[a])
        /\ DOMAIN i.account_queues[a].slots = 1 .. Len(i.account_queues[a].slots)
  BY LenProperties DEF InnerInv, QueueInv, Queues
<1>2. \A tx : tx \in Tracked(i) <=>
        tx # None /\ \E a \in DOMAIN i.account_queues :
                       \E k \in 1 .. Len(i.account_queues[a].slots) :
                         tx = i.account_queues[a].slots[k]
  BY <1>1 DEF Tracked, Range
<1>3. ASSUME NEW tx \in Tracked(i)
      PROVE  /\ tx \in PendingTx /\ tx # None /\ tx.sender \in DOMAIN i.account_queues
             /\ i.account_queues[tx.sender] \in Queues
             /\ tx.nonce \in Nat /\ tx.nonce >= i.account_queues[tx.sender].confirmed_nonce
             /\ SlotAt(i.account_queues[tx.sender], tx.nonce) = tx
             /\ SlotIndex(i.account_queues[tx.sender], tx.nonce)
                  \in 1 .. Len(i.account_queues[tx.sender].slots)
             /\ Key(tx.max_fee_per_gas, tx) \in i.base_fee_eligibility
  <2>1. PICK a \in DOMAIN i.account_queues :
          \E k \in 1 .. Len(i.account_queues[a].slots) : tx = i.account_queues[a].slots[k]
    BY <1>2, <1>3
  <2>2. PICK k \in 1 .. Len(i.account_queues[a].slots) : tx = i.account_queues[a].slots[k]
    BY <2>1
  <2>3. tx # None
    BY <1>2, <1>3
  <2>4. /\ tx \in PendingTx /\ tx.sender = a /\ tx.nonce \in Nat
        /\ tx.nonce >= i.account_queues[a].confirmed_nonce
        /\ SlotIndex(i.account_queues[a], tx.nonce) = k
        /\ SlotAt(i.account_queues[a], tx.nonce) = tx
    <3>1. QueueInv(i, a) /\ i.account_queues[a].slots[k] # None
      BY <1>1, <2>2, <2>3, Zenon
    <3>2. InPlace(a, i.account_queues[a], k)
      BY <3>1, SlotInQueue
    <3> QED
      BY <2>2, <3>2 DEF InPlace
  <2>5. Key(tx.max_fee_per_gas, tx) \in i.base_fee_eligibility
    BY <1>1, <2>2, <2>3 DEF QueueInv
  <2> QED
    BY <1>1, <2>2, <2>3, <2>4, <2>5
<1>4. ASSUME NEW a \in DOMAIN i.account_queues, NEW n \in Nat,
             SlotAt(i.account_queues[a], n) # None
      PROVE  SlotAt(i.account_queues[a], n) \in Tracked(i)
  BY <1>1, <1>2, <1>4, SlotOfNonce
<1> QED
  BY <1>3, <1>4

-----------------------------------------------------------------------------
(* The invariant is inductive *)

\* The initial state satisfies the invariant.
LEMMA IInvInit == Init => IInv
<1> SUFFICES ASSUME Init PROVE IInv
  OBVIOUS
<1>1. /\ inner = [account_queues |-> <<>>, base_fee_eligibility |-> {},
                  priority_queue |-> {}, current_base_fee |-> initial_base_fee]
      /\ chain_nonce = [a \in Addresses |-> 0] /\ last_event = "start"
  BY DEF Init
<1>2. <<>> \in [{} -> Queues] /\ DOMAIN <<>> = {}
  OBVIOUS
<1>3. {} \in SUBSET Addresses /\ initial_base_fee \in Nat
  BY MempoolTrackerAssumption
<1>4. inner \in Inner
  <2>1. <<>> \in UNION {[A -> Queues] : A \in SUBSET Addresses}
    BY <1>2, <1>3
  <2> QED
    BY <1>1, <1>3, <2>1 DEF Inner
<1>5. IsFiniteSet(inner.base_fee_eligibility) /\ IsFiniteSet(inner.priority_queue)
  BY <1>1, FS_EmptySet
<1>6. DOMAIN inner.account_queues = {} /\ inner.priority_queue = {}
  BY <1>1, <1>2
<1>7. InnerInv(inner)
  BY <1>4, <1>5, <1>6 DEF InnerInv
<1> QED
  BY <1>1, <1>7 DEF IInv

\* A block, as the specification lets it happen.
LEMMA NewBlockStep ==
  ASSUME IInv, NewBlock
  PROVE  /\ InnerInv(inner')
         /\ chain_nonce' \in [Addresses -> Nat]
         /\ inner'.priority_queue = Rebuild(inner')
         /\ \A a \in DOMAIN inner'.account_queues :
              chain_nonce'[a] > chain_nonce[a] =>
                inner'.account_queues[a].confirmed_nonce >= chain_nonce'[a]
<1>1. PICK to \in [Addresses -> Nonces], fee \in BaseFees :
        /\ inner' = apply_block(inner, Between(chain_nonce, to), fee)
        /\ chain_nonce' = to
  BY DEF NewBlock
<1>2. fee \in Nat /\ chain_nonce \in [Addresses -> Nat] /\ InnerInv(inner)
  BY MempoolTrackerAssumption DEF IInv
<1>3. to \in [Addresses -> Nat]
  BY MempoolTrackerAssumption
<1> DEFINE included == Between(chain_nonce, to)
<1>4. \A a \in Addresses : /\ Inclusion(NoncesOf(included, a))
                           /\ to[a] > chain_nonce[a] => to[a] - 1 \in NoncesOf(included, a)
  BY <1>2, BetweenNonces
<1> HIDE DEF included
<1>5. /\ InnerInv(inner')
      /\ inner'.priority_queue = Rebuild(inner')
      /\ \A a \in DOMAIN inner'.account_queues, n \in Nat :
           n \in NoncesOf(included, a) => inner'.account_queues[a].confirmed_nonce > n
  BY <1>1, <1>2, <1>4, ApplyBlockInv DEF included
<1>6. ASSUME NEW a \in DOMAIN inner'.account_queues, to[a] > chain_nonce[a]
      PROVE  inner'.account_queues[a].confirmed_nonce >= to[a]
  <2>1. a \in Addresses /\ inner'.account_queues[a].confirmed_nonce \in Nat
    BY <1>5, InnerFields DEF InnerInv, Queues
  <2>2. to[a] \in Nat /\ chain_nonce[a] \in Nat
    BY <1>2, <1>3, <2>1
  <2>3. to[a] - 1 \in Nat /\ to[a] - 1 \in NoncesOf(included, a)
    BY <1>4, <1>6, <2>1, <2>2
  <2>4. inner'.account_queues[a].confirmed_nonce > to[a] - 1
    BY <1>5, <2>3
  <2> QED
    BY <2>1, <2>2, <2>4
<1> QED
  BY <1>1, <1>3, <1>5, <1>6

\* Every step preserves the invariant.
LEMMA IInvStep == IInv /\ [Next]_vars => IInv'
<1> SUFFICES ASSUME IInv, [Next]_vars PROVE IInv'
  OBVIOUS
<1>1. CASE PendingTransaction
  <2>1. PICK tx \in PendingTx : inner' = insert(inner, tx)
    BY <1>1 DEF PendingTransaction
  <2>2. InnerInv(inner')
    BY <2>1, InsertInv DEF IInv
  <2>3. last_event' # "block" /\ chain_nonce' = chain_nonce
    BY <1>1 DEF PendingTransaction, Happens
  <2> QED
    BY <2>2, <2>3 DEF IInv
<1>2. CASE NewBlock
  BY <1>2, NewBlockStep DEF IInv
<1>3. CASE MissedBlock \/ Reorg
  <2>1. inner' = inner /\ last_event' # "block" /\ chain_nonce' \in [Addresses -> Nonces]
    BY <1>3 DEF MissedBlock, Reorg, Happens
  <2>2. chain_nonce' \in [Addresses -> Nat]
    BY <2>1, MempoolTrackerAssumption
  <2> QED
    BY <2>1, <2>2 DEF IInv
<1>4. CASE UNCHANGED vars
  BY <1>4 DEF IInv, vars
<1> QED
  BY <1>1, <1>2, <1>3, <1>4 DEF Next

\* The invariant holds in every reachable state.
THEOREM Invariance == Spec => []IInv
<1> QED
  BY IInvInit, IInvStep, PTL DEF Spec

-----------------------------------------------------------------------------
(* Consequences *)

\* MempoolInner stays well-typed and no account's queue grows beyond
\* per_account_capacity, whatever is announced or mined.
THEOREM TypeCorrect == Spec => []TypeOK
<1>1. IInv => TypeOK
  <2> SUFFICES ASSUME IInv PROVE TypeOK
    OBVIOUS
  <2>1. inner \in Inner /\ \A a \in DOMAIN inner.account_queues : QueueInv(inner, a)
    BY DEF IInv, InnerInv
  <2>2. ASSUME NEW a \in DOMAIN inner.account_queues
        PROVE  /\ inner.account_queues[a].confirmed_nonce \in Nat
               /\ Len(inner.account_queues[a].slots) <= per_account_capacity
               /\ Range(inner.account_queues[a].slots) \subseteq PendingTx \cup {None}
    <3>1. /\ inner.account_queues[a] \in Queues
          /\ Len(inner.account_queues[a].slots) <= per_account_capacity
      BY <2>1 DEF QueueInv
    <3>2. /\ inner.account_queues[a].confirmed_nonce \in Nat
          /\ inner.account_queues[a].slots \in Seq(Slots)
      BY <3>1 DEF Queues
    <3>3. Range(inner.account_queues[a].slots) \subseteq Slots
      BY <3>2, LenProperties DEF Range
    <3> QED
      BY <3>1, <3>2, <3>3 DEF Slots
  <2> QED
    BY <2>1, <2>2, InnerFields DEF TypeOK
<1> QED
  BY <1>1, Invariance, PTL

\* Every slot holds the transaction of its account and of the nonce that its
\* offset stands for.
THEOREM SlotsStayAligned == Spec => []SlotsAligned
<1>1. IInv => SlotsAligned
  <2> SUFFICES ASSUME IInv PROVE SlotsAligned
    OBVIOUS
  <2>1. ASSUME NEW a \in DOMAIN inner.account_queues
        PROVE  /\ Aligned(a, inner.account_queues[a])
               /\ DOMAIN inner.account_queues[a].slots = 1 .. Len(inner.account_queues[a].slots)
    BY LenProperties DEF IInv, InnerInv, QueueInv, Queues
  <2> QED
    BY <2>1 DEF SlotsAligned, Aligned
<1> QED
  BY <1>1, Invariance, PTL

\* Every tracked transaction counts towards global_capacity.
THEOREM IndexIsComplete == Spec => []TrackedIsIndexed
<1>1. IInv => TrackedIsIndexed
  BY TrackedSlots DEF IInv, TrackedIsIndexed
<1> QED
  BY <1>1, Invariance, PTL

\* The offset that the eviction computes from a key never underflows.
THEOREM EvictionCannotUnderflow == Spec => []KeysNotBelowConfirmed
<1>1. IInv => KeysNotBelowConfirmed
  BY DEF IInv, InnerInv, KeyInv, KeysNotBelowConfirmed
<1> QED
  BY <1>1, Invariance, PTL

\* After a block nothing overtaken is tracked.
THEOREM OvertakenAreDropped == Spec => OvertakenLeave
<1> DEFINE Step == last_event' = "block" =>
             \A tx \in Tracked(inner') :
               chain_nonce'[tx.sender] > chain_nonce[tx.sender] =>
                 tx.nonce >= chain_nonce'[tx.sender]
<1>1. IInv /\ IInv' /\ [Next]_vars => [Step]_vars
  <2> SUFFICES ASSUME IInv, IInv', Next, last_event' = "block",
                      NEW tx \in Tracked(inner'),
                      chain_nonce'[tx.sender] > chain_nonce[tx.sender]
               PROVE  tx.nonce >= chain_nonce'[tx.sender]
    OBVIOUS
  <2>1. NewBlock
    BY DEF Next, PendingTransaction, MissedBlock, Reorg, Happens
  <2>2. /\ InnerInv(inner') /\ chain_nonce' \in [Addresses -> Nat]
        /\ \A a \in DOMAIN inner'.account_queues :
             chain_nonce'[a] > chain_nonce[a] =>
               inner'.account_queues[a].confirmed_nonce >= chain_nonce'[a]
    BY <2>1, NewBlockStep
  <2>3. /\ tx.sender \in DOMAIN inner'.account_queues /\ tx.nonce \in Nat
        /\ inner'.account_queues[tx.sender] \in Queues
        /\ tx.nonce >= inner'.account_queues[tx.sender].confirmed_nonce
    BY <2>2, TrackedSlots
  <2>4. chain_nonce'[tx.sender] \in Nat /\ inner'.account_queues[tx.sender].confirmed_nonce \in Nat
    BY <2>2, <2>3, InnerFields DEF InnerInv, Queues
  <2> QED
    BY <2>2, <2>3, <2>4
<1> QED
  BY <1>1, Invariance, PTL DEF Spec, OvertakenLeave

\* classify_transaction and Rebuild, written separately, test the same: a tracked
\* transaction is marketable when it ends a payable prefix of its queue.
LEMMA MarketablePrefix ==
  ASSUME NEW i, InnerInv(i), NEW tx \in Tracked(i)
  PROVE  LET q == i.account_queues[tx.sender]
         IN classify_transaction(i, tx) = "Marketable" <=>
              \A j \in 1 .. SlotIndex(q, tx.nonce) : Payable(i, q.slots[j])
<1> DEFINE q == i.account_queues[tx.sender]
           k == SlotIndex(q, tx.nonce)
           blocked == \E j \in 1 .. tx.nonce - q.confirmed_nonce :
                        j \notin DOMAIN q.slots \/ ~Payable(i, q.slots[j])
<1>1. /\ q \in Queues /\ tx \in PendingTx /\ tx # None /\ tx.nonce \in Nat
      /\ SlotAt(q, tx.nonce) = tx /\ k \in 1 .. Len(q.slots)
  BY TrackedSlots
<1>2. /\ q.confirmed_nonce \in Nat /\ Len(q.slots) \in Nat
      /\ DOMAIN q.slots = 1 .. Len(q.slots)
  BY <1>1, LenProperties DEF Queues
<1>3. q.slots[k] = tx
  BY <1>1, <1>2 DEF SlotAt
<1>4. k = tx.nonce - q.confirmed_nonce + 1
  BY DEF SlotIndex
<1>5. /\ i.current_base_fee \in Nat /\ tx.max_fee_per_gas \in Nat
      /\ effective_priority_fee(i, tx) \in Nat
  BY <1>1, InnerFields, EffectiveFee, MempoolTrackerAssumption DEF InnerInv, PendingTx
<1>6. classify_transaction(i, tx) = "Marketable" <=>
        ~blocked /\ ~(tx.max_fee_per_gas < i.current_base_fee)
        /\ effective_priority_fee(i, tx) # 0
  BY DEF classify_transaction
<1>7. Payable(i, tx) <=>
        ~(tx.max_fee_per_gas < i.current_base_fee) /\ effective_priority_fee(i, tx) # 0
  BY <1>1, <1>5 DEF Payable
<1> HIDE DEF q, k
<1>8. ~blocked <=> \A j \in 1 .. k - 1 : Payable(i, q.slots[j])
  <2>1. tx.nonce - q.confirmed_nonce = k - 1 /\ k \in Int
    BY <1>1, <1>2, <1>4
  <2>2. \A j \in 1 .. k - 1 : j \in DOMAIN q.slots
    BY <1>1, <1>2, <2>1
  <2> QED
    BY <2>1, <2>2
<1>9. (\A j \in 1 .. k : Payable(i, q.slots[j])) <=>
        (\A j \in 1 .. k - 1 : Payable(i, q.slots[j])) /\ Payable(i, tx)
  <2>1. k \in 1 .. k /\ \A j \in 1 .. k : j = k \/ j \in 1 .. k - 1
    BY <1>1, <1>2
  <2>2. \A j \in 1 .. k - 1 : j \in 1 .. k
    BY <1>1, <1>2
  <2> QED
    BY <1>3, <2>1, <2>2
<1> QED
  BY <1>6, <1>7, <1>8, <1>9 DEF q, k

\* After a block the index of priority is exactly the marketable transactions, and
\* gas_ahead counts those before a transaction, each of them once.
THEOREM IndexIsFresh == Spec => []FreshAfterBlock
<1>1. IInv => FreshAfterBlock
  <2> SUFFICES ASSUME IInv, last_event = "block" PROVE FreshAfterBlock
    BY DEF FreshAfterBlock
  <2> DEFINE aq == inner.account_queues
             marketable == {tx \in Tracked(inner) :
                              classify_transaction(inner, tx) = "Marketable"}
             KeyOf(tx) == Key(effective_priority_fee(inner, tx), tx)
             Tx(k) == SlotAt(aq[k.addr], k.nonce)
  <2>1. InnerInv(inner) /\ inner.priority_queue = Rebuild(inner)
    BY DEF IInv
  <2>2. /\ \A a \in DOMAIN aq : aq[a] \in Queues /\ QueueInv(inner, a)
        /\ inner \in Inner /\ IsFiniteSet(inner.base_fee_eligibility)
        /\ IsFiniteSet(inner.priority_queue)
    BY <2>1 DEF InnerInv, QueueInv
  <2>3. ASSUME NEW k \in inner.priority_queue
        PROVE  Tx(k) \in marketable /\ k = KeyOf(Tx(k)) /\ Tx(k) # None
    <3>1. /\ k \in Keys /\ k.addr \in DOMAIN aq /\ Tx(k) # None
          /\ k = KeyOf(Tx(k))
      BY <2>1, <2>2, <2>3, RebuildInv DEF KeyInv
    <3>2. k.nonce \in Nat
      BY <3>1, MempoolTrackerAssumption DEF Keys
    <3>3. Tx(k) \in Tracked(inner)
      BY <2>1, <3>1, <3>2, TrackedSlots
    <3>4. PICK a \in DOMAIN aq :
            \E l \in 1 .. Len(aq[a].slots) :
              /\ \A j \in 1 .. l : Payable(inner, aq[a].slots[j])
              /\ k = Key(effective_priority_fee(inner, aq[a].slots[l]), aq[a].slots[l])
      <4>1. k \in Rebuild(inner) /\ \A a \in DOMAIN aq : aq[a] \in Queues
        BY <2>1, <2>2, <2>3, Zenon
      <4> QED
        BY <4>1, RebuildKeys, Zenon
    <3>5. PICK l \in 1 .. Len(aq[a].slots) :
            /\ \A j \in 1 .. l : Payable(inner, aq[a].slots[j])
            /\ k = Key(effective_priority_fee(inner, aq[a].slots[l]), aq[a].slots[l])
      BY <3>4
    <3>6. Aligned(a, aq[a]) /\ Len(aq[a].slots) \in Nat
      BY <2>2, LenProperties DEF QueueInv, Queues
    <3>7. aq[a].slots[l] # None
      <4>1. l \in 1 .. l
        BY <3>5, <3>6
      <4> QED
        BY <3>5, <4>1 DEF Payable
    <3>8. /\ aq[a].slots[l].sender = a
          /\ SlotIndex(aq[a], aq[a].slots[l].nonce) = l
          /\ SlotAt(aq[a], aq[a].slots[l].nonce) = aq[a].slots[l]
      <4>1. QueueInv(inner, a)
        BY <2>2
      <4>2. InPlace(a, aq[a], l)
        BY <3>7, <4>1, SlotInQueue
      <4> QED
        BY <4>2 DEF InPlace
    <3>9. k.addr = a /\ k.nonce = aq[a].slots[l].nonce
      BY <3>5, <3>8 DEF Key
    <3>10. Tx(k) = aq[a].slots[l]
      BY <3>8, <3>9
    <3> HIDE DEF Tx
    <3>11. classify_transaction(inner, Tx(k)) = "Marketable"
      BY <2>1, <3>3, <3>5, <3>8, <3>10, MarketablePrefix
    <3> QED
      BY <3>1, <3>3, <3>11 DEF Tx
  <2>4. ASSUME NEW tx \in marketable
        PROVE  KeyOf(tx) \in inner.priority_queue /\ Tx(KeyOf(tx)) = tx
    <3>1. /\ tx \in Tracked(inner) /\ tx # None /\ tx.sender \in DOMAIN aq
          /\ aq[tx.sender] \in Queues
          /\ SlotAt(aq[tx.sender], tx.nonce) = tx
          /\ SlotIndex(aq[tx.sender], tx.nonce) \in 1 .. Len(aq[tx.sender].slots)
      BY <2>1, <2>4, TrackedSlots
    <3>2. aq[tx.sender].slots[SlotIndex(aq[tx.sender], tx.nonce)] = tx
      BY <3>1, LenProperties DEF SlotAt, Queues
    <3>3. \A j \in 1 .. SlotIndex(aq[tx.sender], tx.nonce) : Payable(inner, aq[tx.sender].slots[j])
      BY <2>1, <2>4, <3>1, MarketablePrefix
    <3>4. KeyOf(tx) \in Rebuild(inner)
      BY <2>2, <3>1, <3>2, <3>3, RebuildKeys
    <3>5. KeyOf(tx).addr = tx.sender /\ KeyOf(tx).nonce = tx.nonce
      BY DEF Key
    <3> QED
      BY <2>1, <3>1, <3>4, <3>5
  <2> HIDE DEF marketable, KeyOf, Tx
  <2>5. inner.priority_queue = {KeyOf(tx) : tx \in marketable}
    BY <2>3, <2>4
  <2>6. ASSUME NEW tx \in marketable
        PROVE  gas_ahead(inner, tx) =
                 Cardinality({t \in marketable : Precedes(KeyOf(t), KeyOf(tx))})
    <3> DEFINE keys == {k \in inner.priority_queue :
                          /\ Precedes(k, KeyOf(tx))
                          /\ SlotAt(inner.account_queues[k.addr], k.nonce) # None}
               ahead == {t \in marketable : Precedes(KeyOf(t), KeyOf(tx))}
               g == [k \in keys |-> Tx(k)]
    <3>1. gas_ahead(inner, tx) = Cardinality(keys)
      BY DEF gas_ahead, KeyOf
    <3>2. IsFiniteSet(keys)
      BY <2>2, FS_Subset
    <3>3. \A k \in keys : Tx(k) \in ahead /\ k = KeyOf(Tx(k))
      BY <2>3
    <3>4. \A t \in ahead : KeyOf(t) \in keys /\ Tx(KeyOf(t)) = t
      <4>1. ASSUME NEW t \in ahead PROVE KeyOf(t) \in keys /\ Tx(KeyOf(t)) = t
        <5>1. /\ KeyOf(t) \in inner.priority_queue /\ Tx(KeyOf(t)) = t
              /\ Precedes(KeyOf(t), KeyOf(tx))
          BY <2>4
        <5>2. Tx(KeyOf(t)) # None
          BY <2>3, <5>1
        <5> QED
          BY <5>1, <5>2 DEF Tx
      <4> QED
        BY <4>1
    <3> HIDE DEF keys, ahead
    <3>5. g \in [keys -> ahead] /\ \A k \in keys : g[k] = Tx(k)
      BY <3>3
    <3> HIDE DEF g
    <3>6. g \in Bijection(keys, ahead)
      BY <3>3, <3>4, <3>5 DEF Bijection, Injection, IsInjective, Surjection
    <3>7. ExistsBijection(keys, ahead)
      BY <3>6 DEF ExistsBijection
    <3>8. Cardinality(ahead) = Cardinality(keys)
      BY <3>2, <3>7, FS_Bijection
    <3> QED
      BY <3>1, <3>8 DEF ahead
  <2> QED
    BY <2>5, <2>6 DEF FreshAfterBlock, marketable, KeyOf
<1> QED
  BY <1>1, Invariance, PTL
=============================================================================
