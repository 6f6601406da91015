------------------------------ MODULE WsRingProofs -----------------------------
(***************************************************************************)
(* Proofs about WsRing, for every number of clients, every size of the     *)
(* ring and every size of the table of players.                            *)
(*                                                                         *)
(* A position of the ring is best told by how many elements wait there:    *)
(* Waiting counts back from the head, so that the elements that are kept   *)
(* are those with 1 to Waiting(oldest), and a reader that goes on, or a    *)
(* head that does, changes a number by one.  The lemmas of the first       *)
(* section turn the remainders of the code into these numbers; after them  *)
(* no proof looks at a remainder again.                                    *)
(***************************************************************************)
EXTENDS WsRing, SequenceTheorems, WellFoundedInduction, TLAPS

-------------------------------------------------------------------------------
(* Numbers.                                                                *)

\* A set of naturals that is not empty has a least element.
LEMMA Minimum ==
  ASSUME NEW S \in SUBSET Nat, S # {}
  PROVE  Min(S) \in S /\ \A x \in S : Min(S) <= x
<1>1. PICK m \in S : \A x \in S : <<x, m>> \notin OpToRel(<, Nat)
  BY WFMin, NatLessThanWellFounded
<1>2. \A x \in Nat, y \in Nat : x < y => <<x, y>> \in OpToRel(<, Nat)
  BY Zenon DEF OpToRel
<1>3. \A x \in S : ~(x < m)
  BY <1>1, <1>2
<1>4. \A x \in S : m <= x
  BY <1>3
<1> QED
  BY <1>4 DEF Min

\* If it is bounded, it has a greatest one too.
LEMMA Maximum ==
  ASSUME NEW n \in Nat, NEW S \in SUBSET (0..n), S # {}
  PROVE  Max(S) \in S /\ \A x \in S : x <= Max(S)
<1> DEFINE T == {k \in 0..n : n - k \in S}
<1>1. T \in SUBSET Nat
  OBVIOUS
<1>2. T # {}
  <2>1. PICK x \in S : TRUE
    OBVIOUS
  <2>2. n - x \in 0..n /\ n - (n - x) = x
    BY <2>1
  <2> QED
    BY <2>2
<1>3. PICK k \in T : \A x \in T : k <= x
  BY <1>1, <1>2, Minimum
<1> HIDE DEF T
<1>5. k \in 0..n /\ n - k \in S
  BY <1>3 DEF T
<1>4. \A x \in S : x <= n - k
  <2> SUFFICES ASSUME NEW x \in S PROVE x <= n - k
    OBVIOUS
  <2>1. n - x \in 0..n /\ n - (n - x) = x
    OBVIOUS
  <2>2. n - x \in T
    BY <2>1 DEF T
  <2>3. k <= n - x
    BY <1>3, <2>2
  <2> QED
    BY <1>5, <2>3
<1> QED
  BY <1>5, <1>4 DEF Max

\* The remainder, for the numbers it is used for.
LEMMA RemainderIs ==
  ASSUME NEW x \in Nat, x < 2 * RingSize
  PROVE  x % RingSize = IF x < RingSize THEN x ELSE x - RingSize
BY RingAssumption


-------------------------------------------------------------------------------
(* Positions, by how far they are behind the head.                         *)

\* How far p is behind h: Waiting(p), with the head for a parameter.
Behind(h, p) == (h - p + RingSize) % RingSize

\* What there is to read from p to h: FromHere(p).
Unread(h, elements, p) == [k \in 1..Behind(h, p) |-> elements[Advance(p, k - 1)]]

LEMMA BehindIs ==
  ASSUME NEW h \in Positions, NEW p \in Positions
  PROVE  /\ Behind(h, p) = IF p <= h THEN h - p ELSE h - p + RingSize
         /\ Behind(h, p) \in 0..(RingSize - 1)
<1> DEFINE x == h - p + RingSize
<1>1. /\ x \in Nat /\ x < 2 * RingSize
      /\ h - p \in Int /\ RingSize \in Nat
  BY RingAssumption DEF Positions
<1>2. x < RingSize <=> ~(p <= h)
  BY RingAssumption DEF Positions
<1>3. x - RingSize = h - p
  BY <1>1
<1>4. Behind(h, p) = x % RingSize
  BY DEF Behind
<1> HIDE DEF x
<1>5. x % RingSize = IF x < RingSize THEN x ELSE x - RingSize
  BY <1>1, RemainderIs
<1>6. Behind(h, p) = IF p <= h THEN h - p ELSE x
  BY <1>2, <1>3, <1>4, <1>5
<1> QED
  BY <1>6, RingAssumption DEF Positions, x

LEMMA AdvanceIs ==
  ASSUME NEW p \in Positions, NEW k \in 0..RingSize
  PROVE  /\ Advance(p, k) = IF p + k < RingSize THEN p + k ELSE p + k - RingSize
         /\ Advance(p, k) \in Positions
<1> DEFINE x == p + k
<1>1. x \in Nat /\ x < 2 * RingSize
  BY RingAssumption DEF Positions
<1>2. Advance(p, k) = x % RingSize
  BY DEF Advance
<1> HIDE DEF x
<1>3. x % RingSize = IF x < RingSize THEN x ELSE x - RingSize
  BY <1>1, RemainderIs
<1> QED
  BY <1>2, <1>3, RingAssumption DEF Positions, x

\* No two positions are equally far behind.
LEMMA BehindTellsApart ==
  ASSUME NEW h \in Positions, NEW p \in Positions, NEW q \in Positions,
         Behind(h, p) = Behind(h, q)
  PROVE  p = q
<1>1. ASSUME NEW r \in Positions
      PROVE  r = IF Behind(h, r) <= h THEN h - Behind(h, r) ELSE h - Behind(h, r) + RingSize
  <2>1. Behind(h, r) = IF r <= h THEN h - r ELSE h - r + RingSize
    BY BehindIs
  <2>2. h \in Int /\ r \in Int /\ RingSize \in Int /\ 0 <= r /\ r < RingSize
    BY RingAssumption DEF Positions
  <2>3. CASE r <= h
    BY <2>1, <2>2, <2>3
  <2>4. CASE ~(r <= h)
    BY <2>1, <2>2, <2>4
  <2> QED
    BY <2>3, <2>4
<1> QED
  BY <1>1

\* Nothing waits at the head, and only there.
LEMMA BehindByNone ==
  ASSUME NEW h \in Positions, NEW p \in Positions
  PROVE  Behind(h, p) = 0 <=> p = h
<1>1. Behind(h, p) = IF p <= h THEN h - p ELSE h - p + RingSize
  BY BehindIs
<1> QED
  BY <1>1, RingAssumption DEF Positions

\* A reader that goes on by k elements is k less behind.
LEMMA BehindAfter ==
  ASSUME NEW h \in Positions, NEW p \in Positions, NEW k \in 0..Behind(h, p)
  PROVE  Advance(p, k) \in Positions /\ Behind(h, Advance(p, k)) = Behind(h, p) - k
<1>1. k \in 0..RingSize /\ k \in Int
  BY BehindIs, RingAssumption
<1>2. Advance(p, k) \in Positions
  BY <1>1, AdvanceIs
<1>3. Advance(p, k) = IF p + k < RingSize THEN p + k ELSE p + k - RingSize
  BY <1>1, AdvanceIs
<1>4. /\ Behind(h, p) = IF p <= h THEN h - p ELSE h - p + RingSize
      /\ Behind(h, Advance(p, k)) =
           IF Advance(p, k) <= h THEN h - Advance(p, k) ELSE h - Advance(p, k) + RingSize
  BY <1>2, BehindIs
<1> HIDE DEF Advance, Behind
<1> QED
  BY <1>1, <1>2, <1>3, <1>4, RingAssumption DEF Positions

\* The head going on leaves everyone else one further behind, if there was room.
LEMMA BehindNext ==
  ASSUME NEW h \in Positions, NEW p \in Positions, Behind(h, p) < RingSize - 1
  PROVE  Advance(h, 1) \in Positions /\ Behind(Advance(h, 1), p) = Behind(h, p) + 1
<1>1. 1 \in 0..RingSize
  BY RingAssumption
<1>2. Advance(h, 1) \in Positions
  BY <1>1, AdvanceIs
<1>3. Advance(h, 1) = IF h + 1 < RingSize THEN h + 1 ELSE h + 1 - RingSize
  BY <1>1, AdvanceIs
<1>4. /\ Behind(h, p) = IF p <= h THEN h - p ELSE h - p + RingSize
      /\ Behind(Advance(h, 1), p) =
           IF p <= Advance(h, 1) THEN Advance(h, 1) - p ELSE Advance(h, 1) - p + RingSize
  BY <1>2, BehindIs
<1> QED
  BY <1>2, <1>3, <1>4, RingAssumption DEF Positions

\* The positions from q on, j of them, are those that are less far behind.
LEMMA PassedOver ==
  ASSUME NEW h \in Positions, NEW p \in Positions, NEW q \in Positions,
         NEW n \in 0..Behind(h, q)
  PROVE  (\E j \in 0..(n - 1) : p = Advance(q, j))
           <=> Behind(h, q) - n < Behind(h, p) /\ Behind(h, p) <= Behind(h, q)
<1>0. Behind(h, p) \in Nat /\ Behind(h, q) \in Nat /\ n \in Int
  BY BehindIs
<1>1. ASSUME NEW j \in 0..(n - 1), p = Advance(q, j)
      PROVE  Behind(h, q) - n < Behind(h, p) /\ Behind(h, p) <= Behind(h, q)
  <2>1. j \in 0..Behind(h, q)
    BY <1>0
  <2>2. Behind(h, p) = Behind(h, q) - j
    BY <1>1, <2>1, BehindAfter
  <2> QED
    BY <1>0, <2>2
<1>2. ASSUME Behind(h, q) - n < Behind(h, p), Behind(h, p) <= Behind(h, q)
      PROVE  \E j \in 0..(n - 1) : p = Advance(q, j)
  <2> DEFINE j == Behind(h, q) - Behind(h, p)
  <2>1. j \in 0..(n - 1) /\ j \in 0..Behind(h, q)
    BY <1>0, <1>2
  <2>2. Advance(q, j) \in Positions /\ Behind(h, Advance(q, j)) = Behind(h, q) - j
    BY <2>1, BehindAfter
  <2>3. Behind(h, q) - j = Behind(h, p)
    BY <1>0
  <2>4. p = Advance(q, j)
    BY <2>2, <2>3, BehindTellsApart
  <2> QED
    BY <2>1, <2>4
<1> QED
  BY <1>1, <1>2

\* The elements that are kept, told by how far they are behind.
LEMMA WindowIs ==
  ASSUME NEW h \in Positions, NEW p \in Positions, NEW q \in Positions
  PROVE  (\E k \in 1..Behind(h, q) : p = Advance(q, k - 1)) <=> Behind(h, p) \in 1..Behind(h, q)
<1>1. Behind(h, p) \in Nat /\ Behind(h, q) \in Nat
  BY BehindIs
<1>2. (\E k \in 1..Behind(h, q) : p = Advance(q, k - 1))
        <=> \E j \in 0..(Behind(h, q) - 1) : p = Advance(q, j)
  <2>1. ASSUME NEW k \in 1..Behind(h, q), p = Advance(q, k - 1)
        PROVE  \E j \in 0..(Behind(h, q) - 1) : p = Advance(q, j)
    <3>1. k - 1 \in 0..(Behind(h, q) - 1)
      BY <1>1
    <3> QED
      BY <2>1, <3>1
  <2>2. ASSUME NEW j \in 0..(Behind(h, q) - 1), p = Advance(q, j)
        PROVE  \E k \in 1..Behind(h, q) : p = Advance(q, k - 1)
    <3>1. j + 1 \in 1..Behind(h, q) /\ (j + 1) - 1 = j
      BY <1>1
    <3> QED
      BY <2>2, <3>1
  <2> QED
    BY <2>1, <2>2
<1>3. Behind(h, q) \in 0..Behind(h, q)
  BY <1>1
<1>4. (\E j \in 0..(Behind(h, q) - 1) : p = Advance(q, j))
        <=> Behind(h, q) - Behind(h, q) < Behind(h, p) /\ Behind(h, p) <= Behind(h, q)
  BY <1>3, PassedOver
<1> QED
  BY <1>1, <1>2, <1>4

\* What there is to read is a sequence of numbers, if those elements are.
LEMMA UnreadType ==
  ASSUME NEW h \in Positions, NEW p \in Positions, NEW elements,
         \A q \in Positions : Behind(h, q) \in 1..Behind(h, p) => elements[q] \in Numbers
  PROVE  /\ Unread(h, elements, p) \in Seq(Numbers)
         /\ Len(Unread(h, elements, p)) = Behind(h, p)
         /\ \A k \in 1..Behind(h, p) : Unread(h, elements, p)[k] = elements[Advance(p, k - 1)]
<1>1. Behind(h, p) \in Nat
  BY BehindIs
<1>2. ASSUME NEW k \in 1..Behind(h, p) PROVE elements[Advance(p, k - 1)] \in Numbers
  <2>1. k - 1 \in 0..Behind(h, p)
    BY <1>1
  <2>2. /\ Advance(p, k - 1) \in Positions
        /\ Behind(h, Advance(p, k - 1)) = Behind(h, p) - (k - 1)
    BY <2>1, BehindAfter
  <2>3. Behind(h, p) - (k - 1) \in 1..Behind(h, p)
    BY <1>1
  <2> QED
    BY <2>2, <2>3
<1> QED
  BY <1>1, <1>2 DEF Unread

\* It depends on the elements from p to h alone.
LEMMA UnreadSame ==
  ASSUME NEW h \in Positions, NEW p \in Positions, NEW elements, NEW others,
         \A q \in Positions : Behind(h, q) \in 1..Behind(h, p) => elements[q] = others[q]
  PROVE  Unread(h, elements, p) = Unread(h, others, p)
<1>1. Behind(h, p) \in Nat
  BY BehindIs
<1>2. ASSUME NEW k \in 1..Behind(h, p)
      PROVE  elements[Advance(p, k - 1)] = others[Advance(p, k - 1)]
  <2>1. k - 1 \in 0..Behind(h, p)
    BY <1>1
  <2>2. /\ Advance(p, k - 1) \in Positions
        /\ Behind(h, Advance(p, k - 1)) = Behind(h, p) - (k - 1)
    BY <2>1, BehindAfter
  <2>3. Behind(h, p) - (k - 1) \in 1..Behind(h, p)
    BY <1>1
  <2> QED
    BY <2>2, <2>3
<1> QED
  BY <1>2 DEF Unread

\* Reading one element leaves the rest.
LEMMA UnreadTail ==
  ASSUME NEW h \in Positions, NEW p \in Positions, NEW elements, p # h,
         \A q \in Positions : Behind(h, q) \in 1..Behind(h, p) => elements[q] \in Numbers
  PROVE  Unread(h, elements, Advance(p, 1)) = Tail(Unread(h, elements, p))
<1> DEFINE n == Behind(h, p)
           next == Advance(p, 1)
<1>1. n \in Nat \ {0} /\ 1 \in 0..n
  BY BehindIs, BehindByNone
<1>2. next \in Positions /\ Behind(h, next) = n - 1
  BY <1>1, BehindAfter
<1>3. /\ Unread(h, elements, p) \in Seq(Numbers) /\ Len(Unread(h, elements, p)) = n
      /\ \A k \in 1..n : Unread(h, elements, p)[k] = elements[Advance(p, k - 1)]
  BY UnreadType
<1>4. \A q \in Positions : Behind(h, q) \in 1..(n - 1) => elements[q] \in Numbers
  BY <1>1
<1>5. /\ Unread(h, elements, next) \in Seq(Numbers) /\ Len(Unread(h, elements, next)) = n - 1
      /\ \A k \in 1..(n - 1) : Unread(h, elements, next)[k] = elements[Advance(next, k - 1)]
  BY <1>2, <1>4, UnreadType
<1>6. ASSUME NEW k \in 1..(n - 1) PROVE Advance(next, k - 1) = Advance(p, k)
  <2>1. k - 1 \in 0..(n - 1) /\ k \in 0..n
    BY <1>1
  <2>2. /\ Advance(next, k - 1) \in Positions
        /\ Behind(h, Advance(next, k - 1)) = (n - 1) - (k - 1)
    BY <1>2, <2>1, BehindAfter
  <2>3. Advance(p, k) \in Positions /\ Behind(h, Advance(p, k)) = n - k
    BY <2>1, BehindAfter
  <2>4. (n - 1) - (k - 1) = n - k
    BY <1>1
  <2> QED
    BY <2>2, <2>3, <2>4, BehindTellsApart
<1>7. /\ Tail(Unread(h, elements, p)) \in Seq(Numbers)
      /\ Len(Tail(Unread(h, elements, p))) = n - 1
      /\ \A k \in 1..(n - 1) : Tail(Unread(h, elements, p))[k] = Unread(h, elements, p)[k + 1]
  <2>1. Unread(h, elements, p) # <<>>
    BY <1>1, <1>3
  <2> QED
    BY <1>3, <2>1, HeadTailProperties
<1>8. ASSUME NEW k \in 1..(n - 1)
      PROVE  Tail(Unread(h, elements, p))[k] = Unread(h, elements, next)[k]
  <2>1. k + 1 \in 1..n /\ (k + 1) - 1 = k
    BY <1>1
  <2> QED
    BY <1>3, <1>5, <1>6, <1>7, <2>1
<1> HIDE DEF n, next
<1>9. Unread(h, elements, next) = Tail(Unread(h, elements, p))
  BY <1>5, <1>7, <1>8, SeqEqual
<1> QED
  BY <1>9 DEF next

LEMMA AppendIs ==
  ASSUME NEW S, NEW s \in Seq(S), NEW e \in S
  PROVE  Append(s, e) = [k \in 1..(Len(s) + 1) |-> IF k \in 1..Len(s) THEN s[k] ELSE e]
<1>1. Len(s) \in Nat
  OBVIOUS
<1>2. /\ Append(s, e) \in Seq(S) /\ Len(Append(s, e)) = Len(s) + 1
      /\ \A k \in 1..(Len(s) + 1) :
           Append(s, e)[k] = IF k \in 1..Len(s) THEN s[k] ELSE e
  BY <1>1
<1>3. Append(s, e) \in [1..(Len(s) + 1) -> S]
  BY <1>2, LenProperties
<1> QED
  BY <1>2, <1>3

\* A number put in at the head is the last there is to read.
LEMMA UnreadAppend ==
  ASSUME NEW h \in Positions, NEW p \in Positions,
         NEW elements \in [Positions -> Numbers \cup {NULL}], NEW number \in Numbers,
         Behind(h, p) < RingSize - 1,
         \A q \in Positions : Behind(h, q) \in 1..Behind(h, p) => elements[q] \in Numbers
  PROVE  Unread(Advance(h, 1), [elements EXCEPT ![h] = number], p)
           = Append(Unread(h, elements, p), number)
<1> DEFINE n == Behind(h, p)
           next == Advance(h, 1)
           others == [elements EXCEPT ![h] = number]
<1>0. others[h] = number /\ \A q \in Positions : q # h => others[q] = elements[q]
  OBVIOUS
<1> HIDE DEF others
<1>1. n \in Nat
  BY BehindIs
<1>2. next \in Positions /\ Behind(next, p) = n + 1
  BY BehindNext
<1>3. /\ Unread(h, elements, p) \in Seq(Numbers) /\ Len(Unread(h, elements, p)) = n
      /\ \A k \in 1..n : Unread(h, elements, p)[k] = elements[Advance(p, k - 1)]
  BY UnreadType
<1>4. ASSUME NEW k \in 1..n
      PROVE  others[Advance(p, k - 1)] = elements[Advance(p, k - 1)]
  <2>1. k - 1 \in 0..n
    BY <1>1
  <2>2. Advance(p, k - 1) \in Positions /\ Behind(h, Advance(p, k - 1)) = n - (k - 1)
    BY <2>1, BehindAfter
  <2>3. n - (k - 1) # 0
    BY <1>1
  <2>4. Advance(p, k - 1) # h
    BY <2>2, <2>3, BehindByNone
  <2> QED
    BY <1>0, <2>2, <2>4
<1>5. Advance(p, n) = h
  <2>1. n \in 0..n /\ n - n = 0
    BY <1>1
  <2>2. Advance(p, n) \in Positions /\ Behind(h, Advance(p, n)) = 0
    BY <2>1, BehindAfter
  <2> QED
    BY <2>2, BehindByNone
<1>6. Unread(next, others, p) = [k \in 1..(n + 1) |-> others[Advance(p, k - 1)]]
  BY <1>2 DEF Unread
<1> HIDE DEF n, next
<1>7. Append(Unread(h, elements, p), number)
        = [k \in 1..(n + 1) |-> IF k \in 1..n THEN Unread(h, elements, p)[k] ELSE number]
  BY <1>3, AppendIs
<1>8. ASSUME NEW k \in 1..(n + 1)
      PROVE  others[Advance(p, k - 1)]
               = IF k \in 1..n THEN Unread(h, elements, p)[k] ELSE number
  <2>1. CASE k \in 1..n
    BY <1>3, <1>4, <2>1
  <2>2. CASE k \notin 1..n
    <3>1. k = n + 1 /\ k - 1 = n
      BY <1>1, <2>2
    <3> QED
      BY <1>0, <1>5, <2>2, <3>1
  <2> QED
    BY <2>1, <2>2
<1>9. Unread(next, others, p) = Append(Unread(h, elements, p), number)
  BY <1>6, <1>7, <1>8
<1> QED
  BY <1>9 DEF next, others

\* An element that was last to wait when the head goes on waits no more.
LEMMA BehindWraps ==
  ASSUME NEW h \in Positions, NEW p \in Positions, Behind(h, p) = RingSize - 1
  PROVE  Behind(Advance(h, 1), p) = 0
<1>1. 1 \in 0..RingSize
  BY RingAssumption
<1>2. Advance(h, 1) \in Positions
  BY <1>1, AdvanceIs
<1>3. Advance(h, 1) = IF h + 1 < RingSize THEN h + 1 ELSE h + 1 - RingSize
  BY <1>1, AdvanceIs
<1>4. /\ Behind(h, p) = IF p <= h THEN h - p ELSE h - p + RingSize
      /\ Behind(Advance(h, 1), p) =
           IF p <= Advance(h, 1) THEN Advance(h, 1) - p ELSE Advance(h, 1) - p + RingSize
  BY <1>2, BehindIs
<1> QED
  BY <1>2, <1>3, <1>4, RingAssumption DEF Positions

-------------------------------------------------------------------------------
(***************************************************************************)
(* The inductive invariant: the properties of WsRing in these terms, and   *)
(* that the readers are the clients that are open and not culled.  The     *)
(* parts need each other: a tail is in the ring only as long as the oldest *)
(* tail follows the slowest reader, a payload can be read only if it was   *)
(* not freed, and so on.                                                   *)
(***************************************************************************)
ReadersInv == pss_list = open \ culled

TailsInv == \A c \in pss_list : Behind(head, tail[c]) <= Behind(head, oldest)

KeptInv ==
  \A p \in Positions : element[p] # NULL <=> Behind(head, p) \in 1..Behind(head, oldest)

ReadsInv == \A c \in pss_list : Unread(head, element, tail[c]) = due[c]

AskedInv ==
  \A c \in pss_list : tail[c] # head /\ c \notin asked =>
    Behind(head, oldest) = RingSize - 1 /\ tail[c] = oldest

RingInv == TypeOK /\ ReadersInv /\ TailsInv /\ KeptInv /\ ReadsInv /\ AskedInv

\* The properties of WsRing are parts of it.
LEMMA RingInvImplies ==
  ASSUME RingInv
  PROVE  TypeOK /\ TailsInRing /\ FreedOnce /\ ReadsEveryNumber /\ WaitingIsAsked
<1>1. TypeOK /\ head \in Positions /\ oldest \in Positions /\ RingSize \in Nat
  BY RingAssumption DEF RingInv, TypeOK
<1>2. \A p : Waiting(p) = Behind(head, p)
  BY DEF Waiting, Behind
<1>3. TailsInRing
  BY <1>2 DEF RingInv, TailsInv, TailsInRing
<1>4. FreedOnce
  <2> SUFFICES ASSUME NEW p \in Positions
               PROVE  element[p] # NULL
                        <=> \E k \in 1..Behind(head, oldest) : p = Advance(oldest, k - 1)
    BY <1>2 DEF FreedOnce
  <2> QED
    BY <1>1, WindowIs DEF RingInv, KeptInv
<1>5. ReadsEveryNumber
  BY <1>2 DEF RingInv, ReadsInv, ReadsEveryNumber, FromHere, Unread
<1>6. WaitingIsAsked
  <2>1. Behind(head, oldest) = RingSize - 1 => Free = 0
    BY <1>1, <1>2 DEF Free
  <2> QED
    BY <2>1 DEF RingInv, AskedInv, WaitingIsAsked, HasElement, Lagging
<1> QED
  BY <1>1, <1>3, <1>4, <1>5, <1>6

LEMMA RingInit == Init => RingInv
<1> SUFFICES ASSUME Init PROVE RingInv
  OBVIOUS
<1> USE DEF Init
<1>1. 0 \in Positions /\ 0 \in Numbers /\ 0..TableSize \subseteq Int
  BY RingAssumption DEF Positions, Numbers
<1>2. NoMessage \in Messages
  BY RingAssumption DEF NoMessage, Messages
<1>3. TypeOK
  BY <1>1, <1>2 DEF TypeOK
<1>4. Behind(head, oldest) = 0
  BY <1>1, BehindByNone
<1>5. KeptInv
  BY <1>4 DEF KeptInv
<1> QED
  BY <1>3, <1>5 DEF RingInv, ReadersInv, TailsInv, ReadsInv, AskedInv

\* What the invariant says of the elements that are kept.
LEMMA KeptNumbers ==
  ASSUME RingInv, NEW q \in Positions, Behind(head, q) \in 1..Behind(head, oldest)
  PROVE  element[q] \in Numbers
BY DEF RingInv, TypeOK, KeptInv

LEMMA ReaderNumbers ==
  ASSUME RingInv, NEW p \in Positions, Behind(head, p) <= Behind(head, oldest)
  PROVE  \A q \in Positions : Behind(head, q) \in 1..Behind(head, p) => element[q] \in Numbers
<1> SUFFICES ASSUME NEW q \in Positions, Behind(head, q) \in 1..Behind(head, p)
             PROVE  element[q] \in Numbers
  OBVIOUS
<1>1. head \in Positions /\ oldest \in Positions
  BY DEF RingInv, TypeOK
<1>2. Behind(head, p) \in Nat /\ Behind(head, oldest) \in Nat
  BY <1>1, BehindIs
<1>3. Behind(head, q) \in 1..Behind(head, oldest)
  BY <1>2
<1> QED
  BY <1>3, KeptNumbers

-------------------------------------------------------------------------------
(* Consuming.                                                              *)

\* The slowest of some readers is one of them, and none is further behind.
LEMMA SlowestIs ==
  ASSUME head \in Positions, NEW readers \in SUBSET Clients, readers # {},
         NEW tails \in [Clients -> Positions]
  PROVE  /\ \E c \in readers : Slowest(readers, tails) = tails[c]
         /\ \A c \in readers : Behind(head, tails[c]) <= Behind(head, Slowest(readers, tails))
<1> DEFINE S == {Behind(head, tails[c]) : c \in readers}
<1>1. \A p : Waiting(p) = Behind(head, p)
  BY DEF Waiting, Behind
<1>2. S \in SUBSET (0..(RingSize - 1)) /\ RingSize - 1 \in Nat
  BY BehindIs, RingAssumption
<1>3. Max(S) \in S /\ \A x \in S : x <= Max(S)
  BY <1>2, Maximum
<1>4. PICK c \in readers : Max(S) = Behind(head, tails[c])
  BY <1>3
<1>5. \A d \in readers : Behind(head, tails[d]) <= Behind(head, tails[c])
  BY <1>3, <1>4
<1>6. Slowest(readers, tails)
        = CHOOSE p \in {tails[d] : d \in readers} :
            \A d \in readers : Behind(head, tails[d]) <= Behind(head, p)
  BY <1>1 DEF Slowest
<1> QED
  BY <1>5, <1>6

(***************************************************************************)
(* ConsumeAndUpdate, in these terms: reader c goes on by k elements; the   *)
(* oldest tail stays or goes to the slowest of the readers given, or to    *)
(* where c is if there is none; what is before it is freed, and only that. *)
(***************************************************************************)
AfterConsumed(c, k, readers) ==
  /\ head' = head
  /\ tail' = [tail EXCEPT ![c] = Advance(tail[c], k)]
  /\ tail' \in [Clients -> Positions]
  /\ Behind(head, tail'[c]) = Behind(head, tail[c]) - k
  /\ oldest' \in Positions /\ Behind(head, oldest') <= Behind(head, oldest)
  /\ element' \in [Positions -> Numbers \cup {NULL}]
  /\ \A p \in Positions :
       Behind(head, p) \in 1..Behind(head, oldest') => element'[p] = element[p]
  /\ \A p \in Positions :
       element'[p] # NULL <=> Behind(head, p) \in 1..Behind(head, oldest')
  /\ \A d \in readers : Behind(head, tail'[d]) <= Behind(head, oldest')
  /\ tail[c] # oldest => oldest' = oldest
  /\ tail[c] = oldest /\ readers = {} => oldest' = tail'[c]
  /\ tail[c] = oldest /\ readers # {} => \E d \in readers : oldest' = tail'[d]

LEMMA Consumed ==
  ASSUME RingInv, NEW c \in pss_list, NEW readers \in SUBSET pss_list,
         NEW k \in 0..Behind(head, tail[c]), ConsumeAndUpdate(c, k, readers)
  PROVE  AfterConsumed(c, k, readers)
<1> DEFINE tails == [tail EXCEPT ![c] = Advance(tail[c], k)]
           to == IF readers = {} THEN tails[c] ELSE Slowest(readers, tails)
           passed == {Advance(oldest, j) : j \in 0..(Behind(head, oldest) - Behind(head, to) - 1)}
<1>1. /\ c \in Clients /\ readers \subseteq Clients
      /\ tail \in [Clients -> Positions]
      /\ head \in Positions /\ oldest \in Positions
      /\ element \in [Positions -> Numbers \cup {NULL}]
  BY DEF RingInv, TypeOK
<1>2. \A p \in Positions : Behind(head, p) \in Nat
  BY <1>1, BehindIs
<1>3. Advance(tail[c], k) \in Positions
        /\ Behind(head, Advance(tail[c], k)) = Behind(head, tail[c]) - k
  BY <1>1, BehindAfter
<1>4. tails \in [Clients -> Positions] /\ tails[c] = Advance(tail[c], k)
  BY <1>1, <1>3
<1>5. \A p : Waiting(p) = Behind(head, p)
  BY DEF Waiting, Behind
<1>6. tail' = tails /\ head' = head
  BY DEF ConsumeAndUpdate
<1>7. \/ /\ tail[c] = oldest /\ oldest' = to
         /\ element' = [p \in Positions |-> IF p \in passed THEN NULL ELSE element[p]]
      \/ tail[c] # oldest /\ UNCHANGED <<oldest, element>>
  BY <1>5 DEF ConsumeAndUpdate
<1>8. \A d \in readers : Behind(head, tails[d]) <= Behind(head, tail[d])
                           /\ Behind(head, tail[d]) <= Behind(head, oldest)
  <2> SUFFICES ASSUME NEW d \in readers
               PROVE  Behind(head, tails[d]) <= Behind(head, tail[d])
                        /\ Behind(head, tail[d]) <= Behind(head, oldest)
    OBVIOUS
  <2>1. Behind(head, tail[d]) <= Behind(head, oldest)
    BY DEF RingInv, TailsInv
  <2>2. Behind(head, tail[d]) \in Nat /\ Behind(head, tail[c]) \in Nat
    BY <1>1, <1>2
  <2>3. CASE d = c
    BY <1>3, <1>4, <2>1, <2>2, <2>3
  <2>4. CASE d # c
    <3>1. tails[d] = tail[d]
      BY <1>1, <2>4
    <3> QED
      BY <2>1, <2>2, <3>1
  <2> QED
    BY <2>3, <2>4
<1>9. Behind(head, tail[c]) <= Behind(head, oldest)
  BY DEF RingInv, TailsInv
<1>10. \A d \in Clients : Behind(head, tails[d]) \in Nat /\ Behind(head, tail[d]) \in Nat
  BY <1>1, <1>2, <1>4
<1> HIDE DEF tails
<1>11. /\ to \in Positions
       /\ \A d \in readers : Behind(head, tails[d]) <= Behind(head, to)
       /\ readers # {} => \E d \in readers : to = tails[d]
  <2>1. CASE readers = {}
    BY <1>3, <1>4, <2>1
  <2>2. CASE readers # {}
    BY <1>1, <1>4, <2>2, SlowestIs
  <2> QED
    BY <2>1, <2>2
<1>12. Behind(head, to) <= Behind(head, oldest)
  <2>1. CASE readers = {}
    <3>1. Behind(head, to) = Behind(head, tail[c]) - k
      BY <1>3, <1>4, <2>1
    <3> QED
      BY <1>1, <1>2, <1>9, <3>1
  <2>2. CASE readers # {}
    <3>1. PICK d \in readers : to = tails[d]
      BY <1>11, <2>2
    <3>2. d \in Clients /\ Behind(head, oldest) \in Nat
      BY <1>1, <1>2
    <3> QED
      BY <1>8, <1>10, <3>1, <3>2
  <2> QED
    BY <2>1, <2>2
<1> HIDE DEF to
<1>13. \A p \in Positions :
         p \in passed <=> Behind(head, to) < Behind(head, p) /\ Behind(head, p) <= Behind(head, oldest)
  <2> SUFFICES ASSUME NEW p \in Positions
               PROVE  p \in passed
                        <=> Behind(head, to) < Behind(head, p) /\ Behind(head, p) <= Behind(head, oldest)
    OBVIOUS
  <2> DEFINE n == Behind(head, oldest) - Behind(head, to)
  <2>1. /\ Behind(head, to) \in Nat /\ Behind(head, oldest) \in Nat
        /\ n \in 0..Behind(head, oldest)
        /\ Behind(head, oldest) - n = Behind(head, to)
    BY <1>1, <1>2, <1>11, <1>12
  <2>2. p \in passed <=> \E j \in 0..(n - 1) : p = Advance(oldest, j)
    OBVIOUS
  <2> HIDE DEF n, passed
  <2>3. (\E j \in 0..(n - 1) : p = Advance(oldest, j))
          <=> Behind(head, oldest) - n < Behind(head, p) /\ Behind(head, p) <= Behind(head, oldest)
    BY <1>1, <2>1, PassedOver
  <2> QED
    BY <2>1, <2>2, <2>3
<1> HIDE DEF passed
<1>14. \A p \in Positions : element[p] # NULL <=> Behind(head, p) \in 1..Behind(head, oldest)
  BY DEF RingInv, KeptInv
<1>15. CASE tail[c] # oldest
  <2>1. UNCHANGED <<oldest, element>>
    BY <1>7, <1>15
  <2>2. \A d \in readers : Behind(head, tails[d]) <= Behind(head, oldest)
    <3> SUFFICES ASSUME NEW d \in readers PROVE Behind(head, tails[d]) <= Behind(head, oldest)
      OBVIOUS
    <3>1. d \in Clients /\ Behind(head, oldest) \in Nat
      BY <1>1, <1>2
    <3> QED
      BY <1>8, <1>10, <3>1
  <2>3. Behind(head, oldest) <= Behind(head, oldest)
    BY <1>1, <1>2
  <2> QED
    BY <1>1, <1>3, <1>4, <1>6, <1>14, <1>15, <2>1, <2>2, <2>3 DEF tails, AfterConsumed
<1>16. CASE tail[c] = oldest
  <2>1. /\ oldest' = to
        /\ element' = [p \in Positions |-> IF p \in passed THEN NULL ELSE element[p]]
    BY <1>7, <1>16
  <2>2. \A p \in Positions :
          /\ Behind(head, p) \in 1..Behind(head, to) => element'[p] = element[p]
          /\ element'[p] # NULL <=> Behind(head, p) \in 1..Behind(head, to)
    <3> SUFFICES ASSUME NEW p \in Positions
                 PROVE  /\ Behind(head, p) \in 1..Behind(head, to) => element'[p] = element[p]
                        /\ element'[p] # NULL <=> Behind(head, p) \in 1..Behind(head, to)
      OBVIOUS
    <3>1. /\ Behind(head, p) \in Nat /\ Behind(head, to) \in Nat /\ Behind(head, oldest) \in Nat
      BY <1>1, <1>2, <1>11
    <3>2. CASE p \in passed
      <4>1. element'[p] = NULL
        BY <2>1, <3>2
      <4>2. Behind(head, p) \notin 1..Behind(head, to)
        BY <1>13, <3>1, <3>2
      <4> QED
        BY <4>1, <4>2
    <3>3. CASE p \notin passed
      <4>1. element'[p] = element[p]
        BY <2>1, <3>3
      <4>2. Behind(head, p) \in 1..Behind(head, oldest) <=> Behind(head, p) \in 1..Behind(head, to)
        BY <1>12, <1>13, <3>1, <3>3
      <4> QED
        BY <1>14, <4>1, <4>2
    <3> QED
      BY <3>2, <3>3
  <2>3. element' \in [Positions -> Numbers \cup {NULL}]
    BY <1>1, <2>1
  <2>4. readers = {} => to = tails[c]
    BY DEF to
  <2> QED
    BY <1>3, <1>4, <1>6, <1>11, <1>12, <1>16, <2>1, <2>2, <2>3, <2>4 DEF tails, AfterConsumed
<1> QED
  BY <1>15, <1>16

-------------------------------------------------------------------------------
(* Every step keeps the invariant.                                         *)

\* Facts about a state of the program that the steps start from.
LEMMA RingState ==
  ASSUME RingInv
  PROVE  /\ open \subseteq Clients /\ pss_list \subseteq open
         /\ culled \subseteq open /\ asked \subseteq open
         /\ connection_ids \in [Slots -> Clients \cup {NULL}]
         /\ tail \in [Clients -> Positions]
         /\ head \in Positions /\ oldest \in Positions
         /\ element \in [Positions -> Numbers \cup {NULL}]
         /\ player \in [Clients -> Numbers]
         /\ event \in Messages
         /\ due \in [Clients -> Seq(Numbers)]
         /\ pss_list = open \ culled
         /\ \A p \in Positions : Behind(head, p) \in 0..(RingSize - 1)
         /\ RingSize - 1 \in Nat /\ TableSize \in Nat
         /\ \A n \in Numbers : n # NULL
<1>1. \A p \in Positions : Behind(head, p) \in 0..(RingSize - 1)
  BY BehindIs DEF RingInv, TypeOK
<1> QED
  BY <1>1, RingAssumption DEF RingInv, TypeOK, ReadersInv, Numbers

\* What a client sends is enqueued with a type and a number that exist.
LEMMA MessageTyped ==
  ASSUME RingInv, NEW c \in Clients, Enqueue(c) \/ Drop(c)
  PROVE  event' \in Messages
<1>1. player[c] - 1 \in -1..TableSize
  <2>1. player[c] \in Numbers
    BY RingState
  <2> QED
    BY <2>1, RingState DEF Numbers
<1>2. CASE UNCHANGED event
  BY <1>2, RingState
<1>3. CASE \E type \in Received :
             event' = [type |-> type, user_id |-> player[c] - 1, queued |-> TRUE]
  BY <1>1, <1>3 DEF Messages
<1>4. CASE Drop(c)
  BY <1>1, <1>4 DEF Drop, Messages
<1> QED
  BY <1>2, <1>3, <1>4 DEF Enqueue

\* WriteElement: one reader goes on by one element.
LEMMA WriteElementStep ==
  ASSUME RingInv, NEW c \in Clients, WriteElement(c)
  PROVE  RingInv'
<1>1. /\ c \in asked /\ c \notin culled /\ tail[c] # head
      /\ player' = [player EXCEPT ![c] = Believes(c, element[tail[c]])]
      /\ due' = [due EXCEPT ![c] = Tail(@)]
      /\ ConsumeAndUpdate(c, 1, pss_list)
      /\ asked' = IF HasElement(tail'[c]) THEN asked ELSE asked \ {c}
      /\ UNCHANGED <<open, connection_ids, pss_list, culled, event>>
  BY DEF WriteElement, HasElement
<1>2. c \in pss_list /\ c \in open
  BY <1>1, RingState
<1>3. /\ tail[c] \in Positions /\ Behind(head, tail[c]) \in Nat /\ Behind(head, tail[c]) # 0
      /\ Behind(head, tail[c]) <= Behind(head, oldest)
  BY <1>1, <1>2, RingState, BehindByNone DEF RingInv, TailsInv
<1>4. 1 \in 0..Behind(head, tail[c])
  BY <1>3
<1>4a. pss_list \in SUBSET pss_list /\ pss_list # {}
  BY <1>2
<1>4b. AfterConsumed(c, 1, pss_list)
  BY <1>1, <1>2, <1>4, <1>4a, Consumed
<1>5. /\ head' = head
      /\ tail' = [tail EXCEPT ![c] = Advance(tail[c], 1)]
      /\ tail' \in [Clients -> Positions]
      /\ Behind(head, tail'[c]) = Behind(head, tail[c]) - 1
      /\ oldest' \in Positions /\ Behind(head, oldest') <= Behind(head, oldest)
      /\ element' \in [Positions -> Numbers \cup {NULL}]
      /\ \A p \in Positions :
           Behind(head, p) \in 1..Behind(head, oldest') => element'[p] = element[p]
      /\ \A p \in Positions :
           element'[p] # NULL <=> Behind(head, p) \in 1..Behind(head, oldest')
      /\ \A d \in pss_list : Behind(head, tail'[d]) <= Behind(head, oldest')
      /\ tail[c] # oldest => oldest' = oldest
      /\ tail[c] = oldest => \E d \in pss_list : oldest' = tail'[d]
  BY <1>4a, <1>4b DEF AfterConsumed
<1>6. \A p \in Positions : Behind(head, p) \in Nat
  BY RingState
<1>7. element[tail[c]] \in Numbers
  <2>1. Behind(head, tail[c]) \in 1..Behind(head, oldest)
    BY <1>3, RingState
  <2> QED
    BY <1>3, <2>1, KeptNumbers
<1>8. \A q \in Positions : Behind(head, q) \in 1..Behind(head, tail[c]) => element[q] \in Numbers
  BY <1>3, ReaderNumbers
<1>9. \A d \in pss_list :
        \A q \in Positions : Behind(head, q) \in 1..Behind(head, tail'[d]) => element'[q] = element[q]
  <2> SUFFICES ASSUME NEW d \in pss_list, NEW q \in Positions,
                      Behind(head, q) \in 1..Behind(head, tail'[d])
               PROVE  element'[q] = element[q]
    OBVIOUS
  <2>1. /\ tail'[d] \in Positions /\ Behind(head, tail'[d]) \in Nat /\ Behind(head, oldest') \in Nat
        /\ Behind(head, tail'[d]) <= Behind(head, oldest')
    BY <1>5, <1>6, RingState
  <2>2. Behind(head, q) \in 1..Behind(head, oldest')
    BY <2>1
  <2> QED
    BY <1>5, <2>2
<1>10. ReadsInv'
  <2> SUFFICES ASSUME NEW d \in pss_list
               PROVE  Unread(head, element', tail'[d]) = due'[d]
    BY <1>1, <1>5 DEF ReadsInv
  <2>1. d \in Clients /\ tail'[d] \in Positions
    BY <1>5, RingState
  <2>2. Unread(head, element', tail'[d]) = Unread(head, element, tail'[d])
    BY <1>9, <2>1, RingState, UnreadSame
  <2>3. Unread(head, element, tail[d]) = due[d]
    BY DEF RingInv, ReadsInv
  <2>4. CASE d = c
    <3>1. Unread(head, element, Advance(tail[c], 1)) = Tail(Unread(head, element, tail[c]))
      BY <1>1, <1>3, <1>8, RingState, UnreadTail
    <3>2. due'[c] = Tail(due[c]) /\ tail'[c] = Advance(tail[c], 1)
      BY <1>1, <1>5, RingState
    <3> QED
      BY <2>2, <2>3, <2>4, <3>1, <3>2
  <2>5. CASE d # c
    <3>1. due'[d] = due[d] /\ tail'[d] = tail[d]
      BY <1>1, <1>5, <2>1, <2>5, RingState
    <3> QED
      BY <2>2, <2>3, <3>1
  <2> QED
    BY <2>4, <2>5
<1>11. AskedInv'
  <2> SUFFICES ASSUME NEW d \in pss_list, tail'[d] # head, d \notin asked'
               PROVE  Behind(head, oldest') = RingSize - 1 /\ tail'[d] = oldest'
    BY <1>1, <1>5 DEF AskedInv
  <2>1. d # c
    BY <1>1 DEF HasElement
  <2>2. d \notin asked /\ d \in Clients /\ tail'[d] = tail[d]
    BY <1>1, <1>5, <2>1, RingState
  <2>3. Behind(head, oldest) = RingSize - 1 /\ tail[d] = oldest
    BY <2>2 DEF RingInv, AskedInv
  <2>4. Behind(head, tail'[d]) <= Behind(head, oldest') /\ Behind(head, oldest') <= Behind(head, oldest)
    BY <1>5
  <2>5. Behind(head, oldest') = Behind(head, oldest)
    <3>1. Behind(head, oldest') \in Nat /\ Behind(head, oldest) \in Nat
      BY <1>5, <1>6, RingState
    <3> QED
      BY <2>2, <2>3, <2>4, <3>1
  <2>6. oldest' = oldest
    BY <1>5, <2>5, RingState, BehindTellsApart
  <2> QED
    BY <2>2, <2>3, <2>6
<1>12. TypeOK'
  <2>1. due' \in [Clients -> Seq(Numbers)]
    <3>1. due[c] = Unread(head, element, tail[c])
      BY <1>2 DEF RingInv, ReadsInv
    <3>2. Len(due[c]) = Behind(head, tail[c]) /\ due[c] \in Seq(Numbers)
      BY <1>3, <1>8, <3>1, RingState, UnreadType
    <3>3. due[c] # <<>>
      BY <1>3, <3>2
    <3>4. Tail(due[c]) \in Seq(Numbers)
      BY <3>2, <3>3, HeadTailProperties
    <3>5. due' = [due EXCEPT ![c] = Tail(due[c])]
      BY <1>1
    <3> QED
      BY <3>4, <3>5, RingState
  <2>2. player' \in [Clients -> Numbers]
    BY <1>1, <1>7, RingState DEF Believes
  <2>3. asked' \subseteq open
    BY <1>1, RingState
  <2>4. head' \in Positions
    BY <1>5, RingState
  <2> QED
    BY <1>1, <1>5, <2>1, <2>2, <2>3, <2>4, RingState DEF TypeOK
<1>13. ReadersInv'
  BY <1>1, RingState DEF ReadersInv
<1>14. TailsInv' /\ KeptInv'
  BY <1>1, <1>5 DEF TailsInv, KeptInv
<1> QED
  BY <1>10, <1>11, <1>12, <1>13, <1>14 DEF RingInv

\* CullAndReceive: the readers at the oldest tail are given up.
LEMMA CullStep ==
  ASSUME RingInv, NEW c \in Clients, CullAndReceive(c)
  PROVE  RingInv' /\ oldest' # oldest
<1> DEFINE survivors == pss_list \ Lagging
<1>1. PICK old_pss \in Lagging :
        ConsumeAndUpdate(old_pss, Waiting(oldest) - Most(survivors), survivors)
  BY DEF CullAndReceive
<1>2. /\ Free = 0 /\ culled' = culled \cup Lagging /\ pss_list' = survivors
      /\ IF oldest' = oldest THEN Drop(c) ELSE Enqueue(c)
      /\ UNCHANGED <<open, connection_ids, asked, player, due>>
  BY DEF CullAndReceive
<1>3. \A p : Waiting(p) = Behind(head, p)
  BY DEF Waiting, Behind
<1>4. Behind(head, oldest) = RingSize - 1 /\ Behind(head, oldest) \in Nat /\ RingSize - 1 > 0
  BY <1>2, <1>3, RingState, RingAssumption DEF Free
<1>5. old_pss \in pss_list /\ tail[old_pss] = oldest /\ Lagging \subseteq pss_list
  BY DEF Lagging
<1>6. Most(survivors) \in 0..Behind(head, oldest)
  <2>1. CASE survivors = {}
    BY <1>4, <2>1 DEF Most
  <2>2. CASE survivors # {}
    <3> DEFINE S == {Behind(head, tail[d]) : d \in survivors}
    <3>1. \A d \in survivors : Behind(head, tail[d]) \in 0..Behind(head, oldest)
      <4> SUFFICES ASSUME NEW d \in survivors
                   PROVE  Behind(head, tail[d]) \in 0..Behind(head, oldest)
        OBVIOUS
      <4>1. d \in pss_list /\ d \in Clients
        BY RingState
      <4>2. Behind(head, tail[d]) <= Behind(head, oldest)
        BY <4>1 DEF RingInv, TailsInv
      <4>3. Behind(head, tail[d]) \in Nat
        BY <4>1, RingState
      <4> QED
        BY <1>4, <4>2, <4>3
    <3>2. S \in SUBSET (0..Behind(head, oldest)) /\ S # {}
      BY <2>2, <3>1
    <3>3. Max(S) \in S
      BY <1>4, <3>2, Maximum
    <3>4. Most(survivors) = Max(S)
      BY <1>3, <2>2 DEF Most
    <3> QED
      BY <3>2, <3>3, <3>4
  <2> QED
    BY <2>1, <2>2
<1> DEFINE k == Waiting(oldest) - Most(survivors)
<1>7. k \in 0..Behind(head, tail[old_pss])
  BY <1>3, <1>4, <1>5, <1>6
<1>8. survivors \in SUBSET pss_list
  OBVIOUS
<1>9. ConsumeAndUpdate(old_pss, k, survivors)
  BY <1>1
<1> HIDE DEF k, survivors
<1>9a. AfterConsumed(old_pss, k, survivors)
  BY <1>5, <1>7, <1>8, <1>9, Consumed
<1>10. /\ head' = head
       /\ tail' = [tail EXCEPT ![old_pss] = Advance(tail[old_pss], k)]
       /\ tail' \in [Clients -> Positions]
       /\ Behind(head, tail'[old_pss]) = Behind(head, tail[old_pss]) - k
       /\ oldest' \in Positions /\ Behind(head, oldest') <= Behind(head, oldest)
       /\ element' \in [Positions -> Numbers \cup {NULL}]
       /\ \A p \in Positions :
            Behind(head, p) \in 1..Behind(head, oldest') => element'[p] = element[p]
       /\ \A p \in Positions :
            element'[p] # NULL <=> Behind(head, p) \in 1..Behind(head, oldest')
       /\ \A d \in survivors : Behind(head, tail'[d]) <= Behind(head, oldest')
       /\ survivors = {} => oldest' = tail'[old_pss]
       /\ survivors # {} => \E d \in survivors : oldest' = tail'[d]
  BY <1>5, <1>9a DEF AfterConsumed
<1>11. \A d \in survivors : d \in pss_list /\ d \in Clients /\ tail[d] # oldest /\ tail'[d] = tail[d]
  <2> SUFFICES ASSUME NEW d \in survivors
               PROVE  d \in pss_list /\ d \in Clients /\ tail[d] # oldest /\ tail'[d] = tail[d]
    OBVIOUS
  <2>1. d \in pss_list /\ d \in Clients /\ d \notin Lagging /\ d # old_pss
    BY <1>1, <1>8, RingState DEF survivors
  <2>2. tail[d] # oldest
    BY <2>1 DEF Lagging
  <2> QED
    BY <1>10, <2>1, <2>2, RingState
<1>12. oldest' # oldest
  <2>1. CASE survivors = {}
    <3>1. Most(survivors) = 0
      BY <2>1 DEF Most
    <3>2. k = Behind(head, oldest)
      BY <1>3, <1>4, <3>1 DEF k
    <3>3. Behind(head, oldest') = 0
      BY <1>4, <1>5, <1>10, <2>1, <3>2
    <3> QED
      BY <1>4, <3>3
  <2>2. CASE survivors # {}
    BY <1>10, <1>11, <2>2
  <2> QED
    BY <2>1, <2>2
<1>13. ReadsInv'
  <2> SUFFICES ASSUME NEW d \in survivors
               PROVE  Unread(head, element', tail'[d]) = due'[d]
    BY <1>2, <1>10 DEF ReadsInv, survivors
  <2>1. /\ tail'[d] \in Positions /\ Behind(head, tail'[d]) \in Nat /\ Behind(head, oldest') \in Nat
        /\ Behind(head, tail'[d]) <= Behind(head, oldest')
    BY <1>10, <1>11, RingState
  <2>2. \A q \in Positions : Behind(head, q) \in 1..Behind(head, tail'[d]) => element'[q] = element[q]
    <3> SUFFICES ASSUME NEW q \in Positions, Behind(head, q) \in 1..Behind(head, tail'[d])
                 PROVE  element'[q] = element[q]
      OBVIOUS
    <3>1. Behind(head, q) \in 1..Behind(head, oldest')
      BY <2>1
    <3> QED
      BY <1>10, <3>1
  <2>5. head \in Positions
    BY RingState
  <2>3. Unread(head, element', tail'[d]) = Unread(head, element, tail'[d])
    BY <2>1, <2>2, <2>5, UnreadSame
  <2>4. Unread(head, element, tail[d]) = due[d]
    BY <1>11 DEF RingInv, ReadsInv
  <2> QED
    BY <1>2, <1>11, <2>3, <2>4
<1>14. AskedInv'
  <2> SUFFICES ASSUME NEW d \in survivors, tail'[d] # head, d \notin asked PROVE FALSE
    BY <1>2, <1>10 DEF AskedInv, survivors
  <2>1. d \in pss_list /\ tail[d] # oldest /\ tail[d] # head
    BY <1>11
  <2> QED
    BY <2>1 DEF RingInv, AskedInv
<1>15. TypeOK'
  <2>1. event' \in Messages
    <3>1. Enqueue(c) \/ Drop(c)
      BY <1>2
    <3> QED
      BY <3>1, MessageTyped
  <2>2. survivors \subseteq open /\ culled \cup Lagging \subseteq open
    BY <1>5, <1>8, RingState
  <2>3. head' \in Positions
    BY <1>10, RingState
  <2>4. pss_list' = survivors
    BY <1>2 DEF survivors
  <2> QED
    BY <1>2, <1>10, <2>1, <2>2, <2>3, <2>4, RingState DEF TypeOK
<1>16. ReadersInv'
  BY <1>2, <1>5, RingState DEF ReadersInv, survivors
<1>17. TailsInv' /\ KeptInv'
  BY <1>2, <1>10 DEF TailsInv, KeptInv, survivors
<1> QED
  BY <1>12, <1>13, <1>14, <1>15, <1>16, <1>17 DEF RingInv

(***************************************************************************)
(* Established, once insert_id has given the client its number: it reads   *)
(* from the oldest tail on, and the number goes to everyone or, with no    *)
(* room, to no one.                                                        *)
(***************************************************************************)
LEMMA BroadcastStep ==
  ASSUME RingInv, NEW c \in Clients \ open, NEW number \in Numbers,
         open' = open \cup {c}, pss_list' = pss_list \cup {c},
         tail' = [tail EXCEPT ![c] = oldest],
         connection_ids' \in [Slots -> Clients \cup {NULL}],
         Broadcast(number, pss_list', [due EXCEPT ![c] = FromHere(oldest)]),
         UNCHANGED <<culled, player, event>>
  PROVE  RingInv'
<1> DEFINE base == [due EXCEPT ![c] = FromHere(oldest)]
           B == Behind(head, oldest)
<1>1. \A p : Waiting(p) = Behind(head, p)
  BY DEF Waiting, Behind
<1>2. head \in Positions /\ oldest \in Positions /\ B \in 0..(RingSize - 1)
  BY RingState
<1>3. FromHere(oldest) = Unread(head, element, oldest)
  BY <1>1 DEF FromHere, Unread
<1>4. B <= B
  BY <1>2
<1>5. Unread(head, element, oldest) \in Seq(Numbers)
  <2>1. \A q \in Positions : Behind(head, q) \in 1..B => element[q] \in Numbers
    BY <1>2, <1>4, ReaderNumbers
  <2> QED
    BY <1>2, <2>1, UnreadType
<1>6. base \in [Clients -> Seq(Numbers)] /\ base[c] = Unread(head, element, oldest)
  BY <1>3, <1>5, RingState
<1>7. tail' \in [Clients -> Positions] /\ tail'[c] = oldest
  BY <1>2, RingState
<1>8. \A d \in pss_list' :
        /\ d \in Clients
        /\ Behind(head, tail'[d]) <= B
        /\ Unread(head, element, tail'[d]) = base[d]
        /\ d # c => d \in pss_list /\ tail'[d] = tail[d]
  <2> SUFFICES ASSUME NEW d \in pss_list'
               PROVE  /\ d \in Clients
                      /\ Behind(head, tail'[d]) <= B
                      /\ Unread(head, element, tail'[d]) = base[d]
                      /\ d # c => d \in pss_list /\ tail'[d] = tail[d]
    OBVIOUS
  <2>1. CASE d = c
    BY <1>4, <1>6, <1>7, <2>1
  <2>2. CASE d # c
    <3>1. d \in pss_list /\ d \in Clients /\ tail'[d] = tail[d] /\ base[d] = due[d]
      BY <1>6, <2>2, RingState
    <3> QED
      BY <3>1 DEF RingInv, TailsInv, ReadsInv
  <2> QED
    BY <2>1, <2>2
<1>9. ReadersInv'
  BY RingState DEF ReadersInv
<1>10. Free = RingSize - 1 - B
  BY <1>1 DEF Free
<1> HIDE DEF base, B
<1>11. CASE Free > 0
  <2>1. B < RingSize - 1
    BY <1>2, <1>10, <1>11, RingState
  <2>2. /\ element' = [element EXCEPT ![head] = number]
        /\ head' = Advance(head, 1)
        /\ asked' = asked \cup pss_list'
        /\ due' = [d \in Clients |-> IF d \in pss_list' THEN Append(base[d], number) ELSE base[d]]
        /\ oldest' = oldest
    BY <1>10, <1>11, <1>2, <2>1, RingState DEF Broadcast, base
  <2>3. head' \in Positions /\ Behind(head', oldest) = B + 1
    BY <1>2, <2>1, <2>2, BehindNext DEF B
  <2>4. element' \in [Positions -> Numbers \cup {NULL}] /\ element'[head] = number
        /\ \A q \in Positions : q # head => element'[q] = element[q]
    BY <1>2, <2>2, RingState
  <2>5. \A d \in pss_list' :
          /\ tail'[d] \in Positions /\ Behind(head, tail'[d]) \in Nat
          /\ Behind(head, tail'[d]) < RingSize - 1
          /\ Behind(head', tail'[d]) = Behind(head, tail'[d]) + 1
    <3> SUFFICES ASSUME NEW d \in pss_list'
                 PROVE  /\ tail'[d] \in Positions /\ Behind(head, tail'[d]) \in Nat
                        /\ Behind(head, tail'[d]) < RingSize - 1
                        /\ Behind(head', tail'[d]) = Behind(head, tail'[d]) + 1
      OBVIOUS
    <3>1. tail'[d] \in Positions /\ Behind(head, tail'[d]) \in Nat /\ RingSize - 1 \in Nat
      BY <1>7, <1>8, RingState
    <3>2. Behind(head, tail'[d]) < RingSize - 1
      BY <1>2, <1>8, <2>1, <3>1
    <3> QED
      BY <1>2, <2>2, <3>1, <3>2, BehindNext
  <2>6. TailsInv'
    <3> SUFFICES ASSUME NEW d \in pss_list'
                 PROVE  Behind(head', tail'[d]) <= Behind(head', oldest)
      BY <2>2 DEF TailsInv
    <3> QED
      BY <1>2, <1>8, <2>3, <2>5
  <2>7. KeptInv'
    <3> SUFFICES ASSUME NEW p \in Positions
                 PROVE  element'[p] # NULL <=> Behind(head', p) \in 1..Behind(head', oldest)
      BY <2>2 DEF KeptInv
    <3>1. element[p] # NULL <=> Behind(head, p) \in 1..B
      BY DEF RingInv, KeptInv, B
    <3>2. Behind(head, p) \in 0..(RingSize - 1)
      BY RingState
    <3>3. CASE p = head
      <4>1. Behind(head, p) = 0
        BY <1>2, <3>3, BehindByNone
      <4>2. Behind(head', p) = 1
        BY <1>2, <2>1, <2>2, <4>1, BehindNext, RingState
      <4>3. element'[p] # NULL
        BY <2>4, <3>3, RingState
      <4> QED
        BY <1>2, <2>3, <4>2, <4>3
    <3>4. CASE p # head /\ Behind(head, p) < RingSize - 1
      <4>1. Behind(head', p) = Behind(head, p) + 1
        BY <1>2, <2>2, <3>4, BehindNext
      <4>2. Behind(head, p) # 0
        BY <1>2, <3>4, BehindByNone
      <4>3. element'[p] = element[p]
        BY <2>4, <3>4
      <4> QED
        BY <1>2, <2>3, <3>1, <3>2, <4>1, <4>2, <4>3
    <3>5. CASE p # head /\ Behind(head, p) = RingSize - 1
      <4>1. Behind(head', p) = 0
        BY <1>2, <2>2, <3>5, BehindWraps
      <4>2. element'[p] = element[p]
        BY <2>4, <3>5
      <4>3. ~(Behind(head, p) \in 1..B)
        BY <1>2, <2>1, <3>5, RingState
      <4> QED
        BY <3>1, <4>1, <4>2, <4>3
    <3>6. Behind(head, p) < RingSize - 1 \/ Behind(head, p) = RingSize - 1
      BY <3>2, RingState
    <3> QED
      BY <3>3, <3>4, <3>5, <3>6
  <2>8. ReadsInv'
    <3> SUFFICES ASSUME NEW d \in pss_list'
                 PROVE  Unread(head', element', tail'[d]) = due'[d]
      BY DEF ReadsInv
    <3>1. \A q \in Positions : Behind(head, q) \in 1..Behind(head, tail'[d]) => element[q] \in Numbers
      BY <1>8, <2>5, ReaderNumbers DEF B
    <3>2. Unread(Advance(head, 1), element', tail'[d])
            = Append(Unread(head, element, tail'[d]), number)
      <4>1. tail'[d] \in Positions /\ Behind(head, tail'[d]) < RingSize - 1
        BY <2>5
      <4>2. element \in [Positions -> Numbers \cup {NULL}] /\ element' = [element EXCEPT ![head] = number]
        BY <2>2, RingState
      <4>3. \A p \in Positions :
              /\ Behind(head, p) < RingSize - 1
              /\ \A q \in Positions : Behind(head, q) \in 1..Behind(head, p) => element[q] \in Numbers
              => Unread(Advance(head, 1), [element EXCEPT ![head] = number], p)
                   = Append(Unread(head, element, p), number)
        BY <1>2, <4>2, UnreadAppend
      <4> QED
        BY <3>1, <4>1, <4>2, <4>3
    <3>3. due'[d] = Append(base[d], number)
      BY <1>8, <2>2
    <3> QED
      BY <1>8, <2>2, <2>4, <3>2, <3>3
  <2>9. AskedInv'
    BY <2>2 DEF AskedInv
  <2>10. TypeOK'
    <3>1. due' \in [Clients -> Seq(Numbers)]
      <4>1. \A d \in Clients : base[d] \in Seq(Numbers) /\ Append(base[d], number) \in Seq(Numbers)
        BY <1>6
      <4> QED
        BY <2>2, <4>1
    <3>2. open' \subseteq Clients /\ pss_list' \subseteq open' /\ culled' \subseteq open'
          /\ asked' \subseteq open'
      BY <2>2, RingState
    <3> QED
      BY <1>7, <2>2, <2>3, <2>4, <3>1, <3>2, RingState DEF TypeOK
  <2> QED
    BY <1>9, <2>6, <2>7, <2>8, <2>9, <2>10 DEF RingInv
<1>12. CASE Free = 0
  <2>1. B = RingSize - 1
    BY <1>2, <1>10, <1>12, RingState
  <2>2. due' = base /\ UNCHANGED <<ring, asked>>
    BY <1>12 DEF Broadcast, base
  <2>3. head' = head /\ oldest' = oldest /\ element' = element
    BY <2>2 DEF ring
  <2>4. TailsInv' /\ ReadsInv'
    BY <1>8, <2>2, <2>3 DEF TailsInv, ReadsInv, B
  <2>5. KeptInv'
    BY <2>3 DEF RingInv, KeptInv
  <2>6. AskedInv'
    <3> SUFFICES ASSUME NEW d \in pss_list', tail'[d] # head, d \notin asked
                 PROVE  tail'[d] = oldest
      BY <2>1, <2>2, <2>3 DEF AskedInv, B
    <3>1. CASE d = c
      BY <1>7, <3>1
    <3>2. CASE d # c
      BY <1>8, <3>2 DEF RingInv, AskedInv
    <3> QED
      BY <3>1, <3>2
  <2>7. TypeOK'
    <3>1. open' \subseteq Clients /\ pss_list' \subseteq open' /\ culled' \subseteq open'
          /\ asked' \subseteq open'
      BY <2>2, RingState
    <3> QED
      BY <1>6, <1>7, <2>2, <2>3, <3>1, RingState DEF TypeOK
  <2> QED
    BY <1>9, <2>4, <2>5, <2>6, <2>7 DEF RingInv
<1> QED
  BY <1>11, <1>12 DEF Broadcast

\* The number of a new client: an id of the table plus one, or zero.
LEMMA EstablishedStep ==
  ASSUME RingInv, NEW c \in Clients, Established(c)
  PROVE  RingInv'
<1> DEFINE free == {s \in Slots : connection_ids[s] = NULL}
           id == IF free = {} THEN -1 ELSE Min(free)
<1>1. /\ c \in Clients \ open /\ open' = open \cup {c} /\ pss_list' = pss_list \cup {c}
      /\ tail' = [tail EXCEPT ![c] = oldest]
      /\ connection_ids' = [s \in Slots |-> IF s = id THEN c ELSE connection_ids[s]]
      /\ Broadcast(id + 1, pss_list', [due EXCEPT ![c] = FromHere(oldest)])
      /\ UNCHANGED <<culled, player, event>>
  BY DEF Established
<1>2. id + 1 \in Numbers
  <2>1. CASE free = {}
    BY <2>1, RingAssumption DEF Numbers
  <2>2. CASE free # {}
    <3>1. free \in SUBSET Nat
      BY RingAssumption DEF Slots
    <3>2. Min(free) \in Slots
      BY <2>2, <3>1, Minimum
    <3> QED
      BY <2>2, <3>2, RingAssumption DEF Slots, Numbers
  <2> QED
    BY <2>1, <2>2
<1>3. connection_ids' \in [Slots -> Clients \cup {NULL}]
  BY <1>1, RingState
<1> HIDE DEF free, id
<1> QED
  BY <1>1, <1>2, <1>3, BroadcastStep

\* Closed: the others and the ring stay as they are.
LEMMA ClosedStep ==
  ASSUME RingInv, NEW c \in Clients, Closed(c)
  PROVE  RingInv'
<1>1. /\ open' = open \ {c} /\ pss_list' = pss_list \ {c}
      /\ culled' = culled \ {c} /\ asked' = asked \ {c}
      /\ connection_ids' = [s \in Slots |-> IF connection_ids[s] = c THEN NULL ELSE connection_ids[s]]
      /\ event' = [type |-> "MSG_DISCONNECT", user_id |-> 0, queued |-> TRUE]
      /\ tail' = [tail EXCEPT ![c] = 0] /\ due' = [due EXCEPT ![c] = <<>>]
      /\ player' = [player EXCEPT ![c] = 0]
      /\ head' = head /\ oldest' = oldest /\ element' = element
  BY DEF Closed, ring
<1>2. \A d \in pss_list' : d \in pss_list /\ d # c /\ tail'[d] = tail[d] /\ due'[d] = due[d]
  BY <1>1, RingState
<1>3. TypeOK'
  <2>1. event' \in Messages
    BY <1>1, RingState DEF Messages
  <2>2. 0 \in Positions /\ 0 \in Numbers
    BY RingAssumption DEF Positions, Numbers
  <2>3. /\ tail' \in [Clients -> Positions] /\ due' \in [Clients -> Seq(Numbers)]
        /\ player' \in [Clients -> Numbers]
        /\ connection_ids' \in [Slots -> Clients \cup {NULL}]
    BY <1>1, <2>2, RingState
  <2>4. open' \subseteq Clients /\ pss_list' \subseteq open'
        /\ culled' \subseteq open' /\ asked' \subseteq open'
    BY <1>1, RingState
  <2> QED
    BY <1>1, <2>1, <2>3, <2>4, RingState DEF TypeOK
<1>4. ReadersInv'
  BY <1>1, RingState DEF ReadersInv
<1>5. TailsInv' /\ KeptInv' /\ ReadsInv' /\ AskedInv'
  BY <1>1, <1>2 DEF RingInv, TailsInv, KeptInv, ReadsInv, AskedInv
<1> QED
  BY <1>3, <1>4, <1>5 DEF RingInv

\* Steps that only enqueue or drop a message, or take back a request.
LEMMA QuietStep ==
  ASSUME RingInv, asked' \subseteq asked, event' \in Messages,
         \A d \in asked \ asked' : d \in culled \/ tail[d] = head,
         UNCHANGED <<open, connection_ids, pss_list, culled, tail, head, oldest, element, player, due>>
  PROVE  RingInv'
<1>1. TypeOK'
  BY RingState DEF TypeOK
<1>2. AskedInv'
  <2> SUFFICES ASSUME NEW d \in pss_list, tail[d] # head, d \notin asked'
               PROVE  Behind(head, oldest) = RingSize - 1 /\ tail[d] = oldest
    BY DEF AskedInv
  <2>1. d \notin asked
    BY RingState
  <2> QED
    BY <2>1 DEF RingInv, AskedInv
<1> QED
  BY <1>1, <1>2 DEF RingInv, ReadersInv, TailsInv, KeptInv, ReadsInv

LEMMA RingStep == RingInv /\ [Next]_vars => RingInv'
<1> SUFFICES ASSUME RingInv, [Next]_vars PROVE RingInv'
  OBVIOUS
<1>1. ASSUME UNCHANGED vars PROVE RingInv'
  BY <1>1, QuietStep, RingState DEF vars, ring
<1>2. ASSUME NEW c \in Clients, WriteNothing(c) PROVE RingInv'
  BY <1>2, QuietStep, RingState DEF WriteNothing, HasElement, ring
<1>3. ASSUME NEW c \in Clients, Receive(c) \/ ReceiveDropped(c) PROVE RingInv'
  <2>1. event' \in Messages
    BY <1>3, MessageTyped DEF Receive, ReceiveDropped
  <2>2. UNCHANGED <<open, connection_ids, pss_list, culled, asked, tail, head, oldest, element, player, due>>
    BY <1>3 DEF Receive, ReceiveDropped, ring
  <2> QED
    BY <2>1, <2>2, QuietStep
<1>4. ASSUME NEW c \in Clients, Writeable(c) PROVE RingInv'
  BY <1>1, <1>2, <1>4, WriteElementStep DEF Writeable, WriteFails
<1> QED
  BY <1>1, <1>3, <1>4, EstablishedStep, ClosedStep, CullStep DEF Next, callback_minimal

LEMMA RingInvariant == Spec => []RingInv
BY RingInit, RingStep, PTL DEF Spec

-------------------------------------------------------------------------------
(* The theorems.                                                           *)

(***************************************************************************)
(* The ring, the table and the clients are always what their types say.    *)
(***************************************************************************)
THEOREM RingTypes == Spec => []TypeOK
BY RingInvariant, RingInvImplies, PTL

(***************************************************************************)
(* No reader is behind the oldest tail, whoever joins, reads, leaves or is *)
(* culled (lws_ring_consume_and_update_oldest_tail as                      *)
(* protocol_lws_minimal.c and cull_lagging_clients use it).                *)
(***************************************************************************)
THEOREM TailsStayInRing == Spec => []TailsInRing
BY RingInvariant, RingInvImplies, PTL

(***************************************************************************)
(* A payload is kept exactly while the oldest tail has not passed it.      *)
(***************************************************************************)
THEOREM PayloadsFreedOnce == Spec => []FreedOnce
BY RingInvariant, RingInvImplies, PTL

(***************************************************************************)
(* Each reader still gets every number that was put in since it joined,    *)
(* in order.                                                               *)
(***************************************************************************)
THEOREM NumbersReachReaders == Spec => []ReadsEveryNumber
BY RingInvariant, RingInvImplies, PTL

(***************************************************************************)
(* A reader with something to read waits for a callback, or the full ring  *)
(* will cull it.                                                           *)
(***************************************************************************)
THEOREM ReadersAreAsked == Spec => []WaitingIsAsked
BY RingInvariant, RingInvImplies, PTL

(***************************************************************************)
(* Culling moves the oldest tail on, so that the message that came in is   *)
(* enqueued whenever a reader was to blame (cull_lagging_clients and its   *)
(* caller, protocol_lws_minimal.c).                                        *)
(***************************************************************************)
THEOREM CullingMakesRoom == Spec => CullMakesRoom
<1>1. ASSUME RingInv, [Next]_vars, Lagging # {}, event' # event
      PROVE  event'.queued
  <2>0. ASSUME NEW c \in Clients, Enqueue(c) PROVE event'.queued
    BY <1>1, <2>0 DEF Enqueue
  <2>1. ASSUME NEW c \in Clients, CullAndReceive(c) PROVE event'.queued
    <3>1. oldest' # oldest
      BY <1>1, <2>1, CullStep
    <3> QED
      BY <2>0, <2>1, <3>1 DEF CullAndReceive
  <2>2. ASSUME NEW c \in Clients, Closed(c) \/ Receive(c) PROVE event'.queued
    BY <2>0, <2>2 DEF Closed, Receive
  <2>3. ASSUME NEW c \in Clients, Established(c) \/ Writeable(c) \/ ReceiveDropped(c) PROVE FALSE
    BY <1>1, <2>3
       DEF Established, Writeable, WriteElement, WriteFails, WriteNothing, ReceiveDropped, vars
  <2> QED
    BY <1>1, <2>1, <2>2, <2>3 DEF Next, callback_minimal, vars
<1> QED
  BY <1>1, RingInvariant, PTL DEF Spec, CullMakesRoom
===============================================================================
