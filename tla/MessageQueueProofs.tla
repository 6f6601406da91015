-------------------------- MODULE MessageQueueProofs --------------------------
(***************************************************************************)
(* Proofs about MessageQueue for every set of producers, every memory size *)
(* and every buffer capacity.                                              *)
(***************************************************************************)
EXTENDS MessageQueue, SequenceTheorems, TLAPS

(* A state of the program is well typed whatever the threads do.           *)
(* TypeOK only needs that the cell deq is about to unlink exists, which is *)
(* DequeueNeverEmpty; the invariants are therefore proved together.        *)

\* A thread is between lock and unlock exactly when it holds binary_sem.
LockInv ==
  /\ \A p \in Producers : InEnq(p) <=> mutex = p
  /\ InPop <=> mutex = Main

\* What a producer inside enq knows about its element.
EnqInv == \A p \in Producers :
  /\ pc[p] \in {"alloc", "link"} => sent[p] < MaxSent
  /\ pc[p] = "link" =>
       /\ elt[p] \in allocated
       /\ next[elt[p]] = NULL
       /\ msg[elt[p]] = <<p, sent[p] + 1>>
       /\ \A k \in 1..Len(chain) : chain[k] # elt[p]
  /\ pc[p] = "tail" => chain # <<>> /\ elt[p] = chain[Len(chain)]

\* Where the copying loop is: i elements are in the buffer, and what the loop
\* still has to dequeue is in the list.
PopInv ==
  /\ InPop => /\ i <= CopyCount
              /\ length + i = newLength
              /\ Len(taken) = IF pc[Main] = "drop" THEN i + 1 ELSE i
              /\ \A k \in 1..i : buffer[k] = taken[k]
  /\ pc[Main] = "drop" => /\ i < CopyCount
                          /\ ret = taken[i + 1]
                          /\ victim \in allocated
                          /\ \A k \in 1..Len(chain) : chain[k] # victim
  /\ ~InPop => taken = <<>>

\* The elements of the list hold real events.
ContentsInv == \A k \in 1..Len(chain) : msg[chain[k]] \in Event

IInv ==
  /\ TypeOK /\ LockInv /\ ListWellFormed /\ LengthCounts
  /\ EnqInv /\ PopInv /\ ContentsInv /\ UnlockedSizeIsALowerBound

(* init_msg_q establishes the invariant.                                   *)
LEMMA InitIInv == Init => IInv
<1> SUFFICES ASSUME Init PROVE IInv
  OBVIOUS
<1> USE QueueAssumption DEF Init
<1>1. TypeOK
  BY DEF TypeOK, Labels, Threads, NoList
<1>2. LockInv
  BY DEF LockInv, InEnq, InPop, Threads
<1>3. ListWellFormed /\ LengthCounts
  BY DEF ListWellFormed, LengthCounts, Uncounted, NotCountedOut, Threads
<1>4. EnqInv /\ PopInv /\ ContentsInv /\ UnlockedSizeIsALowerBound
  BY DEF EnqInv, PopInv, ContentsInv, UnlockedSizeIsALowerBound, InPop, Threads
<1> QED
  BY <1>1, <1>2, <1>3, <1>4 DEF IInv

(* Every action preserves it; one lemma per action, one step per conjunct. *)
LEMMA EnqLockIInv ==
  ASSUME IInv, NEW p \in Producers, EnqLock(p)
  PROVE  IInv'
<1> USE QueueAssumption DEF IInv, EnqLock, Goto, Lock, queueVars, producerVars, popVars
<1>1. TypeOK'
  BY DEF TypeOK, Labels, Threads
<1>2. LockInv'
  BY DEF LockInv, InEnq, InPop, TypeOK, Threads
<1>3. ListWellFormed'
  BY DEF ListWellFormed, TypeOK, Threads
<1>4. LengthCounts'
  BY DEF LengthCounts, Uncounted, NotCountedOut, TypeOK, Threads
<1>5. EnqInv'
  BY DEF EnqInv, TypeOK, Threads
<1>6. PopInv'
  BY DEF PopInv, InPop, CopyCount, TypeOK, Threads
<1>7. ContentsInv'
  BY DEF ContentsInv
<1>8. UnlockedSizeIsALowerBound'
  BY DEF UnlockedSizeIsALowerBound, InPop, TypeOK, Threads
<1> QED
  BY <1>1, <1>2, <1>3, <1>4, <1>5, <1>6, <1>7, <1>8

LEMMA EnqAllocIInv ==
  ASSUME IInv, NEW p \in Producers, EnqAlloc(p)
  PROVE  IInv'
<1> USE QueueAssumption DEF IInv, Goto, queueVars, producerVars, popVars
<1>c. PICK c \in Cells \ allocated :
        /\ elt' = [elt EXCEPT ![p] = c]
        /\ allocated' = allocated \cup {c}
        /\ msg' = [msg EXCEPT ![c] = <<p, sent[p] + 1>>]
        /\ next' = [next EXCEPT ![c] = NULL]
  BY DEF EnqAlloc
<1>p. /\ pc[p] = "alloc" /\ pc' = [pc EXCEPT ![p] = "link"] /\ sent[p] < MaxSent
      /\ UNCHANGED <<mutex, head, tail, length, chain, sent, popVars>>
  BY DEF EnqAlloc, EnqInv
<1>o. ~InPop /\ \A q \in Producers \ {p} : ~InEnq(q)
  BY <1>p DEF LockInv, InEnq
<1>e. <<p, sent[p] + 1>> \in Event
  BY <1>p DEF Event, TypeOK
<1>n. \A k \in 1..Len(chain) : chain[k] # c
  BY <1>c DEF ListWellFormed
<1>1. TypeOK'
  BY <1>c, <1>p, <1>e DEF TypeOK, Labels, Threads
<1>2. LockInv'
  BY <1>p DEF LockInv, InEnq, InPop, TypeOK, Threads
<1>3. ListWellFormed'
  BY <1>c, <1>p, <1>n DEF ListWellFormed, TypeOK, Threads
<1>4. LengthCounts'
  BY <1>p DEF LengthCounts, Uncounted, NotCountedOut, TypeOK, Threads
<1>5. EnqInv'
  BY <1>c, <1>p, <1>n, <1>o DEF EnqInv, InEnq, TypeOK, Threads
<1>6. PopInv'
  BY <1>p, <1>o DEF PopInv, InPop, CopyCount, TypeOK, Threads
<1>7. ContentsInv'
  BY <1>c, <1>p, <1>n, <1>e DEF ContentsInv, TypeOK
<1>8. UnlockedSizeIsALowerBound'
  BY <1>p DEF UnlockedSizeIsALowerBound, InPop, TypeOK, Threads
<1> QED
  BY <1>1, <1>2, <1>3, <1>4, <1>5, <1>6, <1>7, <1>8

LEMMA EnqAllocFailsIInv ==
  ASSUME IInv, NEW p \in Producers, EnqAllocFails(p)
  PROVE  IInv'
<1> USE QueueAssumption DEF IInv, queueVars, producerVars, popVars
<1>p. /\ pc[p] = "alloc" /\ pc' = [pc EXCEPT ![p] = "aborted"]
      /\ UNCHANGED <<mutex, queueVars, producerVars, popVars>>
  BY DEF EnqAllocFails, Goto
<1>1. TypeOK'
  BY <1>p DEF TypeOK, Labels, Threads
<1>2. LockInv'
  BY <1>p DEF LockInv, InEnq, InPop, TypeOK, Threads
<1>3. ListWellFormed'
  BY <1>p DEF ListWellFormed, TypeOK, Threads
<1>4. LengthCounts'
  BY <1>p DEF LengthCounts, Uncounted, NotCountedOut, TypeOK, Threads
<1>5. EnqInv'
  BY <1>p DEF EnqInv, TypeOK, Threads
<1>6. PopInv'
  BY <1>p DEF PopInv, InPop, CopyCount, TypeOK, Threads
<1>7. ContentsInv'
  BY <1>p DEF ContentsInv
<1>8. UnlockedSizeIsALowerBound'
  BY <1>p DEF UnlockedSizeIsALowerBound, InPop, TypeOK, Threads
<1> QED
  BY <1>1, <1>2, <1>3, <1>4, <1>5, <1>6, <1>7, <1>8

LEMMA EnqLinkIInv ==
  ASSUME IInv, NEW p \in Producers, EnqLink(p)
  PROVE  IInv'
<1> USE QueueAssumption DEF IInv, queueVars, producerVars, popVars
<1>p. /\ pc[p] = "link" /\ pc' = [pc EXCEPT ![p] = "tail"]
      /\ chain' = Append(chain, elt[p])
      /\ sent' = [sent EXCEPT ![p] = @ + 1] /\ sent[p] < MaxSent
      /\ UNCHANGED <<mutex, tail, length, msg, allocated, elt, popVars>>
  BY DEF EnqLink, Goto, EnqInv
<1>l. \/ head = NULL /\ head' = elt[p] /\ UNCHANGED next
      \/ head # NULL /\ next' = [next EXCEPT ![tail] = elt[p]] /\ UNCHANGED head
  BY DEF EnqLink
<1>o. ~InPop /\ \A q \in Producers \ {p} : ~InEnq(q)
  BY <1>p DEF LockInv, InEnq
<1>e. /\ elt[p] \in Cells /\ elt[p] \in allocated /\ elt[p] # NULL
      /\ msg[elt[p]] = <<p, sent[p] + 1>>
      /\ next[elt[p]] = NULL
      /\ \A k \in 1..Len(chain) : chain[k] # elt[p]
  BY <1>p DEF EnqInv, TypeOK
<1>m. msg[elt[p]] \in Event
  BY <1>p, <1>e DEF Event, TypeOK
<1>a. /\ chain' \in Seq(Cells) /\ Len(chain') = Len(chain) + 1
      /\ Len(chain) \in Nat /\ chain' # <<>>
      /\ \A k \in 1..Len(chain) : chain'[k] = chain[k] /\ chain[k] \in Cells
      /\ chain'[Len(chain) + 1] = elt[p]
  BY <1>p, <1>e DEF TypeOK
<1>t. chain # <<>> => /\ head # NULL /\ tail = chain[Len(chain)] /\ Len(chain) > 0
                      /\ chain[Len(chain)] \in Cells
  BY <1>o, <1>p DEF ListWellFormed, InEnq, TypeOK
<1>1. TypeOK'
  <2>1. head' \in Cells \cup {NULL} /\ next' \in [Cells -> Cells \cup {NULL}]
    BY <1>l, <1>e DEF TypeOK
  <2>2. sent' \in [Producers -> 0..MaxSent]
    BY <1>p DEF TypeOK
  <2> QED
    BY <2>1, <2>2, <1>p, <1>a DEF TypeOK, Labels, Threads
<1>2. LockInv'
  BY <1>p DEF LockInv, InEnq, InPop, TypeOK, Threads
<1>3. ListWellFormed'
  <2>0. pc'[p] = "tail"
    BY <1>p DEF TypeOK, Threads
  <2>1. CASE chain = <<>>
    <3>1. head = NULL /\ head' = elt[p] /\ UNCHANGED next /\ Len(chain) = 0
      BY <2>1, <1>l DEF ListWellFormed
    <3> QED
      BY <3>1, <2>0, <1>p, <1>e, <1>a DEF ListWellFormed
  <2>2. CASE chain # <<>>
    <3>1. UNCHANGED head /\ next' = [next EXCEPT ![chain[Len(chain)]] = elt[p]]
      BY <2>2, <1>t, <1>l
    <3>2. head' = chain'[1]
      BY <3>1, <2>2, <1>a, <1>t DEF ListWellFormed
    <3>3. ASSUME NEW k \in 1..Len(chain')
          PROVE  /\ chain'[k] \in allocated'
                 /\ next'[chain'[k]] = (IF k < Len(chain') THEN chain'[k + 1] ELSE NULL)
                 /\ \A m \in 1..Len(chain') : chain'[k] = chain'[m] => k = m
      <4>1. CASE k = Len(chain) + 1
        <5>1. next'[elt[p]] = next[elt[p]]
          BY <3>1, <1>e, <1>a, <1>t, <2>2 DEF TypeOK
        <5>2. \A m \in 1..Len(chain') : chain'[m] = elt[p] => m = Len(chain) + 1
          BY <1>a, <1>e
        <5> QED
          BY <4>1, <5>1, <5>2, <1>a, <1>e, <1>p
      <4>2. CASE k = Len(chain)
        BY <4>2, <3>1, <1>a, <1>e, <1>p, <1>t DEF ListWellFormed, TypeOK
      <4>3. CASE k < Len(chain)
        <5>1. k \in 1..Len(chain) /\ Len(chain) \in 1..Len(chain) /\ chain[k] # chain[Len(chain)]
          BY <4>3, <1>a, <1>t DEF ListWellFormed
        <5>2. next'[chain[k]] = next[chain[k]] /\ chain'[k + 1] = chain[k + 1]
          <6>1. chain[k] \in Cells /\ k + 1 \in 1..Len(chain)
            BY <5>1, <4>3, <1>a
          <6> QED
            BY <6>1, <5>1, <3>1, <1>a DEF TypeOK
        <5> QED
          BY <5>1, <5>2, <4>3, <1>a, <1>e, <1>p DEF ListWellFormed
      <4> QED
        BY <4>1, <4>2, <4>3, <1>a
    <3> QED
      BY <3>2, <3>3, <2>0, <1>a DEF ListWellFormed
  <2> QED
    BY <2>1, <2>2
<1>4. LengthCounts'
  <2>1. ~Uncounted /\ ~NotCountedOut
    BY <1>o, <1>p DEF Uncounted, NotCountedOut, InPop, InEnq
  <2>2. Uncounted' /\ ~NotCountedOut'
    BY <1>o, <1>p DEF Uncounted, NotCountedOut, InPop, InEnq, TypeOK, Threads
  <2> QED
    BY <2>1, <2>2, <1>a, <1>p DEF LengthCounts, TypeOK
<1>5. EnqInv'
  BY <1>e, <1>a, <1>o, <1>p DEF EnqInv, InEnq, TypeOK, Threads
<1>6. PopInv'
  BY <1>p, <1>o DEF PopInv, InPop, CopyCount, TypeOK, Threads
<1>7. ContentsInv'
  <2>1. ASSUME NEW k \in 1..Len(chain') PROVE msg[chain'[k]] \in Event
    <3>1. CASE k \in 1..Len(chain)
      BY <3>1, <1>a DEF ContentsInv
    <3>2. CASE k = Len(chain) + 1
      BY <3>2, <1>m, <1>a
    <3> QED
      BY <3>1, <3>2, <1>a
  <2>2. UNCHANGED msg
    BY <1>p
  <2> QED
    BY <2>1, <2>2 DEF ContentsInv
<1>8. UnlockedSizeIsALowerBound'
  BY <1>p DEF UnlockedSizeIsALowerBound, InPop, TypeOK, Threads
<1> QED
  BY <1>1, <1>2, <1>3, <1>4, <1>5, <1>6, <1>7, <1>8

LEMMA EnqTailIInv ==
  ASSUME IInv, NEW p \in Producers, EnqTail(p)
  PROVE  IInv'
<1> USE QueueAssumption DEF IInv, queueVars, producerVars, popVars
<1>p. /\ pc[p] = "tail" /\ pc' = [pc EXCEPT ![p] = "count"] /\ tail' = elt[p]
      /\ UNCHANGED <<mutex, head, length, next, msg, allocated, chain, elt, sent, popVars>>
  BY DEF EnqTail, Goto
<1>o. ~InPop /\ \A q \in Producers \ {p} : ~InEnq(q)
  BY <1>p DEF LockInv, InEnq
<1>e. chain # <<>> /\ elt[p] = chain[Len(chain)]
  BY <1>p DEF EnqInv
<1>1. TypeOK'
  BY <1>p DEF TypeOK, Labels, Threads
<1>2. LockInv'
  BY <1>p DEF LockInv, InEnq, InPop, TypeOK, Threads
<1>3. ListWellFormed'
  BY <1>p, <1>e DEF ListWellFormed
<1>4. LengthCounts'
  <2>1. Uncounted /\ Uncounted' /\ (NotCountedOut' <=> NotCountedOut)
    BY <1>p DEF Uncounted, NotCountedOut, TypeOK, Threads
  <2> QED
    BY <2>1, <1>p DEF LengthCounts
<1>5. EnqInv'
  BY <1>p DEF EnqInv, TypeOK, Threads
<1>6. PopInv'
  BY <1>p, <1>o DEF PopInv, InPop, CopyCount, TypeOK, Threads
<1>7. ContentsInv'
  BY <1>p DEF ContentsInv
<1>8. UnlockedSizeIsALowerBound'
  BY <1>p DEF UnlockedSizeIsALowerBound, InPop, TypeOK, Threads
<1> QED
  BY <1>1, <1>2, <1>3, <1>4, <1>5, <1>6, <1>7, <1>8

LEMMA EnqCountIInv ==
  ASSUME IInv, NEW p \in Producers, EnqCount(p)
  PROVE  IInv'
<1> USE QueueAssumption DEF IInv, queueVars, producerVars, popVars
<1>p. /\ pc[p] = "count" /\ pc' = [pc EXCEPT ![p] = "unlock"] /\ length' = length + 1
      /\ UNCHANGED <<mutex, head, tail, next, msg, allocated, chain, elt, sent, popVars>>
  BY DEF EnqCount, Goto
<1>o. ~InPop /\ \A q \in Producers \ {p} : ~InEnq(q)
  BY <1>p DEF LockInv, InEnq
<1>1. TypeOK'
  BY <1>p DEF TypeOK, Labels, Threads
<1>2. LockInv'
  BY <1>p DEF LockInv, InEnq, InPop, TypeOK, Threads
<1>3. ListWellFormed'
  BY <1>p, <1>o DEF ListWellFormed, InEnq, TypeOK, Threads
<1>4. LengthCounts'
  <2>1. Uncounted /\ ~Uncounted' /\ ~NotCountedOut /\ ~NotCountedOut'
    BY <1>p, <1>o DEF Uncounted, NotCountedOut, InPop, InEnq, TypeOK, Threads
  <2> QED
    BY <2>1, <1>p DEF LengthCounts, TypeOK
<1>5. EnqInv'
  BY <1>p DEF EnqInv, TypeOK, Threads
<1>6. PopInv'
  BY <1>p, <1>o DEF PopInv, InPop, CopyCount, TypeOK, Threads
<1>7. ContentsInv'
  BY <1>p DEF ContentsInv
<1>8. UnlockedSizeIsALowerBound'
  BY <1>p, <1>o DEF UnlockedSizeIsALowerBound, InPop, TypeOK, Threads
<1> QED
  BY <1>1, <1>2, <1>3, <1>4, <1>5, <1>6, <1>7, <1>8

LEMMA EnqUnlockIInv ==
  ASSUME IInv, NEW p \in Producers, EnqUnlock(p)
  PROVE  IInv'
<1> USE QueueAssumption DEF IInv, queueVars, producerVars, popVars
<1>p. /\ pc[p] = "unlock" /\ pc' = [pc EXCEPT ![p] = "idle"] /\ mutex' = NULL
      /\ UNCHANGED <<queueVars, producerVars, popVars>>
  BY DEF EnqUnlock, Goto, Unlock
<1>o. ~InPop /\ \A q \in Producers \ {p} : ~InEnq(q)
  BY <1>p DEF LockInv, InEnq
<1>1. TypeOK'
  BY <1>p DEF TypeOK, Labels, Threads
<1>2. LockInv'
  BY <1>p, <1>o DEF LockInv, InEnq, InPop, TypeOK, Threads
<1>3. ListWellFormed'
  BY <1>p DEF ListWellFormed, TypeOK, Threads
<1>4. LengthCounts'
  BY <1>p, <1>o DEF LengthCounts, Uncounted, NotCountedOut, InPop, InEnq, TypeOK, Threads
<1>5. EnqInv'
  BY <1>p DEF EnqInv, TypeOK, Threads
<1>6. PopInv'
  BY <1>p, <1>o DEF PopInv, InPop, CopyCount, TypeOK, Threads
<1>7. ContentsInv'
  BY <1>p DEF ContentsInv
<1>8. UnlockedSizeIsALowerBound'
  BY <1>p DEF UnlockedSizeIsALowerBound, InPop, TypeOK, Threads
<1> QED
  BY <1>1, <1>2, <1>3, <1>4, <1>5, <1>6, <1>7, <1>8

LEMMA ReadSizeIInv ==
  ASSUME IInv, ReadSize
  PROVE  IInv'
<1> USE QueueAssumption DEF IInv, queueVars, producerVars
<1>p. /\ pc[Main] = "script" /\ n' = length
      /\ pc' = [pc EXCEPT ![Main] = IF length < 1 THEN "script" ELSE "lock"]
      /\ UNCHANGED <<mutex, queueVars, producerVars, buffer, newLength, i, ret, victim,
                     batch, taken, received>>
  BY DEF ReadSize
<1>1. TypeOK'
  BY <1>p DEF TypeOK, Labels, Threads
<1>2. LockInv'
  BY <1>p DEF LockInv, InEnq, InPop, TypeOK, Threads
<1>3. ListWellFormed'
  BY <1>p DEF ListWellFormed, TypeOK, Threads
<1>4. LengthCounts'
  BY <1>p DEF LengthCounts, Uncounted, NotCountedOut, TypeOK, Threads
<1>5. EnqInv'
  BY <1>p DEF EnqInv, TypeOK, Threads
<1>6. PopInv'
  BY <1>p DEF PopInv, InPop, CopyCount, TypeOK, Threads
<1>7. ContentsInv'
  BY <1>p DEF ContentsInv
<1>8. UnlockedSizeIsALowerBound'
  BY <1>p DEF UnlockedSizeIsALowerBound, InPop, TypeOK, Threads
<1> QED
  BY <1>1, <1>2, <1>3, <1>4, <1>5, <1>6, <1>7, <1>8

LEMMA PopLockIInv ==
  ASSUME IInv, PopLock
  PROVE  IInv'
<1> USE QueueAssumption DEF IInv, queueVars, producerVars
<1>p. /\ pc[Main] = "lock" /\ pc' = [pc EXCEPT ![Main] = "copy"]
      /\ mutex = NULL /\ mutex' = Main
      /\ newLength' = length /\ i' = 0 /\ taken' = <<>>
      /\ UNCHANGED <<queueVars, producerVars, n, buffer, ret, victim, batch, received>>
  BY DEF PopLock, Goto, Lock
<1>1. TypeOK'
  BY <1>p DEF TypeOK, Labels, Threads
<1>2. LockInv'
  BY <1>p DEF LockInv, InEnq, InPop, TypeOK, Threads
<1>3. ListWellFormed'
  BY <1>p DEF ListWellFormed, TypeOK, Threads
<1>4. LengthCounts'
  BY <1>p DEF LengthCounts, Uncounted, NotCountedOut, TypeOK, Threads
<1>5. EnqInv'
  BY <1>p DEF EnqInv, TypeOK, Threads
<1>6. PopInv'
  BY <1>p DEF PopInv, InPop, CopyCount, UnlockedSizeIsALowerBound, TypeOK, Threads
<1>7. ContentsInv'
  BY <1>p DEF ContentsInv
<1>8. UnlockedSizeIsALowerBound'
  BY <1>p DEF UnlockedSizeIsALowerBound, InPop, TypeOK, Threads
<1> QED
  BY <1>1, <1>2, <1>3, <1>4, <1>5, <1>6, <1>7, <1>8

(* The loop bound is safe: before each deq there is an element to remove.  *)
LEMMA DeqHasElement ==
  ASSUME IInv, pc[Main] = "copy", i < CopyCount
  PROVE  /\ chain # <<>> /\ Len(chain) \in Nat /\ Len(chain) > 0
         /\ head = chain[1] /\ head \in Cells /\ head \in allocated
         /\ msg[head] \in Event
         /\ length = Len(chain)
         /\ \A p \in Producers : ~InEnq(p)
<1> USE QueueAssumption DEF IInv
<1>1. InPop /\ \A p \in Producers : ~InEnq(p)
  BY DEF LockInv, InPop
<1>2. ~Uncounted /\ ~NotCountedOut
  BY <1>1 DEF Uncounted, NotCountedOut, InEnq
<1>3. length = Len(chain) /\ length + i = newLength
  BY <1>1, <1>2 DEF LengthCounts, PopInv, TypeOK
<1>4. Len(chain) > 0 /\ Len(chain) \in Nat /\ chain # <<>>
  BY <1>3 DEF CopyCount, TypeOK
<1>5. head = chain[1] /\ chain[1] \in allocated /\ msg[chain[1]] \in Event
  BY <1>4 DEF ListWellFormed, ContentsInv
<1> QED
  BY <1>1, <1>3, <1>4, <1>5 DEF TypeOK

LEMMA DeqHeadIInv ==
  ASSUME IInv, DeqHead
  PROVE  IInv'
<1> USE QueueAssumption DEF IInv, producerVars
<1>p. /\ i < CopyCount /\ pc[Main] = "copy" /\ pc' = [pc EXCEPT ![Main] = "drop"]
      /\ ret' = msg[head] /\ victim' = head /\ head' = next[head]
      /\ chain' = Tail(chain) /\ taken' = Append(taken, msg[head])
      /\ received' = [received EXCEPT ![msg[head][1]] = msg[head][2]]
      /\ UNCHANGED <<mutex, tail, length, next, msg, allocated, producerVars, n, buffer,
                     newLength, i, batch>>
  BY DEF DeqHead, Goto
<1>h. /\ chain # <<>> /\ Len(chain) \in Nat /\ Len(chain) > 0
      /\ head = chain[1] /\ head \in Cells /\ head \in allocated /\ msg[head] \in Event
      /\ length = Len(chain)
      /\ \A p \in Producers : ~InEnq(p)
  BY <1>p, DeqHasElement
<1>c. /\ chain' \in Seq(Cells) /\ Len(chain') = Len(chain) - 1
      /\ \A k \in 1..Len(chain') : chain'[k] = chain[k + 1] /\ k + 1 \in 1..Len(chain)
  BY <1>p, <1>h, HeadTailProperties DEF TypeOK
<1>t. /\ taken' \in Seq(Event) /\ Len(taken) \in Nat /\ Len(taken') = Len(taken) + 1
      /\ \A k \in 1..Len(taken) : taken'[k] = taken[k]
      /\ taken'[Len(taken) + 1] = msg[head]
  BY <1>p, <1>h DEF TypeOK
<1>1. TypeOK'
  <2>1. received' \in [Producers -> 0..MaxSent]
    BY <1>p, <1>h DEF TypeOK, Event
  <2>2. pc' \in [Threads -> Labels] /\ pc'[Main] = "drop"
        /\ \A p \in Producers : pc'[p] = pc[p]
    BY <1>p DEF TypeOK, Labels, Threads
  <2>3. head' \in Cells \cup {NULL}
    BY <1>p, <1>h DEF TypeOK
  <2> QED
    BY <2>1, <2>2, <2>3, <1>p, <1>h, <1>c, <1>t DEF TypeOK
<1>2. LockInv'
  BY <1>p DEF LockInv, InEnq, InPop, TypeOK, Threads
<1>3. ListWellFormed'
  <2>1. head' = (IF chain' = <<>> THEN NULL ELSE chain'[1])
    BY <1>p, <1>h, <1>c DEF ListWellFormed
  <2>2. ASSUME NEW k \in 1..Len(chain')
        PROVE  /\ chain'[k] \in allocated'
               /\ next'[chain'[k]] = (IF k < Len(chain') THEN chain'[k + 1] ELSE NULL)
               /\ \A m \in 1..Len(chain') : chain'[k] = chain'[m] => k = m
    BY <1>p, <1>h, <1>c DEF ListWellFormed
  <2>3. chain' # <<>> => tail' = chain'[Len(chain')]
    BY <1>p, <1>h, <1>c DEF ListWellFormed, InEnq
  <2> QED
    BY <2>1, <2>2, <2>3 DEF ListWellFormed
<1>4. LengthCounts'
  <2>1. ~Uncounted' /\ NotCountedOut'
    BY <1>p, <1>h DEF Uncounted, NotCountedOut, InEnq, TypeOK, Threads
  <2> QED
    BY <2>1, <1>p, <1>h, <1>c DEF LengthCounts
<1>5. EnqInv'
  BY <1>p, <1>h DEF EnqInv, InEnq, TypeOK, Threads
<1>6. PopInv'
  <2>1. InPop /\ InPop' /\ pc'[Main] = "drop"
    BY <1>p DEF InPop, TypeOK, Threads
  <2>2. /\ i <= CopyCount /\ length + i = newLength /\ Len(taken) = i
        /\ \A k \in 1..i : buffer[k] = taken[k]
    BY <2>1, <1>p DEF PopInv
  <2>3. \A k \in 1..Len(chain') : chain'[k] # victim'
    BY <1>p, <1>h, <1>c DEF ListWellFormed
  <2> QED
    BY <2>1, <2>2, <2>3, <1>p, <1>h, <1>t DEF PopInv, CopyCount, TypeOK
<1>7. ContentsInv'
  BY <1>p, <1>c DEF ContentsInv
<1>8. UnlockedSizeIsALowerBound'
  BY <1>p DEF UnlockedSizeIsALowerBound, InPop, TypeOK, Threads
<1> QED
  BY <1>1, <1>2, <1>3, <1>4, <1>5, <1>6, <1>7, <1>8

LEMMA DeqDropIInv ==
  ASSUME IInv, DeqDrop
  PROVE  IInv'
<1> USE QueueAssumption DEF IInv, producerVars
<1>p. /\ pc[Main] = "drop" /\ pc' = [pc EXCEPT ![Main] = "copy"]
      /\ length' = length - 1 /\ allocated' = allocated \ {victim}
      /\ buffer' = [buffer EXCEPT ![i + 1] = ret] /\ i' = i + 1
      /\ UNCHANGED <<mutex, head, tail, next, msg, chain, producerVars, n, newLength, ret,
                     victim, batch, taken, received>>
  BY DEF DeqDrop, Goto
<1>o. InPop /\ \A p \in Producers : ~InEnq(p)
  BY <1>p DEF LockInv, InPop
<1>i. /\ i < CopyCount /\ length + i = newLength /\ Len(taken) = i + 1
      /\ \A k \in 1..i : buffer[k] = taken[k]
      /\ ret = taken[i + 1] /\ i \in Nat /\ i + 1 \in 1..Capacity
      /\ \A k \in 1..Len(chain) : chain[k] # victim
  BY <1>o, <1>p DEF PopInv, CopyCount, TypeOK
<1>1. TypeOK'
  <2>1. buffer' \in [1..Capacity -> Event \cup {NoEvent}]
    BY <1>p, <1>i DEF TypeOK
  <2>2. pc' \in [Threads -> Labels] /\ pc'[Main] = "copy"
        /\ \A p \in Producers : pc'[p] = pc[p]
    BY <1>p DEF TypeOK, Labels, Threads
  <2> QED
    BY <2>1, <2>2, <1>p, <1>i DEF TypeOK
<1>2. LockInv'
  BY <1>p DEF LockInv, InEnq, InPop, TypeOK, Threads
<1>3. ListWellFormed'
  BY <1>p, <1>i, <1>o DEF ListWellFormed, InEnq
<1>4. LengthCounts'
  <2>1. ~Uncounted /\ NotCountedOut /\ ~Uncounted' /\ ~NotCountedOut'
    BY <1>p, <1>o DEF Uncounted, NotCountedOut, InEnq, TypeOK, Threads
  <2> QED
    BY <2>1, <1>p DEF LengthCounts, TypeOK
<1>5. EnqInv'
  BY <1>p, <1>o DEF EnqInv, InEnq, TypeOK, Threads
<1>6. PopInv'
  <2>1. InPop' /\ pc'[Main] = "copy"
    BY <1>p DEF InPop, TypeOK, Threads
  <2>2. ASSUME NEW k \in 1..i' PROVE buffer'[k] = taken'[k]
    <3>1. k \in 1..Capacity /\ (k = i + 1 \/ (k \in 1..i /\ k # i + 1))
      BY <1>p, <1>i
    <3>2. buffer'[k] = IF k = i + 1 THEN ret ELSE buffer[k]
      BY <3>1, <1>p DEF TypeOK
    <3> QED
      BY <3>1, <3>2, <1>p, <1>i
  <2>3. i' <= CopyCount' /\ length' + i' = newLength' /\ Len(taken') = i'
    BY <1>p, <1>i DEF CopyCount, TypeOK
  <2> QED
    BY <2>1, <2>2, <2>3, <1>p DEF PopInv
<1>7. ContentsInv'
  BY <1>p DEF ContentsInv
<1>8. UnlockedSizeIsALowerBound'
  BY <1>p DEF UnlockedSizeIsALowerBound, InPop, TypeOK, Threads
<1> QED
  BY <1>1, <1>2, <1>3, <1>4, <1>5, <1>6, <1>7, <1>8

LEMMA PopReturnIInv ==
  ASSUME IInv, PopReturn
  PROVE  IInv'
<1> USE QueueAssumption DEF IInv, queueVars, producerVars
<1>p. /\ i >= CopyCount /\ pc[Main] = "copy" /\ pc' = [pc EXCEPT ![Main] = "script"]
      /\ mutex' = NULL
      /\ batch' = [length |-> newLength, taken |-> taken] /\ taken' = <<>>
      /\ UNCHANGED <<queueVars, producerVars, n, buffer, newLength, i, ret, victim, received>>
  BY DEF PopReturn, Goto, Unlock
<1>o. InPop /\ \A p \in Producers : ~InEnq(p)
  BY <1>p DEF LockInv, InPop
<1>1. TypeOK'
  BY <1>p DEF TypeOK, Labels, Threads
<1>2. LockInv'
  BY <1>p, <1>o DEF LockInv, InEnq, InPop, TypeOK, Threads
<1>3. ListWellFormed'
  BY <1>p DEF ListWellFormed, TypeOK, Threads
<1>4. LengthCounts'
  BY <1>p DEF LengthCounts, Uncounted, NotCountedOut, TypeOK, Threads
<1>5. EnqInv'
  BY <1>p DEF EnqInv, TypeOK, Threads
<1>6. PopInv'
  BY <1>p DEF PopInv, InPop, CopyCount, TypeOK, Threads
<1>7. ContentsInv'
  BY <1>p DEF ContentsInv
<1>8. UnlockedSizeIsALowerBound'
  BY <1>p DEF UnlockedSizeIsALowerBound, InPop, TypeOK, Threads
<1> QED
  BY <1>1, <1>2, <1>3, <1>4, <1>5, <1>6, <1>7, <1>8

LEMMA StutterIInv ==
  ASSUME IInv, UNCHANGED vars
  PROVE  IInv'
<1> USE DEF IInv, vars, queueVars, producerVars, popVars
<1>1. TypeOK' /\ LockInv' /\ ListWellFormed'
  BY DEF TypeOK, LockInv, ListWellFormed, InEnq, InPop
<1>2. LengthCounts' /\ EnqInv' /\ ContentsInv'
  BY DEF LengthCounts, Uncounted, NotCountedOut, EnqInv, ContentsInv
<1>3. PopInv' /\ UnlockedSizeIsALowerBound'
  BY DEF PopInv, UnlockedSizeIsALowerBound, InPop, CopyCount
<1> QED
  BY <1>1, <1>2, <1>3

LEMMA NextIInv == IInv /\ [Next]_vars => IInv'
<1> SUFFICES ASSUME IInv, [Next]_vars PROVE IInv'
  OBVIOUS
<1>1. ASSUME NEW p \in Producers, enq_msg(p) PROVE IInv'
  BY <1>1, EnqLockIInv, EnqAllocIInv, EnqAllocFailsIInv, EnqLinkIInv, EnqTailIInv,
     EnqCountIInv, EnqUnlockIInv
  DEF enq_msg
<1>2. ASSUME lua_popNewMessages PROVE IInv'
  BY <1>2, ReadSizeIInv, PopLockIInv, DeqHeadIInv, DeqDropIInv, PopReturnIInv
  DEF lua_popNewMessages
<1>3. CASE UNCHANGED vars
  BY <1>3, StutterIInv
<1> QED
  BY <1>1, <1>2, <1>3 DEF Next

(* The inductive invariant holds in every reachable state.                 *)
THEOREM QueueInvariant == Spec => []IInv
<1>1. Init => IInv
  BY InitIInv
<1>2. IInv /\ [Next]_vars => IInv'
  BY NextIInv
<1> QED
  BY <1>1, <1>2, PTL DEF Spec

(* Whatever the threads do, every variable keeps its type; in particular   *)
(* no step of enq or deq follows a NULL or unknown pointer.                *)
THEOREM TypeCorrect == Spec => []TypeOK
BY QueueInvariant, PTL DEF IInv

(* The pointers of enq and deq always describe one list, and queue->length *)
(* is its length but for the element in the hands of the lock holder.      *)
THEOREM ListCorrect == Spec => [](ListWellFormed /\ LengthCounts)
BY QueueInvariant, PTL DEF IInv

(* The assertion of deq (message_queue.c:141) never fails.                 *)
THEOREM DeqAssertionHolds == Spec => []DequeueNeverEmpty
<1>1. IInv => DequeueNeverEmpty
  BY DeqHasElement, QueueAssumption DEF DequeueNeverEmpty, IInv, TypeOK
<1> QED
  BY <1>1, QueueInvariant, PTL

(* The length lua_popNewMessages reads without the lock is still available *)
(* once it holds the lock: a list that is returned is never empty.         *)
THEOREM UnlockedSizeSafe == Spec => []UnlockedSizeIsALowerBound
BY QueueInvariant, PTL DEF IInv

-------------------------------------------------------------------------------
(***************************************************************************)
(* What becomes of the messages, each theorem built on IInv: no memory     *)
(* leaks, the script reads what was dequeued for it, events leave in the   *)
(* order they came, and the queue as a whole implements MessageChannel.    *)
(***************************************************************************)

(* Memory.                                                                 *)

\* The ways in which an allocated cell may be accounted for.
InList(c) == \E k \in 1..Len(chain) : chain[k] = c
InHand(c) == \/ \E p \in Producers : pc[p] = "link" /\ elt[p] = c
             \/ pc[Main] = "drop" /\ victim = c

LEMMA LeaksByPlace == NothingLeaks <=> \A c \in Cells : c \in allocated <=> InList(c) \/ InHand(c)
BY DEF NothingLeaks, InList, InHand

\* The steps of the producers keep account of every cell.
LEMMA EnqKeepsAccount ==
  ASSUME IInv, NothingLeaks, NEW p \in Producers, enq_msg(p)
  PROVE  NothingLeaks'
<1> USE QueueAssumption DEF IInv, queueVars, producerVars, popVars, Goto
<1>1. CASE EnqLock(p)
  BY <1>1 DEF EnqLock, NothingLeaks, TypeOK, Threads
<1>2. CASE EnqAlloc(p)
  <2>1. PICK c \in Cells \ allocated :
          /\ elt' = [elt EXCEPT ![p] = c] /\ allocated' = allocated \cup {c}
    BY <1>2 DEF EnqAlloc
  <2>2. /\ pc[p] = "alloc" /\ pc' = [pc EXCEPT ![p] = "link"]
        /\ UNCHANGED <<chain, victim>>
    BY <1>2 DEF EnqAlloc
  <2> QED
    BY <2>1, <2>2 DEF NothingLeaks, TypeOK, Threads
<1>3. CASE EnqLink(p)
  <2>1. /\ pc[p] = "link" /\ pc' = [pc EXCEPT ![p] = "tail"]
        /\ chain' = Append(chain, elt[p]) /\ elt[p] \in Cells
        /\ UNCHANGED <<allocated, elt, victim>>
    BY <1>3 DEF EnqLink, EnqInv, TypeOK
  <2>2. \A c \in Cells : InList(c)' <=> InList(c) \/ c = elt[p]
    <3>1. /\ Len(chain) \in Nat /\ Len(chain') = Len(chain) + 1
          /\ chain'[Len(chain) + 1] = elt[p]
          /\ \A k \in 1..Len(chain) : chain'[k] = chain[k]
      BY <2>1 DEF TypeOK
    <3> QED
      BY <3>1 DEF InList
  <2>3. \A q \in Producers \ {p} : pc[q] # "link" /\ pc'[q] # "link"
    BY <2>1 DEF LockInv, InEnq, TypeOK, Threads
  <2>4. \A c \in Cells : InHand(c) <=> c = elt[p] \/ (pc[Main] = "drop" /\ victim = c)
    BY <2>1, <2>3 DEF InHand
  <2>5. \A c \in Cells : InHand(c)' <=> pc[Main] = "drop" /\ victim = c
    BY <2>1, <2>3 DEF InHand, TypeOK, Threads
  <2> QED
    BY <2>1, <2>2, <2>4, <2>5, LeaksByPlace DEF NothingLeaks, InList, InHand
<1>4. CASE EnqTail(p)
  BY <1>4 DEF EnqTail, NothingLeaks, TypeOK, Threads
<1>5. CASE EnqCount(p)
  BY <1>5 DEF EnqCount, NothingLeaks, TypeOK, Threads
<1>6. CASE EnqUnlock(p)
  BY <1>6 DEF EnqUnlock, NothingLeaks, TypeOK, Threads
<1>7. CASE EnqAllocFails(p)
  BY <1>7 DEF EnqAllocFails, NothingLeaks, TypeOK, Threads
<1> QED
  BY <1>1, <1>2, <1>3, <1>4, <1>5, <1>6, <1>7 DEF enq_msg

\* So do the steps of the script's pop.
LEMMA PopKeepsAccount ==
  ASSUME IInv, NothingLeaks, lua_popNewMessages
  PROVE  NothingLeaks'
<1> USE QueueAssumption DEF IInv, queueVars, producerVars, Goto
<1>1. CASE ReadSize
  BY <1>1 DEF ReadSize, NothingLeaks, TypeOK, Threads
<1>2. CASE PopLock
  BY <1>2 DEF PopLock, NothingLeaks, TypeOK, Threads
<1>3. CASE DeqHead
  <2>1. /\ pc[Main] = "copy" /\ pc' = [pc EXCEPT ![Main] = "drop"]
        /\ victim' = head /\ chain' = Tail(chain)
        /\ UNCHANGED <<allocated, elt>>
    BY <1>3 DEF DeqHead
  <2>2. chain # <<>> /\ Len(chain) \in Nat /\ Len(chain) > 0 /\ head = chain[1]
    BY <1>3, DeqHasElement DEF DeqHead
  <2>3. /\ Len(chain') = Len(chain) - 1
        /\ \A k \in 1..Len(chain') : chain'[k] = chain[k + 1]
    BY <2>1, <2>2, HeadTailProperties DEF TypeOK
  <2>4. \A c \in Cells : InList(c) <=> InList(c)' \/ c = head
    <3>1. ASSUME NEW k \in 1..Len(chain), k # 1
          PROVE  k - 1 \in 1..Len(chain') /\ chain'[k - 1] = chain[k]
      <4>1. k - 1 \in 1..Len(chain') /\ (k - 1) + 1 = k
        BY <3>1, <2>2, <2>3
      <4> QED
        BY <4>1, <2>3
    <3> QED
      BY <2>2, <2>3, <3>1 DEF InList
  <2>5. \A q \in Producers : pc[q] # "link" /\ pc'[q] = pc[q]
    BY <1>3, <2>1, DeqHasElement DEF DeqHead, InEnq, TypeOK, Threads
  <2>6. pc'[Main] = "drop"
    BY <2>1 DEF TypeOK, Threads
  <2>7. \A c \in Cells : ~InHand(c) /\ (InHand(c)' <=> c = head)
    BY <2>1, <2>5, <2>6 DEF InHand
  <2> QED
    BY <2>1, <2>4, <2>7, LeaksByPlace DEF NothingLeaks, InList, InHand
<1>4. CASE DeqDrop
  <2>1. /\ pc[Main] = "drop" /\ pc' = [pc EXCEPT ![Main] = "copy"]
        /\ allocated' = allocated \ {victim} /\ UNCHANGED <<chain, elt, victim>>
    BY <1>4 DEF DeqDrop
  <2>2. \A q \in Producers : pc[q] # "link" /\ pc'[q] = pc[q]
    BY <2>1 DEF LockInv, InPop, InEnq, TypeOK, Threads
  <2>3. \A k \in 1..Len(chain) : chain[k] # victim
    BY <2>1 DEF PopInv
  <2>4. pc'[Main] = "copy"
    BY <2>1 DEF TypeOK, Threads
  <2> QED
    BY <2>1, <2>2, <2>3, <2>4 DEF NothingLeaks
<1>5. CASE PopReturn
  BY <1>5 DEF PopReturn, NothingLeaks, TypeOK, Threads
<1> QED
  BY <1>1, <1>2, <1>3, <1>4, <1>5 DEF lua_popNewMessages

(* Every element that enq has malloc'ed is in the list, in the hands of    *)
(* the thread that is linking or freeing it, or free again: no leak and no *)
(* double free, whichever cells malloc reuses.                             *)
THEOREM NothingIsLeaked == Spec => []NothingLeaks
<1>1. Init => NothingLeaks
  BY QueueAssumption DEF Init, NothingLeaks, Threads
<1>2. IInv /\ NothingLeaks /\ [Next]_vars => NothingLeaks'
  <2> SUFFICES ASSUME IInv, NothingLeaks, [Next]_vars PROVE NothingLeaks'
    OBVIOUS
  <2>1. CASE UNCHANGED vars
    BY <2>1 DEF vars, queueVars, producerVars, popVars, NothingLeaks
  <2> QED
    BY <2>1, EnqKeepsAccount, PopKeepsAccount DEF Next
<1> QED
  BY <1>1, <1>2, QueueInvariant, PTL DEF Spec

-------------------------------------------------------------------------------
(* The static buffer.                                                      *)

\* Outside pop_new_messages the buffer holds what the last call took.
BufferInv == ~InPop => \A k \in 1..Len(batch.taken) : buffer[k] = batch.taken[k]

LEMMA BufferInvInit == Init => BufferInv
BY DEF Init, BufferInv, NoList

LEMMA BufferInvStep == IInv /\ BufferInv /\ [Next]_vars => BufferInv'
<1> SUFFICES ASSUME IInv, BufferInv, [Next]_vars PROVE BufferInv'
  OBVIOUS
<1> USE QueueAssumption DEF IInv, BufferInv, InPop, Goto, TypeOK, Threads
<1>1. ASSUME NEW p \in Producers, enq_msg(p) PROVE BufferInv'
  <2>1. pc'[Main] = pc[Main] /\ UNCHANGED <<buffer, batch>>
    BY <1>1 DEF enq_msg, EnqLock, EnqAlloc, EnqAllocFails, EnqLink, EnqTail, EnqCount,
                EnqUnlock, queueVars, producerVars, popVars
  <2> QED
    BY <2>1
<1>2. CASE ReadSize
  BY <1>2 DEF ReadSize
<1>3. CASE PopLock
  BY <1>3 DEF PopLock
<1>4. CASE DeqHead
  BY <1>4 DEF DeqHead
<1>5. CASE DeqDrop
  BY <1>5 DEF DeqDrop
<1>6. CASE PopReturn
  <2>1. /\ i >= CopyCount /\ pc[Main] = "copy" /\ UNCHANGED buffer
        /\ batch'.taken = taken
    BY <1>6 DEF PopReturn
  <2>2. Len(taken) = i /\ \A k \in 1..i : buffer[k] = taken[k]
    BY <2>1 DEF PopInv
  <2> QED
    BY <2>1, <2>2
<1>7. CASE UNCHANGED vars
  BY <1>7 DEF vars, queueVars, producerVars, popVars
<1> QED
  BY <1>1, <1>2, <1>3, <1>4, <1>5, <1>6, <1>7 DEF Next, lua_popNewMessages

(* The last MessageList the script has got reads the messages that call    *)
(* dequeued, until the script pops again.                                  *)
THEOREM LatestListReadsTrue == Spec => []LatestListIntact
<1>1. IInv /\ BufferInv => LatestListIntact
  BY DEF BufferInv, LatestListIntact, InPop
<1> QED
  BY <1>1, BufferInvInit, BufferInvStep, QueueInvariant, PTL DEF Spec

-------------------------------------------------------------------------------
(* Order.                                                                  *)

\* Of each producer, the list holds exactly the events that were sent and not
\* yet dequeued, and holds them in ascending order.
OrderInv ==
  /\ \A p \in Producers : received[p] <= sent[p]
  /\ \A k \in 1..Len(chain) :
       LET p == msg[chain[k]][1]
       IN  received[p] < msg[chain[k]][2] /\ msg[chain[k]][2] <= sent[p]
  /\ \A k, m \in 1..Len(chain) :
       k < m /\ msg[chain[k]][1] = msg[chain[m]][1] => msg[chain[k]][2] < msg[chain[m]][2]
  /\ \A p \in Producers : \A v \in 1..MaxSent :
       received[p] < v /\ v <= sent[p] =>
         \E k \in 1..Len(chain) : msg[chain[k]] = <<p, v>>

\* The steps that neither link nor unlink leave the listed messages alone.
LEMMA ListedMessagesKept ==
  ASSUME IInv, UNCHANGED chain,
         UNCHANGED msg \/ \E p \in Producers : EnqAlloc(p)
  PROVE  \A k \in 1..Len(chain) : msg'[chain'[k]] = msg[chain[k]]
<1>1. ASSUME NEW p \in Producers, EnqAlloc(p)
      PROVE  \A k \in 1..Len(chain) : msg'[chain[k]] = msg[chain[k]]
  <2>1. PICK c \in Cells \ allocated : msg' = [msg EXCEPT ![c] = <<p, sent[p] + 1>>]
    BY <1>1 DEF EnqAlloc
  <2>2. \A k \in 1..Len(chain) : chain[k] \in Cells /\ chain[k] # c
    BY <2>1 DEF IInv, ListWellFormed, TypeOK
  <2> QED
    BY <2>1, <2>2 DEF IInv, TypeOK
<1> QED
  BY <1>1

\* A change of the list, of what was sent and of what was received can only
\* disturb OrderInv if it happens; these are the other steps.
LEMMA OrderFrame ==
  ASSUME IInv, OrderInv, UNCHANGED <<chain, sent, received>>,
         \A k \in 1..Len(chain) : msg'[chain'[k]] = msg[chain[k]]
  PROVE  OrderInv'
<1>1. ASSUME NEW k \in 1..Len(chain')
      PROVE  k \in 1..Len(chain) /\ msg'[chain'[k]] = msg[chain[k]]
  OBVIOUS
<1>2. \A k \in 1..Len(chain') :
        LET p == msg'[chain'[k]][1]
        IN  received'[p] < msg'[chain'[k]][2] /\ msg'[chain'[k]][2] <= sent'[p]
  BY <1>1 DEF OrderInv
<1>3. ASSUME NEW k \in 1..Len(chain'), NEW m \in 1..Len(chain'), k < m,
             msg'[chain'[k]][1] = msg'[chain'[m]][1]
      PROVE  msg'[chain'[k]][2] < msg'[chain'[m]][2]
  BY <1>1, <1>3 DEF OrderInv
<1>4. ASSUME NEW p \in Producers, NEW v \in 1..MaxSent, received'[p] < v, v <= sent'[p]
      PROVE  \E k \in 1..Len(chain') : msg'[chain'[k]] = <<p, v>>
  <2>1. PICK k \in 1..Len(chain) : msg[chain[k]] = <<p, v>>
    BY <1>4 DEF OrderInv
  <2>2. k \in 1..Len(chain')
    OBVIOUS
  <2> QED
    BY <1>1, <2>1, <2>2
<1> QED
  BY <1>2, <1>3, <1>4 DEF OrderInv

\* enq puts the next event of its producer at the end.
LEMMA OrderEnqLink ==
  ASSUME IInv, OrderInv, NEW p \in Producers, EnqLink(p)
  PROVE  OrderInv'
<1> USE QueueAssumption DEF IInv
<1>1. /\ chain' = Append(chain, elt[p]) /\ sent' = [sent EXCEPT ![p] = @ + 1]
      /\ UNCHANGED <<msg, received>>
      /\ elt[p] \in Cells /\ msg[elt[p]] = <<p, sent[p] + 1>>
  BY DEF EnqLink, Goto, EnqInv, TypeOK, popVars
<1>2. /\ Len(chain) \in Nat /\ Len(chain') = Len(chain) + 1
      /\ \A k \in 1..Len(chain) : chain'[k] = chain[k]
      /\ chain'[Len(chain) + 1] = elt[p]
  BY <1>1 DEF TypeOK
<1> DEFINE last == Len(chain) + 1
<1>3. /\ \A k \in 1..Len(chain) : msg'[chain'[k]] = msg[chain[k]]
      /\ msg'[chain'[last]] = <<p, sent[p] + 1>>
  BY <1>1, <1>2
<1>4. \A k \in 1..Len(chain') : k \in 1..Len(chain) \/ k = last
  BY <1>2
<1>5. \A q \in Producers : sent[q] \in Nat /\ received[q] \in Nat /\ received[q] <= sent[q]
                           /\ sent'[q] = IF q = p THEN sent[q] + 1 ELSE sent[q]
  BY <1>1 DEF TypeOK, OrderInv
<1>6. \A q \in Producers : received'[q] <= sent'[q]
  BY <1>1, <1>5
<1>7. ASSUME NEW k \in 1..Len(chain')
      PROVE  LET q == msg'[chain'[k]][1]
             IN  received'[q] < msg'[chain'[k]][2] /\ msg'[chain'[k]][2] <= sent'[q]
  <2>1. CASE k = last
    BY <2>1, <1>1, <1>3, <1>5
  <2>2. CASE k \in 1..Len(chain)
    <3>1. msg[chain[k]] \in Event
      BY <2>2 DEF ContentsInv
    <3> QED
      BY <2>2, <3>1, <1>1, <1>3, <1>5 DEF OrderInv, Event
  <2> QED
    BY <2>1, <2>2, <1>4
<1>8. ASSUME NEW k \in 1..Len(chain'), NEW m \in 1..Len(chain'), k < m,
             msg'[chain'[k]][1] = msg'[chain'[m]][1]
      PROVE  msg'[chain'[k]][2] < msg'[chain'[m]][2]
  <2>1. k \in 1..Len(chain) /\ msg'[chain'[k]] = msg[chain[k]] /\ msg[chain[k]] \in Event
    BY <1>8, <1>2, <1>3 DEF ContentsInv
  <2>2. CASE m = last
    <3>1. msg[chain[k]][2] <= sent[p]
      BY <1>8, <2>1, <2>2, <1>3 DEF OrderInv
    <3> QED
      BY <3>1, <2>1, <2>2, <1>3, <1>5 DEF Event
  <2>3. CASE m \in 1..Len(chain)
    BY <1>8, <2>1, <2>3, <1>3 DEF OrderInv
  <2> QED
    BY <2>2, <2>3, <1>4
<1>9. ASSUME NEW q \in Producers, NEW v \in 1..MaxSent, received'[q] < v, v <= sent'[q]
      PROVE  \E k \in 1..Len(chain') : msg'[chain'[k]] = <<q, v>>
  <2>1. CASE q = p /\ v = sent[p] + 1
    BY <2>1, <1>2, <1>3
  <2>2. CASE v <= sent[q]
    <3>1. PICK k \in 1..Len(chain) : msg[chain[k]] = <<q, v>>
      BY <1>9, <2>2, <1>1 DEF OrderInv
    <3> QED
      BY <3>1, <1>2, <1>3
  <2> QED
    BY <2>1, <2>2, <1>9, <1>5
<1> QED
  BY <1>6, <1>7, <1>8, <1>9 DEF OrderInv

\* deq takes the oldest event, which is the next of its producer.
LEMMA DeqNext ==
  ASSUME IInv, OrderInv, DeqHead
  PROVE  /\ msg[head] \in Event
         /\ msg[head][2] = received[msg[head][1]] + 1
<1> USE QueueAssumption DEF IInv
<1>1. /\ chain # <<>> /\ Len(chain) \in Nat /\ Len(chain) > 0 /\ head = chain[1]
      /\ msg[head] \in Event
  BY DeqHasElement DEF DeqHead, Goto
<1> DEFINE p == msg[head][1]
           v == msg[head][2]
<1>2. p \in Producers /\ v \in 1..MaxSent /\ msg[head] = <<p, v>>
  BY <1>1 DEF Event
<1>3. received[p] \in Nat /\ sent[p] \in Nat /\ MaxSent \in Nat /\ sent[p] <= MaxSent
  BY <1>2 DEF TypeOK
<1>5. received[p] < v /\ v <= sent[p]
  <2>1. 1 \in 1..Len(chain)
    BY <1>1
  <2>2. LET q == msg[chain[1]][1]
        IN  received[q] < msg[chain[1]][2] /\ msg[chain[1]][2] <= sent[q]
    BY <2>1 DEF OrderInv
  <2> QED
    BY <2>2, <1>1
<1>4. CASE received[p] + 1 < v
  <2>1. received[p] + 1 \in 1..MaxSent /\ received[p] < received[p] + 1
        /\ received[p] + 1 <= sent[p]
    BY <1>2, <1>3, <1>4, <1>5
  <2>2. PICK k \in 1..Len(chain) : msg[chain[k]] = <<p, received[p] + 1>>
    BY <1>2, <2>1 DEF OrderInv
  <2>3. 1 \in 1..Len(chain) /\ 1 < k /\ msg[chain[1]] = <<p, v>>
    <3>1. k # 1
      BY <1>1, <1>2, <1>3, <1>4, <2>2
    <3> QED
      BY <1>1, <1>2, <3>1
  <2>4. msg[chain[1]][2] < msg[chain[k]][2]
    BY <2>2, <2>3 DEF OrderInv
  <2> QED
    BY <1>2, <1>3, <1>4, <2>2, <2>3, <2>4
<1> QED
  BY <1>1, <1>2, <1>3, <1>4, <1>5

LEMMA OrderDeqHead ==
  ASSUME IInv, OrderInv, DeqHead
  PROVE  OrderInv'
<1> USE QueueAssumption DEF IInv
<1> DEFINE p == msg[head][1]
           v == msg[head][2]
<1>1. /\ chain # <<>> /\ Len(chain) \in Nat /\ Len(chain) > 0 /\ head = chain[1]
  BY DeqHasElement DEF DeqHead, Goto
<1>2. p \in Producers /\ v \in 1..MaxSent /\ msg[head] = <<p, v>> /\ v = received[p] + 1
  BY DeqNext DEF Event
<1>3. /\ Len(chain') = Len(chain) - 1
      /\ \A k \in 1..Len(chain') : chain'[k] = chain[k + 1] /\ k + 1 \in 1..Len(chain)
  BY <1>1, HeadTailProperties DEF DeqHead, TypeOK
<1>4. UNCHANGED <<msg, sent>> /\ received' = [received EXCEPT ![p] = v]
  BY DEF DeqHead, producerVars
<1>5. \A q \in Producers : /\ received[q] \in Nat /\ sent[q] \in Nat
                           /\ received'[q] = IF q = p THEN v ELSE received[q]
  BY <1>4 DEF TypeOK
<1>6. /\ 1 \in 1..Len(chain)
      /\ v <= sent[p]
  <2>1. 1 \in 1..Len(chain)
    BY <1>1
  <2>2. LET q == msg[chain[1]][1]
        IN  received[q] < msg[chain[1]][2] /\ msg[chain[1]][2] <= sent[q]
    BY <2>1 DEF OrderInv
  <2> QED
    BY <2>1, <2>2, <1>1
<1>7. \A q \in Producers : received'[q] <= sent'[q]
  BY <1>4, <1>5, <1>6 DEF OrderInv
<1>8. ASSUME NEW k \in 1..Len(chain')
      PROVE  LET q == msg'[chain'[k]][1]
             IN  received'[q] < msg'[chain'[k]][2] /\ msg'[chain'[k]][2] <= sent'[q]
  <2>1. k + 1 \in 1..Len(chain) /\ 1 < k + 1 /\ msg'[chain'[k]] = msg[chain[k + 1]]
    BY <1>3, <1>4
  <2>2. msg[chain[k + 1]] \in Event
    BY <2>1 DEF ContentsInv
  <2> DEFINE q == msg[chain[k + 1]][1]
  <2>3. q \in Producers /\ msg[chain[k + 1]][2] \in 1..MaxSent
    BY <2>2 DEF Event
  <2>4. received[q] < msg[chain[k + 1]][2] /\ msg[chain[k + 1]][2] <= sent[q]
    BY <2>1 DEF OrderInv
  <2>5. q = p => v < msg[chain[k + 1]][2]
    BY <2>1, <1>1, <1>6 DEF OrderInv
  <2> QED
    BY <2>1, <2>3, <2>4, <2>5, <1>4, <1>5
<1>9. ASSUME NEW k \in 1..Len(chain'), NEW m \in 1..Len(chain'), k < m,
             msg'[chain'[k]][1] = msg'[chain'[m]][1]
      PROVE  msg'[chain'[k]][2] < msg'[chain'[m]][2]
  <2>1. /\ k + 1 \in 1..Len(chain) /\ m + 1 \in 1..Len(chain) /\ k + 1 < m + 1
        /\ msg'[chain'[k]] = msg[chain[k + 1]] /\ msg'[chain'[m]] = msg[chain[m + 1]]
    BY <1>3, <1>4, <1>9
  <2> QED
    BY <2>1, <1>9 DEF OrderInv
<1>10. ASSUME NEW q \in Producers, NEW u \in 1..MaxSent, received'[q] < u, u <= sent'[q]
       PROVE  \E k \in 1..Len(chain') : msg'[chain'[k]] = <<q, u>>
  <2>1. received[q] < u /\ u <= sent[q] /\ (q = p => u # v)
    BY <1>2, <1>4, <1>5, <1>10
  <2>2. PICK k \in 1..Len(chain) : msg[chain[k]] = <<q, u>>
    BY <2>1 DEF OrderInv
  <2>3. k # 1
    BY <2>1, <2>2, <1>1, <1>2
  <2>4. k - 1 \in 1..Len(chain') /\ (k - 1) + 1 = k
    BY <2>3, <1>1, <1>3
  <2> QED
    BY <2>2, <2>4, <1>3, <1>4
<1> QED
  BY <1>7, <1>8, <1>9, <1>10 DEF OrderInv

LEMMA OrderInvInit == Init => OrderInv
BY QueueAssumption DEF Init, OrderInv

LEMMA OrderInvStep == IInv /\ OrderInv /\ [Next]_vars => OrderInv'
<1> SUFFICES ASSUME IInv, OrderInv, [Next]_vars PROVE OrderInv'
  OBVIOUS
<1>1. ASSUME NEW p \in Producers, enq_msg(p) PROVE OrderInv'
  <2>1. CASE EnqLink(p)
    BY <2>1, OrderEnqLink
  <2>2. CASE EnqAlloc(p)
    <3>1. UNCHANGED <<chain, sent, received>>
      BY <2>2 DEF EnqAlloc, popVars
    <3> QED
      BY <2>2, <3>1, ListedMessagesKept, OrderFrame
  <2>3. CASE EnqLock(p) \/ EnqAllocFails(p) \/ EnqTail(p) \/ EnqCount(p) \/ EnqUnlock(p)
    <3>1. UNCHANGED <<chain, msg, sent, received>>
      BY <2>3 DEF EnqLock, EnqAllocFails, EnqTail, EnqCount, EnqUnlock, queueVars,
                  producerVars, popVars
    <3> QED
      BY <3>1, ListedMessagesKept, OrderFrame
  <2> QED
    BY <1>1, <2>1, <2>2, <2>3 DEF enq_msg
<1>2. CASE DeqHead
  BY <1>2, OrderDeqHead
<1>3. CASE ReadSize \/ PopLock \/ DeqDrop \/ PopReturn \/ UNCHANGED vars
  <2>1. UNCHANGED <<chain, msg, sent, received>>
    BY <1>3 DEF ReadSize, PopLock, DeqDrop, PopReturn, vars, queueVars, producerVars, popVars
  <2> QED
    BY <2>1, ListedMessagesKept, OrderFrame
<1> QED
  BY <1>1, <1>2, <1>3 DEF Next, lua_popNewMessages

(* Events leave the queue once each, and in the order their sender put     *)
(* them in, however the two threads' steps interleave.                     *)
THEOREM OrderIsKept == Spec => DeliveredInOrder
<1>1. IInv /\ OrderInv /\ [Next]_vars =>
        [\A p \in Producers : received'[p] # received[p] => received'[p] = received[p] + 1]_vars
  <2> SUFFICES ASSUME IInv, OrderInv, [Next]_vars, NEW p \in Producers,
                      received'[p] # received[p]
               PROVE  received'[p] = received[p] + 1
    OBVIOUS
  <2>1. CASE DeqHead
    <3>1. received' = [received EXCEPT ![msg[head][1]] = msg[head][2]]
      BY <2>1 DEF DeqHead
    <3> QED
      BY <2>1, <3>1, DeqNext DEF IInv, TypeOK
  <2>2. CASE ~DeqHead
    BY <2>2 DEF Next, lua_popNewMessages, ReadSize, PopLock, DeqDrop, PopReturn, enq_msg,
                EnqLock, EnqAlloc, EnqAllocFails, EnqLink, EnqTail, EnqCount, EnqUnlock,
                vars, popVars
  <2> QED
    BY <2>1, <2>2
<1> QED
  BY <1>1, OrderInvInit, OrderInvStep, QueueInvariant, PTL DEF Spec, DeliveredInOrder

-------------------------------------------------------------------------------
(***************************************************************************)
(* MessageQueue implements MessageChannel, for every set of producers,     *)
(* memory and buffer: linking an element is the channel's Send, returning  *)
(* from pop_new_messages is its Take, and every other step of a thread is  *)
(* invisible to a script that looks at the messages it gets.               *)
(***************************************************************************)

\* What the channel sees as pending.
Pending == taken \o Contents

(* Sequences.                                                              *)

LEMMA ConcatLen ==
  ASSUME NEW s \in Seq(Event), NEW u \in Seq(Event)
  PROVE  s \o u \in Seq(Event) /\ Len(s \o u) = Len(s) + Len(u)
OBVIOUS

\* Moving the first element of the second part to the end of the first part
\* leaves the whole as it was.
LEMMA MoveHead ==
  ASSUME NEW s \in Seq(Event), NEW u \in Seq(Event), NEW w \in Seq(Event), NEW e \in Event,
         Len(u) = Len(w) + 1, u[1] = e, \A k \in 1..Len(w) : w[k] = u[k + 1]
  PROVE  Append(s, e) \o w = s \o u
<1> DEFINE a == Append(s, e) \o w
           b == s \o u
<1>0. Append(s, e) \in Seq(Event) /\ Len(Append(s, e)) = Len(s) + 1
  OBVIOUS
<1>1. a \in Seq(Event) /\ b \in Seq(Event) /\ Len(a) = Len(b)
  <2>1. a \in Seq(Event) /\ Len(a) = Len(Append(s, e)) + Len(w)
    BY <1>0, ConcatLen
  <2>2. b \in Seq(Event) /\ Len(b) = Len(s) + Len(u)
    BY ConcatLen
  <2>3. Len(s) \in Nat /\ Len(u) \in Nat /\ Len(w) \in Nat
    OBVIOUS
  <2> QED
    BY <1>0, <2>1, <2>2, <2>3
<1>2. ASSUME NEW k \in 1..Len(a) PROVE a[k] = b[k]
  <2>1. CASE k <= Len(s)
    BY <2>1
  <2>2. CASE k = Len(s) + 1
    BY <2>2
  <2>3. CASE k > Len(s) + 1
    <3>1. k - Len(s) - 1 \in 1..Len(w) /\ (k - Len(s) - 1) + 1 = k - Len(s)
      BY <2>3
    <3>2. a[k] = w[k - Len(s) - 1] /\ b[k] = u[k - Len(s)]
      BY <2>3
    <3> QED
      BY <3>1, <3>2
  <2> QED
    BY <2>1, <2>2, <2>3
<1> HIDE DEF a, b
<1>3. a = b
  BY <1>1, <1>2, SeqEqual
<1> QED
  BY <1>3 DEF a, b

\* The two parts of a concatenation.
LEMMA SplitConcat ==
  ASSUME NEW s \in Seq(Event), NEW u \in Seq(Event)
  PROVE  /\ Len(s \o u) = Len(s) + Len(u)
         /\ SubSeq(s \o u, 1, Len(s)) = s
         /\ SubSeq(s \o u, Len(s) + 1, Len(s \o u)) = u
<1>1. Len(s \o u) = Len(s) + Len(u) /\ s \o u \in Seq(Event)
  OBVIOUS
<1>2. SubSeq(s \o u, 1, Len(s)) = s
  <2> DEFINE a == SubSeq(s \o u, 1, Len(s))
  <2>1. a \in Seq(Event) /\ Len(a) = Len(s)
    BY <1>1
  <2>2. \A k \in 1..Len(a) : a[k] = s[k]
    BY <1>1
  <2> HIDE DEF a
  <2> QED
    BY <2>1, <2>2, SeqEqual DEF a
<1>3. SubSeq(s \o u, Len(s) + 1, Len(s \o u)) = u
  <2> DEFINE a == SubSeq(s \o u, Len(s) + 1, Len(s \o u))
  <2>1. a \in Seq(Event) /\ Len(a) = Len(u)
    BY <1>1
  <2>2. \A k \in 1..Len(a) : a[k] = u[k]
    BY <1>1
  <2> HIDE DEF a
  <2> QED
    BY <2>1, <2>2, SeqEqual DEF a
<1> QED
  BY <1>1, <1>2, <1>3

-------------------------------------------------------------------------------
(* The channel's variables, seen in MessageQueue.                          *)

LEMMA ContentsTyped == IInv => /\ Contents \in Seq(Event) /\ Len(Contents) = Len(chain)
                               /\ \A k \in 1..Len(chain) : Contents[k] = msg[chain[k]]
<1> SUFFICES ASSUME IInv
             PROVE  /\ Contents \in Seq(Event) /\ Len(Contents) = Len(chain)
                    /\ \A k \in 1..Len(chain) : Contents[k] = msg[chain[k]]
  OBVIOUS
<1>1. Len(chain) \in Nat
  BY DEF IInv, TypeOK
<1>2. \A k \in 1..Len(chain) : msg[chain[k]] \in Event
  BY DEF IInv, ContentsInv
<1> QED
  BY <1>1, <1>2 DEF Contents

\* Nothing the channel sees has changed.
Invisible == UNCHANGED <<sent, Pending, batch.taken>>

LEMMA SameContents ==
  ASSUME IInv, UNCHANGED chain, \A k \in 1..Len(chain) : msg'[chain[k]] = msg[chain[k]]
  PROVE  Contents' = Contents
BY DEF Contents

(* Every step of enq_msg is invisible but the one that links the element.  *)
LEMMA EnqLinkSends ==
  ASSUME IInv, NEW p \in Producers, EnqLink(p)
  PROVE  Channel!Send(p)
<1> USE QueueAssumption
<1>1. /\ pc[p] = "link" /\ chain' = Append(chain, elt[p])
      /\ sent' = [sent EXCEPT ![p] = @ + 1] /\ sent[p] < MaxSent
      /\ elt[p] \in Cells /\ msg[elt[p]] = <<p, sent[p] + 1>>
      /\ UNCHANGED <<msg, taken, batch>>
  BY DEF EnqLink, Goto, IInv, EnqInv, TypeOK, popVars
<1>2. taken = <<>>
  BY <1>1 DEF IInv, LockInv, PopInv, InEnq
<1>3. <<p, sent[p] + 1>> \in Event
  BY <1>1 DEF Event, IInv, TypeOK
<1>4. Contents' = Append(Contents, <<p, sent[p] + 1>>)
  <2>1. /\ chain \in Seq(Cells) /\ Len(chain) \in Nat /\ Len(chain') = Len(chain) + 1
        /\ \A k \in 1..Len(chain) : chain'[k] = chain[k]
        /\ chain'[Len(chain) + 1] = elt[p]
    BY <1>1 DEF IInv, TypeOK
  <2>2. /\ \A k \in 1..Len(chain) : msg'[chain'[k]] = Contents[k]
        /\ msg'[chain'[Len(chain) + 1]] = <<p, sent[p] + 1>>
    BY <1>1, <2>1, ContentsTyped
  <2> DEFINE a == Append(Contents, <<p, sent[p] + 1>>)
             b == [k \in 1..Len(chain') |-> msg'[chain'[k]]]
  <2>3. /\ a \in Seq(Event) /\ Len(a) = Len(chain) + 1
        /\ \A k \in 1..Len(chain) : a[k] = Contents[k]
        /\ a[Len(chain) + 1] = <<p, sent[p] + 1>>
    BY <1>3, ContentsTyped, <2>1
  <2>4. \A k \in 1..Len(chain') : k \in 1..Len(chain) \/ k = Len(chain) + 1
    BY <2>1
  <2>5. \A k \in 1..Len(chain') : b[k] = a[k]
    BY <2>2, <2>3, <2>4
  <2>6. \A k \in 1..Len(chain') : b[k] \in Event
    BY <2>5, <2>3, <2>1
  <2>7. b \in Seq(Event) /\ Len(b) = Len(chain')
    BY <2>6, <2>1
  <2>8. b = a
    <3> HIDE DEF a, b
    <3> QED
      BY <2>1, <2>3, <2>5, <2>7, SeqEqual
  <2> QED
    BY <2>8 DEF Contents
<1>5. Pending = Contents /\ Pending' = Contents'
  <2>1. \A s \in Seq(Event) : <<>> \o s = s
    OBVIOUS
  <2>2. Contents' \in Seq(Event)
    BY <1>3, <1>4, ContentsTyped
  <2> QED
    BY <1>1, <1>2, <2>1, <2>2, ContentsTyped DEF Pending
<1> QED
  BY <1>1, <1>4, <1>5 DEF Channel!Send, Pending

LEMMA EnqInvisible ==
  ASSUME IInv, NEW p \in Producers, enq_msg(p), ~EnqLink(p)
  PROVE  Invisible
<1>1. UNCHANGED <<sent, chain, taken, batch>>
  BY DEF enq_msg, EnqLock, EnqAlloc, EnqAllocFails, EnqTail, EnqCount, EnqUnlock, queueVars,
         producerVars, popVars
<1>2. \A k \in 1..Len(chain) : msg'[chain[k]] = msg[chain[k]]
  <2>1. CASE EnqAlloc(p)
    <3>1. PICK c \in Cells \ allocated : msg' = [msg EXCEPT ![c] = <<p, sent[p] + 1>>]
      BY <2>1 DEF EnqAlloc
    <3>2. \A k \in 1..Len(chain) : chain[k] \in Cells /\ chain[k] # c
      BY <3>1 DEF IInv, ListWellFormed, TypeOK
    <3> QED
      BY <3>1, <3>2 DEF IInv, TypeOK
  <2>2. CASE ~EnqAlloc(p)
    BY <2>2 DEF enq_msg, EnqLock, EnqAllocFails, EnqTail, EnqCount, EnqUnlock, queueVars
  <2> QED
    BY <2>1, <2>2
<1> QED
  BY <1>1, <1>2, SameContents DEF Invisible, Pending

(* Every step of a pop is invisible but its return.                        *)
LEMMA DeqHeadInvisible ==
  ASSUME IInv, DeqHead
  PROVE  Invisible
<1> USE QueueAssumption
<1>1. /\ chain # <<>> /\ Len(chain) \in Nat /\ Len(chain) > 0 /\ head = chain[1]
      /\ msg[head] \in Event
  BY DeqHasElement DEF DeqHead, Goto
<1>2. /\ chain' = Tail(chain) /\ taken' = Append(taken, msg[head])
      /\ UNCHANGED <<msg, sent, batch>>
  BY DEF DeqHead, producerVars
<1>3. /\ Len(chain') = Len(chain) - 1 /\ chain' \in Seq(Cells)
      /\ \A k \in 1..Len(chain') : chain'[k] = chain[k + 1] /\ k + 1 \in 1..Len(chain)
  BY <1>1, <1>2, HeadTailProperties DEF IInv, TypeOK
<1>4. Contents \in Seq(Event) /\ Len(Contents) = Len(chain) /\ Contents[1] = msg[head]
  BY <1>1, ContentsTyped
<1> DEFINE w == [k \in 1..Len(chain') |-> msg'[chain'[k]]]
<1>5. \A k \in 1..Len(chain') : w[k] = Contents[k + 1] /\ w[k] \in Event
  BY <1>2, <1>3, <1>4, ContentsTyped DEF IInv, ContentsInv
<1>6. Contents' = w /\ w \in Seq(Event) /\ Len(w) = Len(chain')
  <2>1. Contents' = w
    BY DEF Contents
  <2>2. Len(chain') \in Nat
    BY <1>3
  <2>3. \A k \in 1..Len(chain') : msg'[chain'[k]] \in Event
    BY <1>5
  <2> QED
    BY <2>1, <2>2, <2>3
<1>7. taken \in Seq(Event)
  BY DEF IInv, TypeOK
<1>8. Append(taken, msg[head]) \o w = taken \o Contents
  <2> HIDE DEF w
  <2>1. Len(Contents) = Len(w) + 1 /\ Contents[1] = msg[head]
        /\ \A k \in 1..Len(w) : w[k] = Contents[k + 1]
    <3>1. Len(w) = Len(chain) - 1 /\ Len(chain) \in Nat
      BY <1>1, <1>3, <1>6
    <3> QED
      BY <3>1, <1>4, <1>5, <1>6
  <2>2. Contents \in Seq(Event) /\ w \in Seq(Event) /\ msg[head] \in Event
    BY <1>1, <1>4, <1>6
  <2> HIDE DEF Contents
  <2> QED
    BY <1>7, <2>1, <2>2, MoveHead
<1> QED
  BY <1>2, <1>6, <1>8 DEF Invisible, Pending

LEMMA PopReturnTakes ==
  ASSUME IInv, PopReturn
  PROVE  Channel!Take
<1> USE QueueAssumption
<1>1. /\ pc[Main] = "copy" /\ i >= CopyCount
      /\ batch'.taken = taken /\ taken' = <<>>
      /\ UNCHANGED <<chain, msg, sent>>
  BY DEF PopReturn, Goto, queueVars, producerVars
<1>2. /\ i = CopyCount /\ i \in Nat /\ Len(taken) = i /\ length + i = newLength /\ newLength >= 1
  BY <1>1 DEF IInv, PopInv, InPop, UnlockedSizeIsALowerBound, CopyCount, TypeOK
<1>3. length = Len(chain)
  <2>1. ~Uncounted /\ ~NotCountedOut
    BY <1>1 DEF IInv, LockInv, InPop, InEnq, Uncounted, NotCountedOut
  <2> QED
    BY <2>1 DEF IInv, LengthCounts, TypeOK
<1>4. /\ taken \in Seq(Event) /\ Contents \in Seq(Event) /\ Len(Contents) = Len(chain)
      /\ Len(chain) \in Nat
  BY ContentsTyped DEF IInv, TypeOK
<1>5. /\ Len(Pending) = Len(taken) + Len(Contents)
      /\ SubSeq(Pending, 1, Len(taken)) = taken
      /\ SubSeq(Pending, Len(taken) + 1, Len(Pending)) = Contents
  BY <1>4, SplitConcat DEF Pending
<1>6. Len(Pending) = newLength /\ Channel!TakeCount(Len(Pending)) = Len(taken)
  BY <1>2, <1>3, <1>4, <1>5 DEF Channel!TakeCount, CopyCount
<1>7. Pending # <<>>
  BY <1>2, <1>6
<1>8. Contents' = Contents
  BY <1>1, SameContents
<1>9. taken' \o Contents' = Contents
  BY <1>1, <1>4, <1>8
<1> QED
  BY <1>1, <1>5, <1>6, <1>7, <1>9 DEF Channel!Take, Pending

LEMMA PopInvisible ==
  ASSUME IInv, lua_popNewMessages, ~PopReturn
  PROVE  Invisible
<1>1. CASE DeqHead
  BY <1>1, DeqHeadInvisible
<1>2. CASE ReadSize \/ DeqDrop
  <2>1. UNCHANGED <<sent, chain, msg, taken, batch>>
    BY <1>2 DEF ReadSize, DeqDrop, queueVars, producerVars
  <2> QED
    BY <2>1, SameContents DEF Invisible, Pending
<1>3. CASE PopLock
  <2>1. UNCHANGED <<sent, chain, msg, batch>> /\ taken' = <<>> /\ pc[Main] = "lock"
    BY <1>3 DEF PopLock, Goto, queueVars, producerVars
  <2>2. taken = <<>>
    BY <2>1 DEF IInv, PopInv, InPop
  <2> QED
    BY <2>1, <2>2, SameContents DEF Invisible, Pending
<1> QED
  BY <1>1, <1>2, <1>3 DEF lua_popNewMessages

(* The queue, its list, its lock, its static buffer and its unlocked read  *)
(* are, to the script, an atomic bounded take from a FIFO: nothing lost,   *)
(* nothing twice, nothing out of order across producers.                   *)
THEOREM Implementation == Spec => ImplementsChannel
<1>1. Init => Channel!Init
  BY DEF Init, Channel!Init, NoList, Contents
<1>2. IInv /\ [Next]_vars => [Channel!Next]_(Channel!chanVars)
  <2> SUFFICES ASSUME IInv, [Next]_vars
               PROVE  Channel!Next \/ Invisible
    BY DEF Invisible, Pending, Channel!chanVars
  <2>1. ASSUME NEW p \in Producers, enq_msg(p) PROVE Channel!Next \/ Invisible
    BY <2>1, EnqLinkSends, EnqInvisible DEF Channel!Next
  <2>2. ASSUME lua_popNewMessages PROVE Channel!Next \/ Invisible
    BY <2>2, PopReturnTakes, PopInvisible DEF Channel!Next
  <2>3. CASE UNCHANGED vars
    BY <2>3, SameContents DEF vars, queueVars, producerVars, popVars, Invisible, Pending
  <2> QED
    BY <2>1, <2>2, <2>3 DEF Next
<1> QED
  BY <1>1, <1>2, QueueInvariant, PTL DEF Spec, ImplementsChannel, Channel!Spec
===============================================================================
