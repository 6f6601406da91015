---------------------------- MODULE TerminalProofs -----------------------------
(***************************************************************************)
(* Terminal implements LineEditor, for every size of the buffer, every set *)
(* of characters and histories of any length.                              *)
(*                                                                         *)
(* What has to be known of the buffer is that a zero follows the text      *)
(* before its last byte but one, and that the cursor is in the text; then  *)
(* each change of the bytes is the change of the text it looks like.       *)
(***************************************************************************)
EXTENDS Terminal, SequenceTheorems, TLAPS

Buffers == [Index -> Chars \cup {NUL}]

\* The buffer holds a text of n characters, and whatever after its zero.
Holds(s, n) ==
  /\ s \in Buffers
  /\ s[n] = NUL /\ \A i \in 0 .. n - 1 : s[i] \in Chars

\* What is shown left and right of a cursor.
Left(s, p) == SubSeq(Text(s), 1, p)
Right(s, p) == SubSeq(Text(s), p + 1, strlen(s))

-------------------------------------------------------------------------------
(* Buffers and the texts in them.                                          *)

\* strlen finds the zero.
LEMMA StrlenIs ==
  ASSUME NEW s, NEW n \in Index, Holds(s, n)
  PROVE  strlen(s) = n
<1> DEFINE zeros == {k \in Index : s[k] = NUL} \cup {LINE_WIDTH}
<1>1. n \in zeros /\ n \in Int /\ n < LINE_WIDTH
  BY TerminalAssumption DEF Holds, Index
<1>2. \A k \in zeros : n <= k
  <2> SUFFICES ASSUME NEW k \in Index, s[k] = NUL, k < n PROVE FALSE
    BY <1>1, TerminalAssumption DEF Index
  <2>1. k \in 0 .. n - 1
    BY DEF Index
  <2> QED
    BY <2>1, TerminalAssumption DEF Holds
<1>3. zeros \subseteq Int
  BY TerminalAssumption DEF Index
<1>4. Min(zeros) \in zeros /\ \A k \in zeros : Min(zeros) <= k
  BY <1>1, <1>2 DEF Min
<1>5. Min(zeros) = n
  BY <1>1, <1>2, <1>3, <1>4
<1> QED
  BY <1>5 DEF strlen

\* The text is the bytes before the zero.
LEMMA TextIs ==
  ASSUME NEW s, NEW n \in Index, Holds(s, n)
  PROVE  /\ Text(s) \in Seq(Chars) /\ Len(Text(s)) = n
         /\ \A i \in 1 .. n : Text(s)[i] = s[i - 1]
<1>1. n \in Nat /\ Text(s) = [i \in 1 .. n |-> s[i - 1]]
  <2>1. n \in Nat
    BY TerminalAssumption DEF Index
  <2> QED
    BY <2>1, StrlenIs DEF Text
<1>2. \A i \in 1 .. n : s[i - 1] \in Chars
  BY <1>1 DEF Holds
<1> QED
  BY <1>1, <1>2

\* The part left of a cursor and the part right of it, byte by byte.
LEMMA PartsAre ==
  ASSUME NEW s, NEW n \in Index, Holds(s, n), NEW p \in 0 .. n
  PROVE  /\ Left(s, p) \in Seq(Chars) /\ Len(Left(s, p)) = p
         /\ \A i \in 1 .. p : Left(s, p)[i] = s[i - 1]
         /\ Right(s, p) \in Seq(Chars) /\ Len(Right(s, p)) = n - p
         /\ \A i \in 1 .. n - p : Right(s, p)[i] = s[p + i - 1]
<1>1. n \in Nat /\ p \in Nat
  BY DEF Index
<1>2. /\ Text(s) \in Seq(Chars) /\ Len(Text(s)) = n
      /\ \A i \in 1 .. n : Text(s)[i] = s[i - 1]
  BY TextIs
<1>3. \A i \in 1 .. n : Text(s)[i] \in Chars
  BY <1>2, ElementOfSeq
<1>4. /\ SubSeq(Text(s), 1, p) \in Seq(Chars)
      /\ Len(SubSeq(Text(s), 1, p)) = IF 1 <= p THEN p - 1 + 1 ELSE 0
      /\ \A i \in 1 .. p - 1 + 1 : SubSeq(Text(s), 1, p)[i] = Text(s)[1 + i - 1]
  <2>1. 1 \in Int /\ p \in Int /\ \A i \in 1 .. p : Text(s)[i] \in Chars
    BY <1>1, <1>3
  <2> QED
    BY <2>1, SubSeqProperties
<1>5. /\ SubSeq(Text(s), p + 1, n) \in Seq(Chars)
      /\ Len(SubSeq(Text(s), p + 1, n)) = IF p + 1 <= n THEN n - (p + 1) + 1 ELSE 0
      /\ \A i \in 1 .. n - (p + 1) + 1 :
           SubSeq(Text(s), p + 1, n)[i] = Text(s)[(p + 1) + i - 1]
  <2>1. p + 1 \in Int /\ n \in Int /\ \A i \in p + 1 .. n : Text(s)[i] \in Chars
    BY <1>1, <1>3
  <2> QED
    BY <2>1, SubSeqProperties
<1>6. strlen(s) = n
  BY StrlenIs
<1>7. Left(s, p) = SubSeq(Text(s), 1, p) /\ Right(s, p) = SubSeq(Text(s), p + 1, n)
  BY <1>6 DEF Left, Right
<1>8. \A i \in 1 .. p : Left(s, p)[i] = s[i - 1]
  BY <1>1, <1>2, <1>4, <1>7
<1>9. \A i \in 1 .. n - p : Right(s, p)[i] = s[p + i - 1]
  <2> SUFFICES ASSUME NEW i \in 1 .. n - p PROVE Right(s, p)[i] = s[p + i - 1]
    OBVIOUS
  <2>1. i \in 1 .. n - (p + 1) + 1 /\ (p + 1) + i - 1 = p + i /\ p + i \in 1 .. n
    BY <1>1
  <2> QED
    BY <1>2, <1>5, <1>7, <2>1
<1>10. Len(Left(s, p)) = p /\ Len(Right(s, p)) = n - p
  BY <1>1, <1>4, <1>5, <1>7
<1> QED
  BY <1>4, <1>5, <1>7, <1>8, <1>9, <1>10

\* Nothing is left of a cursor at the start, or right of one at the end.
LEMMA NoText ==
  ASSUME NEW s \in Seq(Chars), Len(s) = 0
  PROVE  s = <<>>
BY EmptySeq

\* The text is what is left of the cursor and what is right of it.
LEMMA PartsAreTheText ==
  ASSUME NEW s, NEW n \in Index, Holds(s, n), NEW p \in 0 .. n
  PROVE  Text(s) = Left(s, p) \o Right(s, p)
<1>1. /\ Text(s) \in Seq(Chars) /\ Len(Text(s)) = n
      /\ \A i \in 1 .. n : Text(s)[i] = s[i - 1]
  BY TextIs
<1>2. /\ Left(s, p) \in Seq(Chars) /\ Len(Left(s, p)) = p
      /\ \A i \in 1 .. p : Left(s, p)[i] = s[i - 1]
      /\ Right(s, p) \in Seq(Chars) /\ Len(Right(s, p)) = n - p
      /\ \A i \in 1 .. n - p : Right(s, p)[i] = s[p + i - 1]
  BY PartsAre
<1>3. n \in Nat /\ p \in Nat
  BY TerminalAssumption DEF Index
<1> DEFINE both == Left(s, p) \o Right(s, p)
<1>4. /\ both \in Seq(Chars) /\ Len(both) = p + (n - p)
      /\ \A i \in 1 .. p + (n - p) :
           both[i] = IF i <= p THEN Left(s, p)[i] ELSE Right(s, p)[i - p]
  <2>1. /\ both \in Seq(Chars) /\ Len(both) = Len(Left(s, p)) + Len(Right(s, p))
        /\ \A i \in 1 .. Len(Left(s, p)) + Len(Right(s, p)) :
             both[i] = IF i <= Len(Left(s, p)) THEN Left(s, p)[i]
                       ELSE Right(s, p)[i - Len(Left(s, p))]
    BY <1>2, ConcatProperties
  <2> HIDE DEF both
  <2> QED
    BY <1>2, <2>1
<1> HIDE DEF both
<1>5. ASSUME NEW i \in 1 .. n PROVE Text(s)[i] = both[i]
  <2>1. CASE i <= p
    <3>1. i \in 1 .. p /\ i \in 1 .. p + (n - p)
      BY <1>3, <2>1
    <3>2. both[i] = Left(s, p)[i]
      BY <1>4, <2>1, <3>1
    <3>3. Left(s, p)[i] = s[i - 1]
      BY <1>2, <3>1
    <3> QED
      BY <1>1, <3>2, <3>3
  <2>2. CASE ~(i <= p)
    <3>1. i - p \in 1 .. n - p /\ p + (i - p) - 1 = i - 1 /\ i \in 1 .. p + (n - p)
      BY <1>3, <2>2
    <3>2. both[i] = Right(s, p)[i - p]
      BY <1>4, <2>2, <3>1
    <3>3. Right(s, p)[i - p] = s[i - 1]
      BY <1>2, <3>1
    <3> QED
      BY <1>1, <3>2, <3>3
  <2> QED
    BY <2>1, <2>2
<1>6. Len(Text(s)) = Len(both)
  BY <1>1, <1>3, <1>4
<1>7. Text(s) = both
  BY <1>1, <1>4, <1>5, <1>6, SeqEqual
<1> QED
  BY <1>7 DEF both

-------------------------------------------------------------------------------
(* What each change of the buffer or the cursor does to the two parts.     *)

\* The cursor moves left, or the character left of it goes.
LEMMA FrontOfLeft ==
  ASSUME NEW s, NEW n \in Index, Holds(s, n), NEW p \in 1 .. n,
         NEW t, NEW k \in Index, Holds(t, k), p - 1 <= k,
         \A i \in 0 .. p - 2 : t[i] = s[i]
  PROVE  Left(s, p) # <<>> /\ Left(t, p - 1) = Front(Left(s, p))
<1>1. n \in Nat /\ k \in Nat /\ p \in Nat \ {0} /\ p - 1 \in 0 .. k /\ p \in 0 .. n
  BY TerminalAssumption DEF Index
<1>2. /\ Left(s, p) \in Seq(Chars) /\ Len(Left(s, p)) = p
      /\ \A i \in 1 .. p : Left(s, p)[i] = s[i - 1]
  BY <1>1, PartsAre
<1>3. /\ Left(t, p - 1) \in Seq(Chars) /\ Len(Left(t, p - 1)) = p - 1
      /\ \A i \in 1 .. p - 1 : Left(t, p - 1)[i] = t[i - 1]
  <2>1. \A q \in 0 .. k : /\ Left(t, q) \in Seq(Chars) /\ Len(Left(t, q)) = q
                          /\ \A i \in 1 .. q : Left(t, q)[i] = t[i - 1]
    BY PartsAre
  <2> QED
    BY <1>1, <2>1
<1>4. Front(Left(s, p)) = SubSeq(Left(s, p), 1, p - 1)
  BY <1>2 DEF Front
<1>5. /\ SubSeq(Left(s, p), 1, p - 1) \in Seq(Chars)
      /\ Len(SubSeq(Left(s, p), 1, p - 1)) = p - 1
      /\ \A i \in 1 .. p - 1 : SubSeq(Left(s, p), 1, p - 1)[i] = Left(s, p)[i]
  <2>1. 1 \in Int /\ p - 1 \in Int /\ \A i \in 1 .. p - 1 : Left(s, p)[i] \in Chars
    BY <1>1, <1>2, ElementOfSeq
  <2>2. /\ SubSeq(Left(s, p), 1, p - 1) \in Seq(Chars)
        /\ Len(SubSeq(Left(s, p), 1, p - 1)) = IF 1 <= p - 1 THEN p - 1 - 1 + 1 ELSE 0
        /\ \A i \in 1 .. p - 1 - 1 + 1 :
             SubSeq(Left(s, p), 1, p - 1)[i] = Left(s, p)[1 + i - 1]
    BY <2>1, SubSeqProperties
  <2> QED
    BY <1>1, <2>2
<1>6. ASSUME NEW i \in 1 .. p - 1
      PROVE  Left(t, p - 1)[i] = SubSeq(Left(s, p), 1, p - 1)[i]
  <2>1. i \in 1 .. p /\ i - 1 \in 0 .. p - 2
    BY <1>1
  <2> QED
    BY <1>2, <1>3, <1>5, <2>1
<1>7. Left(t, p - 1) = SubSeq(Left(s, p), 1, p - 1)
  BY <1>3, <1>5, <1>6, SeqEqual
<1>8. Left(s, p) # <<>>
  BY <1>1, <1>2, EmptySeq
<1> QED
  BY <1>4, <1>7, <1>8

\* From q on, a buffer has the bytes that another has from p on.
SameFrom(t, q, s, p, m) == \A i \in 1 .. m : t[q + i - 1] = s[p + i - 1]

\* The right part, in a buffer in which it has moved.
LEMMA SameRight ==
  ASSUME NEW s, NEW n \in Index, Holds(s, n), NEW p \in 0 .. n,
         NEW t, NEW k \in Index, Holds(t, k), NEW q \in 0 .. k,
         k - q = n - p, SameFrom(t, q, s, p, n - p)
  PROVE  Right(t, q) = Right(s, p)
<1>1. /\ Right(s, p) \in Seq(Chars) /\ Len(Right(s, p)) = n - p
      /\ \A i \in 1 .. n - p : Right(s, p)[i] = s[p + i - 1]
  BY PartsAre
<1>2. /\ Right(t, q) \in Seq(Chars) /\ Len(Right(t, q)) = n - p
      /\ \A i \in 1 .. n - p : Right(t, q)[i] = t[q + i - 1]
  BY PartsAre
<1>3. \A i \in 1 .. Len(Right(t, q)) : Right(t, q)[i] = Right(s, p)[i]
  BY <1>1, <1>2 DEF SameFrom
<1> QED
  BY <1>1, <1>2, <1>3, SeqEqual

\* The left part grows by the character that is now left of the cursor.
LEMMA LeftGrows ==
  ASSUME NEW s, NEW n \in Index, Holds(s, n), NEW p \in 0 .. n,
         NEW t, NEW k \in Index, Holds(t, k), p + 1 <= k,
         \A i \in 0 .. p - 1 : t[i] = s[i]
  PROVE  Left(t, p + 1) = Append(Left(s, p), t[p])
<1>1. n \in Nat /\ k \in Nat /\ p \in Nat /\ p + 1 \in 0 .. k
  BY TerminalAssumption DEF Index
<1>2. /\ Left(s, p) \in Seq(Chars) /\ Len(Left(s, p)) = p
      /\ \A i \in 1 .. p : Left(s, p)[i] = s[i - 1]
  BY PartsAre
<1>3. /\ Left(t, p + 1) \in Seq(Chars) /\ Len(Left(t, p + 1)) = p + 1
      /\ \A i \in 1 .. p + 1 : Left(t, p + 1)[i] = t[i - 1]
  BY <1>1, PartsAre
<1>4. t[p] \in Chars
  <2>1. p \in 0 .. k - 1
    BY <1>1
  <2> QED
    BY <2>1 DEF Holds
<1> DEFINE longer == Append(Left(s, p), t[p])
<1>5. /\ longer \in Seq(Chars) /\ Len(longer) = p + 1
      /\ \A i \in 1 .. p : longer[i] = Left(s, p)[i]
      /\ longer[p + 1] = t[p]
  BY <1>2, <1>4, AppendProperties
<1> HIDE DEF longer
<1>6. ASSUME NEW i \in 1 .. p + 1 PROVE Left(t, p + 1)[i] = longer[i]
  <2>1. CASE i \in 1 .. p
    <3>1. i - 1 \in 0 .. p - 1
      BY <1>1, <2>1
    <3> QED
      BY <1>2, <1>3, <1>5, <2>1, <3>1
  <2>2. CASE i = p + 1
    <3>1. i - 1 = p
      BY <1>1, <2>2
    <3> QED
      BY <1>3, <1>5, <2>2, <3>1
  <2> QED
    BY <1>1, <2>1, <2>2
<1>7. Left(t, p + 1) = longer
  BY <1>3, <1>5, <1>6, SeqEqual
<1> QED
  BY <1>7 DEF longer

-------------------------------------------------------------------------------
(* The keys.                                                               *)

\* The cursor steps over the character left of it.
LEMMA CursorLeft ==
  ASSUME NEW s, NEW n \in Index, Holds(s, n), NEW p \in 1 .. n
  PROVE  /\ Left(s, p) # <<>> /\ Left(s, p - 1) = Front(Left(s, p))
         /\ Right(s, p - 1) = <<Last(Left(s, p))>> \o Right(s, p)
<1>1. n \in Nat /\ p \in Nat \ {0} /\ p - 1 \in 0 .. n /\ p \in 0 .. n /\ p - 1 <= n
  BY TerminalAssumption DEF Index
<1>2. Left(s, p) # <<>> /\ Left(s, p - 1) = Front(Left(s, p))
  BY <1>1, FrontOfLeft
<1>3. \A q \in 0 .. n : /\ Left(s, q) \in Seq(Chars) /\ Len(Left(s, q)) = q
                        /\ \A i \in 1 .. q : Left(s, q)[i] = s[i - 1]
  BY PartsAre
<1>4. \A q \in 0 .. n : /\ Right(s, q) \in Seq(Chars) /\ Len(Right(s, q)) = n - q
                        /\ \A i \in 1 .. n - q : Right(s, q)[i] = s[q + i - 1]
  BY PartsAre
<1>5. /\ Left(s, p) \in Seq(Chars) /\ Len(Left(s, p)) = p
      /\ \A i \in 1 .. p : Left(s, p)[i] = s[i - 1]
      /\ Right(s, p) \in Seq(Chars) /\ Len(Right(s, p)) = n - p
      /\ \A i \in 1 .. n - p : Right(s, p)[i] = s[p + i - 1]
  BY <1>1, <1>3, <1>4
<1>6. /\ Right(s, p - 1) \in Seq(Chars) /\ Len(Right(s, p - 1)) = n - (p - 1)
      /\ \A i \in 1 .. n - (p - 1) : Right(s, p - 1)[i] = s[(p - 1) + i - 1]
  BY <1>1, <1>4
<1> DEFINE last == Last(Left(s, p))
           longer == <<last>> \o Right(s, p)
<1>7. last = s[p - 1] /\ last \in Chars
  <2>1. p \in 1 .. p /\ p \in 1 .. Len(Left(s, p))
    BY <1>1, <1>5
  <2> QED
    BY <1>5, <2>1, ElementOfSeq DEF Last
<1> HIDE DEF last
<1>8. /\ longer \in Seq(Chars) /\ Len(longer) = 1 + (n - p)
      /\ \A i \in 1 .. 1 + (n - p) : longer[i] = IF i <= 1 THEN last ELSE Right(s, p)[i - 1]
  <2>1. <<last>> \in Seq(Chars) /\ Len(<<last>>) = 1 /\ \A i \in 1 .. 1 : <<last>>[i] = last
    BY <1>7
  <2>2. /\ longer \in Seq(Chars) /\ Len(longer) = Len(<<last>>) + Len(Right(s, p))
        /\ \A i \in 1 .. Len(<<last>>) + Len(Right(s, p)) :
             longer[i] = IF i <= Len(<<last>>) THEN <<last>>[i]
                         ELSE Right(s, p)[i - Len(<<last>>)]
    BY <1>5, <2>1, ConcatProperties
  <2> HIDE DEF longer
  <2> QED
    BY <1>5, <2>1, <2>2
<1> HIDE DEF longer
<1>9. ASSUME NEW i \in 1 .. n - (p - 1) PROVE Right(s, p - 1)[i] = longer[i]
  <2>1. i \in 1 .. 1 + (n - p) /\ (i <= 1 => i = 1)
    BY <1>1
  <2>2. CASE i = 1
    <3>1. (p - 1) + i - 1 = p - 1
      BY <1>1, <2>2
    <3> QED
      BY <1>6, <1>7, <1>8, <2>1, <2>2, <3>1
  <2>3. CASE ~(i <= 1)
    <3>1. i - 1 \in 1 .. n - p /\ p + (i - 1) - 1 = (p - 1) + i - 1
      BY <1>1, <2>3
    <3> QED
      BY <1>5, <1>6, <1>8, <2>1, <2>3, <3>1
  <2> QED
    BY <2>1, <2>2, <2>3
<1>10. Len(Right(s, p - 1)) = Len(longer)
  BY <1>1, <1>6, <1>8
<1>11. Right(s, p - 1) = longer
  BY <1>6, <1>8, <1>9, <1>10, SeqEqual
<1> QED
  BY <1>2, <1>11 DEF longer, last

\* The cursor steps over the character right of it.
LEMMA CursorRight ==
  ASSUME NEW s, NEW n \in Index, Holds(s, n), NEW p \in 0 .. n - 1
  PROVE  /\ Right(s, p) # <<>> /\ Left(s, p + 1) = Append(Left(s, p), Head(Right(s, p)))
         /\ Right(s, p + 1) = Tail(Right(s, p))
<1>1. n \in Nat /\ p \in Nat /\ p + 1 \in 0 .. n /\ p \in 0 .. n /\ p + 1 <= n
  BY TerminalAssumption DEF Index
<1>2. Left(s, p + 1) = Append(Left(s, p), s[p])
  BY <1>1, LeftGrows
<1>3. \A q \in 0 .. n : /\ Right(s, q) \in Seq(Chars) /\ Len(Right(s, q)) = n - q
                        /\ \A i \in 1 .. n - q : Right(s, q)[i] = s[q + i - 1]
  BY PartsAre
<1>4. /\ Right(s, p) \in Seq(Chars) /\ Len(Right(s, p)) = n - p
      /\ \A i \in 1 .. n - p : Right(s, p)[i] = s[p + i - 1]
  BY <1>1, <1>3
<1>5. /\ Right(s, p + 1) \in Seq(Chars) /\ Len(Right(s, p + 1)) = n - (p + 1)
      /\ \A i \in 1 .. n - (p + 1) : Right(s, p + 1)[i] = s[(p + 1) + i - 1]
  BY <1>1, <1>3
<1>6. Right(s, p) # <<>>
  BY <1>1, <1>4, EmptySeq
<1>7. Head(Right(s, p)) = s[p]
  <2>1. 1 \in 1 .. n - p /\ p + 1 - 1 = p
    BY <1>1
  <2>2. Head(Right(s, p)) = Right(s, p)[1]
    BY <1>4, <1>6
  <2> QED
    BY <1>4, <2>1, <2>2
<1>8. /\ Tail(Right(s, p)) \in Seq(Chars) /\ Len(Tail(Right(s, p))) = n - p - 1
      /\ \A i \in 1 .. n - p - 1 : Tail(Right(s, p))[i] = Right(s, p)[i + 1]
  BY <1>4, <1>6, HeadTailProperties
<1>9. ASSUME NEW i \in 1 .. n - (p + 1) PROVE Right(s, p + 1)[i] = Tail(Right(s, p))[i]
  <2>1. i \in 1 .. n - p - 1 /\ i + 1 \in 1 .. n - p /\ p + (i + 1) - 1 = (p + 1) + i - 1
    BY <1>1
  <2> QED
    BY <1>4, <1>5, <1>8, <2>1
<1>10. Len(Right(s, p + 1)) = Len(Tail(Right(s, p)))
  BY <1>1, <1>5, <1>8
<1>11. Right(s, p + 1) = Tail(Right(s, p))
  BY <1>5, <1>8, <1>9, <1>10, SeqEqual
<1> QED
  BY <1>2, <1>6, <1>7, <1>11

\* A character is typed: the text right of the cursor makes room for it.
TypedInto(s, p, c) == [ShiftForth(Terminate(s), p, strlen(s)) EXCEPT ![p] = c]

LEMMA Typed ==
  ASSUME NEW s, NEW n \in Index, Holds(s, n), n < LINE_WIDTH - 2, NEW p \in 0 .. n,
         NEW c \in Chars, NEW t,
         t = TypedInto(s, p, c)
  PROVE  /\ n + 1 \in Index /\ Holds(t, n + 1)
         /\ Left(t, p + 1) = Append(Left(s, p), c) /\ Right(t, p + 1) = Right(s, p)
<1> DEFINE u == Terminate(s)
<1>1. /\ n \in Nat /\ p \in Nat /\ n + 1 \in Index /\ p \in Index /\ LINE_WIDTH \in Nat
      /\ s \in Buffers /\ p + 1 <= n + 1 /\ p + 1 \in 0 .. n + 1 /\ p \in 0 .. n
  BY TerminalAssumption DEF Index, Holds
<1>2. u = [s EXCEPT ![n + 1] = NUL]
  BY StrlenIs DEF Terminate
<1>3. /\ u \in Buffers /\ u[n + 1] = NUL
      /\ \A j \in Index : j # n + 1 => u[j] = s[j]
  BY <1>1, <1>2 DEF Buffers
<1> HIDE DEF u
<1>4. t = [[j \in Index |-> IF p < j /\ j <= n THEN u[j - 1] ELSE u[j]] EXCEPT ![p] = c]
  BY StrlenIs DEF TypedInto, ShiftForth, u
<1>5. /\ t[p] = c
      /\ \A j \in Index : j # p => t[j] = IF p < j /\ j <= n THEN u[j - 1] ELSE u[j]
  BY <1>1, <1>4
<1>6. \A j \in 0 .. p - 1 : t[j] = s[j]
  <2> SUFFICES ASSUME NEW j \in 0 .. p - 1 PROVE t[j] = s[j]
    OBVIOUS
  <2>1. j \in Index /\ j # p /\ ~(p < j) /\ j # n + 1
    BY <1>1 DEF Index
  <2> QED
    BY <1>3, <1>5, <2>1
<1>7. \A j \in p + 1 .. n : t[j] = s[j - 1]
  <2> SUFFICES ASSUME NEW j \in p + 1 .. n PROVE t[j] = s[j - 1]
    OBVIOUS
  <2>1. j \in Index /\ j # p /\ p < j /\ j <= n /\ j - 1 \in Index /\ j - 1 # n + 1
    BY <1>1 DEF Index
  <2> QED
    BY <1>3, <1>5, <2>1
<1>8. t[n + 1] = NUL
  <2>1. n + 1 # p /\ ~(n + 1 <= n)
    BY <1>1
  <2> QED
    BY <1>1, <1>3, <1>5, <2>1
<1>9. t \in Buffers
  <2>1. ASSUME NEW j \in Index
        PROVE  (IF p < j /\ j <= n THEN u[j - 1] ELSE u[j]) \in Chars \cup {NUL}
    <3>1. p < j => j - 1 \in Index
      BY <1>1 DEF Index
    <3> QED
      BY <1>3, <3>1 DEF Buffers
  <2> QED
    BY <1>1, <1>4, <2>1 DEF Buffers
<1>10. \A j \in 0 .. (n + 1) - 1 : t[j] \in Chars
  <2> SUFFICES ASSUME NEW j \in 0 .. n PROVE t[j] \in Chars
    BY <1>1
  <2>1. j \in 0 .. p - 1 \/ j = p \/ j \in p + 1 .. n
    BY <1>1
  <2>2. \A i \in 0 .. n - 1 : s[i] \in Chars
    BY DEF Holds
  <2>3. CASE j \in 0 .. p - 1
    <3>1. j \in 0 .. n - 1
      BY <1>1, <2>3
    <3> QED
      BY <1>6, <2>2, <2>3, <3>1
  <2>4. CASE j \in p + 1 .. n
    <3>1. j - 1 \in 0 .. n - 1
      BY <1>1, <2>4
    <3> QED
      BY <1>7, <2>2, <2>4, <3>1
  <2> QED
    BY <1>5, <2>1, <2>3, <2>4
<1>11. Holds(t, n + 1)
  BY <1>8, <1>9, <1>10 DEF Holds
<1>12. Left(t, p + 1) = Append(Left(s, p), t[p])
  <2>1. \A k \in Index :
          Holds(t, k) /\ p + 1 <= k => Left(t, p + 1) = Append(Left(s, p), t[p])
    BY <1>6, LeftGrows
  <2> QED
    BY <1>1, <1>11, <2>1
<1>13. \A i \in 1 .. n - p : t[(p + 1) + i - 1] = s[p + i - 1]
  <2> SUFFICES ASSUME NEW i \in 1 .. n - p PROVE t[(p + 1) + i - 1] = s[p + i - 1]
    OBVIOUS
  <2>1. (p + 1) + i - 1 \in p + 1 .. n /\ ((p + 1) + i - 1) - 1 = p + i - 1
    BY <1>1
  <2> QED
    BY <1>7, <2>1
<1>14. (n + 1) - (p + 1) = n - p
  BY <1>1
<1>15. Right(t, p + 1) = Right(s, p)
  <2>1. SameFrom(t, p + 1, s, p, n - p)
    BY <1>13 DEF SameFrom
  <2>2. \A k \in Index : \A q \in 0 .. k :
          Holds(t, k) /\ k - q = n - p /\ SameFrom(t, q, s, p, n - p) => Right(t, q) = Right(s, p)
    BY SameRight
  <2> QED
    BY <1>1, <1>11, <1>14, <2>1, <2>2
<1> QED
  BY <1>1, <1>5, <1>11, <1>12, <1>15

\* The character left of the cursor is erased, and the text closes up.
LEMMA Erased ==
  ASSUME NEW s, NEW n \in Index, Holds(s, n), NEW p \in 1 .. n,
         NEW t, t = ShiftBack(s, p - 1)
  PROVE  /\ n - 1 \in Index /\ Holds(t, n - 1)
         /\ Left(s, p) # <<>> /\ Left(t, p - 1) = Front(Left(s, p))
         /\ Right(t, p - 1) = Right(s, p)
<1>1. /\ n \in Nat /\ p \in Nat \ {0} /\ n - 1 \in Index /\ LINE_WIDTH \in Nat
      /\ s \in Buffers /\ p - 1 <= n - 1 /\ p - 1 \in 0 .. n - 1 /\ p \in 0 .. n
  BY TerminalAssumption DEF Index, Holds
<1>2. t = [j \in Index |-> IF p - 1 <= j /\ j < n THEN s[j + 1] ELSE s[j]]
  BY StrlenIs DEF ShiftBack
<1>3. \A j \in 0 .. p - 2 : t[j] = s[j]
  <2> SUFFICES ASSUME NEW j \in 0 .. p - 2 PROVE t[j] = s[j]
    OBVIOUS
  <2>1. j \in Index /\ ~(p - 1 <= j)
    BY <1>1 DEF Index
  <2> QED
    BY <1>2, <2>1
<1>4. \A j \in p - 1 .. n - 1 : t[j] = s[j + 1]
  <2> SUFFICES ASSUME NEW j \in p - 1 .. n - 1 PROVE t[j] = s[j + 1]
    OBVIOUS
  <2>1. j \in Index /\ p - 1 <= j /\ j < n
    BY <1>1 DEF Index
  <2> QED
    BY <1>2, <2>1
<1>5. t[n - 1] = NUL
  <2>1. n - 1 \in p - 1 .. n - 1 /\ (n - 1) + 1 = n
    BY <1>1
  <2> QED
    BY <1>4, <2>1 DEF Holds
<1>6. t \in Buffers
  <2>1. ASSUME NEW j \in Index
        PROVE  (IF p - 1 <= j /\ j < n THEN s[j + 1] ELSE s[j]) \in Chars \cup {NUL}
    <3>1. j < n => j + 1 \in Index
      BY <1>1 DEF Index
    <3> QED
      BY <1>1, <3>1 DEF Buffers
  <2> QED
    BY <1>2, <2>1 DEF Buffers
<1>7. \A j \in 0 .. (n - 1) - 1 : t[j] \in Chars
  <2> SUFFICES ASSUME NEW j \in 0 .. (n - 1) - 1 PROVE t[j] \in Chars
    OBVIOUS
  <2>1. \A i \in 0 .. n - 1 : s[i] \in Chars
    BY DEF Holds
  <2>2. CASE j \in 0 .. p - 2
    <3>1. j \in 0 .. n - 1
      BY <1>1
    <3> QED
      BY <1>3, <2>1, <2>2, <3>1
  <2>3. CASE ~(j \in 0 .. p - 2)
    <3>1. j \in p - 1 .. n - 1 /\ j + 1 \in 0 .. n - 1
      BY <1>1, <2>3
    <3> QED
      BY <1>4, <2>1, <3>1
  <2> QED
    BY <2>2, <2>3
<1>8. Holds(t, n - 1)
  BY <1>5, <1>6, <1>7 DEF Holds
<1>9. Left(s, p) # <<>> /\ Left(t, p - 1) = Front(Left(s, p))
  BY <1>1, <1>3, <1>8, FrontOfLeft
<1>10. \A i \in 1 .. n - p : t[(p - 1) + i - 1] = s[p + i - 1]
  <2> SUFFICES ASSUME NEW i \in 1 .. n - p PROVE t[(p - 1) + i - 1] = s[p + i - 1]
    OBVIOUS
  <2>1. (p - 1) + i - 1 \in p - 1 .. n - 1 /\ ((p - 1) + i - 1) + 1 = p + i - 1
    BY <1>1
  <2> QED
    BY <1>4, <2>1
<1>11. (n - 1) - (p - 1) = n - p
  BY <1>1
<1>12. Right(t, p - 1) = Right(s, p)
  <2>1. SameFrom(t, p - 1, s, p, n - p)
    BY <1>10 DEF SameFrom
  <2>2. \A k \in Index : \A q \in 0 .. k :
          Holds(t, k) /\ k - q = n - p /\ SameFrom(t, q, s, p, n - p) => Right(t, q) = Right(s, p)
    BY <1>1, SameRight
  <2> QED
    BY <1>1, <1>8, <1>11, <2>1, <2>2
<1> QED
  BY <1>1, <1>8, <1>9, <1>12

\* Texts are sequences of characters that fit.
LEMMA TextsAre ==
  ASSUME NEW x
  PROVE  x \in Texts <=> x \in Seq(Chars) /\ Len(x) <= LINE_WIDTH - 2
<1>1. x \in Texts <=> \E m \in 0 .. LINE_WIDTH - 2 : x \in [1 .. m -> Chars]
  BY Zenon DEF Texts, BoundedSeq, SeqOf
<1>2. ASSUME NEW m \in 0 .. LINE_WIDTH - 2, x \in [1 .. m -> Chars]
      PROVE  x \in Seq(Chars) /\ Len(x) <= LINE_WIDTH - 2
  BY <1>2, TerminalAssumption
<1>3. ASSUME x \in Seq(Chars), Len(x) <= LINE_WIDTH - 2
      PROVE  \E m \in 0 .. LINE_WIDTH - 2 : x \in [1 .. m -> Chars]
  <2>1. Len(x) \in 0 .. LINE_WIDTH - 2 /\ x \in [1 .. Len(x) -> Chars]
    BY <1>3, LenProperties, TerminalAssumption
  <2> QED
    BY <2>1
<1> QED
  BY <1>1, <1>2, <1>3

\* A text is copied into the buffer, over whatever was there.
LEMMA Copied ==
  ASSUME NEW s \in Buffers, NEW x \in Texts, NEW t, t = strcpy(s, x)
  PROVE  /\ Len(x) \in 0 .. LINE_WIDTH - 2 /\ Holds(t, Len(x))
         /\ Left(t, Len(x)) = x /\ Right(t, Len(x)) = <<>>
<1> DEFINE k == Len(x)
<1>1. x \in Seq(Chars) /\ k \in Nat /\ k <= LINE_WIDTH - 2 /\ LINE_WIDTH \in Nat
  BY TextsAre, LenProperties, TerminalAssumption
<1> HIDE DEF k
<1>2. k \in Index /\ k \in 0 .. k /\ k \in 0 .. LINE_WIDTH - 2
  BY <1>1 DEF Index
<1>3. t = [i \in Index |-> IF i < k THEN x[i + 1] ELSE IF i = k THEN NUL ELSE s[i]]
  BY DEF strcpy, k
<1>4. \A i \in 1 .. k : x[i] \in Chars
  BY <1>1, ElementOfSeq DEF k
<1>5. \A i \in 0 .. k - 1 : t[i] = x[i + 1] /\ x[i + 1] \in Chars
  <2> SUFFICES ASSUME NEW i \in 0 .. k - 1 PROVE t[i] = x[i + 1] /\ x[i + 1] \in Chars
    OBVIOUS
  <2>1. i \in Index /\ i < k /\ i + 1 \in 1 .. k
    BY <1>1 DEF Index
  <2> QED
    BY <1>3, <1>4, <2>1
<1>6. t[k] = NUL
  <2>1. ~(k < k)
    BY <1>1
  <2> QED
    BY <1>2, <1>3, <2>1
<1>7. t \in Buffers
  <2>1. ASSUME NEW i \in Index
        PROVE  (IF i < k THEN x[i + 1] ELSE IF i = k THEN NUL ELSE s[i]) \in Chars \cup {NUL}
    <3>1. i < k => i + 1 \in 1 .. k
      BY <1>1 DEF Index
    <3> QED
      BY <1>4, <3>1 DEF Buffers
  <2> QED
    BY <1>3, <2>1 DEF Buffers
<1>8. Holds(t, k)
  BY <1>5, <1>6, <1>7 DEF Holds
<1>9. /\ Left(t, k) \in Seq(Chars) /\ Len(Left(t, k)) = k
      /\ \A i \in 1 .. k : Left(t, k)[i] = t[i - 1]
      /\ Right(t, k) \in Seq(Chars) /\ Len(Right(t, k)) = k - k
  BY <1>2, <1>8, PartsAre
<1>10. \A i \in 1 .. k : Left(t, k)[i] = x[i]
  <2> SUFFICES ASSUME NEW i \in 1 .. k PROVE Left(t, k)[i] = x[i]
    OBVIOUS
  <2>1. i - 1 \in 0 .. k - 1 /\ (i - 1) + 1 = i
    BY <1>1
  <2> QED
    BY <1>5, <1>9, <2>1
<1>11. Left(t, k) = x
  BY <1>1, <1>9, <1>10, SeqEqual DEF k
<1>12. Right(t, k) = <<>>
  <2>1. k - k = 0
    BY <1>1
  <2> QED
    BY <1>9, <2>1, NoText
<1> QED
  BY <1>2, <1>8, <1>11, <1>12 DEF k

\* An empty buffer.
LEMMA ClearedIs ==
  /\ 0 \in Index /\ Holds(Cleared, 0)
  /\ Left(Cleared, 0) = <<>> /\ Right(Cleared, 0) = <<>>
<1>1. 0 \in Index /\ 0 \in 0 .. 0 /\ 0 - 0 = 0
  BY TerminalAssumption DEF Index
<1>2. Holds(Cleared, 0)
  BY <1>1 DEF Holds, Cleared, Buffers
<1>3. /\ Left(Cleared, 0) \in Seq(Chars) /\ Len(Left(Cleared, 0)) = 0
      /\ Right(Cleared, 0) \in Seq(Chars) /\ Len(Right(Cleared, 0)) = 0 - 0
  BY <1>1, <1>2, PartsAre
<1> QED
  BY <1>1, <1>2, <1>3, NoText

-------------------------------------------------------------------------------
(***************************************************************************)
(* The refinement.  Each key is a step of the editor, or changes nothing   *)
(* that the editor knows of.                                               *)
(***************************************************************************)
\* The text ends before the last byte but one, and the cursor is in it.
ConsoleInv ==
  /\ isOpen \in BOOLEAN /\ running \in BOOLEAN
  /\ \E n \in 0 .. LINE_WIDTH - 2 : Holds(input, n) /\ cursorPos \in 0 .. n
  /\ hist_pos \in Nat
  /\ history \in Seq(Texts)

\* The editor's words for a text.
LEMMA EditorWords ==
  /\ Editor!Texts = Texts
  /\ \A s : Editor!Front(s) = Front(s) /\ Editor!Last(s) = Last(s)
BY DEF Editor!Texts, Editor!BoundedSeq, Editor!SeqOf, Texts, BoundedSeq, SeqOf,
       Editor!Front, Front, Editor!Last, Last

\* The console starts as the editor does: closed and empty.
LEMMA ConsoleInit == Init => ConsoleInv /\ Editor!Init
<1> SUFFICES ASSUME Init PROVE ConsoleInv /\ Editor!Init
  OBVIOUS
<1>1. /\ isOpen = FALSE /\ running = TRUE /\ input = Cleared /\ cursorPos = 0 /\ hist_pos = 0
      /\ history \in {<<>>} \cup {<<t>> : t \in Texts}
  BY DEF Init
<1>2. 0 \in 0 .. LINE_WIDTH - 2 /\ 0 \in 0 .. 0
  BY TerminalAssumption
<1>3. history \in Seq(Texts)
  <2>1. CASE history = <<>>
    BY <2>1
  <2>2. ASSUME NEW t \in Texts, history = <<t>> PROVE history \in Seq(Texts)
    BY <2>2
  <2> QED
    BY <1>1, <2>1, <2>2
<1>4. ConsoleInv
  BY <1>1, <1>2, <1>3, ClearedIs DEF ConsoleInv
<1>5. SubSeq(Text(input), 1, cursorPos) = <<>> /\ SubSeq(Text(input), cursorPos + 1, strlen(input)) = <<>>
  BY <1>1, ClearedIs DEF Left, Right
<1>6. Editor!Init
  BY <1>1, <1>5, EditorWords DEF Editor!Init
<1> QED
  BY <1>4, <1>6

\* A typed character goes in at the cursor.
LEMMA TypeStep ==
  ASSUME ConsoleInv, running = TRUE, NEW c \in Chars, InsertChar(c)
  PROVE  ConsoleInv' /\ Editor!Next
<1>1. PICK n \in 0 .. LINE_WIDTH - 2 : Holds(input, n) /\ cursorPos \in 0 .. n
  BY DEF ConsoleInv
<1>2. n \in Index /\ n \in Nat /\ n + 1 \in Nat
  BY TerminalAssumption DEF Index
<1>3. strlen(input) = n
  BY <1>1, <1>2, StrlenIs
<1>4. /\ n < LINE_WIDTH - 2 /\ cursorPos' = cursorPos + 1
      /\ input' = TypedInto(input, cursorPos, c)
      /\ isOpen = TRUE /\ UNCHANGED <<isOpen, hist_pos, history, running>>
  BY <1>3 DEF InsertChar, TypedInto, ConsoleInv
<1>5. /\ Holds(input', n + 1) /\ Left(input', cursorPos + 1) = Append(Left(input, cursorPos), c)
      /\ Right(input', cursorPos + 1) = Right(input, cursorPos)
  <2>1. \A t : t = TypedInto(input, cursorPos, c)
                 => /\ Holds(t, n + 1)
                    /\ Left(t, cursorPos + 1) = Append(Left(input, cursorPos), c)
                    /\ Right(t, cursorPos + 1) = Right(input, cursorPos)
    BY <1>1, <1>2, <1>4, Typed
  <2> QED
    BY <1>4, <2>1
<1>6. n + 1 \in 0 .. LINE_WIDTH - 2 /\ cursorPos' \in 0 .. n + 1
  BY <1>1, <1>2, <1>4, TerminalAssumption
<1>7. ConsoleInv'
  BY <1>4, <1>5, <1>6 DEF ConsoleInv
<1>8. Editor!Edit
  BY <1>4, <1>5 DEF Editor!Edit, Left, Right
<1> QED
  BY <1>7, <1>8 DEF Editor!Next

\* Backspace takes away the character left of the cursor.
LEMMA EraseStep ==
  ASSUME ConsoleInv, Backspace
  PROVE  ConsoleInv' /\ Editor!Edit
<1>1. PICK n \in 0 .. LINE_WIDTH - 2 : Holds(input, n) /\ cursorPos \in 0 .. n
  BY DEF ConsoleInv
<1>2. n \in Index /\ n \in Nat /\ LINE_WIDTH \in Nat
  BY TerminalAssumption DEF Index
<1>3. /\ cursorPos > 0 /\ cursorPos' = cursorPos - 1
      /\ input' = ShiftBack(input, cursorPos - 1)
      /\ isOpen = TRUE /\ UNCHANGED <<isOpen, hist_pos, history, running>>
  BY DEF Backspace, ConsoleInv
<1>4. cursorPos \in 1 .. n
  BY <1>1, <1>2, <1>3
<1>5. /\ Holds(input', n - 1)
      /\ Left(input, cursorPos) # <<>>
      /\ Left(input', cursorPos - 1) = Front(Left(input, cursorPos))
      /\ Right(input', cursorPos - 1) = Right(input, cursorPos)
  <2>1. \A t : t = ShiftBack(input, cursorPos - 1)
                 => /\ Holds(t, n - 1)
                    /\ Left(input, cursorPos) # <<>>
                    /\ Left(t, cursorPos - 1) = Front(Left(input, cursorPos))
                    /\ Right(t, cursorPos - 1) = Right(input, cursorPos)
    BY <1>1, <1>2, <1>4, Erased
  <2> QED
    BY <1>3, <2>1
<1>6. n - 1 \in 0 .. LINE_WIDTH - 2 /\ cursorPos' \in 0 .. n - 1
  BY <1>2, <1>3, <1>4
<1>7. ConsoleInv'
  BY <1>3, <1>5, <1>6 DEF ConsoleInv
<1>8. Editor!Edit
  BY <1>3, <1>5, EditorWords DEF Editor!Edit, Left, Right
<1> QED
  BY <1>7, <1>8

\* At an end of the text the cursor stays, and the editor sees nothing.
LEMMA CursorStep ==
  ASSUME ConsoleInv, NEW key \in Arrows, ArrowKey(key), MoveCursor(key)
  PROVE  ConsoleInv' /\ (Editor!Edit \/ UNCHANGED Editor!vars)
<1>1. PICK n \in 0 .. LINE_WIDTH - 2 : Holds(input, n) /\ cursorPos \in 0 .. n
  BY DEF ConsoleInv
<1>2. n \in Index /\ n \in Nat /\ LINE_WIDTH \in Nat /\ strlen(input) = n
  <2>1. n \in Index /\ n \in Nat /\ LINE_WIDTH \in Nat
    BY TerminalAssumption DEF Index
  <2> QED
    BY <1>1, <2>1, StrlenIs
<1>3. isOpen = TRUE /\ UNCHANGED <<isOpen, input, hist_pos, history, running>>
  BY DEF ArrowKey, MoveCursor, ConsoleInv
<1>4. \/ cursorPos > 0 /\ cursorPos' = cursorPos - 1
      \/ cursorPos < n /\ cursorPos' = cursorPos + 1
      \/ cursorPos' = cursorPos
  BY <1>2 DEF MoveCursor
<1>5. ConsoleInv'
  <2>1. cursorPos' \in 0 .. n
    BY <1>1, <1>2, <1>4
  <2> QED
    BY <1>1, <1>3, <2>1 DEF ConsoleInv
<1>6. CASE cursorPos > 0 /\ cursorPos' = cursorPos - 1
  <2>1. cursorPos \in 1 .. n
    BY <1>1, <1>2, <1>6
  <2>2. /\ Left(input, cursorPos) # <<>>
        /\ Left(input, cursorPos - 1) = Front(Left(input, cursorPos))
        /\ Right(input, cursorPos - 1) = <<Last(Left(input, cursorPos))>> \o Right(input, cursorPos)
    BY <1>1, <1>2, <2>1, CursorLeft
  <2>3. Editor!Edit
    BY <1>3, <1>6, <2>2, EditorWords DEF Editor!Edit, Left, Right
  <2> QED
    BY <1>5, <2>3
<1>7. CASE cursorPos < n /\ cursorPos' = cursorPos + 1
  <2>1. cursorPos \in 0 .. n - 1
    BY <1>1, <1>2, <1>7
  <2>2. /\ Right(input, cursorPos) # <<>>
        /\ Left(input, cursorPos + 1) = Append(Left(input, cursorPos), Head(Right(input, cursorPos)))
        /\ Right(input, cursorPos + 1) = Tail(Right(input, cursorPos))
    BY <1>1, <1>2, <2>1, CursorRight
  <2>3. Editor!Edit
    BY <1>3, <1>7, <2>2 DEF Editor!Edit, Left, Right
  <2> QED
    BY <1>5, <2>3
<1>8. CASE cursorPos' = cursorPos
  BY <1>3, <1>5, <1>8 DEF Editor!vars
<1> QED
  BY <1>4, <1>6, <1>7, <1>8

\* A line of the file replaces the text; without a file the program ends.
LEMMA RecallStep ==
  ASSUME ConsoleInv, running = TRUE, NEW key \in Arrows, ArrowKey(key), MoveInHistory(key)
  PROVE  ConsoleInv' /\ (Editor!Recall \/ UNCHANGED Editor!vars)
<1>1. PICK n \in 0 .. LINE_WIDTH - 2 : Holds(input, n) /\ cursorPos \in 0 .. n
  BY DEF ConsoleInv
<1>2. /\ isOpen = TRUE /\ UNCHANGED <<isOpen, history>>
      /\ input \in Buffers /\ hist_pos \in Nat /\ history \in Seq(Texts) /\ Len(history) \in Nat
  BY <1>1, LenProperties DEF ArrowKey, ConsoleInv, Holds
<1>3. CASE UNCHANGED <<input, cursorPos, hist_pos, running>>
  BY <1>1, <1>2, <1>3 DEF ConsoleInv, Editor!vars
<1>4. CASE hist_pos' \in {hist_pos + 1, hist_pos - 1} \cap Nat /\ get_line(hist_pos')
  <2>1. hist_pos' \in Nat
    BY <1>4
  <2>2. CASE history = <<>>
    <3>1. running' = FALSE /\ UNCHANGED <<input, cursorPos>>
      BY <1>4, <2>2 DEF get_line
    <3>2. ConsoleInv'
      BY <1>1, <1>2, <2>1, <3>1 DEF ConsoleInv
    <3>3. Editor!Recall
      BY <1>2, <1>4, <2>2, <3>1 DEF Editor!Recall
    <3> QED
      BY <3>2, <3>3
  <2>3. CASE history # <<>>
    <3> DEFINE k == FileLine(hist_pos')
    <3>1. PICK x : /\ input' = strcpy(input, x)
                   /\ \/ k > Len(history) /\ x \in Texts
                      \/ ~(k > Len(history)) /\ x = history[k]
      BY <1>4, <2>3 DEF get_line
    <3>2. cursorPos' = strlen(input') /\ running' = running
      BY <1>4, <2>3 DEF get_line
    <3>3. Len(history) >= 1
      BY <1>2, <2>3, EmptySeq
    <3>4. /\ hist_pos' = 0 <=> k > Len(history)
          /\ k = IF hist_pos' > Len(history) THEN 1 ELSE Len(history) + 1 - hist_pos'
          /\ k >= 1 /\ k \in Int
      BY <1>2, <2>1, <3>3 DEF FileLine
    <3> HIDE DEF k
    <3>5. x \in Texts
      <4>1. ASSUME ~(k > Len(history)) PROVE history[k] \in Texts
        <5>1. k \in 1 .. Len(history)
          BY <1>2, <3>4, <4>1
        <5> QED
          BY <1>2, <5>1, ElementOfSeq
      <4> QED
        BY <3>1, <4>1
    <3>6. /\ Len(x) \in 0 .. LINE_WIDTH - 2 /\ Holds(input', Len(x))
          /\ Left(input', Len(x)) = x /\ Right(input', Len(x)) = <<>>
      <4>1. \A t : t = strcpy(input, x)
                     => /\ Len(x) \in 0 .. LINE_WIDTH - 2 /\ Holds(t, Len(x))
                        /\ Left(t, Len(x)) = x /\ Right(t, Len(x)) = <<>>
        BY <1>2, <3>5, Copied
      <4> QED
        BY <3>1, <4>1
    <3>7. cursorPos' = Len(x) /\ cursorPos' \in 0 .. Len(x)
      <4>1. Len(x) \in Index /\ Len(x) \in Nat
        BY <3>6, TerminalAssumption DEF Index
      <4>2. \A t : Holds(t, Len(x)) => strlen(t) = Len(x)
        BY <4>1, StrlenIs
      <4>3. strlen(input') = Len(x)
        BY <3>6, <4>2
      <4> QED
        BY <3>2, <4>1, <4>3
    <3>8. ConsoleInv'
      BY <1>2, <2>1, <3>2, <3>6, <3>7 DEF ConsoleInv
    <3>9. Left(input', cursorPos') = x /\ Right(input', cursorPos') = <<>>
      BY <3>6, <3>7
    <3>10. IF hist_pos' = 0 THEN x \in Texts
           ELSE x = history[IF hist_pos' > Len(history) THEN 1 ELSE Len(history) + 1 - hist_pos']
      BY <3>1, <3>4, <3>5
    <3>11. Editor!Recall
      <4>1. Editor!Line(hist_pos')
              = history[IF hist_pos' > Len(history) THEN 1 ELSE Len(history) + 1 - hist_pos']
        BY DEF Editor!Line
      <4> QED
        BY <1>2, <1>4, <2>3, <3>2, <3>9, <3>10, <4>1, EditorWords
        DEF Editor!Recall, Left, Right
    <3> QED
      BY <3>8, <3>11
  <2> QED
    BY <2>2, <2>3
<1>5. \/ hist_pos' \in {hist_pos + 1, hist_pos - 1} \cap Nat /\ get_line(hist_pos')
      \/ UNCHANGED <<input, cursorPos, hist_pos, running>>
  <2>1. CASE hist_pos' = hist_pos + 1 /\ get_line(hist_pos')
    <3>1. hist_pos' \in {hist_pos + 1, hist_pos - 1} \cap Nat
      BY <1>2, <2>1
    <3> QED
      BY <2>1, <3>1
  <2>2. CASE hist_pos > 0 /\ hist_pos' = hist_pos - 1 /\ get_line(hist_pos')
    <3>1. hist_pos' \in {hist_pos + 1, hist_pos - 1} \cap Nat
      BY <1>2, <2>2
    <3> QED
      BY <2>2, <3>1
  <2> QED
    BY <2>1, <2>2, Zenon DEF MoveInHistory
<1> QED
  BY <1>3, <1>4, <1>5

\* What is submitted is the text on both sides of the cursor.
LEMMA ReturnStep ==
  ASSUME ConsoleInv, Return
  PROVE  ConsoleInv' /\ Editor!Submit
<1>1. PICK n \in 0 .. LINE_WIDTH - 2 : Holds(input, n) /\ cursorPos \in 0 .. n
  BY DEF ConsoleInv
<1>2. n \in Index /\ n \in Nat /\ LINE_WIDTH \in Nat
  BY TerminalAssumption DEF Index
<1>3. /\ isOpen = TRUE /\ isOpen' = FALSE
      /\ history' = Append(history, Text(input))
      /\ input' = Cleared /\ cursorPos' = 0 /\ hist_pos' = 0 /\ running' = running
      /\ history \in Seq(Texts) /\ running \in BOOLEAN
  BY DEF Return, ConsoleInv
<1>4. Text(input) \in Texts
  <2>1. Text(input) \in Seq(Chars) /\ Len(Text(input)) = n
    BY <1>1, <1>2, TextIs
  <2> QED
    BY <1>2, <2>1, TextsAre
<1>5. ConsoleInv'
  <2>1. history' \in Seq(Texts)
    BY <1>3, <1>4, AppendProperties
  <2>2. 0 \in 0 .. LINE_WIDTH - 2 /\ 0 \in 0 .. 0
    BY TerminalAssumption
  <2>3. Holds(input', 0)
    BY <1>3, ClearedIs
  <2> QED
    BY <1>3, <2>1, <2>2, <2>3 DEF ConsoleInv
<1>6. Text(input) = Left(input, cursorPos) \o Right(input, cursorPos)
  BY <1>1, <1>2, PartsAreTheText
<1>7. Left(input', cursorPos') = <<>> /\ Right(input', cursorPos') = <<>>
  BY <1>3, ClearedIs
<1>8. Editor!Submit
  BY <1>3, <1>6, <1>7 DEF Editor!Submit, Left, Right
<1> QED
  BY <1>5, <1>8

\* Opening the console is the editor's Open; the other keys it does not see.
LEMMA ConsoleStep ==
  ConsoleInv /\ [Next]_vars => ConsoleInv' /\ [Editor!Next]_(Editor!vars)
<1> SUFFICES ASSUME ConsoleInv, [Next]_vars
             PROVE  ConsoleInv' /\ [Editor!Next]_(Editor!vars)
  OBVIOUS
<1>1. CASE UNCHANGED vars
  BY <1>1 DEF vars, ConsoleInv, Editor!vars
<1>2. ASSUME running, OpenConsole PROVE ConsoleInv' /\ Editor!Next
  BY <1>2 DEF OpenConsole, ConsoleInv, Editor!Next, Editor!Open
<1>3. ASSUME QuitKey \/ StartSequence PROVE ConsoleInv' /\ UNCHANGED Editor!vars
  BY <1>3 DEF QuitKey, StartSequence, ConsoleInv, Editor!vars
<1>4. ASSUME running, NEW key \in Arrows, ArrowKey(key)
      PROVE  ConsoleInv' /\ [Editor!Next]_(Editor!vars)
  <2>1. running = TRUE
    BY <1>4 DEF ConsoleInv
  <2> QED
    BY <1>4, <2>1, CursorStep, RecallStep DEF ArrowKey, Editor!Next
<1>5. ASSUME running, Return PROVE ConsoleInv' /\ Editor!Next
  BY <1>5, ReturnStep DEF ConsoleInv, Editor!Next
<1>6. ASSUME running, Backspace PROVE ConsoleInv' /\ Editor!Next
  BY <1>6, EraseStep DEF ConsoleInv, Editor!Next
<1>7. ASSUME running, NEW c \in Chars, InsertChar(c) PROVE ConsoleInv' /\ Editor!Next
  <2>1. running = TRUE
    BY <1>7 DEF ConsoleInv
  <2> QED
    BY <1>7, <2>1, TypeStep
<1>8. CASE Next
  BY <1>2, <1>3, <1>4, <1>5, <1>6, <1>7, <1>8 DEF Next, handle_keyboard_input
<1> QED
  BY <1>1, <1>8

(***************************************************************************)
(* Whatever is typed, the text always ends inside of the buffer and the    *)
(* cursor is in it, so that no branch of handle_keyboard_input reads or    *)
(* writes outside of the buffer.                                           *)
(***************************************************************************)
THEOREM CursorStaysInText == Spec => []ConsoleInv
<1>1. Init => ConsoleInv
  BY ConsoleInit
<1>2. ConsoleInv /\ [Next]_vars => ConsoleInv'
  BY ConsoleStep
<1> QED
  BY <1>1, <1>2, PTL DEF Spec

(***************************************************************************)
(* The buffer behaves like a line with a cursor, key by key (the property  *)
(* EditsAsShown of input.c and file_io.c).                                 *)
(***************************************************************************)
THEOREM ConsoleIsALineEditor == Spec => EditsAsShown
<1>1. Init => Editor!Init
  BY ConsoleInit
<1>2. ConsoleInv /\ [Next]_vars => [Editor!Next]_(Editor!vars)
  BY ConsoleStep
<1> QED
  BY <1>1, <1>2, CursorStaysInText, PTL DEF Spec, EditsAsShown, Editor!Spec
===============================================================================
