---------------------------- MODULE StreamLemmas ----------------------------
(***************************************************************************)
(* Facts about sequences that the proofs about both pipelines need.  A     *)
(* reading is in one of three places: handled (h), being written (w) or    *)
(* queued (q); put together they are what the stream has accepted (a).     *)
(***************************************************************************)
EXTENDS Integers, Sequences, SequenceTheorems, TLAPS

\* A sequence is its first element followed by the rest.
LEMMA HeadThenTail ==
  ASSUME NEW S, NEW s \in Seq(S), s # <<>>
  PROVE  s = <<Head(s)>> \o Tail(s)
  <1>1. Len(s) \in Nat \ {0}
    BY EmptySeq
  <1>2. SubSeq(s, 1, Len(s)) = <<s[1]>> \o SubSeq(s, 2, Len(s))
    BY <1>1, SubSeqRecursiveFirst
  <1> QED
    BY <1>2, <1>1, SubSeqFull, TailIsSubSeq

Joins(a, h, w, q) == a = h \o w \o q

\* A reading is sent: it is the last of the queued ones and of the accepted.
LEMMA SentLast ==
  ASSUME NEW S, NEW h \in Seq(S), NEW w \in Seq(S), NEW q \in Seq(S),
         NEW r \in S, NEW a, Joins(a, h, w, q)
  PROVE  Joins(Append(a, r), h, w, Append(q, r))
  <1>1. <<r>> \in Seq(S) /\ h \o w \in Seq(S) /\ (h \o w) \o q \in Seq(S)
    BY ConcatProperties
  <1>2. Append(h \o w \o q, r) = (h \o w \o q) \o <<r>>
    BY <1>1, AppendIsConcat
  <1>3. Append(q, r) = q \o <<r>>
    BY AppendIsConcat
  <1>4. ((h \o w) \o q) \o <<r>> = (h \o w) \o (q \o <<r>>)
    BY <1>1, ConcatAssociative
  <1> QED
    BY <1>2, <1>3, <1>4 DEF Joins

\* A reading is received: it moves from the head of the queue to the writer.
LEMMA ReceivedFirst ==
  ASSUME NEW S, NEW h \in Seq(S), NEW q \in Seq(S), q # <<>>,
         NEW a, Joins(a, h, <<>>, q)
  PROVE  Joins(a, h, <<Head(q)>>, Tail(q))
  <1>1. <<Head(q)>> \in Seq(S) /\ Tail(q) \in Seq(S)
    BY HeadTailProperties
  <1>2. h \o <<>> = h
    BY ConcatEmptySeq
  <1>3. q = <<Head(q)>> \o Tail(q)
    BY HeadThenTail
  <1>4. h \o (<<Head(q)>> \o Tail(q)) = (h \o <<Head(q)>>) \o Tail(q)
    BY <1>1, ConcatAssociative
  <1> QED
    BY <1>2, <1>3, <1>4 DEF Joins

\* An insert returns: what was being written is now handled.
LEMMA InsertedNext ==
  ASSUME NEW S, NEW h \in Seq(S), NEW w \in Seq(S), NEW q, NEW a,
         Joins(a, h, w, q)
  PROVE  Joins(a, h \o w, <<>>, q)
  <1>1. h \o w \in Seq(S)
    BY ConcatProperties
  <1>2. (h \o w) \o <<>> = h \o w
    BY <1>1, ConcatEmptySeq
  <1> QED
    BY <1>2 DEF Joins

\* With nothing written or queued, everything accepted is handled.
LEMMA AllHandled ==
  ASSUME NEW S, NEW h \in Seq(S), NEW a, Joins(a, h, <<>>, <<>>)
  PROVE  h = a
  BY ConcatEmptySeq DEF Joins

\* The reading being written is the next one the stream has to hand over.
LEMMA OneInTheMiddle ==
  ASSUME NEW S, NEW h \in Seq(S), NEW w \in Seq(S), NEW q \in Seq(S),
         w # <<>>, Len(w) <= 1
  PROVE  /\ h \o w = Append(h, w[1])
         /\ Len(h) < Len(h \o w \o q)
         /\ (h \o w \o q)[Len(h) + 1] = w[1]
  <1>1. /\ Len(w) \in Nat /\ Len(h) \in Nat /\ Len(q) \in Nat
        /\ Len(w) # 0
    BY EmptySeq, LenProperties
  <1>2. Len(w) = 1
    <2>1. \A n \in Nat : n # 0 /\ n <= 1 => n = 1
      OBVIOUS
    <2> QED
      BY <1>1, <2>1, Zenon
  <1>3. w[1] \in S
    BY <1>2, ElementOfSeq
  <1>4. <<w[1]>> \in Seq(S) /\ Len(<<w[1]>>) = 1 /\ <<w[1]>>[1] = w[1]
    BY <1>3
  <1>5. w = <<w[1]>>
    BY <1>2, <1>4, SeqEqual
  <1>6. Append(h, w[1]) = h \o <<w[1]>>
    BY <1>3, AppendIsConcat
  <1>7. /\ h \o w \in Seq(S)
        /\ Len(h \o w) = Len(h) + Len(w)
        /\ \A i \in 1 .. Len(h) + Len(w) :
             (h \o w)[i] = IF i <= Len(h) THEN h[i] ELSE w[i - Len(h)]
    BY ConcatProperties, Zenon
  <1>8. Len(h \o w) = Len(h) + 1 /\ (h \o w)[Len(h) + 1] = w[1]
    BY <1>1, <1>2, <1>7
  <1>9. ASSUME NEW s \in Seq(S), Len(s) = Len(h) + 1
        PROVE  Len(h) < Len(s \o q) /\ (s \o q)[Len(h) + 1] = s[Len(h) + 1]
    <2>1. /\ Len(s \o q) = Len(s) + Len(q)
          /\ \A i \in 1 .. Len(s) + Len(q) :
               (s \o q)[i] = IF i <= Len(s) THEN s[i] ELSE q[i - Len(s)]
      BY ConcatProperties, Zenon
    <2> QED
      BY <1>1, <1>9, <2>1
  <1> QED
    BY <1>5, <1>6, <1>7, <1>8, <1>9, Zenon
=============================================================================
