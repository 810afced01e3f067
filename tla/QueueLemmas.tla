----------------------------- MODULE QueueLemmas -----------------------------
(***************************************************************************)
(* What list_add_tail() and list_del() of the head do to a queue, as facts *)
(* about Append and Tail that the proofs about the engine's transfer queue *)
(* cite.                                                                   *)
(***************************************************************************)
EXTENDS Sequences, Integers, SequenceTheorems, TLAPS

Elems(s) == {s[i] : i \in DOMAIN s}

(* Appending keeps the elements and the head and adds x at the end. *)
LEMMA AppendFacts ==
  ASSUME NEW S, NEW s \in Seq(S), NEW x \in S
  PROVE  /\ Append(s, x) \in Seq(S)
         /\ Append(s, x) # << >>
         /\ Head(Append(s, x)) \in S
         /\ s # << >> => Head(Append(s, x)) = Head(s)
         /\ s = << >> => Head(Append(s, x)) = x
         /\ Elems(Append(s, x)) = Elems(s) \cup {x}
<1>1. /\ Append(s, x) \in Seq(S)
      /\ Len(Append(s, x)) = Len(s) + 1
      /\ \A i \in 1..Len(s) : Append(s, x)[i] = s[i]
      /\ Append(s, x)[Len(s) + 1] = x
  OBVIOUS
<1>2. /\ DOMAIN s = 1..Len(s)
      /\ DOMAIN Append(s, x) = 1..(Len(s) + 1)
      /\ Len(s) \in Nat
      /\ s = << >> <=> Len(s) = 0
  BY <1>1, LenProperties, EmptySeq
<1>3. Append(s, x) # << >> /\ Head(Append(s, x)) = Append(s, x)[1]
  BY <1>1, <1>2
<1>4. s # << >> => Head(s) = s[1] /\ 1 \in 1..Len(s)
  BY <1>2
<1>5. Elems(Append(s, x)) \subseteq Elems(s) \cup {x}
  BY <1>1, <1>2 DEF Elems
<1>6. Elems(s) \cup {x} \subseteq Elems(Append(s, x))
  <2>1. \A i \in DOMAIN s : i \in DOMAIN Append(s, x) /\ Append(s, x)[i] = s[i]
    BY <1>1, <1>2
  <2>2. Len(s) + 1 \in DOMAIN Append(s, x)
    BY <1>2
  <2> QED
    BY <1>1, <2>1, <2>2 DEF Elems
<1>7. Append(s, x)[1] \in S
  BY <1>1, <1>2, ElementOfSeq
<1> QED
  BY <1>1, <1>2, <1>3, <1>4, <1>5, <1>6, <1>7

(* Removing the head keeps the other elements. *)
LEMMA TailFacts ==
  ASSUME NEW S, NEW s \in Seq(S), s # << >>
  PROVE  /\ Tail(s) \in Seq(S)
         /\ Head(s) \in S
         /\ Tail(s) # s
         /\ Elems(Tail(s)) \subseteq Elems(s)
         /\ Head(s) \in Elems(s)
         /\ Elems(s) = Elems(Tail(s)) \cup {Head(s)}
<1>1. /\ Head(s) \in S
      /\ Tail(s) \in Seq(S)
      /\ Len(Tail(s)) = Len(s) - 1
      /\ \A i \in 1..Len(Tail(s)) : Tail(s)[i] = s[i + 1]
  BY HeadTailProperties
<1>2. /\ DOMAIN s = 1..Len(s)
      /\ DOMAIN Tail(s) = 1..(Len(s) - 1)
      /\ Len(s) \in Nat \ {0}
      /\ Head(s) = s[1]
  BY <1>1, LenProperties, EmptySeq
<1>3. Elems(Tail(s)) \subseteq Elems(s)
  <2>1. \A i \in DOMAIN Tail(s) : i + 1 \in DOMAIN s /\ Tail(s)[i] = s[i + 1]
    BY <1>1, <1>2
  <2> QED
    BY <2>1 DEF Elems
<1>4. Head(s) \in Elems(s)
  BY <1>2 DEF Elems
<1>5. Elems(s) \subseteq Elems(Tail(s)) \cup {Head(s)}
  <2>1. ASSUME NEW i \in DOMAIN s, i # 1
        PROVE  s[i] \in Elems(Tail(s))
    <3>1. i - 1 \in DOMAIN Tail(s) /\ Tail(s)[i - 1] = s[i]
      BY <1>1, <1>2, <2>1
    <3> QED
      BY <3>1 DEF Elems
  <2> QED
    BY <1>2, <2>1 DEF Elems
<1>6. Tail(s) # s
  <2>1. Len(s) \in DOMAIN s /\ Len(s) \notin DOMAIN Tail(s)
    BY <1>2
  <2> QED
    BY <2>1
<1>7. Elems(s) = Elems(Tail(s)) \cup {Head(s)}
  BY <1>3, <1>4, <1>5
<1> QED
  BY <1>1, <1>3, <1>4, <1>6, <1>7

(* No element occurs twice. *)
Distinct(s) == \A i, j \in DOMAIN s : s[i] = s[j] => i = j

(* A queue without repetition keeps to it when a new element is appended.   *)
LEMMA AppendDistinct ==
  ASSUME NEW S, NEW s \in Seq(S), NEW x \in S, Distinct(s), x \notin Elems(s)
  PROVE  Distinct(Append(s, x))
<1>1. /\ DOMAIN s = 1..Len(s)
      /\ DOMAIN Append(s, x) = 1..(Len(s) + 1)
      /\ Len(s) \in Nat
      /\ \A i \in 1..Len(s) : Append(s, x)[i] = s[i]
      /\ Append(s, x)[Len(s) + 1] = x
  BY LenProperties
<1>2. \A i \in 1..Len(s) : s[i] # x
  BY <1>1 DEF Elems
<1> QED
  BY <1>1, <1>2 DEF Distinct

(* The head of such a queue is not in the rest of it.                       *)
LEMMA TailDistinct ==
  ASSUME NEW S, NEW s \in Seq(S), s # << >>, Distinct(s)
  PROVE  Distinct(Tail(s)) /\ Head(s) \notin Elems(Tail(s))
<1>1. /\ Tail(s) \in Seq(S)
      /\ Len(Tail(s)) = Len(s) - 1
      /\ \A i \in 1..Len(Tail(s)) : Tail(s)[i] = s[i + 1]
  BY HeadTailProperties
<1>2. /\ DOMAIN s = 1..Len(s)
      /\ DOMAIN Tail(s) = 1..(Len(s) - 1)
      /\ Len(s) \in Nat \ {0}
      /\ Head(s) = s[1]
  BY <1>1, LenProperties, EmptySeq
<1>3. \A i \in DOMAIN Tail(s) : i + 1 \in DOMAIN s /\ i + 1 # 1 /\ Tail(s)[i] = s[i + 1]
  BY <1>1, <1>2
<1>4. Distinct(Tail(s))
  BY <1>2, <1>3 DEF Distinct
<1>5. Head(s) \notin Elems(Tail(s))
  BY <1>2, <1>3 DEF Distinct, Elems
<1> QED
  BY <1>4, <1>5

(* Appending to a queue and removing its head commute.                      *)
LEMMA TailOfAppend ==
  ASSUME NEW S, NEW s \in Seq(S), NEW x \in S, s # << >>
  PROVE  Tail(Append(s, x)) = Append(Tail(s), x)
<1>1. /\ Append(s, x) \in Seq(S) /\ Append(s, x) # << >>
      /\ Tail(s) \in Seq(S)
  BY AppendFacts, TailFacts
<1>2. /\ Tail(Append(s, x)) \in Seq(S)
      /\ Len(Tail(Append(s, x))) = Len(Append(s, x)) - 1
      /\ \A i \in 1..Len(Tail(Append(s, x))) : Tail(Append(s, x))[i] = Append(s, x)[i + 1]
      /\ Len(Tail(s)) = Len(s) - 1
      /\ \A i \in 1..Len(Tail(s)) : Tail(s)[i] = s[i + 1]
  BY <1>1, HeadTailProperties
<1>3. /\ Len(Append(s, x)) = Len(s) + 1
      /\ \A i \in 1..Len(s) : Append(s, x)[i] = s[i]
      /\ Append(s, x)[Len(s) + 1] = x
      /\ Append(Tail(s), x) \in Seq(S)
      /\ Len(Append(Tail(s), x)) = Len(Tail(s)) + 1
      /\ \A i \in 1..Len(Tail(s)) : Append(Tail(s), x)[i] = Tail(s)[i]
      /\ Append(Tail(s), x)[Len(Tail(s)) + 1] = x
      /\ Len(s) \in Nat \ {0}
  BY <1>1, LenProperties, EmptySeq
<1>4. Len(Tail(Append(s, x))) = Len(Append(Tail(s), x))
  BY <1>2, <1>3
<1>5. ASSUME NEW i \in 1..Len(Append(Tail(s), x))
      PROVE  Tail(Append(s, x))[i] = Append(Tail(s), x)[i]
  <2>1. i \in 1..Len(Tail(Append(s, x))) /\ Tail(Append(s, x))[i] = Append(s, x)[i + 1]
    BY <1>2, <1>4, <1>5
  <2>2. CASE i \in 1..Len(Tail(s))
    <3>1. i + 1 \in 1..Len(s) /\ Append(s, x)[i + 1] = s[i + 1]
      BY <1>2, <1>3, <2>2
    <3> QED
      BY <1>2, <1>3, <2>1, <2>2, <3>1
  <2>3. CASE i = Len(Tail(s)) + 1
    BY <1>2, <1>3, <2>1, <2>3
  <2>4. i \in 1..Len(Tail(s)) \/ i = Len(Tail(s)) + 1
    <3>1. Len(Append(Tail(s), x)) = Len(Tail(s)) + 1 /\ Len(Tail(s)) \in Nat
      BY <1>2, <1>3
    <3>2. i \in 1..(Len(Tail(s)) + 1)
      BY <1>5, <3>1
    <3> QED
      BY <3>1, <3>2
  <2> QED
    BY <2>2, <2>3, <2>4
<1> QED
  BY <1>1, <1>2, <1>3, <1>4, <1>5, SeqEqual
=============================================================================
