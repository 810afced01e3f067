-------------------------- MODULE TransferBuild_proofs --------------------------
(***************************************************************************)
(* Proofs about TransferBuild, for every size of a page, a descriptor and  *)
(* a transfer, every request and every mapping and merging of its pages:   *)
(* the descriptors cover the request, the channel accepts them, and its    *)
(* fetch stays in a page.                                                  *)
(***************************************************************************)
EXTENDS TransferBuild, FiniteSetTheorems, WellFoundedInduction, TLAPS

-----------------------------------------------------------------------------
(* Arithmetic.  A multiple of the divisor and a remainder determine the     *)
(* quotient.                                                                *)

LEMMA DivMod ==
  ASSUME NEW p \in Nat \ {0}, NEW a \in Nat
  PROVE  \E d \in Nat, r \in 0..(p - 1) : a = d * p + r /\ a \div p = d /\ a % p = r
<1>1. PICK d \in Nat : d = a \div p
  OBVIOUS
<1>2. PICK r \in 0..(p - 1) : r = a % p
  OBVIOUS
<1>3. a = p * d + r
  BY <1>1, <1>2
<1>4. d * p = p * d
  OBVIOUS
<1>5. a = d * p + r
  BY <1>3, <1>4
<1>6. QED  BY <1>1, <1>2, <1>5

LEMMA DivModUnique ==
  ASSUME NEW p \in Nat \ {0}, NEW q \in Nat, NEW r \in 0..(p - 1)
  PROVE  (q * p + r) \div p = q /\ (q * p + r) % p = r
OBVIOUS

(* A page is not left before its end.                                       *)
LEMMA DivOrder ==
  ASSUME NEW p \in Nat \ {0}, NEW a \in Nat, NEW q \in Nat
  PROVE  (a \div p < q) <=> (a < q * p)
<1>1. PICK d \in Nat, r \in 0..(p - 1) : a = d * p + r /\ a \div p = d
  BY DivMod
<1>2. ASSUME d < q PROVE a < q * p
  <2>1. PICK e \in Nat : q = d + 1 + e
    <3>1. q - d - 1 \in Nat /\ q = d + 1 + (q - d - 1)
      BY <1>2
    <3>2. QED  BY <3>1
  <2>2. q * p = d * p + p + e * p /\ e * p \in Nat
    BY <2>1
  <2>3. QED  BY <1>1, <2>2
<1>3. ASSUME ~(d < q) PROVE ~(a < q * p)
  <2>1. PICK e \in Nat : d = q + e
    <3>1. d - q \in Nat /\ d = q + (d - q)
      BY <1>3
    <3>2. QED  BY <3>1
  <2>2. d * p = q * p + e * p /\ e * p \in Nat
    BY <2>1
  <2>3. q * p \in Nat
    OBVIOUS
  <2>4. QED  BY <1>1, <2>2, <2>3
<1>4. QED  BY <1>1, <1>2, <1>3

LEMMA TimesOrder ==
  ASSUME NEW p \in Nat, NEW a \in Nat, NEW b \in Nat, a <= b
  PROVE  a * p \in Nat /\ b * p \in Nat /\ a * p <= b * p
<1>1. PICK e \in Nat : b = a + e
  <2>1. b - a \in Nat /\ b = a + (b - a)
    OBVIOUS
  <2>2. QED  BY <2>1
<1>2. b * p = a * p + e * p /\ a * p \in Nat /\ e * p \in Nat
  BY <1>1
<1>3. QED  BY <1>2

(* Adding a multiple of the divisor does not change the remainder.          *)
LEMMA ModShift ==
  ASSUME NEW p \in Nat \ {0}, NEW a \in Nat, NEW q \in Nat
  PROVE  (a + q * p) % p = a % p
<1>1. PICK d \in Nat, r \in 0..(p - 1) : a = d * p + r /\ a % p = r
  BY DivMod
<1>2. PICK e \in Nat : e = d + q
  OBVIOUS
<1>3. a + q * p = e * p + r
  BY <1>1, <1>2
<1>4. (e * p + r) % p = r
  BY DivModUnique
<1>5. QED  BY <1>1, <1>3, <1>4

(* A number without remainder is a multiple, and the other way round.       *)
LEMMA Multiple ==
  ASSUME NEW p \in Nat \ {0}, NEW a \in Nat
  PROVE  (a % p = 0) <=> (\E d \in Nat : a = d * p)
<1>1. ASSUME a % p = 0 PROVE \E d \in Nat : a = d * p
  <2>1. PICK d \in Nat, r \in 0..(p - 1) : a = d * p + r /\ a % p = r
    BY DivMod
  <2>2. a = d * p
    BY <1>1, <2>1
  <2>3. QED  BY <2>2
<1>2. ASSUME NEW d \in Nat, a = d * p PROVE a % p = 0
  <2>1. 0 \in 0..(p - 1) /\ d * p + 0 = a
    BY <1>2
  <2>2. (d * p + 0) % p = 0
    BY <2>1, DivModUnique
  <2>3. QED  BY <2>1, <2>2
<1>3. QED  BY <1>1, <1>2

(* Two numbers of the same remainder stay so when the same is added.        *)
LEMMA ModAdd ==
  ASSUME NEW p \in Nat \ {0}, NEW a \in Nat, NEW b \in Nat, NEW c \in Nat, a % p = b % p
  PROVE  (a + c) % p = (b + c) % p
<1>1. PICK d \in Nat, r \in 0..(p - 1) : a = d * p + r /\ a % p = r
  BY DivMod
<1>2. PICK e \in Nat, q \in 0..(p - 1) : b = e * p + q /\ b % p = q
  BY DivMod
<1>3. PICK f \in Nat : f = r + c
  OBVIOUS
<1>4. a + c = f + d * p
  BY <1>1, <1>3
<1>5. b + c = f + e * p
  BY <1>1, <1>2, <1>3
<1>6. (f + d * p) % p = f % p /\ (f + e * p) % p = f % p
  BY ModShift
<1>7. QED  BY <1>4, <1>5, <1>6

-----------------------------------------------------------------------------
(* Induction over the natural numbers, for the members of a set.            *)

LEMMA LeastMember ==
  ASSUME NEW T \in SUBSET Nat, T # {}
  PROVE  \E x \in T : \A y \in T : x <= y
<1> DEFINE R == {p \in Nat \X Nat : p[1] < p[2]}
<1>1. OpToRel(<, Nat) = R
  BY DEF OpToRel
<1>2. IsWellFoundedOn(R, Nat)
  BY <1>1, NatLessThanWellFounded
<1>3. \E x \in T : \A y \in T : ~ (<<y, x>> \in R)
  <2> HIDE DEF R
  <2>1. QED  BY <1>2, WFMin
<1>4. \A x, y \in Nat : y < x => <<y, x>> \in R
  OBVIOUS
<1> HIDE DEF R
<1>5. PICK x \in T : \A y \in T : ~ (<<y, x>> \in R)
  BY <1>3
<1>6. ASSUME NEW y \in T PROVE x <= y
  <2>1. x \in Nat /\ y \in Nat
    OBVIOUS
  <2>2. ~(y < x)
    BY <1>4, <1>5, <2>1
  <2>3. QED  BY <2>1, <2>2
<1>7. QED  BY <1>6

LEMMA SetInduction ==
  ASSUME NEW S, 0 \in S, \A n \in Nat : n \in S => n + 1 \in S
  PROVE  \A n \in Nat : n \in S
<1> SUFFICES ASSUME NEW m \in Nat, m \notin S PROVE FALSE
  OBVIOUS
<1> DEFINE T == {n \in Nat : n \notin S}
<1>1. PICK x \in T : \A y \in T : x <= y
  <2>1. T \in SUBSET Nat /\ T # {}
    OBVIOUS
  <2> HIDE DEF T
  <2>2. QED  BY <2>1, LeastMember
<1>2. x # 0 /\ x - 1 \in Nat /\ x = (x - 1) + 1
  OBVIOUS
<1>3. x - 1 \notin T
  BY <1>1, <1>2
<1>4. QED  BY <1>2, <1>3

-----------------------------------------------------------------------------
(* The members of a set of positive numbers in their order.                 *)
Rank(S, n) == Cardinality(S \cap 1..n)

LEMMA RankCounts ==
  ASSUME NEW N \in Nat, NEW S \in SUBSET (1..N)
  PROVE  /\ IsFiniteSet(S) /\ Cardinality(S) \in Nat
         /\ Rank(S, 0) = 0 /\ Rank(S, N) = Cardinality(S)
         /\ \A n \in Nat : /\ Rank(S, n) \in Nat
                           /\ Rank(S, n + 1) = Rank(S, n) + (IF n + 1 \in S THEN 1 ELSE 0)
         /\ \A m, n \in Nat : m <= n => Rank(S, m) <= Rank(S, n)
<1>1. IsFiniteSet(S)
  <2>1. IsFiniteSet(1..N)
    BY FS_Interval
  <2>2. QED  BY <2>1, FS_Subset
<1>2. ASSUME NEW n \in Nat PROVE IsFiniteSet(S \cap 1..n) /\ Rank(S, n) \in Nat
  BY <1>1, FS_Subset, FS_CardinalityType DEF Rank
<1>3. S \cap 1..0 = {}
  OBVIOUS
<1>4. S \cap 1..N = S
  OBVIOUS
<1>5. Rank(S, 0) = 0 /\ Rank(S, N) = Cardinality(S) /\ Cardinality(S) \in Nat
  BY <1>1, <1>3, <1>4, FS_EmptySet, FS_CardinalityType DEF Rank
<1>6. ASSUME NEW n \in Nat
      PROVE  Rank(S, n + 1) = Rank(S, n) + (IF n + 1 \in S THEN 1 ELSE 0)
  <2>1. CASE n + 1 \in S
    <3>1. S \cap 1..(n + 1) = (S \cap 1..n) \cup {n + 1} /\ n + 1 \notin S \cap 1..n
      BY <2>1
    <3>2. QED  BY <1>2, <2>1, <3>1, FS_AddElement DEF Rank
  <2>2. CASE n + 1 \notin S
    <3>1. S \cap 1..(n + 1) = S \cap 1..n
      BY <2>2
    <3>2. QED  BY <1>2, <2>2, <3>1 DEF Rank
  <2>3. QED  BY <2>1, <2>2
<1>7. ASSUME NEW m \in Nat, NEW n \in Nat, m <= n PROVE Rank(S, m) <= Rank(S, n)
  <2>1. S \cap 1..m \in SUBSET (S \cap 1..n)
    BY <1>7
  <2>2. QED  BY <1>2, <2>1, FS_Subset DEF Rank
<1>8. QED  BY <1>1, <1>2, <1>5, <1>6, <1>7

(* Nth(S, k) for k = 1, 2, ... are the members of S from the smallest to    *)
(* the largest, and there is none between two that follow each other.       *)
LEMMA NthMembers ==
  ASSUME NEW N \in Nat, NEW S \in SUBSET (1..N)
  PROVE  /\ \A k \in 1..Cardinality(S) : Nth(S, k) \in S /\ Rank(S, Nth(S, k)) = k
         /\ \A j, k \in 1..Cardinality(S) : j < k => Nth(S, j) < Nth(S, k)
         /\ \A k \in 1..(Cardinality(S) - 1) : \A n \in S :
              n <= Nth(S, k) \/ n >= Nth(S, k + 1)
         /\ Cardinality(S) # 0 => \A n \in S : n <= Nth(S, Cardinality(S))
         /\ \A n \in S : Rank(S, n) \in 1..Cardinality(S) /\ Nth(S, Rank(S, n)) = n
<1> DEFINE c == Cardinality(S)
<1>1. c \in Nat /\ Rank(S, 0) = 0 /\ Rank(S, N) = c
  BY RankCounts
<1>2. \A n \in Nat : /\ Rank(S, n) \in Nat
                     /\ Rank(S, n + 1) = Rank(S, n) + (IF n + 1 \in S THEN 1 ELSE 0)
  BY RankCounts, ZenonT(60)
<1>3. \A m, n \in Nat : m <= n => Rank(S, m) <= Rank(S, n)
  BY RankCounts
<1>4. \A n \in S : n \in Nat /\ n - 1 \in Nat /\ n <= N
  OBVIOUS
<1> HIDE DEF c
<1>5. ASSUME NEW m \in Nat, NEW n \in S, m < n PROVE Rank(S, m) < Rank(S, n)
  <2>1. n \in Nat /\ n - 1 \in Nat /\ (n - 1) + 1 = n /\ m <= n - 1
    BY <1>4, <1>5
  <2>2. Rank(S, n) = Rank(S, n - 1) + 1 /\ Rank(S, n - 1) \in Nat /\ Rank(S, m) \in Nat
    BY <1>2, <2>1
  <2>3. Rank(S, m) <= Rank(S, n - 1)
    BY <1>3, <2>1
  <2>4. QED  BY <2>2, <2>3
<1>6. \A k \in 1..c : \E n \in S : Rank(S, n) = k
  <2> DEFINE Found == {m \in Nat : \A k \in 1..Rank(S, m) : \E n \in S : Rank(S, n) = k}
  <2>1. 0 \in Found
    BY <1>1
  <2>2. ASSUME NEW m \in Nat, m \in Found PROVE m + 1 \in Found
    <3>1. SUFFICES ASSUME NEW k \in 1..Rank(S, m + 1) PROVE \E n \in S : Rank(S, n) = k
      OBVIOUS
    <3>2. Rank(S, m) \in Nat /\ Rank(S, m + 1) \in Nat
      BY <1>2
    <3>3. Rank(S, m + 1) = Rank(S, m) + (IF m + 1 \in S THEN 1 ELSE 0)
      BY <1>2
    <3>4. CASE k <= Rank(S, m)
      <4>1. k \in 1..Rank(S, m)
        BY <3>2, <3>4
      <4>2. QED  BY <2>2, <4>1
    <3>5. CASE ~(k <= Rank(S, m))
      <4>1. m + 1 \in S /\ k = Rank(S, m + 1)
        BY <3>2, <3>3, <3>5
      <4>2. QED  BY <4>1
    <3>6. QED  BY <3>4, <3>5
  <2> HIDE DEF Found
  <2>3. N \in Found
    BY <2>1, <2>2, SetInduction
  <2>4. QED  BY <1>1, <2>3 DEF Found
<1>7. ASSUME NEW k \in 1..c
      PROVE  Nth(S, k) \in S /\ Rank(S, Nth(S, k)) = k /\ Nth(S, k) \in Nat
  BY <1>4, <1>6 DEF Nth, Rank
<1>8. ASSUME NEW j \in 1..c, NEW k \in 1..c, j < k
      PROVE  Nth(S, j) < Nth(S, k)
  <2>1. /\ Nth(S, j) \in Nat /\ Nth(S, k) \in Nat
        /\ Rank(S, Nth(S, j)) = j /\ Rank(S, Nth(S, k)) = k
    BY <1>7
  <2>2. Nth(S, k) <= Nth(S, j) => k <= j
    BY <1>3, <2>1
  <2>3. QED  BY <1>1, <1>8, <2>1, <2>2
<1>9. ASSUME NEW k \in 1..c, NEW n \in S
      PROVE  /\ n < Nth(S, k) => Rank(S, n) < k
             /\ Nth(S, k) < n => k < Rank(S, n)
  BY <1>4, <1>5, <1>7
<1>10. ASSUME NEW n \in S
       PROVE  Rank(S, n) \in 1..c /\ Nth(S, Rank(S, n)) = n
  <2>1. n \in Nat /\ 0 < n /\ n <= N
    BY <1>4
  <2>2. Rank(S, 0) < Rank(S, n) /\ Rank(S, n) <= Rank(S, N) /\ Rank(S, n) \in Nat
    BY <1>2, <1>3, <1>5, <2>1
  <2>3. Rank(S, n) \in 1..c
    BY <1>1, <2>2
  <2>4. Nth(S, Rank(S, n)) \in Nat
    BY <1>7, <2>3
  <2>5. ~(n < Nth(S, Rank(S, n))) /\ ~(Nth(S, Rank(S, n)) < n)
    BY <1>9, <2>2, <2>3
  <2>6. QED  BY <2>1, <2>3, <2>4, <2>5
<1>11. ASSUME NEW k \in 1..(c - 1), NEW n \in S
       PROVE  n <= Nth(S, k) \/ n >= Nth(S, k + 1)
  <2>1. k \in 1..c /\ k + 1 \in 1..c
    BY <1>1
  <2>2. Nth(S, k) \in Nat /\ Nth(S, k + 1) \in Nat /\ n \in Nat /\ Rank(S, n) \in Nat
    BY <1>2, <1>4, <1>7, <2>1
  <2>3. n < Nth(S, k + 1) => Rank(S, n) < k + 1
    BY <1>9, <2>1
  <2>4. Nth(S, k) < n => k < Rank(S, n)
    BY <1>9, <2>1
  <2>5. QED  BY <2>2, <2>3, <2>4
<1>12. ASSUME c # 0, NEW n \in S PROVE n <= Nth(S, c)
  <2>1. c \in 1..c
    BY <1>1, <1>12
  <2>2. Nth(S, c) \in Nat /\ n \in Nat /\ Rank(S, n) \in 1..c
    BY <1>4, <1>7, <1>10, <2>1
  <2>3. Nth(S, c) < n => c < Rank(S, n)
    BY <1>9, <2>1
  <2>4. QED  BY <1>1, <2>2, <2>3
<1>13. QED  BY <1>7, <1>8, <1>10, <1>11, <1>12 DEF c

-----------------------------------------------------------------------------
(* The pages of a transfer.                                                 *)

LEMMA BuildTypes ==
  /\ PageSize \in Nat \ {0} /\ MaxDescBytes \in Nat \ {0} /\ MaxTransferBytes \in Nat \ {0}
  /\ DescsPerPage \in Nat \ {0} /\ AddrAlign \in Nat \ {0} /\ LenGranularity \in Nat \ {0}
  /\ MaxExtraAdj \in Nat /\ MaxExtraAdj < DescsPerPage /\ PageSize < MaxDescBytes
  /\ MaxTransferBytes % PageSize = 0 /\ PageSize % AddrAlign = 0
  /\ BusPages \in Nat /\ BufPages \in Nat /\ MaxCount \in Nat
BY BuildConstants DEF BuildConstants

BusOK == bus_page \in [0..(BufPages - 1) -> 1..BusPages]

(* A function on 1..n is a sequence of n elements.                          *)
LEMMA LengthOfFunction ==
  ASSUME NEW n \in Nat, NEW E, E = [k \in 1..n |-> E[k]]
  PROVE  Len(E) = n
<1> DEFINE S == {E[k] : k \in 1..n}
<1>1. E \in [1..n -> S]
  OBVIOUS
<1> HIDE DEF S
<1>2. E \in Seq(S)
  BY <1>1
<1>3. QED  BY <1>1, <1>2

(* The bytes of a transfer in front of its k-th page.                       *)
Ahead(start, k) == (Page(start) + k - 1) * PageSize - start
Off(start, len, k) ==
  IF k = 1 THEN 0 ELSE IF Ahead(start, k) < len THEN Ahead(start, k) ELSE len

(* A place in a page is where its page lies on the bus.                     *)
LEMMA BusOfPage ==
  ASSUME NEW q \in Nat, NEW r \in 0..(PageSize - 1)
  PROVE  /\ Page(q * PageSize + r) = q /\ Offset(q * PageSize + r) = r
         /\ Bus(q * PageSize + r) = bus_page[q] * PageSize + r
BY BuildTypes, DivModUnique DEF Page, Offset, Bus

(* A scatter list covers len bytes from start, with o[k] bytes in front of  *)
(* its k-th entry: the entries lie behind each other, none is empty, all    *)
(* but the first begin with a page, and each is one piece of the bus.       *)
Covers(sg, start, len, o) ==
  /\ Len(sg) \in Nat \ {0} /\ DOMAIN sg = 1..Len(sg)
  /\ o[1] = 0 /\ o[Len(sg) + 1] = len
  /\ \A k \in 1..(Len(sg) + 1) : o[k] \in Nat
  /\ \A k \in 1..Len(sg) :
       /\ sg[k].addr \in Nat /\ sg[k].len \in Nat \ {0}
       /\ o[k + 1] = o[k] + sg[k].len /\ o[k + 1] <= len
       /\ k # 1 => (start + o[k]) % PageSize = 0
       /\ \A b \in 0..(sg[k].len - 1) : sg[k].addr + b = Bus(start + o[k] + b)

(* sgm_get_user_pages(): the entries lie behind each other in the transfer, *)
(* none is empty or longer than a page, and each is one piece of the bus.   *)
LEMMA PagesCover ==
  ASSUME BusOK, NEW start \in Nat, NEW len \in Nat \ {0}, start + len <= BufPages * PageSize,
         NEW E, E = UserPages(start, len)
  PROVE  \E o : Covers(E, start, len, o)
<1> DEFINE P == PageSize
<1>0. P \in Nat \ {0} /\ BufPages \in Nat
  BY BuildTypes
<1>1. PICK f \in Nat, o \in 0..(P - 1) : start = f * P + o /\ Page(start) = f /\ Offset(start) = o
  BY <1>0, DivMod DEF Page, Offset
<1>2. PICK l \in Nat, q \in 0..(P - 1) : start + len - 1 = l * P + q /\ Page(start + len - 1) = l
  <2>1. start + len - 1 \in Nat
    OBVIOUS
  <2>2. QED  BY <1>0, <2>1, DivMod DEF Page
<1>3. l < BufPages
  <2>1. start + len - 1 \in Nat /\ start + len - 1 < BufPages * P
    BY <1>0
  <2>2. QED  BY <1>0, <1>2, <2>1, DivOrder DEF Page
<1>4. f <= l
  <2>1. start \in Nat /\ start < (l + 1) * P
    BY <1>0, <1>2
  <2>2. l + 1 \in Nat
    OBVIOUS
  <2>3. f < l + 1
    BY <1>0, <1>1, <2>1, <2>2, DivOrder DEF Page
  <2>4. QED  BY <2>3
<1> HIDE DEF P
<1>5. PICK n \in Nat \ {0} : n = l - f + 1
  BY <1>4
<1> DEFINE addr(k) == bus_page[f + k - 1] * P + (IF k = 1 THEN o ELSE 0)
           length(k) == IF n = 1 THEN len
                        ELSE IF k = 1 THEN P - o
                        ELSE IF k < n THEN P
                        ELSE len - (P - o) - (n - 2) * P
<1>6. E = [k \in 1..n |-> [addr |-> addr(k), len |-> length(k)]]
  BY <1>1, <1>2, <1>5 DEF UserPages, P
<1> HIDE DEF addr, length
<1>7. DOMAIN E = 1..n /\ \A k \in 1..n : E[k].addr = addr(k) /\ E[k].len = length(k)
  BY <1>6
<1>8. Len(E) = n
  BY <1>5, <1>6, LengthOfFunction
<1>9. Off(start, len, 1) = 0 /\ Off(start, len, n + 1) = len
  <2>1. Ahead(start, n + 1) = (l + 1) * P - start
    BY <1>1, <1>5 DEF Ahead, P
  <2>2. (l + 1) * P - start >= len
    BY <1>0, <1>2
  <2>3. (l + 1) * P \in Int
    BY <1>0
  <2>4. QED  BY <1>5, <2>1, <2>2, <2>3 DEF Off
<1>10. ASSUME NEW k \in 1..n
       PROVE  /\ Off(start, len, k) \in Nat /\ Off(start, len, k + 1) \in Nat
              /\ E[k].addr \in Nat /\ E[k].len \in 1..P
              /\ Off(start, len, k + 1) = Off(start, len, k) + E[k].len
              /\ Off(start, len, k + 1) <= len
              /\ k # 1 => (start + Off(start, len, k)) % P = 0
              /\ \A b \in 0..(E[k].len - 1) : E[k].addr + b = Bus(start + Off(start, len, k) + b)
  <2>1. PICK page \in Nat : page = f + k - 1 /\ f <= page /\ page <= l
    BY <1>5
  <2>2. PICK base \in Nat : base = page * P
    BY <1>0
  <2>3. PICK first \in Nat : first = f * P
    BY <1>0
  <2>4. PICK last \in Nat : last = l * P
    BY <1>0
  <2>5. first <= base /\ base <= last
    BY <1>0, <2>1, <2>2, <2>3, <2>4, TimesOrder
  <2>6. /\ k = 1 => base = first
        /\ k # 1 => first + P <= base
        /\ k = n => base = last
        /\ k # n => base + P <= last
        /\ k # 1 => (n - 2) * P + first + P = last
    <3>1. k = 1 => page = f
      BY <2>1
    <3>2. k = n => page = l
      BY <1>5, <2>1
    <3>3. k # 1 => f + 1 <= page
      BY <2>1
    <3>4. k # n => page + 1 <= l
      BY <1>5, <2>1
    <3>5. (f + 1) * P = first + P /\ (page + 1) * P = base + P
      BY <1>0, <2>2, <2>3
    <3>6. k # 1 => first + P <= base
      BY <1>0, <2>2, <3>3, <3>5, TimesOrder
    <3>7. k # n => base + P <= last
      BY <1>0, <2>4, <3>4, <3>5, TimesOrder
    <3>8. (n - 2) * P + first + P = last
      <4>1. PICK m \in Int : m = n - 2 /\ l = f + m + 1
        BY <1>5
      <4>2. l * P = f * P + m * P + P
        BY <1>0, <4>1
      <4>3. m * P \in Int
        BY <1>0, <4>1
      <4>4. QED  BY <2>3, <2>4, <4>1, <4>2, <4>3
    <3>9. QED  BY <2>2, <2>3, <2>4, <3>1, <3>2, <3>6, <3>7, <3>8
  <2>7. start = first + o /\ start + len - 1 = last + q
    BY <1>1, <1>2, <2>3, <2>4
  <2>8. Ahead(start, k) = base - start /\ Ahead(start, k + 1) = base + P - start
    <3>1. Page(start) + k - 1 = page
      BY <1>1, <2>1
    <3>2. (Page(start) + (k + 1) - 1) * P = base + P
      BY <1>0, <1>1, <2>1, <2>2
    <3>3. Ahead(start, k) = base - start
      BY <2>2, <3>1 DEF Ahead, P
    <3>4. Ahead(start, k + 1) = (Page(start) + (k + 1) - 1) * P - start
      BY DEF Ahead, P
    <3>5. Ahead(start, k + 1) = base + P - start
      <4> DEFINE w == (Page(start) + (k + 1) - 1) * P
      <4>1. w = base + P /\ Ahead(start, k + 1) = w - start
        BY <3>2, <3>4
      <4> HIDE DEF w
      <4>2. QED  BY <1>0, <4>1
    <3>6. QED  BY <3>3, <3>5
  <2>9. Off(start, len, k) = IF k = 1 THEN 0 ELSE base - start
    BY <1>0, <2>5, <2>6, <2>7, <2>8 DEF Off
  <2>10. Off(start, len, k + 1) = IF k = n THEN len ELSE base + P - start
    BY <1>0, <1>5, <2>5, <2>6, <2>7, <2>8 DEF Off
  <2>11. length(k) = Off(start, len, k + 1) - Off(start, len, k)
    <3>1. CASE n = 1
      BY <1>5, <2>9, <2>10, <3>1 DEF length
    <3>2. CASE n # 1 /\ k = 1
      BY <1>0, <2>6, <2>7, <2>9, <2>10, <3>2 DEF length
    <3>3. CASE n # 1 /\ k # 1 /\ k # n
      BY <1>0, <1>5, <2>9, <2>10, <3>3 DEF length
    <3>4. CASE n # 1 /\ k # 1 /\ k = n
      <4>1. (n - 2) * P = last - first - P
        BY <1>0, <1>5, <2>6, <3>4
      <4>2. length(k) = len - (P - o) - (last - first - P)
        BY <1>5, <3>4, <4>1 DEF length
      <4>3. Off(start, len, k) = last - start
        BY <2>6, <2>9, <3>4
      <4>4. QED  BY <1>0, <2>7, <2>10, <3>4, <4>2, <4>3
    <3>5. QED  BY <3>1, <3>2, <3>3, <3>4
  <2>12. Off(start, len, k) \in Nat /\ Off(start, len, k + 1) \in Nat /\ E[k].len = length(k)
    BY <1>0, <1>7, <2>5, <2>6, <2>7, <2>9, <2>10
  <2>13. length(k) \in 1..P
    <3>1. CASE k = 1 /\ k = n
      BY <1>0, <2>6, <2>7, <2>9, <2>10, <2>11, <3>1
    <3>2. CASE k = 1 /\ k # n
      BY <1>0, <2>6, <2>7, <2>9, <2>10, <2>11, <3>2
    <3>3. CASE k # 1 /\ k = n
      BY <1>0, <2>6, <2>7, <2>9, <2>10, <2>11, <3>3
    <3>4. CASE k # 1 /\ k # n
      BY <1>0, <2>6, <2>7, <2>9, <2>10, <2>11, <3>4
    <3>5. QED  BY <3>1, <3>2, <3>3, <3>4
  <2>14. PICK in \in 0..(P - 1) : /\ in = IF k = 1 THEN o ELSE 0
                                 /\ start + Off(start, len, k) = base + in
    BY <1>0, <2>5, <2>6, <2>7, <2>9
  <2>15. in + length(k) <= P
    BY <1>0, <1>5, <2>5, <2>6, <2>7, <2>9, <2>10, <2>11, <2>14
  <2>16. E[k].addr = bus_page[page] * P + in /\ E[k].addr \in Nat
    <3>1. page \in 0..(BufPages - 1)
      BY <1>0, <1>3, <2>1
    <3>2. bus_page[page] \in Nat
      BY <3>1, BuildTypes DEF BusOK
    <3>3. bus_page[page] * P \in Nat
      BY <1>0, <3>2
    <3>4. in = IF k = 1 THEN o ELSE 0
      <4>1. k = 1 => in = o
        BY <2>1, <2>2, <2>6, <2>7, <2>9, <2>14
      <4>2. k # 1 => in = 0
        BY <2>14
      <4>3. QED  BY <4>1, <4>2
    <3>5. f + k - 1 = page
      BY <2>1
    <3>6. E[k].addr = bus_page[page] * P + in
      BY <1>7, <3>4, <3>5 DEF addr
    <3>7. bus_page[page] * P + in \in Nat
      BY <3>3
    <3>8. QED  BY <3>6, <3>7
  <2>17. k # 1 => (start + Off(start, len, k)) % P = 0
    <3>1. 0 \in 0..(P - 1) /\ page * P + 0 = base
      BY <1>0, <2>2
    <3>2. base % P = 0
      BY <1>0, <3>1, DivModUnique
    <3>3. k # 1 => start + Off(start, len, k) = base
      BY <2>14
    <3>4. QED  BY <3>2, <3>3
  <2>18. ASSUME NEW b \in 0..(E[k].len - 1)
         PROVE  E[k].addr + b = Bus(start + Off(start, len, k) + b)
    <3>1. in + b \in 0..(P - 1)
      BY <1>0, <2>12, <2>13, <2>15
    <3>2. Bus(page * P + (in + b)) = bus_page[page] * P + (in + b)
      BY <3>1, BusOfPage DEF P
    <3>3. start + Off(start, len, k) + b = page * P + (in + b)
      BY <2>2, <2>12, <2>13, <2>14
    <3>4. bus_page[page] * P + (in + b) = E[k].addr + b
      <4>1. bus_page[page] * P \in Int
        <5>1. page \in 0..(BufPages - 1)
          BY <1>0, <1>3, <2>1
        <5>2. bus_page[page] \in Int
          BY <5>1, BuildTypes DEF BusOK
        <5>3. QED  BY <1>0, <5>2
      <4>2. QED  BY <2>16, <4>1
    <3>5. QED  BY <3>2, <3>3, <3>4
  <2>19. Off(start, len, k + 1) <= len
    BY <1>0, <2>5, <2>6, <2>7, <2>10
  <2>20. QED  BY <2>11, <2>12, <2>13, <2>16, <2>17, <2>18, <2>19
<1> DEFINE front == [k \in 1..(n + 1) |-> Off(start, len, k)]
<1>11. \A k \in 1..(n + 1) : front[k] = Off(start, len, k)
  OBVIOUS
<1> HIDE DEF front
<1>12. 1 \in 1..(n + 1) /\ n + 1 \in 1..(n + 1)
  BY <1>5
<1>13. ASSUME NEW k \in 1..(n + 1) PROVE front[k] \in Nat
  <2>1. k \in 1..n \/ k = n + 1
    BY <1>5
  <2>2. QED  BY <1>9, <1>10, <1>11, <2>1
<1>14. ASSUME NEW k \in 1..n
       PROVE  /\ E[k].addr \in Nat /\ E[k].len \in Nat \ {0}
              /\ front[k + 1] = front[k] + E[k].len /\ front[k + 1] <= len
              /\ k # 1 => (start + front[k]) % P = 0
              /\ \A b \in 0..(E[k].len - 1) : E[k].addr + b = Bus(start + front[k] + b)
  <2>1. k \in 1..(n + 1) /\ k + 1 \in 1..(n + 1)
    BY <1>5
  <2>2. front[k] = Off(start, len, k) /\ front[k + 1] = Off(start, len, k + 1)
    BY <1>11, <2>1
  <2>3. E[k].len \in Nat \ {0}
    BY <1>0, <1>10
  <2>4. QED  BY <1>10, <2>2, <2>3
<1>15. Covers(E, start, len, front)
  BY <1>5, <1>7, <1>8, <1>9, <1>11, <1>12, <1>13, <1>14 DEF Covers, P
<1>16. QED  BY <1>15

(* Entries that are contiguous on the bus are one piece of it together.     *)
Chain(E, h, t) == \A j \in (h + 1)..t : Contiguous(E[j - 1], E[j])

Together(E, start, o, h, t) ==
  /\ o[h] \in Nat /\ o[t + 1] \in Nat /\ o[h] < o[t + 1]
  /\ E[t].addr + E[t].len = E[h].addr + (o[t + 1] - o[h])
  /\ \A b \in 0..(o[t + 1] - o[h] - 1) : E[h].addr + b = Bus(start + o[h] + b)

LEMMA ChainCovers ==
  ASSUME NEW E, NEW start \in Nat, NEW len \in Nat, NEW o, Covers(E, start, len, o),
         NEW h \in 1..Len(E), NEW t \in h..Len(E), Chain(E, h, t)
  PROVE  Together(E, start, o, h, t)
<1> DEFINE n == Len(E)
           Piece(d) == /\ o[h] < o[h + d + 1]
                       /\ E[h + d].addr = E[h].addr + (o[h + d] - o[h])
                       /\ \A b \in 0..(o[h + d + 1] - o[h] - 1) : E[h].addr + b = Bus(start + o[h] + b)
           D == {d \in Nat : h + d <= t => Piece(d)}
<1>1. /\ n \in Nat \ {0}
      /\ \A k \in 1..(n + 1) : o[k] \in Nat
      /\ \A k \in 1..n :
           /\ E[k].addr \in Nat /\ E[k].len \in Nat \ {0}
           /\ o[k + 1] = o[k] + E[k].len
           /\ \A b \in 0..(E[k].len - 1) : E[k].addr + b = Bus(start + o[k] + b)
  BY DEF Covers
<1>2. h \in 1..n /\ t \in 1..n /\ h <= t /\ h \in 1..(n + 1)
  BY <1>1
<1> HIDE DEF n
<1>3. Piece(0)
  <2>1. h + 0 = h
    BY <1>2
  <2>2. o[h + 1] = o[h] + E[h].len /\ E[h].len \in Nat \ {0} /\ o[h] \in Nat /\ E[h].addr \in Nat
    BY <1>1, <1>2
  <2>3. \A b \in 0..(E[h].len - 1) : E[h].addr + b = Bus(start + o[h] + b)
    BY <1>1, <1>2
  <2>4. o[h + 1] - o[h] = E[h].len /\ o[h] < o[h + 1] /\ E[h].addr = E[h].addr + (o[h] - o[h])
    BY <2>2
  <2>5. h + 0 + 1 = h + 1
    BY <1>2
  <2>6. \A b \in 0..(o[h + 1] - o[h] - 1) : E[h].addr + b = Bus(start + o[h] + b)
    BY <2>3, <2>4
  <2>7. QED  BY <2>1, <2>4, <2>5, <2>6
<1>4. ASSUME NEW d \in Nat, h + d + 1 <= t, Piece(d) PROVE Piece(d + 1)
  <2>1. PICK j \in 1..n : j = h + d + 1 /\ j \in (h + 1)..t
    BY <1>1, <1>2, <1>4
  <2>2. j - 1 = h + d /\ j - 1 \in 1..n /\ j + 1 = h + (d + 1) + 1 /\ j = h + (d + 1)
        /\ j \in 1..(n + 1) /\ j + 1 \in 1..(n + 1)
    BY <1>1, <1>2, <2>1
  <2>3. E[j].addr = E[j - 1].addr + E[j - 1].len
    BY <2>1 DEF Chain, Contiguous
  <2>4. /\ o[j] = o[j - 1] + E[j - 1].len /\ E[j - 1].len \in Nat
        /\ o[j + 1] = o[j] + E[j].len /\ E[j].len \in Nat \ {0}
        /\ o[h] \in Nat /\ o[j - 1] \in Nat /\ o[j] \in Nat
        /\ E[h].addr \in Nat /\ E[j - 1].addr \in Nat /\ E[j].addr \in Nat
    <3>1. (j - 1) + 1 = j
      BY <2>1
    <3>2. j - 1 \in 1..(n + 1)
      BY <1>1, <2>1, <2>2
    <3>3. QED  BY <1>1, <1>2, <2>1, <2>2, <3>1, <3>2
  <2>5. /\ o[h] < o[j]
        /\ E[j - 1].addr = E[h].addr + (o[j - 1] - o[h])
        /\ \A b \in 0..(o[j] - o[h] - 1) : E[h].addr + b = Bus(start + o[h] + b)
    BY <1>4, <2>1, <2>2
  <2>6. PICK x \in Nat, y0 \in Nat, y \in Nat, y1 \in Nat,
              a \in Nat, a0 \in Nat, a1 \in Nat, l0 \in Nat, l1 \in Nat \ {0} :
          /\ x = o[h] /\ y0 = o[j - 1] /\ y = o[j] /\ y1 = o[j + 1]
          /\ a = E[h].addr /\ a0 = E[j - 1].addr /\ a1 = E[j].addr
          /\ l0 = E[j - 1].len /\ l1 = E[j].len
    BY <2>2, <2>4, <1>1
  <2>7. y = y0 + l0 /\ y1 = y + l1 /\ x < y /\ a0 = a + (y0 - x) /\ a1 = a0 + l0
    BY <2>3, <2>4, <2>5, <2>6
  <2>8. a1 = a + (y - x) /\ x < y1
    BY <2>7
  <2>9. ASSUME NEW b \in 0..(y1 - x - 1) PROVE a + b = Bus(start + x + b)
    <3>1. CASE b <= y - x - 1
      <4>1. b \in 0..(y - x - 1)
        BY <3>1
      <4>2. QED  BY <2>5, <2>6, <4>1
    <3>2. CASE ~(b <= y - x - 1)
      <4>1. PICK c \in 0..(l1 - 1) : b = (y - x) + c
        <5>1. b - (y - x) \in 0..(l1 - 1) /\ b = (y - x) + (b - (y - x))
          BY <2>7, <3>2
        <5>2. QED  BY <5>1
      <4>2. a1 + c = Bus(start + y + c)
        BY <1>1, <2>6
      <4>3. a + b = a1 + c /\ start + x + b = start + y + c
        BY <2>8, <4>1
      <4>4. QED  BY <4>2, <4>3
    <3>3. QED  BY <3>1, <3>2
  <2>10. o[h] < o[j + 1] /\ E[j].addr = E[h].addr + (o[j] - o[h])
    BY <2>6, <2>8
  <2>11. \A b \in 0..(o[j + 1] - o[h] - 1) : E[h].addr + b = Bus(start + o[h] + b)
    BY <2>6, <2>9
  <2>12. QED  BY <2>2, <2>10, <2>11
<1> HIDE DEF Piece
<1>5. 0 \in D
  BY <1>3
<1>6. ASSUME NEW d \in Nat, d \in D PROVE d + 1 \in D
  <2>1. h + (d + 1) <= t => h + d <= t /\ h + d + 1 <= t
    BY <1>2
  <2>2. QED  BY <1>4, <1>6, <2>1
<1> HIDE DEF D
<1>7. t - h \in Nat /\ h + (t - h) = t
  BY <1>2
<1>8. t - h \in D
  BY <1>5, <1>6, <1>7, SetInduction
<1>9. Piece(t - h)
  BY <1>2, <1>7, <1>8 DEF D
<1>10. /\ o[h] < o[t + 1]
       /\ E[t].addr = E[h].addr + (o[t] - o[h])
       /\ \A b \in 0..(o[t + 1] - o[h] - 1) : E[h].addr + b = Bus(start + o[h] + b)
  BY <1>7, <1>9 DEF Piece
<1>11. /\ o[h] \in Nat /\ o[t] \in Nat /\ o[t + 1] \in Nat /\ o[t + 1] = o[t] + E[t].len
       /\ E[t].len \in Nat /\ E[t].addr \in Nat /\ E[h].addr \in Nat
  <2>1. t \in 1..(n + 1) /\ t + 1 \in 1..(n + 1)
    BY <1>1, <1>2
  <2>2. QED  BY <1>1, <1>2, <2>1
<1>12. E[t].addr + E[t].len = E[h].addr + (o[t + 1] - o[h])
  <2>1. PICK x \in Nat, y \in Nat, y1 \in Nat, a \in Nat, a1 \in Nat, l1 \in Nat :
          /\ x = o[h] /\ y = o[t] /\ y1 = o[t + 1]
          /\ a = E[h].addr /\ a1 = E[t].addr /\ l1 = E[t].len
    BY <1>11
  <2>2. a1 = a + (y - x) /\ y1 = y + l1
    BY <1>10, <1>11, <2>1
  <2>3. a1 + l1 = a + (y1 - x)
    BY <2>2
  <2>4. QED  BY <2>1, <2>3
<1>13. QED  BY <1>10, <1>11, <1>12 DEF Together

(* pci_map_sg(): whatever it merged, the list still covers the transfer.    *)
LEMMA MergedCovers ==
  ASSUME NEW E, NEW start \in Nat, NEW len \in Nat, NEW o, Covers(E, start, len, o),
         NEW sg, sg \in MapSg(E)
  PROVE  \E so : Covers(sg, start, len, so)
<1> DEFINE n == Len(E)
<1>1. /\ n \in Nat \ {0} /\ o[1] = 0 /\ o[n + 1] = len
      /\ \A k \in 1..(n + 1) : o[k] \in Nat
      /\ \A k \in 1..n : /\ E[k].addr \in Nat
                         /\ E[k].len \in Nat /\ o[k + 1] <= len
                         /\ k # 1 => (start + o[k]) % PageSize = 0
  BY DEF Covers
<1>2. PICK gone \in SUBSET (2..n) : /\ sg = Merged(E, 1..n \ gone)
                                    /\ \A k \in gone : Contiguous(E[k - 1], E[k])
  BY DEF MapSg
<1> DEFINE heads == 1..n \ gone
           c == Cardinality(heads)
           H(k) == Nth(heads, k)
           to(k) == IF k = c THEN n ELSE H(k + 1) - 1
<1>3. heads \in SUBSET (1..n) /\ 1 \in heads
  BY <1>1, <1>2
<1> HIDE DEF n
<1>4. c \in Nat /\ Rank(heads, 0) = 0 /\ Rank(heads, 0 + 1) = Rank(heads, 0) + (IF 0 + 1 \in heads THEN 1 ELSE 0)
  <2> HIDE DEF heads
  <2>1. QED  BY <1>1, <1>3, RankCounts
<1>5. /\ \A k \in 1..c : H(k) \in heads
      /\ \A j, k \in 1..c : j < k => H(j) < H(k)
      /\ \A k \in 1..(c - 1) : \A m \in heads : m <= H(k) \/ m >= H(k + 1)
      /\ c # 0 => \A m \in heads : m <= H(c)
      /\ \A m \in heads : Rank(heads, m) \in 1..c /\ H(Rank(heads, m)) = m
  <2> HIDE DEF heads
  <2>1. QED  BY <1>1, <1>3, NthMembers
<1>6. c \in Nat \ {0} /\ H(1) = 1
  <2> HIDE DEF heads, c
  <2>1. Rank(heads, 1) = 1
    BY <1>3, <1>4
  <2>2. QED  BY <1>3, <1>4, <1>5, <2>1
<1>7. /\ DOMAIN sg = 1..c
      /\ \A k \in 1..c : /\ sg[k].addr = E[H(k)].addr
                         /\ sg[k].len = E[to(k)].addr + E[to(k)].len - E[H(k)].addr
  BY <1>2 DEF Merged, n
<1>8. Len(sg) = c
  <2>1. sg = [k \in 1..c |-> sg[k]]
    BY <1>2 DEF Merged
  <2> HIDE DEF c
  <2>2. QED  BY <1>6, <2>1, LengthOfFunction
<1> HIDE DEF heads, c, H
<1>9. ASSUME NEW k \in 1..c
      PROVE  /\ H(k) \in 1..n /\ to(k) \in H(k)..n /\ to(k) + 1 = IF k = c THEN n + 1 ELSE H(k + 1)
             /\ \A j \in (H(k) + 1)..to(k) : Contiguous(E[j - 1], E[j])
  <2>1. H(k) \in heads /\ H(k) \in 1..n
    BY <1>3, <1>5
  <2>2. k # c => k + 1 \in 1..c /\ k \in 1..(c - 1) /\ k < k + 1
    BY <1>6
  <2>3. k # c => H(k + 1) \in 1..n /\ H(k) < H(k + 1)
    BY <1>3, <1>5, <2>2
  <2>4. to(k) \in H(k)..n /\ to(k) + 1 = IF k = c THEN n + 1 ELSE H(k + 1)
    <3>1. CASE k = c
      BY <1>1, <2>1, <3>1
    <3>2. CASE k # c
      BY <1>1, <2>1, <2>3, <3>2
    <3>3. QED  BY <3>1, <3>2
  <2>5. ASSUME NEW j \in (H(k) + 1)..to(k) PROVE Contiguous(E[j - 1], E[j])
    <3>1. j \in 1..n /\ j > H(k)
      BY <1>1, <2>1, <2>4
    <3>2. j \notin heads
      <4>1. CASE k = c
        BY <1>5, <1>6, <3>1, <2>1, <4>1
      <4>2. CASE k # c
        <5>1. j < H(k + 1)
          BY <2>3, <2>4, <4>2
        <5>2. j \in heads => j <= H(k) \/ j >= H(k + 1)
          BY <1>5, <2>2, <4>2
        <5>3. QED  BY <2>1, <2>2, <2>3, <3>1, <4>2, <5>1, <5>2
      <4>3. QED  BY <4>1, <4>2
    <3>3. j \in gone
      BY <3>1, <3>2 DEF heads
    <3>4. QED  BY <1>2, <3>3
  <2>6. QED  BY <2>1, <2>4, <2>5
<1> HIDE DEF to
<1> DEFINE so == [k \in 1..(c + 1) |-> IF k = c + 1 THEN len ELSE o[H(k)]]
<1>10. /\ \A k \in 1..c : so[k] = o[H(k)] /\ so[k + 1] = o[to(k) + 1]
       /\ so[c + 1] = len
  <2>1. so[c + 1] = len
    BY <1>6
  <2>2. ASSUME NEW k \in 1..c PROVE so[k] = o[H(k)] /\ so[k + 1] = o[to(k) + 1]
    <3>1. k \in 1..(c + 1) /\ k # c + 1 /\ k + 1 \in 1..(c + 1)
      BY <1>6
    <3>2. so[k] = o[H(k)] /\ so[k + 1] = IF k + 1 = c + 1 THEN len ELSE o[H(k + 1)]
      BY <3>1
    <3>3. (k + 1 = c + 1) <=> (k = c)
      BY <1>6
    <3>4. QED  BY <1>1, <1>9, <3>2, <3>3
  <2>3. QED  BY <2>1, <2>2
<1> HIDE DEF so
<1>11. ASSUME NEW k \in 1..c
       PROVE  /\ so[k] \in Nat
              /\ sg[k].addr \in Nat /\ sg[k].len \in Nat \ {0}
              /\ so[k + 1] = so[k] + sg[k].len /\ so[k + 1] <= len
              /\ k # 1 => (start + so[k]) % PageSize = 0
              /\ \A b \in 0..(sg[k].len - 1) : sg[k].addr + b = Bus(start + so[k] + b)
  <2> DEFINE h == H(k)
             t == to(k)
  <2>1. /\ h \in 1..n /\ t \in h..n /\ \A j \in (h + 1)..t : Contiguous(E[j - 1], E[j])
        /\ so[k] = o[h] /\ so[k + 1] = o[t + 1]
        /\ sg[k].addr = E[h].addr /\ sg[k].len = E[t].addr + E[t].len - E[h].addr
    BY <1>7, <1>9, <1>10
  <2> HIDE DEF h, t
  <2>2. /\ o[h] \in Nat /\ o[t + 1] \in Nat /\ o[h] < o[t + 1]
        /\ E[t].addr + E[t].len = E[h].addr + (o[t + 1] - o[h])
        /\ \A b \in 0..(o[t + 1] - o[h] - 1) : E[h].addr + b = Bus(start + o[h] + b)
    <3>1. h \in 1..Len(E) /\ t \in h..Len(E)
      BY <2>1 DEF n
    <3>2. Chain(E, h, t)
      BY <2>1 DEF Chain
    <3>3. Together(E, start, o, h, t)
      BY <3>1, <3>2, ChainCovers
    <3>4. QED  BY <3>3 DEF Together
  <2>3. PICK x \in Nat, y \in Nat, a \in Nat, e \in Nat, l \in Nat :
          x = o[h] /\ y = o[t + 1] /\ a = E[h].addr /\ e = E[t].addr /\ l = E[t].len
    <3>1. t \in 1..n
      BY <1>1, <2>1
    <3>2. QED  BY <1>1, <2>1, <2>2, <3>1
  <2>4. e + l = a + (y - x) /\ x < y
    BY <2>2, <2>3
  <2>5. sg[k].len = y - x
    <3>1. sg[k].len = e + l - a
      BY <2>1, <2>3
    <3>2. QED  BY <2>4, <3>1
  <2>6. k # 1 => h # 1
    <3>1. 1 \in 1..c
      BY <1>6
    <3>2. k # 1 => 1 < k
      BY <1>6
    <3>3. k # 1 => H(1) < H(k)
      BY <1>5, <3>1, <3>2 DEF H
    <3>4. QED  BY <1>6, <2>1, <3>3 DEF h, H
  <2>7. k # 1 => (start + so[k]) % PageSize = 0
    BY <1>1, <2>1, <2>6
  <2>8. sg[k].addr = a /\ so[k] = x /\ so[k + 1] = y /\ y - x \in Nat \ {0} /\ y = x + (y - x)
    BY <2>1, <2>3, <2>4
  <2>9. \A b \in 0..((y - x) - 1) : a + b = Bus(start + x + b)
    BY <2>2, <2>3
  <2>10. so[k + 1] <= len
    <3>1. t \in 1..n
      BY <1>1, <2>1
    <3>2. QED  BY <1>1, <2>1, <3>1
  <2>11. QED  BY <2>5, <2>7, <2>8, <2>9, <2>10
<1>12. so[1] = 0
  BY <1>1, <1>6, <1>10 DEF H
<1>13. ASSUME NEW k \in 1..(c + 1) PROVE so[k] \in Nat
  <2>1. k \in 1..c \/ k = c + 1
    BY <1>6
  <2>2. QED  BY <1>10, <1>11, <2>1
<1>14. Covers(sg, start, len, so)
  BY <1>6, <1>7, <1>8, <1>10, <1>11, <1>12, <1>13 DEF Covers
<1>15. QED  BY <1>14

-----------------------------------------------------------------------------
(* The inductive invariant.  The request does not change, and the loop of   *)
(* transfer_data() stays at the same distance from its beginning in the     *)
(* buffer and on the card; a transfer that is not the last one ends with a  *)
(* page.                                                                    *)
RequestInv ==
  /\ buf \in Nat /\ count \in Nat \ {0} /\ start_pos \in Nat
  /\ buf + count <= BufPages * PageSize
  /\ mode \in {"stream", "fixed", "memory"} /\ userspace \in BOOLEAN
  /\ ~userspace => mode = "stream"
  /\ BusOK

Share == IF remaining > MaxTransferBytes THEN MaxTransferBytes ELSE remaining

Busy == pc \in {"build", "adjacent", "queued"}

LoopInv ==
  /\ pc \in {"check", "loop", "build", "adjacent", "queued", "returned"}
  /\ remaining \in 0..count
  /\ transfer_addr = buf + (count - remaining)
  /\ pos = start_pos + (count - remaining)
  /\ remaining = 0 \/ (count - remaining) % PageSize = 0
  /\ transfer_len \in 0..MaxTransferBytes /\ mapped_pages \in Nat
  /\ Busy => remaining # 0 /\ transfer_len = Share
  /\ ~Busy => mapped_pages = 0
  /\ pc = "check" => transfer_len = 0
  /\ pc = "returned" /\ transfer_len > 0 => remaining = 0
  /\ pc \notin {"check", "returned"} /\ userspace => TransferAligned

LEMMA ShareFits ==
  ASSUME RequestInv, LoopInv, remaining # 0
  PROVE  /\ transfer_addr \in Nat /\ pos \in Nat /\ remaining \in Nat
         /\ Share \in 1..MaxTransferBytes /\ Share <= remaining
         /\ transfer_addr + Share <= BufPages * PageSize
<1>1. PICK room \in Nat : room = BufPages * PageSize
  BY BuildTypes
<1>2. QED  BY <1>1, BuildTypes DEF RequestInv, LoopInv, Share

LEMMA RequestLoop ==
  /\ Init => RequestInv /\ LoopInv
  /\ RequestInv /\ LoopInv /\ [Next]_vars => RequestInv' /\ LoopInv'
<1>1. ASSUME Init PROVE RequestInv /\ LoopInv
  <2>1. RequestInv
    <3>1. buf \in Nat
      BY <1>1, BuildTypes DEF Init, BufBytes
    <3>2. count \in Nat \ {0} /\ start_pos \in Nat
      BY <1>1, BuildTypes DEF Init
    <3>3. QED  BY <1>1, <3>1, <3>2 DEF Init, RequestInv, BusOK
  <2>2. LoopInv
    <3>1. 0 % PageSize = 0
      BY BuildTypes
    <3>2. count \in Nat /\ buf \in Nat /\ start_pos \in Nat
      BY <2>1 DEF RequestInv
    <3>3. count - count = 0
      BY <3>2
    <3>4. QED  BY <1>1, <3>1, <3>2, <3>3, BuildTypes DEF Init, LoopInv, Busy
  <2>3. QED  BY <2>1, <2>2
<1>2. ASSUME RequestInv, LoopInv, [Next]_vars PROVE RequestInv'
  <2>1. UNCHANGED requestVars
    BY <1>2 DEF Next, vars, CheckAlign, TransferCreate, BuildEntry, BuildLast, FillAdjacent, TransferDone, Return
  <2>2. QED  BY <1>2, <2>1 DEF RequestInv, BusOK, requestVars
<1>3. ASSUME RequestInv, LoopInv, [Next]_vars PROVE LoopInv'
  <2> USE <1>3
  <2>1. UNCHANGED requestVars
    BY <1>3 DEF Next, vars, CheckAlign, TransferCreate, BuildEntry, BuildLast, FillAdjacent, TransferDone, Return
  <2>2. TransferAligned' = TransferAligned
    BY <2>1 DEF requestVars, TransferAligned, LengthAligned
  <2>3. CASE CheckAlign
    BY <2>1, <2>2, <2>3 DEF CheckAlign, LoopInv, Busy, Share, requestVars, loopVars, mapVars
  <2>4. CASE TransferCreate
    <3>1. Share \in 1..MaxTransferBytes /\ transfer_len' = Share /\ Share' = Share
      BY <2>4, ShareFits DEF TransferCreate, loopVars, LoopInv, Share
    <3>2. mapped_pages' \in Nat
      <4>1. PICK E : E = UserPages(transfer_addr, Share)
        OBVIOUS
      <4>2. transfer_addr \in Nat /\ Share \in Nat \ {0} /\ transfer_addr + Share <= BufPages * PageSize
        BY <2>4, ShareFits DEF TransferCreate, LoopInv
      <4>3. \E o : Covers(E, transfer_addr, Share, o)
        BY <4>1, <4>2, PagesCover DEF RequestInv
      <4>4. QED  BY <2>4, <4>1, <4>3 DEF TransferCreate, Covers, Share
    <3>3. QED  BY <2>1, <2>2, <2>4, <3>1, <3>2 DEF TransferCreate, LoopInv, Busy, requestVars, loopVars
  <2>5. CASE BuildEntry
    BY <2>1, <2>2, <2>5 DEF BuildEntry, LoopInv, Busy, Share, requestVars, loopVars, mapVars
  <2>6. CASE BuildLast
    BY <2>1, <2>2, <2>6 DEF BuildLast, LoopInv, Busy, Share, requestVars, loopVars, mapVars
  <2>7. CASE FillAdjacent
    BY <2>1, <2>2, <2>7 DEF FillAdjacent, LoopInv, Busy, Share, requestVars, loopVars, mapVars
  <2>8. CASE TransferDone
    <3>1. transfer_len = Share /\ remaining # 0 /\ Busy
      BY <2>8 DEF TransferDone, LoopInv, Busy
    <3>2. Share \in 1..MaxTransferBytes /\ Share <= remaining /\ remaining \in Nat
      BY <3>1, ShareFits
    <3>3. /\ remaining' = remaining - Share /\ pos' = pos + Share /\ transfer_addr' = transfer_addr + Share
          /\ pc' = "loop" /\ mapped_pages' = 0 /\ transfer_len' = transfer_len
          /\ count' = count /\ buf' = buf /\ start_pos' = start_pos /\ userspace' = userspace
      BY <2>1, <2>8, <3>1 DEF TransferDone, requestVars
    <3>4. count \in Nat /\ buf \in Nat /\ start_pos \in Nat /\ remaining \in 0..count
      BY DEF RequestInv, LoopInv
    <3>5. remaining' \in 0..count
      BY <3>2, <3>3, <3>4
    <3>6. transfer_addr' = buf + (count - remaining') /\ pos' = start_pos + (count - remaining')
      BY <3>2, <3>3, <3>4 DEF LoopInv
    <3>7. remaining' = 0 \/ (count - remaining') % PageSize = 0
      <4>1. CASE remaining > MaxTransferBytes
        <5>1. count - remaining' = (count - remaining) + MaxTransferBytes /\ count - remaining \in Nat
          BY <3>2, <3>3, <3>4, <4>1, BuildTypes DEF Share
        <5>2. (count - remaining) % PageSize = 0 /\ MaxTransferBytes % PageSize = 0
          BY <3>1, BuildTypes DEF LoopInv
        <5>3. PICK m \in Nat : MaxTransferBytes = m * PageSize
          <6>1. MaxTransferBytes \in Nat /\ PageSize \in Nat \ {0}
            BY BuildTypes
          <6>2. QED  BY <5>2, <6>1, Multiple
        <5>4. ((count - remaining) + m * PageSize) % PageSize = (count - remaining) % PageSize
          BY <5>1, BuildTypes, ModShift
        <5>5. QED  BY <5>1, <5>2, <5>3, <5>4
      <4>2. CASE ~(remaining > MaxTransferBytes)
        BY <3>2, <3>3, <4>2 DEF Share
      <4>3. QED  BY <4>1, <4>2
    <3>8. pc \notin {"check", "returned"}
      BY <2>8 DEF TransferDone
    <3>9. QED
      BY <2>2, <3>3, <3>5, <3>6, <3>7, <3>8 DEF LoopInv, Busy
  <2>9. CASE Return
    BY <2>1, <2>2, <2>9 DEF Return, LoopInv, Busy, Share, requestVars, loopVars, mapVars
  <2>10. CASE UNCHANGED vars
    BY <2>1, <2>2, <2>10 DEF LoopInv, Busy, Share, vars, requestVars, loopVars, mapVars
  <2>11. QED  BY <2>3, <2>4, <2>5, <2>6, <2>7, <2>8, <2>9, <2>10 DEF Next
<1>4. QED  BY <1>1, <1>2, <1>3

-----------------------------------------------------------------------------
(* What is collected: types, and never more descriptors than entries.       *)
Descs == [addr : Nat, len : Nat, ep : Nat, extra_adj : 0..MaxExtraAdj]

Collected ==
  /\ desc \in Seq(Descs) /\ at \in Seq(Nat)
  /\ cont_addr \in Nat /\ cont_len \in Nat /\ ep_addr \in Nat
  /\ i \in 1..(Len(sgl) + 1)
  /\ Len(desc) <= Len(sgl)
  /\ DOMAIN sgl = 1..Len(sgl) /\ Len(sgl) \in Nat
  /\ \A k \in 1..Len(sgl) : sgl[k].addr \in Nat /\ sgl[k].len \in Nat \ {0}
  /\ pc = "build" => Len(desc) < i /\ i <= Len(sgl) /\ Len(at) # 0

(* The smallest of two or three numbers.                                    *)
LEMMA MinOfThree ==
  ASSUME NEW a \in Int, NEW b \in Int, NEW c \in Int
  PROVE  /\ Min({a, b, c}) \in {a, b, c}
         /\ Min({a, b, c}) <= a /\ Min({a, b, c}) <= b /\ Min({a, b, c}) <= c
<1>1. \E x \in {a, b, c} : \A y \in {a, b, c} : x <= y
  <2>1. (a <= b /\ a <= c) \/ (b <= a /\ b <= c) \/ (c <= a /\ c <= b)
    OBVIOUS
  <2>2. QED  BY <2>1
<1>2. Min({a, b, c}) = CHOOSE x \in {a, b, c} : \A y \in {a, b, c} : x <= y
  BY DEF Min
<1>3. Min({a, b, c}) \in {a, b, c} /\ \A y \in {a, b, c} : Min({a, b, c}) <= y
  <2> DEFINE S == {a, b, c}
  <2> HIDE DEF S
  <2>1. (CHOOSE x \in S : \A y \in S : x <= y) \in S
        /\ \A y \in S : (CHOOSE x \in S : \A y2 \in S : x <= y2) <= y
    BY <1>1 DEF S
  <2>2. QED  BY <1>2, <2>1 DEF S
<1>4. QED  BY <1>3

LEMMA MinOfTwo ==
  ASSUME NEW a \in Int, NEW b \in Int
  PROVE  Min({a, b}) = IF a <= b THEN a ELSE b
<1>1. {a, b} = {a, a, b}
  OBVIOUS
<1>2. Min({a, b}) \in {a, b} /\ Min({a, b}) <= a /\ Min({a, b}) <= b
  BY <1>1, MinOfThree
<1>3. QED  BY <1>2

(* xdma_desc_adjacent(): what it counts fits the array, the field and the   *)
(* page.                                                                    *)
LEMMA AdjacentBounds ==
  ASSUME desc \in Seq(Descs), NEW k \in 1..Len(desc)
  PROVE  /\ ExtraAdjacent(k) \in 0..MaxExtraAdj
         /\ k + 1 <= Len(desc) => k + 1 + ExtraAdjacent(k) <= Len(desc)
         /\ k + 1 <= Len(desc) => (k % DescsPerPage) + ExtraAdjacent(k) < DescsPerPage
<1>1. Len(desc) \in Nat /\ MaxExtraAdj \in Nat /\ DescsPerPage \in Nat \ {0}
  BY BuildTypes
<1>2. PICK r \in 0..(DescsPerPage - 1) : r = k % DescsPerPage
  BY <1>1
<1>3. CASE Len(desc) - k = 0
  BY <1>1, <1>2, <1>3 DEF ExtraAdjacent
<1>4. CASE Len(desc) - k # 0
  <2> DEFINE next == Len(desc) - k - 1
             free == DescsPerPage - r - 1
  <2>1. ExtraAdjacent(k) = Min({next, MaxExtraAdj, free})
    BY <1>2, <1>4 DEF ExtraAdjacent
  <2>2. next \in Nat /\ free \in Nat
    BY <1>1, <1>4
  <2> HIDE DEF next, free
  <2>3. PICK m \in Nat : /\ m = ExtraAdjacent(k)
                         /\ m <= next /\ m <= MaxExtraAdj /\ m <= free
    <3>1. next \in Int /\ MaxExtraAdj \in Int /\ free \in Int
      BY <1>1, <2>2
    <3>2. /\ ExtraAdjacent(k) \in {next, MaxExtraAdj, free}
          /\ ExtraAdjacent(k) <= next /\ ExtraAdjacent(k) <= MaxExtraAdj /\ ExtraAdjacent(k) <= free
      <4> DEFINE S == {next, MaxExtraAdj, free}
      <4>1. /\ Min(S) \in S
            /\ Min(S) <= next /\ Min(S) <= MaxExtraAdj /\ Min(S) <= free
        BY <3>1, MinOfThree
      <4>2. ExtraAdjacent(k) = Min(S)
        BY <2>1
      <4> HIDE DEF S
      <4>3. ExtraAdjacent(k) \in S
        BY <4>1, <4>2
      <4>4. QED  BY <4>1, <4>2, <4>3 DEF S
    <3>3. QED  BY <1>1, <2>2, <3>2
  <2>4. QED  BY <1>1, <1>2, <2>3 DEF next, free
<1>5. QED  BY <1>3, <1>4

(* The links are filled in afterwards and change nothing else.              *)
LEMMA FillKeeps ==
  ASSUME FillAdjacent, desc \in Seq(Descs)
  PROVE  /\ desc' \in Seq(Descs) /\ Len(desc') = Len(desc)
         /\ \A k \in 1..Len(desc) :
              /\ desc'[k].addr = desc[k].addr /\ desc'[k].len = desc[k].len
              /\ desc'[k].ep = desc[k].ep /\ desc'[k].extra_adj = ExtraAdjacent(k)
<1> DEFINE n == Len(desc)
<1>1. n \in Nat /\ \A k \in 1..n : desc[k] \in Descs
  OBVIOUS
<1>2. desc' = [k \in 1..n |-> [desc[k] EXCEPT !.extra_adj = ExtraAdjacent(k)]]
  BY DEF FillAdjacent
<1>3. \A k \in 1..n : ExtraAdjacent(k) \in 0..MaxExtraAdj
  BY AdjacentBounds
<1> HIDE DEF n
<1>4. \A k \in 1..n : desc'[k] = [desc[k] EXCEPT !.extra_adj = ExtraAdjacent(k)]
  BY <1>2
<1>5. ASSUME NEW k \in 1..n
      PROVE  /\ desc'[k] \in Descs
             /\ desc'[k].addr = desc[k].addr /\ desc'[k].len = desc[k].len
             /\ desc'[k].ep = desc[k].ep /\ desc'[k].extra_adj = ExtraAdjacent(k)
  <2>1. desc[k] \in Descs /\ ExtraAdjacent(k) \in 0..MaxExtraAdj
    BY <1>1, <1>3
  <2>2. desc'[k] = [desc[k] EXCEPT !.extra_adj = ExtraAdjacent(k)]
    BY <1>4
  <2>3. QED  BY <2>1, <2>2 DEF Descs
<1>6. desc' \in Seq(Descs)
  <2>1. desc' \in [1..n -> Descs]
    BY <1>2, <1>5
  <2>2. QED  BY <1>1, <2>1
<1>7. Len(desc') = n
  <2>1. desc' = [k \in 1..n |-> desc'[k]]
    BY <1>2
  <2>2. QED  BY <1>1, <2>1, LengthOfFunction
<1>8. QED  BY <1>5, <1>6, <1>7 DEF n

(* A transfer is created with a scatter list that covers it.                *)
LEMMA CreateCovers ==
  ASSUME RequestInv, LoopInv, TransferCreate
  PROVE  \E so : Covers(sgl', transfer_addr, transfer_len', so)
<1>1. /\ transfer_addr \in Nat /\ Share \in Nat \ {0}
      /\ transfer_addr + Share <= BufPages * PageSize
  BY ShareFits, BuildTypes DEF TransferCreate, LoopInv
<1>2. PICK E : E = UserPages(transfer_addr, Share)
  OBVIOUS
<1>3. \E o : Covers(E, transfer_addr, Share, o)
  BY <1>1, <1>2, PagesCover DEF RequestInv
<1>4. transfer_len' = Share /\ sgl' \in MapSg(E)
  BY <1>2 DEF TransferCreate, Share
<1>5. QED  BY <1>1, <1>3, <1>4, MergedCovers

LEMMA CollectedAlways ==
  /\ Init => Collected
  /\ RequestInv /\ LoopInv /\ Collected /\ [Next]_vars => Collected'
<1>1. ASSUME Init PROVE Collected
  BY <1>1 DEF Init, Collected
<1>2. ASSUME RequestInv, LoopInv, Collected, [Next]_vars PROVE Collected'
  <2>1. CASE CheckAlign
    BY <1>2, <2>1 DEF CheckAlign, Collected, mapVars, buildVars
  <2>2. CASE TransferCreate
    <3>1. PICK so : Covers(sgl', transfer_addr, transfer_len', so)
      BY <1>2, <2>2, CreateCovers
    <3>2. /\ Len(sgl') \in Nat \ {0} /\ DOMAIN sgl' = 1..Len(sgl')
          /\ \A k \in 1..Len(sgl') : sgl'[k].addr \in Nat /\ sgl'[k].len \in Nat \ {0}
      BY <3>1 DEF Covers
    <3>3. pos \in Nat
      BY <1>2, <2>2, ShareFits DEF TransferCreate, LoopInv
    <3>4. /\ desc' = << >> /\ at' = <<0>> /\ cont_len' = 0 /\ i' = 1
          /\ cont_addr' = sgl'[1].addr /\ ep_addr' = pos /\ 1 \in 1..Len(sgl')
      BY <2>2, <3>2 DEF TransferCreate
    <3>5. QED  BY <3>2, <3>3, <3>4 DEF Collected
  <2>3. CASE BuildEntry
    <3> DEFINE len == cont_len + sgl[i].len
               here == at[Len(at)]
    <3>1. /\ i \in 1..Len(sgl) /\ i + 1 \in 1..Len(sgl) /\ Len(desc) < i
          /\ len \in Nat /\ sgl[i + 1].addr \in Nat /\ Len(desc) \in Nat
          /\ pc = "build" /\ pc' = "build" /\ i' = i + 1 /\ sgl' = sgl /\ Len(at) \in Nat \ {0}
      <4>1. pc = "build" /\ pc' = "build" /\ i' = i + 1 /\ sgl' = sgl /\ i < Len(sgl)
        BY <2>3 DEF BuildEntry, mapVars
      <4>2. i \in 1..Len(sgl) /\ i + 1 \in 1..Len(sgl) /\ Len(desc) < i
        BY <1>2, <4>1 DEF Collected
      <4>3. sgl[i].len \in Nat /\ sgl[i + 1].addr \in Nat /\ cont_len \in Nat
        BY <1>2, <4>2 DEF Collected
      <4>4. Len(desc) \in Nat /\ Len(at) \in Nat \ {0}
        BY <1>2, <4>1 DEF Collected
      <4>5. QED  BY <4>1, <4>2, <4>3, <4>4
    <3>2. here \in Nat
      BY <1>2, <3>1 DEF Collected
    <3> HIDE DEF len, here
    <3>3. CASE NewDesc(len, ~Contiguous(sgl[i], sgl[i + 1]))
      <4>1. /\ desc' = Append(desc, Descriptor(len)) /\ ep_addr' = NextEp(len)
            /\ cont_addr' = sgl[i + 1].addr /\ cont_len' = 0 /\ at' = Append(at, here + len)
        BY <2>3, <3>3 DEF BuildEntry, len, here
      <4>2. Descriptor(len) \in Descs /\ NextEp(len) \in Nat /\ here + len \in Nat
        BY <1>2, <3>1, <3>2, BuildTypes DEF Collected, Descriptor, Descs, NextEp
      <4>3. desc' \in Seq(Descs) /\ Len(desc') = Len(desc) + 1
        BY <1>2, <4>1, <4>2 DEF Collected
      <4>4. at' \in Seq(Nat) /\ Len(at') # 0
        BY <1>2, <3>1, <4>1, <4>2 DEF Collected
      <4>5. QED  BY <1>2, <3>1, <4>1, <4>2, <4>3, <4>4 DEF Collected
    <3>4. CASE ~NewDesc(len, ~Contiguous(sgl[i], sgl[i + 1]))
      <4>1. /\ desc' = desc /\ ep_addr' = ep_addr /\ cont_addr' = cont_addr
            /\ cont_len' = len /\ at' = at
        BY <2>3, <3>4 DEF BuildEntry, len
      <4>2. QED  BY <1>2, <3>1, <4>1 DEF Collected
    <3>5. QED  BY <3>3, <3>4
  <2>4. CASE BuildLast
    <3>1. /\ i = Len(sgl) /\ Len(desc) < i /\ Len(desc) \in Nat /\ i \in 1..Len(sgl)
          /\ desc' = Append(desc, Descriptor(cont_len + sgl[i].len))
      BY <1>2, <2>4 DEF BuildLast, Collected
    <3>2. Descriptor(cont_len + sgl[i].len) \in Descs
      <4>1. cont_len + sgl[i].len \in Nat
        BY <1>2, <3>1 DEF Collected
      <4>2. QED  BY <1>2, <4>1, BuildTypes DEF Collected, Descriptor, Descs
    <3>3. desc' \in Seq(Descs) /\ Len(desc') = Len(desc) + 1
      BY <1>2, <3>1, <3>2 DEF Collected
    <3>4. QED  BY <1>2, <2>4, <3>1, <3>3 DEF BuildLast, Collected, mapVars
  <2>5. CASE FillAdjacent
    <3>1. desc' \in Seq(Descs) /\ Len(desc') = Len(desc)
      BY <1>2, <2>5, FillKeeps DEF Collected
    <3>2. QED  BY <1>2, <2>5, <3>1 DEF FillAdjacent, Collected, mapVars
  <2>6. CASE TransferDone
    BY <1>2, <2>6 DEF TransferDone, Collected, buildVars
  <2>7. CASE Return
    BY <1>2, <2>7 DEF Return, Collected, mapVars, buildVars
  <2>8. CASE UNCHANGED vars
    BY <1>2, <2>8 DEF Collected, vars, mapVars, buildVars
  <2>9. QED  BY <1>2, <2>1, <2>2, <2>3, <2>4, <2>5, <2>6, <2>7, <2>8 DEF Next
<1>3. QED  BY <1>1, <1>2

-----------------------------------------------------------------------------
(* The bus seen through a mapping m: one byte, one piece of the transfer,   *)
(* and a scatter list.                                                      *)
Place(m, x) == m[Page(x)] * PageSize + Offset(x)

Piece(m, a, l, x) == \A b \in 0..(l - 1) : a + b = Place(m, x + b)

Spans(m, sg, start, len, o) ==
  /\ Len(sg) \in Nat \ {0}
  /\ o[1] = 0 /\ o[Len(sg) + 1] = len
  /\ \A k \in 1..Len(sg) :
       /\ o[k] \in Nat /\ sg[k].addr \in Nat /\ sg[k].len \in Nat \ {0}
       /\ o[k + 1] = o[k] + sg[k].len /\ o[k + 1] <= len
       /\ k # 1 => (start + o[k]) % PageSize = 0
       /\ Piece(m, sg[k].addr, sg[k].len, start + o[k])

LEMMA CoversSpans ==
  ASSUME NEW sg, NEW start, NEW len, NEW o, Covers(sg, start, len, o)
  PROVE  Spans(bus_page, sg, start, len, o)
<1>1. ASSUME NEW k \in 1..Len(sg)
      PROVE  o[k] \in Nat /\ Piece(bus_page, sg[k].addr, sg[k].len, start + o[k])
  <2>1. \A b \in 0..(sg[k].len - 1) : sg[k].addr + b = Bus(start + o[k] + b)
    BY DEF Covers
  <2>2. \A b \in 0..(sg[k].len - 1) : Bus(start + o[k] + b) = Place(bus_page, start + o[k] + b)
    BY DEF Bus, Place
  <2>3. o[k] \in Nat
    BY DEF Covers
  <2>4. QED  BY <2>1, <2>2, <2>3 DEF Piece
<1>2. QED  BY <1>1 DEF Covers, Spans

(* Two pieces that meet on the bus and in the transfer are one.             *)
LEMMA PieceJoin ==
  ASSUME NEW m, NEW a \in Nat, NEW l \in Nat, NEW x \in Nat, NEW l2 \in Nat,
         Piece(m, a, l, x), Piece(m, a + l, l2, x + l)
  PROVE  Piece(m, a, l + l2, x)
<1> SUFFICES ASSUME NEW b \in 0..(l + l2 - 1) PROVE a + b = Place(m, x + b)
  BY DEF Piece
<1>1. CASE b < l
  <2>1. b \in 0..(l - 1)
    BY <1>1
  <2>2. QED  BY <2>1 DEF Piece
<1>2. CASE ~(b < l)
  <2>1. PICK c \in 0..(l2 - 1) : b = l + c
    <3>1. b - l \in 0..(l2 - 1) /\ b = l + (b - l)
      BY <1>2
    <3>2. QED  BY <3>1
  <2>2. (a + l) + c = Place(m, (x + l) + c)
    BY DEF Piece
  <2>3. (a + l) + c = a + b /\ (x + l) + c = x + b
    BY <2>1
  <2>4. QED  BY <2>2, <2>3
<1>3. QED  BY <1>1, <1>2

-----------------------------------------------------------------------------
(* The descriptors, and the block that is being collected: the descriptors  *)
(* lie behind each other in the transfer, the block behind them, and what   *)
(* is left of the scatter list behind the block.                            *)
Shift(x) == IF mode = "fixed" THEN 0 ELSE x

ChunksInv == Busy =>
  /\ Len(at) = Len(desc) + (IF pc = "build" THEN 1 ELSE 0)
  /\ \A k \in 1..Len(at) : at[k] = IF k = 1 THEN 0 ELSE at[k - 1] + desc[k - 1].len
  /\ \A k \in 1..Len(desc) :
       /\ Piece(bus_page, desc[k].addr, desc[k].len, transfer_addr + at[k])
       /\ desc[k].ep = pos + Shift(at[k])

Behind == at[Len(at)]

OpenInv == pc = "build" =>
  /\ ep_addr = pos + Shift(Behind)
  /\ cont_addr = Place(bus_page, transfer_addr + Behind)
  /\ Piece(bus_page, cont_addr, cont_len, transfer_addr + Behind)
  /\ cont_len <= MaxDescBytes - PageSize
  /\ Len(at) # 1 => (transfer_addr + Behind) % PageSize = 0
  /\ \E so : /\ Spans(bus_page, sgl, transfer_addr, transfer_len, so)
             /\ Behind + cont_len = so[i]
             /\ cont_addr + cont_len = sgl[i].addr

ClosedInv == pc \in {"adjacent", "queued"} =>
  Len(desc) # 0 /\ at[Len(desc)] + desc[Len(desc)].len = transfer_len

LinkInv == pc = "queued" => \A k \in 1..Len(desc) : desc[k].extra_adj = ExtraAdjacent(k)

SizeInv ==
  \A k \in 1..Len(desc) :
    /\ desc[k].len # 0
    /\ (\A j \in DOMAIN sgl : sgl[j].len <= PageSize) => desc[k].len <= MaxDescBytes

AlignInv == userspace =>
  \A k \in 1..Len(desc) :
    /\ mode \in {"stream", "fixed"} => desc[k].addr % AddrAlign = 0
    /\ mode = "fixed" => desc[k].ep % AddrAlign = 0
    /\ mode = "memory" => desc[k].addr % AddrAlign = desc[k].ep % AddrAlign

BuildInv ==
  /\ RequestInv /\ LoopInv /\ Collected
  /\ ChunksInv /\ OpenInv /\ ClosedInv /\ LinkInv /\ SizeInv /\ AlignInv

(* The block with entry i: one piece, which the next entry follows, and     *)
(* not too long for a descriptor.                                           *)
LEMMA OpenBlock ==
  ASSUME Collected, LoopInv, RequestInv, OpenInv, pc = "build",
         NEW len, len = cont_len + sgl[i].len
  PROVE  /\ len \in Nat \ {0} /\ Behind \in Nat /\ transfer_addr \in Nat /\ pos \in Nat
         /\ Piece(bus_page, cont_addr, len, transfer_addr + Behind)
         /\ sgl[i].len <= PageSize => len <= MaxDescBytes
         /\ Behind + len <= transfer_len
         /\ i = Len(sgl) => Behind + len = transfer_len
         /\ \E so : /\ Spans(bus_page, sgl, transfer_addr, transfer_len, so)
                    /\ Behind + len = so[i + 1]
                    /\ i < Len(sgl) => /\ sgl[i + 1].addr = Place(bus_page, transfer_addr + (Behind + len))
                                       /\ (transfer_addr + (Behind + len)) % PageSize = 0
                    /\ i < Len(sgl) /\ Contiguous(sgl[i], sgl[i + 1]) => cont_addr + len = sgl[i + 1].addr
<1>1. PICK so : /\ Spans(bus_page, sgl, transfer_addr, transfer_len, so)
                /\ Behind + cont_len = so[i]
                /\ cont_addr + cont_len = sgl[i].addr
  BY DEF OpenInv
<1>2. PICK n \in Nat : n = Len(sgl) /\ i \in 1..n
  <2>1. Len(sgl) \in Nat /\ i \in 1..(Len(sgl) + 1) /\ i <= Len(sgl)
    BY DEF Collected
  <2>2. i \in 1..Len(sgl)
    BY <2>1
  <2>3. QED  BY <2>1, <2>2
<1>3. transfer_addr \in Nat /\ pos \in Nat
  BY ShareFits DEF LoopInv, Busy
<1>4. Behind \in Nat /\ cont_len \in Nat /\ cont_addr \in Nat
  BY DEF Collected, Behind
<1>5. /\ so[i + 1] = so[i] + sgl[i].len /\ so[i + 1] <= transfer_len /\ so[n + 1] = transfer_len
      /\ so[i] \in Nat /\ sgl[i].len \in Nat \ {0} /\ sgl[i].addr \in Nat
      /\ Piece(bus_page, sgl[i].addr, sgl[i].len, transfer_addr + so[i])
  BY <1>1, <1>2 DEF Spans
<1>6. PICK l2 \in Nat \ {0} : l2 = sgl[i].len
  BY <1>5
<1>7. len = cont_len + l2 /\ len \in Nat \ {0} /\ Behind + len = so[i + 1]
  BY <1>1, <1>4, <1>5, <1>6
<1>8. Piece(bus_page, cont_addr, len, transfer_addr + Behind)
  <2>1. Piece(bus_page, cont_addr, cont_len, transfer_addr + Behind)
    BY DEF OpenInv
  <2>2. transfer_addr + so[i] = (transfer_addr + Behind) + cont_len /\ transfer_addr + Behind \in Nat
    BY <1>1, <1>3, <1>4, <1>5
  <2>3. Piece(bus_page, cont_addr + cont_len, l2, (transfer_addr + Behind) + cont_len)
    BY <1>1, <1>5, <1>6, <2>2
  <2>4. QED  BY <1>4, <1>7, <2>1, <2>2, <2>3, PieceJoin
<1>9. sgl[i].len <= PageSize => len <= MaxDescBytes
  <2>1. cont_len <= MaxDescBytes - PageSize
    BY DEF OpenInv
  <2>2. QED  BY <1>4, <1>6, <1>7, <2>1, BuildTypes
<1>10. Behind + len <= transfer_len /\ (i = Len(sgl) => Behind + len = transfer_len)
  BY <1>2, <1>5, <1>7
<1>11. ASSUME i < Len(sgl)
       PROVE  /\ sgl[i + 1].addr = Place(bus_page, transfer_addr + (Behind + len))
              /\ (transfer_addr + (Behind + len)) % PageSize = 0
              /\ Contiguous(sgl[i], sgl[i + 1]) => cont_addr + len = sgl[i + 1].addr
  <2>1. i + 1 \in 1..n /\ i + 1 # 1
    BY <1>2, <1>11
  <2>2. /\ (transfer_addr + so[i + 1]) % PageSize = 0
        /\ sgl[i + 1].addr \in Nat /\ sgl[i + 1].len \in Nat \ {0}
        /\ Piece(bus_page, sgl[i + 1].addr, sgl[i + 1].len, transfer_addr + so[i + 1])
    BY <1>1, <1>2, <2>1 DEF Spans
  <2>3. 0 \in 0..(sgl[i + 1].len - 1)
    BY <2>2
  <2>4. sgl[i + 1].addr + 0 = Place(bus_page, (transfer_addr + so[i + 1]) + 0)
    BY <2>2, <2>3 DEF Piece
  <2>5. (transfer_addr + (Behind + len)) + 0 = transfer_addr + (Behind + len)
    BY <1>3, <1>4, <1>7
  <2>6. sgl[i + 1].addr = Place(bus_page, transfer_addr + (Behind + len))
    BY <1>7, <2>2, <2>4, <2>5
  <2>7. Contiguous(sgl[i], sgl[i + 1]) => cont_addr + len = sgl[i + 1].addr
    BY <1>1, <1>4, <1>6, <1>7 DEF Contiguous
  <2>8. QED  BY <1>7, <2>2, <2>6, <2>7
<1>12. QED  BY <1>1, <1>3, <1>4, <1>7, <1>8, <1>9, <1>10, <1>11

(* The bus keeps the alignment, as a page is aligned.                       *)
LEMMA PlaceAligned ==
  ASSUME BusOK, NEW x \in Nat, x < BufPages * PageSize
  PROVE  Place(bus_page, x) % AddrAlign = x % AddrAlign
<1>1. PageSize \in Nat \ {0} /\ AddrAlign \in Nat \ {0} /\ BufPages \in Nat
  BY BuildTypes
<1>2. PICK d \in Nat, r \in 0..(PageSize - 1) :
        x = d * PageSize + r /\ x \div PageSize = d /\ x % PageSize = r
  BY <1>1, DivMod
<1>3. d < BufPages
  BY <1>1, <1>2, DivOrder
<1>4. PICK b \in Nat : b = bus_page[d]
  <2>1. d \in 0..(BufPages - 1)
    BY <1>1, <1>3
  <2>2. QED  BY <2>1, BuildTypes DEF BusOK
<1>5. PICK g \in Nat : PageSize = g * AddrAlign
  <2>1. PageSize \in Nat /\ PageSize % AddrAlign = 0
    BY BuildTypes
  <2>2. QED  BY <1>1, <2>1, Multiple
<1>6. PICK u \in Nat, v \in Nat : u = d * g /\ v = b * g
  <2>1. d * g \in Nat
    BY <1>2, <1>5
  <2>2. b * g \in Nat
    BY <1>4, <1>5
  <2>3. QED  BY <2>1, <2>2
<1>7. d * PageSize = u * AddrAlign /\ b * PageSize = v * AddrAlign
  BY <1>1, <1>4, <1>5, <1>6
<1>8. x = r + u * AddrAlign
  BY <1>1, <1>2, <1>6, <1>7
<1>9. Place(bus_page, x) = r + v * AddrAlign
  <2>1. Place(bus_page, x) = b * PageSize + r
    BY <1>2, <1>4 DEF Place, Page, Offset
  <2>2. v * AddrAlign \in Nat
    BY <1>1, <1>6
  <2>3. QED  BY <1>7, <2>1, <2>2
<1>10. r \in Nat
  BY <1>1
<1>11. (r + u * AddrAlign) % AddrAlign = r % AddrAlign
  BY <1>1, <1>10, ModShift
<1>12. (r + v * AddrAlign) % AddrAlign = r % AddrAlign
  BY <1>1, <1>10, ModShift
<1>13. QED  BY <1>8, <1>9, <1>11, <1>12

(* A page boundary is aligned.                                              *)
LEMMA PagesAligned ==
  ASSUME NEW x \in Nat, x % PageSize = 0
  PROVE  x % AddrAlign = 0
<1>1. PageSize \in Nat \ {0} /\ AddrAlign \in Nat \ {0}
  BY BuildTypes
<1>2. PICK d \in Nat : x = d * PageSize
  BY <1>1, Multiple
<1>3. PICK g \in Nat : PageSize = g * AddrAlign
  <2>1. PageSize \in Nat /\ PageSize % AddrAlign = 0
    BY BuildTypes
  <2>2. QED  BY <1>1, <2>1, Multiple
<1>4. PICK u \in Nat : u = d * g
  <2>1. d * g \in Nat
    BY <1>2, <1>3
  <2>2. QED  BY <2>1
<1>5. x = u * AddrAlign
  BY <1>1, <1>2, <1>3, <1>4
<1>6. QED  BY <1>1, <1>5, Multiple

(* The block is aligned as check_transfer_align() asked of the request.     *)
LEMMA BlockAligned ==
  ASSUME Collected, LoopInv, RequestInv, OpenInv, ChunksInv, pc = "build", userspace
  PROVE  /\ mode \in {"stream", "fixed"} => cont_addr % AddrAlign = 0
         /\ mode = "fixed" => ep_addr % AddrAlign = 0
         /\ mode = "memory" => cont_addr % AddrAlign = ep_addr % AddrAlign
<1> DEFINE before == count - remaining
           x == transfer_addr + Behind
<1>1. /\ buf \in Nat /\ start_pos \in Nat /\ before \in Nat /\ Behind \in Nat
      /\ transfer_addr = buf + before /\ pos = start_pos + before
      /\ before % PageSize = 0 /\ TransferAligned
  <2>1. Behind \in Nat
    BY DEF Collected, Behind
  <2>2. count \in Nat /\ remaining \in 0..count /\ remaining # 0
    BY DEF RequestInv, LoopInv, Busy
  <2>3. QED  BY <2>1, <2>2 DEF RequestInv, LoopInv
<1> HIDE DEF before
<1>2. x \in Nat /\ x < BufPages * PageSize
  <2>1. PICK len : len = cont_len + sgl[i].len
    OBVIOUS
  <2>2. len \in Nat \ {0} /\ Behind + len <= transfer_len
    BY <2>1, OpenBlock
  <2>3. transfer_len = Share /\ transfer_addr + Share <= BufPages * PageSize /\ Share \in Nat
    BY ShareFits DEF LoopInv, Busy
  <2>4. PICK room \in Nat : room = BufPages * PageSize
    BY BuildTypes
  <2>5. QED  BY <1>1, <2>2, <2>3, <2>4
<1>3. cont_addr % AddrAlign = x % AddrAlign
  <2>1. cont_addr = Place(bus_page, x)
    BY DEF OpenInv
  <2>2. Place(bus_page, x) % AddrAlign = x % AddrAlign
    BY <1>2, PlaceAligned DEF RequestInv
  <2>3. QED  BY <2>1, <2>2
<1>4. ASSUME NEW a \in Nat PROVE (a + before) % AddrAlign = a % AddrAlign
  <2>1. before % AddrAlign = 0
    BY <1>1, PagesAligned
  <2>2. AddrAlign \in Nat \ {0}
    BY BuildTypes
  <2>3. PICK d \in Nat : before = d * AddrAlign
    BY <1>1, <2>1, <2>2, Multiple
  <2>4. (a + d * AddrAlign) % AddrAlign = a % AddrAlign
    BY <2>2, ModShift
  <2>5. QED  BY <2>3, <2>4
<1>5. CASE mode \in {"stream", "fixed"}
  <2>1. buf % AddrAlign = 0
    BY <1>1, <1>5 DEF TransferAligned, LengthAligned
  <2>2. x % AddrAlign = 0
    <3>1. CASE Len(at) = 1
      <4>1. Behind = 0
        BY <3>1 DEF Behind, ChunksInv, Busy
      <4>2. x = buf + before
        BY <1>1, <4>1
      <4>3. QED  BY <1>1, <1>4, <2>1, <4>2
    <3>2. CASE Len(at) # 1
      <4>1. x % PageSize = 0
        BY <3>2 DEF OpenInv
      <4>2. QED  BY <1>2, <4>1, PagesAligned
    <3>3. QED  BY <3>1, <3>2
  <2>3. mode = "fixed" => ep_addr % AddrAlign = 0
    <3>1. SUFFICES ASSUME mode = "fixed" PROVE ep_addr % AddrAlign = 0
      OBVIOUS
    <3>2. start_pos % AddrAlign = 0
      BY <1>1, <3>1 DEF TransferAligned
    <3>3. ep_addr = start_pos + before
      BY <1>1, <3>1 DEF OpenInv, Shift
    <3>4. QED  BY <1>1, <1>4, <3>2, <3>3
  <2>4. QED  BY <1>3, <1>5, <2>2, <2>3
<1>6. CASE mode = "memory"
  <2>1. buf % AddrAlign = start_pos % AddrAlign
    BY <1>1, <1>6 DEF TransferAligned
  <2>2. PICK c \in Nat : c = before + Behind
    BY <1>1
  <2>3. (buf + c) % AddrAlign = (start_pos + c) % AddrAlign
    <3>1. AddrAlign \in Nat \ {0}
      BY BuildTypes
    <3>2. buf \in Nat /\ start_pos \in Nat
      BY <1>1
    <3>3. QED  BY <2>1, <3>1, <3>2, ModAdd, ZenonT(30)
  <2>4. x = buf + c
    BY <1>1, <2>2
  <2>5. ep_addr = start_pos + c
    BY <1>1, <1>6, <2>2 DEF OpenInv, Shift
  <2>6. QED  BY <1>3, <1>6, <2>3, <2>4, <2>5
<1>7. QED  BY <1>5, <1>6 DEF RequestInv

-----------------------------------------------------------------------------
(* A descriptor that leaves the channel's rules at no entry: the step that  *)
(* ends a block appends one.                                                *)
LEMMA AppendKeeps ==
  ASSUME Collected, RequestInv, LoopInv, ChunksInv, OpenInv, SizeInv, AlignInv, pc = "build",
         NEW len, len = cont_len + sgl[i].len,
         desc' = Append(desc, Descriptor(len)), UNCHANGED <<requestVars, sgl>>
  PROVE  /\ Len(desc') = Len(desc) + 1 /\ Len(desc) \in Nat /\ Len(at) = Len(desc) + 1
         /\ \A k \in 1..Len(desc) : desc'[k] = desc[k]
         /\ /\ desc'[Len(desc) + 1].addr = cont_addr /\ desc'[Len(desc) + 1].len = len
            /\ desc'[Len(desc) + 1].ep = ep_addr
         /\ SizeInv' /\ AlignInv'
<1>1. PICK n \in Nat : n = Len(desc)
  BY DEF Collected
<1>2. Len(at) = n + 1
  BY <1>1 DEF ChunksInv, Busy
<1>3. len \in Nat \ {0} /\ (sgl[i].len <= PageSize => len <= MaxDescBytes)
  BY OpenBlock
<1>4. Descriptor(len) \in Descs
  BY <1>3, BuildTypes DEF Collected, Descriptor, Descs
<1>5. desc' = Append(desc, Descriptor(len)) /\ desc \in Seq(Descs)
  BY DEF Collected
<1>6. Len(desc') = n + 1 /\ \A k \in 1..n : desc'[k] = desc[k]
  BY <1>1, <1>4, <1>5
<1>7. desc'[n + 1] = Descriptor(len)
  BY <1>1, <1>4, <1>5
<1>8. desc'[n + 1].addr = cont_addr /\ desc'[n + 1].len = len /\ desc'[n + 1].ep = ep_addr
  <2>1. Descriptor(len).addr = cont_addr /\ Descriptor(len).len = len /\ Descriptor(len).ep = ep_addr
    BY DEF Descriptor
  <2>2. QED  BY <1>7, <2>1
<1>9. \A k \in 1..Len(desc') : k \in 1..n \/ k = n + 1
  BY <1>6
<1>10. SizeInv'
  <2>1. i \in DOMAIN sgl
    BY DEF Collected
  <2>2. SUFFICES ASSUME NEW k \in 1..Len(desc')
                 PROVE  /\ desc'[k].len # 0
                        /\ (\A j \in DOMAIN sgl : sgl[j].len <= PageSize) => desc'[k].len <= MaxDescBytes
    BY DEF SizeInv
  <2>3. CASE k \in 1..n
    BY <1>1, <1>6, <2>3 DEF SizeInv
  <2>4. CASE k = n + 1
    BY <1>3, <1>8, <2>1, <2>4
  <2>5. QED  BY <1>9, <2>3, <2>4
<1>11. AlignInv'
  <2>1. SUFFICES ASSUME userspace, NEW k \in 1..Len(desc')
                 PROVE  /\ mode \in {"stream", "fixed"} => desc'[k].addr % AddrAlign = 0
                        /\ mode = "fixed" => desc'[k].ep % AddrAlign = 0
                        /\ mode = "memory" => desc'[k].addr % AddrAlign = desc'[k].ep % AddrAlign
    BY DEF AlignInv, requestVars
  <2>2. CASE k \in 1..n
    BY <1>1, <1>6, <2>1, <2>2 DEF AlignInv
  <2>3. CASE k = n + 1
    BY <1>8, <2>1, <2>3, BlockAligned
  <2>4. QED  BY <1>9, <2>2, <2>3
<1>12. QED  BY <1>1, <1>2, <1>6, <1>8, <1>10, <1>11

(* Steps that leave the scatter list and the descriptors of a transfer.     *)
LEMMA ChunksFramed ==
  ASSUME ChunksInv, Busy, pc' = pc, bus_page' = bus_page, transfer_addr' = transfer_addr, pos' = pos,
         mode' = mode, desc' = desc, at' = at
  PROVE  ChunksInv'
BY DEF ChunksInv, Busy, Shift

LEMMA EntryStep ==
  ASSUME BuildInv, BuildEntry
  PROVE  ChunksInv' /\ OpenInv' /\ SizeInv' /\ AlignInv'
<1> USE DEF BuildInv
<1> DEFINE len == cont_len + sgl[i].len
<1>1. /\ pc = "build" /\ pc' = "build" /\ i' = i + 1 /\ i < Len(sgl) /\ Busy
      /\ bus_page' = bus_page /\ mode' = mode /\ userspace' = userspace /\ UNCHANGED requestVars
      /\ transfer_addr' = transfer_addr /\ pos' = pos /\ transfer_len' = transfer_len /\ sgl' = sgl
  BY DEF BuildEntry, requestVars, loopVars, mapVars, Busy
<1>2. /\ len \in Nat \ {0} /\ Behind \in Nat /\ transfer_addr \in Nat /\ pos \in Nat
      /\ Piece(bus_page, cont_addr, len, transfer_addr + Behind)
  BY <1>1, OpenBlock
<1>3. PICK so : /\ Spans(bus_page, sgl, transfer_addr, transfer_len, so)
                /\ Behind + len = so[i + 1]
                /\ sgl[i + 1].addr = Place(bus_page, transfer_addr + (Behind + len))
                /\ (transfer_addr + (Behind + len)) % PageSize = 0
                /\ Contiguous(sgl[i], sgl[i + 1]) => cont_addr + len = sgl[i + 1].addr
  BY <1>1, OpenBlock
<1>4. sgl[i + 1].addr \in Nat
  <2>1. i + 1 \in 1..Len(sgl)
    BY <1>1 DEF Collected
  <2>2. QED  BY <2>1 DEF Collected
<1>5. Len(desc) \in Nat /\ Len(at) = Len(desc) + 1 /\ at \in Seq(Nat) /\ desc \in Seq(Descs)
      /\ ep_addr \in Nat /\ cont_addr \in Nat
  BY <1>1 DEF Collected, ChunksInv
<1>6. ep_addr = pos + Shift(Behind)
  BY <1>1 DEF OpenInv
<1>7. CASE NewDesc(len, ~Contiguous(sgl[i], sgl[i + 1]))
  <2>1. /\ desc' = Append(desc, Descriptor(len)) /\ ep_addr' = NextEp(len)
        /\ cont_addr' = sgl[i + 1].addr /\ cont_len' = 0 /\ at' = Append(at, Behind + len)
    BY <1>7 DEF BuildEntry, Behind
  <2> HIDE DEF len
  <2>2. /\ Len(desc') = Len(desc) + 1
        /\ \A k \in 1..Len(desc) : desc'[k] = desc[k]
        /\ desc'[Len(desc) + 1].addr = cont_addr /\ desc'[Len(desc) + 1].len = len
        /\ desc'[Len(desc) + 1].ep = ep_addr
        /\ SizeInv' /\ AlignInv'
    BY <1>1, <2>1, AppendKeeps DEF len
  <2>3. /\ Behind + len \in Nat /\ Len(at') = Len(at) + 1
        /\ \A k \in 1..Len(at) : at'[k] = at[k]
        /\ at'[Len(at) + 1] = Behind + len
    <3>1. Behind + len \in Nat
      BY <1>2
    <3>2. QED  BY <1>5, <2>1, <3>1
  <2>4. Behind' = Behind + len
    BY <2>3 DEF Behind
  <2>5. PICK n \in Nat : n = Len(desc) /\ Len(at) = n + 1 /\ Len(desc') = n + 1 /\ Len(at') = (n + 1) + 1
    BY <1>5, <2>2, <2>3
  <2>6. Behind = at[n + 1]
    BY <2>5 DEF Behind
  <2>7. ChunksInv'
    <3>1. ASSUME NEW k \in 1..Len(at')
          PROVE  at'[k] = IF k = 1 THEN 0 ELSE at'[k - 1] + desc'[k - 1].len
      <4>1. CASE k \in 1..(n + 1)
        <5>1. at'[k] = at[k] /\ at[k] = IF k = 1 THEN 0 ELSE at[k - 1] + desc[k - 1].len
          BY <1>1, <2>3, <2>5, <4>1 DEF ChunksInv
        <5>2. k # 1 => k - 1 \in 1..Len(at) /\ k - 1 \in 1..Len(desc)
          BY <2>5, <4>1
        <5>3. k # 1 => at'[k - 1] = at[k - 1] /\ desc'[k - 1] = desc[k - 1]
          BY <2>2, <2>3, <5>2
        <5>4. QED  BY <5>1, <5>3
      <4>2. CASE k = (n + 1) + 1
        <5>1. k # 1 /\ k - 1 = n + 1 /\ n + 1 \in 1..Len(at)
          BY <2>5, <4>2
        <5>2. at'[k - 1] = Behind /\ desc'[k - 1].len = len /\ at'[k] = Behind + len
          BY <2>2, <2>3, <2>5, <2>6, <4>2, <5>1
        <5>3. QED  BY <5>1, <5>2
      <4>3. QED  BY <2>5, <4>1, <4>2
    <3>2. ASSUME NEW k \in 1..Len(desc')
          PROVE  /\ Piece(bus_page, desc'[k].addr, desc'[k].len, transfer_addr + at'[k])
                 /\ desc'[k].ep = pos + Shift(at'[k])
      <4>1. k \in 1..Len(at) /\ at'[k] = at[k]
        BY <2>3, <2>5
      <4>2. CASE k \in 1..n
        BY <1>1, <2>2, <2>5, <4>1, <4>2 DEF ChunksInv
      <4>3. CASE k = n + 1
        <5>1. desc'[k].addr = cont_addr /\ desc'[k].len = len /\ desc'[k].ep = ep_addr /\ at'[k] = Behind
          BY <2>2, <2>5, <2>6, <4>1, <4>3
        <5>2. Piece(bus_page, cont_addr, len, transfer_addr + Behind)
          BY <1>2 DEF len
        <5>3. QED  BY <1>6, <5>1, <5>2
      <4>4. QED  BY <2>5, <4>2, <4>3
    <3>3. QED  BY <1>1, <2>5, <3>1, <3>2 DEF ChunksInv, Busy, Shift
  <2>8. OpenInv'
    <3>1. ep_addr' = pos + Shift(Behind + len)
      <4>1. CASE mode = "fixed"
        <5>1. userspace
          BY <4>1 DEF RequestInv
        <5>2. QED  BY <1>6, <2>1, <4>1, <5>1 DEF NextEp, Shift
      <4>2. CASE mode # "fixed"
        BY <1>2, <1>6, <2>1, <4>2 DEF NextEp, Shift, len
      <4>3. QED  BY <4>1, <4>2
    <3>2. Piece(bus_page, cont_addr', 0, transfer_addr + (Behind + len))
      BY DEF Piece
    <3>3. Behind + len + 0 = so[i + 1] /\ cont_addr' + 0 = sgl[i + 1].addr
      BY <1>2, <1>3, <1>4, <2>1 DEF len
    <3>4. 0 <= MaxDescBytes - PageSize
      BY BuildTypes
    <3>5. cont_addr' = Place(bus_page, transfer_addr + (Behind + len))
      BY <1>3, <2>1 DEF len
    <3>6. (transfer_addr + (Behind + len)) % PageSize = 0
      BY <1>3 DEF len
    <3>7. QED
      BY <1>1, <1>3, <2>1, <2>4, <3>1, <3>2, <3>3, <3>4, <3>5, <3>6 DEF OpenInv, Shift
  <2>9. QED  BY <2>2, <2>7, <2>8
<1>8. CASE ~NewDesc(len, ~Contiguous(sgl[i], sgl[i + 1]))
  <2>1. /\ desc' = desc /\ ep_addr' = ep_addr /\ cont_addr' = cont_addr /\ cont_len' = len /\ at' = at
    BY <1>8 DEF BuildEntry
  <2>2. len <= MaxDescBytes - PageSize /\ Contiguous(sgl[i], sgl[i + 1])
    BY <1>2, <1>8, BuildTypes DEF NewDesc
  <2>3. Behind' = Behind
    BY <2>1 DEF Behind
  <2>4. ChunksInv'
    BY <1>1, <2>1, ChunksFramed
  <2>5. OpenInv'
    BY <1>1, <1>2, <1>3, <2>1, <2>2, <2>3 DEF OpenInv, Shift
  <2>6. SizeInv' /\ AlignInv'
    BY <1>1, <2>1 DEF SizeInv, AlignInv
  <2>7. QED  BY <2>4, <2>5, <2>6
<1>9. QED  BY <1>7, <1>8

LEMMA LastStep ==
  ASSUME BuildInv, BuildLast
  PROVE  ChunksInv' /\ ClosedInv' /\ SizeInv' /\ AlignInv'
<1> USE DEF BuildInv
<1> DEFINE len == cont_len + sgl[i].len
<1>1. /\ pc = "build" /\ pc' = "adjacent" /\ i = Len(sgl) /\ at' = at
      /\ desc' = Append(desc, Descriptor(len))
      /\ bus_page' = bus_page /\ mode' = mode /\ UNCHANGED requestVars
      /\ transfer_addr' = transfer_addr /\ pos' = pos /\ transfer_len' = transfer_len /\ sgl' = sgl
  BY DEF BuildLast, requestVars, loopVars, mapVars
<1>2. /\ Piece(bus_page, cont_addr, len, transfer_addr + Behind)
      /\ Behind + len = transfer_len
  BY <1>1, OpenBlock
<1>3. ep_addr = pos + Shift(Behind)
  BY <1>1 DEF OpenInv
<1> HIDE DEF len
<1>4. /\ Len(desc') = Len(desc) + 1 /\ Len(desc) \in Nat /\ Len(at) = Len(desc) + 1
      /\ \A k \in 1..Len(desc) : desc'[k] = desc[k]
      /\ desc'[Len(desc) + 1].addr = cont_addr /\ desc'[Len(desc) + 1].len = len
      /\ desc'[Len(desc) + 1].ep = ep_addr
      /\ SizeInv' /\ AlignInv'
  BY <1>1, AppendKeeps DEF len
<1>5. PICK n \in Nat : n = Len(desc) /\ Len(at) = n + 1 /\ Len(desc') = n + 1
  BY <1>4
<1>6. Behind = at[n + 1]
  BY <1>5 DEF Behind
<1>7. ChunksInv'
  <2>1. ASSUME NEW k \in 1..Len(at)
        PROVE  at[k] = IF k = 1 THEN 0 ELSE at[k - 1] + desc'[k - 1].len
    <3>1. at[k] = IF k = 1 THEN 0 ELSE at[k - 1] + desc[k - 1].len
      BY <1>1 DEF ChunksInv, Busy
    <3>2. k # 1 => desc'[k - 1] = desc[k - 1]
      BY <1>4, <1>5
    <3>3. QED  BY <3>1, <3>2
  <2>2. ASSUME NEW k \in 1..Len(desc')
        PROVE  /\ Piece(bus_page, desc'[k].addr, desc'[k].len, transfer_addr + at[k])
               /\ desc'[k].ep = pos + Shift(at[k])
    <3>1. CASE k \in 1..n
      BY <1>1, <1>4, <1>5, <3>1 DEF ChunksInv, Busy
    <3>2. CASE k = n + 1
      BY <1>2, <1>3, <1>4, <1>5, <1>6, <3>2
    <3>3. QED  BY <1>5, <3>1, <3>2
  <2>3. QED  BY <1>1, <1>5, <2>1, <2>2 DEF ChunksInv, Busy, Shift
<1>8. ClosedInv'
  BY <1>1, <1>2, <1>4, <1>5, <1>6 DEF ClosedInv
<1>9. QED  BY <1>4, <1>7, <1>8

LEMMA FillStep ==
  ASSUME BuildInv, FillAdjacent
  PROVE  ChunksInv' /\ ClosedInv' /\ LinkInv' /\ SizeInv' /\ AlignInv'
<1> USE DEF BuildInv
<1>1. /\ pc = "adjacent" /\ pc' = "queued" /\ at' = at
      /\ bus_page' = bus_page /\ mode' = mode /\ userspace' = userspace
      /\ transfer_addr' = transfer_addr /\ pos' = pos /\ transfer_len' = transfer_len /\ sgl' = sgl
  BY DEF FillAdjacent, requestVars, loopVars, mapVars
<1>2. PICK n \in Nat : n = Len(desc) /\ Len(desc') = n /\ Len(at) = n /\ n # 0
  BY <1>1, FillKeeps DEF Collected, ChunksInv, ClosedInv, Busy
<1>3. \A k \in 1..n :
        /\ desc'[k].addr = desc[k].addr /\ desc'[k].len = desc[k].len
        /\ desc'[k].ep = desc[k].ep /\ desc'[k].extra_adj = ExtraAdjacent(k)
  BY <1>2, FillKeeps DEF Collected
<1>4. ChunksInv'
  <2>1. ASSUME NEW k \in 1..n
        PROVE  at[k] = IF k = 1 THEN 0 ELSE at[k - 1] + desc'[k - 1].len
    <3>1. at[k] = IF k = 1 THEN 0 ELSE at[k - 1] + desc[k - 1].len
      BY <1>1, <1>2 DEF ChunksInv, Busy
    <3>2. k # 1 => k - 1 \in 1..n
      BY <1>2
    <3>3. QED  BY <1>3, <3>1, <3>2
  <2>2. ASSUME NEW k \in 1..n
        PROVE  /\ Piece(bus_page, desc'[k].addr, desc'[k].len, transfer_addr + at[k])
               /\ desc'[k].ep = pos + Shift(at[k])
    BY <1>1, <1>2, <1>3 DEF ChunksInv, Busy
  <2>3. QED  BY <1>1, <1>2, <2>1, <2>2 DEF ChunksInv, Busy, Shift
<1>5. ClosedInv'
  BY <1>1, <1>2, <1>3 DEF ClosedInv
<1>6. LinkInv'
  <2>1. \A k \in 1..n : ExtraAdjacent(k)' = ExtraAdjacent(k)
    BY <1>2 DEF ExtraAdjacent
  <2>2. QED  BY <1>2, <1>3, <2>1 DEF LinkInv
<1>7. SizeInv' /\ AlignInv'
  BY <1>1, <1>2, <1>3 DEF SizeInv, AlignInv
<1>8. QED  BY <1>4, <1>5, <1>6, <1>7

LEMMA CreateStep ==
  ASSUME BuildInv, TransferCreate
  PROVE  ChunksInv' /\ OpenInv'
<1> USE DEF BuildInv
<1>1. /\ pc' = "build" /\ i' = 1 /\ cont_addr' = sgl'[1].addr /\ cont_len' = 0 /\ ep_addr' = pos
      /\ desc' = << >> /\ at' = <<0>>
      /\ bus_page' = bus_page /\ mode' = mode /\ transfer_addr' = transfer_addr /\ pos' = pos
  BY DEF TransferCreate, requestVars, loopVars
<1>2. transfer_addr \in Nat /\ pos \in Nat
  BY ShareFits DEF TransferCreate, LoopInv
<1>3. PICK so : Covers(sgl', transfer_addr, transfer_len', so)
  BY CreateCovers
<1>4. Spans(bus_page, sgl', transfer_addr, transfer_len', so)
  BY <1>3, CoversSpans
<1>5. /\ so[1] = 0 /\ sgl'[1].addr \in Nat /\ sgl'[1].len \in Nat \ {0}
      /\ Piece(bus_page, sgl'[1].addr, sgl'[1].len, transfer_addr + so[1])
  <2>1. 1 \in 1..Len(sgl')
    BY <1>4 DEF Spans
  <2>2. QED  BY <1>4, <2>1 DEF Spans
<1>6. Len(at') = 1 /\ Behind' = 0 /\ Len(desc') = 0
  BY <1>1 DEF Behind
<1>7. ChunksInv'
  BY <1>1, <1>6 DEF ChunksInv
<1>8. OpenInv'
  <2>1. 0 \in 0..(sgl'[1].len - 1)
    BY <1>5
  <2>2. sgl'[1].addr + 0 = Place(bus_page, (transfer_addr + so[1]) + 0)
    BY <1>5, <2>1 DEF Piece
  <2>3. sgl'[1].addr = Place(bus_page, transfer_addr + 0)
    BY <1>2, <1>5, <2>2
  <2>4. Piece(bus_page, cont_addr', 0, transfer_addr + 0)
    BY DEF Piece
  <2>5. pos + Shift(0) = pos
    BY <1>2 DEF Shift
  <2>6. 0 <= MaxDescBytes - PageSize
    BY BuildTypes
  <2>7. 0 + 0 = so[1] /\ cont_addr' + 0 = sgl'[1].addr
    BY <1>1, <1>5
  <2>8. QED  BY <1>1, <1>4, <1>6, <2>3, <2>4, <2>5, <2>6, <2>7 DEF OpenInv, Shift
<1>9. QED  BY <1>7, <1>8

LEMMA BuildInvariant ==
  /\ Init => BuildInv
  /\ BuildInv /\ [Next]_vars => BuildInv'
<1>1. ASSUME Init PROVE BuildInv
  <2>1. RequestInv /\ LoopInv /\ Collected
    BY <1>1, RequestLoop, CollectedAlways
  <2>2. pc = "check" /\ Len(desc) = 0
    BY <1>1 DEF Init
  <2>3. ChunksInv /\ OpenInv /\ ClosedInv /\ LinkInv
    BY <2>2 DEF ChunksInv, OpenInv, ClosedInv, LinkInv, Busy
  <2>4. SizeInv /\ AlignInv
    BY <2>2 DEF SizeInv, AlignInv
  <2>5. QED  BY <2>1, <2>3, <2>4 DEF BuildInv
<1>2. ASSUME BuildInv, [Next]_vars PROVE BuildInv'
  <2>1. RequestInv' /\ LoopInv' /\ Collected'
    BY <1>2, RequestLoop, CollectedAlways DEF BuildInv
  <2>2. CASE CheckAlign
    <3>1. pc' \in {"loop", "returned"} /\ UNCHANGED <<desc, sgl, mode, userspace>>
      BY <2>2 DEF CheckAlign, requestVars, mapVars, buildVars
    <3>2. QED  BY <1>2, <2>1, <3>1 DEF BuildInv, ChunksInv, OpenInv, ClosedInv, LinkInv, SizeInv, AlignInv, Busy
  <2>3. CASE TransferCreate
    <3>1. pc' = "build" /\ Len(desc') = 0
      BY <2>3 DEF TransferCreate
    <3>2. ChunksInv' /\ OpenInv'
      BY <1>2, <2>3, CreateStep
    <3>3. QED  BY <2>1, <3>1, <3>2 DEF BuildInv, ClosedInv, LinkInv, SizeInv, AlignInv
  <2>4. CASE BuildEntry
    <3>1. pc' = "build"
      BY <2>4 DEF BuildEntry
    <3>2. ChunksInv' /\ OpenInv' /\ SizeInv' /\ AlignInv'
      BY <1>2, <2>4, EntryStep
    <3>3. QED  BY <2>1, <3>1, <3>2 DEF BuildInv, ClosedInv, LinkInv
  <2>5. CASE BuildLast
    <3>1. pc' = "adjacent"
      BY <2>5 DEF BuildLast
    <3>2. ChunksInv' /\ ClosedInv' /\ SizeInv' /\ AlignInv'
      BY <1>2, <2>5, LastStep
    <3>3. QED  BY <2>1, <3>1, <3>2 DEF BuildInv, OpenInv, LinkInv
  <2>6. CASE FillAdjacent
    <3>1. pc' = "queued"
      BY <2>6 DEF FillAdjacent
    <3>2. ChunksInv' /\ ClosedInv' /\ LinkInv' /\ SizeInv' /\ AlignInv'
      BY <1>2, <2>6, FillStep
    <3>3. QED  BY <2>1, <3>1, <3>2 DEF BuildInv, OpenInv
  <2>7. CASE TransferDone
    <3>1. pc' = "loop" /\ UNCHANGED <<desc, sgl, mode, userspace>>
      BY <2>7 DEF TransferDone, requestVars, buildVars
    <3>2. QED  BY <1>2, <2>1, <3>1 DEF BuildInv, ChunksInv, OpenInv, ClosedInv, LinkInv, SizeInv, AlignInv, Busy
  <2>8. CASE Return
    <3>1. pc' = "returned" /\ UNCHANGED <<desc, sgl, mode, userspace>>
      BY <2>8 DEF Return, requestVars, mapVars, buildVars
    <3>2. QED  BY <1>2, <2>1, <3>1 DEF BuildInv, ChunksInv, OpenInv, ClosedInv, LinkInv, SizeInv, AlignInv, Busy
  <2>9. CASE UNCHANGED vars
    BY <1>2, <2>1, <2>9
    DEF BuildInv, ChunksInv, OpenInv, ClosedInv, LinkInv, SizeInv, AlignInv, Busy, Behind, Shift, ExtraAdjacent,
        vars, requestVars, loopVars, mapVars, buildVars
  <2>10. QED  BY <1>2, <2>2, <2>3, <2>4, <2>5, <2>6, <2>7, <2>8, <2>9 DEF Next
<1>3. QED  BY <1>1, <1>2

LEMMA BuildAlways == Spec => []BuildInv
<1>1. QED  BY BuildInvariant, PTL DEF Spec

-----------------------------------------------------------------------------
(* Type correctness: in particular there are never more descriptors than    *)
(* entries of the scatter list, of which transfer_create() allocates as     *)
(* many.                                                                    *)
THEOREM BuildTypeCorrect == Spec => []TypeOK
<1>1. BuildInv => TypeOK
  <2>1. SUFFICES ASSUME BuildInv PROVE TypeOK
    OBVIOUS
  <2>2. transfer_addr \in Nat /\ remaining \in Nat /\ pos \in Nat
    <3>1. buf \in Nat /\ start_pos \in Nat /\ count \in Nat /\ remaining \in 0..count
      BY <2>1 DEF BuildInv, RequestInv, LoopInv
    <3>2. QED  BY <2>1, <3>1 DEF BuildInv, LoopInv
  <2>3. \A k \in DOMAIN desc : desc[k].extra_adj \in 0..MaxExtraAdj
    <3>1. desc \in Seq(Descs)
      BY <2>1 DEF BuildInv, Collected
    <3>2. \A k \in DOMAIN desc : desc[k] \in Descs
      BY <3>1
    <3>3. QED  BY <3>2 DEF Descs
  <2>4. QED  BY <2>1, <2>2, <2>3 DEF BuildInv, LoopInv, Collected, TypeOK
<1>2. QED  BY <1>1, BuildAlways, PTL

(* A burst of the channel's fetch stays in the array of descriptors and in  *)
(* a 4 KB page (xdma_desc_adjacent(), engine_start()).                      *)
THEOREM FetchAlwaysInPage == Spec => []FetchStaysInPage
<1>1. BuildInv => FetchStaysInPage
  <2>1. SUFFICES ASSUME BuildInv, pc = "queued" PROVE FetchStaysInPage
    BY DEF FetchStaysInPage
  <2>2. PICK n \in Nat \ {0} : n = Len(desc)
    BY <2>1 DEF BuildInv, Collected, ClosedInv
  <2>3. MaxExtraAdj \in Nat /\ DescsPerPage \in Nat \ {0} /\ MaxExtraAdj < DescsPerPage
    BY BuildTypes
  <2>4. 1 + FirstAdjacent <= Len(desc) /\ FirstAdjacent < DescsPerPage
    <3>1. n - 1 \in Int /\ MaxExtraAdj \in Int
      BY <2>3
    <3>2. FirstAdjacent = IF n - 1 <= MaxExtraAdj THEN n - 1 ELSE MaxExtraAdj
      BY <2>2, <3>1, MinOfTwo DEF FirstAdjacent
    <3>3. QED  BY <2>2, <2>3, <3>2
  <2>5. ASSUME NEW k \in 1..(Len(desc) - 1)
        PROVE  /\ k + 1 + desc[k].extra_adj <= Len(desc)
               /\ desc[k].extra_adj <= MaxExtraAdj
               /\ k \div DescsPerPage = (k + desc[k].extra_adj) \div DescsPerPage
    <3>1. k \in 1..Len(desc) /\ k + 1 <= Len(desc) /\ k \in Nat
      BY <2>2
    <3>2. PICK x \in 0..MaxExtraAdj : x = desc[k].extra_adj /\ x = ExtraAdjacent(k)
      BY <2>1, <3>1, AdjacentBounds DEF BuildInv, LinkInv, Collected
    <3>3. k + 1 + x <= Len(desc) /\ (k % DescsPerPage) + x < DescsPerPage
      BY <2>1, <3>1, <3>2, AdjacentBounds DEF BuildInv, Collected
    <3>4. PICK d \in Nat, r \in 0..(DescsPerPage - 1) :
            k = d * DescsPerPage + r /\ k \div DescsPerPage = d /\ k % DescsPerPage = r
      BY <2>3, <3>1, DivMod
    <3>5. PICK s \in 0..(DescsPerPage - 1) : s = r + x
      BY <2>3, <3>2, <3>3, <3>4
    <3>6. (d * DescsPerPage + s) \div DescsPerPage = d
      BY <2>3, DivModUnique
    <3>7. k + x = d * DescsPerPage + s
      <4>1. d * DescsPerPage \in Nat
        BY <2>3
      <4>2. QED  BY <3>4, <3>5, <4>1
    <3>8. QED  BY <3>2, <3>3, <3>4, <3>6, <3>7
  <2>6. QED  BY <2>4, <2>5 DEF FetchStaysInPage
<1>2. QED  BY <1>1, BuildAlways, PTL

(* The channel accepts every descriptor: it is neither empty nor too long,  *)
(* and as aligned as check_transfer_align() asked of the whole request.     *)
THEOREM DescriptorsAlwaysAccepted == Spec => []DescriptorsAccepted
<1>1. BuildInv => DescriptorsAccepted
  <2>1. SUFFICES ASSUME BuildInv PROVE DescriptorsAccepted
    OBVIOUS
  <2>2. desc \in Seq(Descs) /\ DOMAIN desc = 1..Len(desc) /\ \A k \in DOMAIN desc : desc[k] \in Descs
    BY <2>1 DEF BuildInv, Collected
  <2>3. ASSUME \A j \in DOMAIN sgl : sgl[j].len <= PageSize, NEW k \in DOMAIN desc
        PROVE  desc[k].len \in 1..MaxDescBytes
    <3>1. desc[k].len \in Nat
      BY <2>2 DEF Descs
    <3>2. desc[k].len # 0 /\ desc[k].len <= MaxDescBytes
      BY <2>1, <2>2, <2>3 DEF BuildInv, SizeInv
    <3>3. QED  BY <3>1, <3>2, BuildTypes
  <2>4. mode \in {"stream", "fixed", "memory"}
    BY <2>1 DEF BuildInv, RequestInv
  <2>5. ASSUME userspace, NEW k \in DOMAIN desc
        PROVE  CASE mode = "stream" -> desc[k].addr % AddrAlign = 0
                 [] mode = "fixed"  -> desc[k].addr % AddrAlign = 0 /\ desc[k].ep % AddrAlign = 0
                 [] mode = "memory" -> desc[k].addr % AddrAlign = desc[k].ep % AddrAlign
    BY <2>1, <2>2, <2>4, <2>5 DEF BuildInv, AlignInv
  <2>6. QED  BY <2>3, <2>5 DEF DescriptorsAccepted
<1>2. QED  BY <1>1, BuildAlways, PTL

(* The descriptors of the transfers move every byte of the buffer once and  *)
(* in order between its place on the bus and on the card, whatever pages it *)
(* lies in and however they were mapped and merged.                         *)
THEOREM DescriptorsAlwaysCover == Spec => []DescriptorsCoverRequest
<1>1. BuildInv => DescriptorsCoverRequest
  <2>1. SUFFICES ASSUME BuildInv PROVE DescriptorsCoverRequest
    OBVIOUS
  <2> DEFINE before == count - remaining
  <2>2. ASSUME pc = "queued"
        PROVE  /\ \A k \in DOMAIN desc :
                    /\ \A b \in 0..(desc[k].len - 1) : desc[k].addr + b = Bus(buf + before + at[k] + b)
                    /\ desc[k].ep = start_pos + before + (IF mode = "fixed" THEN 0 ELSE at[k])
                    /\ at[k] = IF k = 1 THEN 0 ELSE at[k - 1] + desc[k - 1].len
               /\ at[Len(desc)] + desc[Len(desc)].len = Min({remaining, MaxTransferBytes})
    <3>1. /\ transfer_addr = buf + before /\ pos = start_pos + before
          /\ remaining \in 0..count /\ count \in Nat /\ Busy /\ transfer_len = Share
      BY <2>1, <2>2 DEF BuildInv, RequestInv, LoopInv, Busy
    <3>2. DOMAIN desc = 1..Len(desc) /\ Len(at) = Len(desc) /\ Len(desc) \in Nat
      BY <2>1, <2>2, <3>1 DEF BuildInv, Collected, ChunksInv
    <3>3. ASSUME NEW k \in 1..Len(desc)
          PROVE  /\ \A b \in 0..(desc[k].len - 1) : desc[k].addr + b = Bus(buf + before + at[k] + b)
                 /\ desc[k].ep = start_pos + before + (IF mode = "fixed" THEN 0 ELSE at[k])
                 /\ at[k] = IF k = 1 THEN 0 ELSE at[k - 1] + desc[k - 1].len
      <4>1. /\ Piece(bus_page, desc[k].addr, desc[k].len, transfer_addr + at[k])
            /\ desc[k].ep = pos + Shift(at[k])
            /\ at[k] = IF k = 1 THEN 0 ELSE at[k - 1] + desc[k - 1].len
        BY <2>1, <3>1, <3>2 DEF BuildInv, ChunksInv
      <4>2. \A b \in 0..(desc[k].len - 1) :
              desc[k].addr + b = Bus(buf + before + at[k] + b)
        <5> HIDE DEF before
        <5>1. QED  BY <3>1, <4>1 DEF Piece, Place, Bus
      <4>3. QED  BY <3>1, <4>1, <4>2 DEF Shift
    <3>4. Min({remaining, MaxTransferBytes}) = Share
      <4>1. remaining \in Int /\ MaxTransferBytes \in Int
        BY <3>1, BuildTypes
      <4>2. QED  BY <4>1, MinOfTwo DEF Share
    <3>5. QED  BY <2>1, <2>2, <3>1, <3>2, <3>3, <3>4 DEF BuildInv, ClosedInv
  <2>3. pc = "returned" /\ transfer_len > 0 => remaining = 0 /\ mapped_pages = 0
    BY <2>1 DEF BuildInv, LoopInv, Busy
  <2>4. QED  BY <2>2, <2>3 DEF DescriptorsCoverRequest
<1>2. QED  BY <1>1, BuildAlways, PTL
=============================================================================
