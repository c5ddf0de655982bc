------------------------------ MODULE SignInProofs ------------------------------
(***************************************************************************)
(* Facts about sign-in for any attempts, clients, limits and windows, and  *)
(* for any tokens, audiences and requests: the line is orderly and its     *)
(* counter true, a client keeps to its budget, verifications are spaced,   *)
(* there is one administrator, a session is admitted only while it is      *)
(* current and one in use stays good.                                      *)
(*                                                                         *)
(* The instants of a window are counted as a set, so what the library      *)
(* proves of cardinalities says what a step does to their number.          *)
(***************************************************************************)
EXTENDS LoginThrottle, Sessions, SequenceTheorems, FiniteSetTheorems, NaturalsInduction,
        WellFoundedInduction, TLAPS

LessThan == {pair \in Nat \X Nat : pair[1] < pair[2]}

(* A set of naturals has a least element: the library's well-foundedness   *)
(* theorem, for the order as a set.                                        *)
LEMMA LeastNatural ==
  ASSUME NEW T \in SUBSET Nat, T # {}
  PROVE  \E a \in T : \A b \in T : a <= b
<1>1. IsWellFoundedOn(LessThan, Nat)
  BY NatLessThanWellFounded, Zenon DEF OpToRel, LessThan
<1>2. \E a \in T : \A b \in T : <<b, a>> \notin LessThan
  BY <1>1, WFMin, Zenon
<1>3. \A a, b \in Nat : b < a => <<b, a>> \in LessThan
  BY DEF LessThan
<1>4. PICK a \in T : \A b \in T : <<b, a>> \notin LessThan
  BY <1>2
<1>5. ASSUME NEW b \in T PROVE a <= b
  <2>1. a \in Nat /\ b \in Nat /\ ~(b < a)
    BY <1>3, <1>4
  <2> QED
    BY <2>1
<1> QED
  BY <1>5

(* No element of a list is there twice. *)
Distinct(s) == \A i, j \in 1 .. Len(s) : s[i] = s[j] => i = j

(* Without its element at a place, a list closes up. *)
LEMMA RemoveAtCloses ==
  ASSUME NEW S, NEW s \in Seq(S), NEW at \in 1 .. Len(s)
  PROVE  /\ RemoveAt(s, at) \in Seq(S)
         /\ Len(RemoveAt(s, at)) = Len(s) - 1
         /\ \A i \in 1 .. Len(s) - 1 : RemoveAt(s, at)[i] = IF i < at THEN s[i] ELSE s[i + 1]
<1> DEFINE front == SubSeq(s, 1, at - 1)
           back == SubSeq(s, at + 1, Len(s))
<1>n. Len(s) \in Nat /\ at \in Nat /\ at >= 1 /\ at <= Len(s)
  OBVIOUS
<1>e. \A i \in 1 .. Len(s) : s[i] \in S
  OBVIOUS
<1>1. /\ front \in Seq(S) /\ Len(front) = at - 1
      /\ \A i \in 1 .. at - 1 : front[i] = s[i]
  <2>1. /\ front \in Seq(S)
        /\ Len(front) = IF 1 <= at - 1 THEN at - 1 - 1 + 1 ELSE 0
        /\ \A i \in 1 .. at - 1 - 1 + 1 : front[i] = s[1 + i - 1]
    BY <1>n, <1>e, SubSeqProperties
  <2> QED
    BY <1>n, <2>1
<1>2. /\ back \in Seq(S) /\ Len(back) = Len(s) - at
      /\ \A i \in 1 .. Len(s) - at : back[i] = s[at + i]
  <2>1. /\ back \in Seq(S)
        /\ Len(back) = IF at + 1 <= Len(s) THEN Len(s) - (at + 1) + 1 ELSE 0
        /\ \A i \in 1 .. Len(s) - (at + 1) + 1 : back[i] = s[at + 1 + i - 1]
    BY <1>n, <1>e, SubSeqProperties
  <2> QED
    BY <1>n, <2>1
<1> HIDE DEF front, back
<1>3. /\ front \o back \in Seq(S)
      /\ Len(front \o back) = Len(front) + Len(back)
      /\ \A i \in 1 .. Len(front) + Len(back) :
           (front \o back)[i] = IF i <= Len(front) THEN front[i] ELSE back[i - Len(front)]
  BY <1>1, <1>2, ConcatProperties
<1>4. RemoveAt(s, at) = front \o back
  BY DEF RemoveAt, front, back
<1>5. ASSUME NEW i \in 1 .. Len(s) - 1
      PROVE  (front \o back)[i] = IF i < at THEN s[i] ELSE s[i + 1]
  <2>1. CASE i < at
    BY <1>n, <1>1, <1>2, <1>3, <2>1
  <2>2. CASE ~(i < at)
    <3>1. /\ (front \o back)[i] = back[i - (at - 1)]
          /\ i - (at - 1) \in 1 .. Len(s) - at /\ at + (i - (at - 1)) = i + 1
      BY <1>n, <1>1, <1>2, <1>3, <2>2
    <3> QED
      BY <1>2, <2>2, <3>1
  <2> QED
    BY <2>1, <2>2
<1>6. Len(front \o back) = Len(s) - 1
  BY <1>n, <1>1, <1>2, <1>3
<1> QED
  BY <1>3, <1>4, <1>5, <1>6

(* RemoveFirst takes one out, where there is one. *)
LEMMA RemoveFirstCloses ==
  ASSUME NEW S, NEW s \in Seq(S), NEW e
  PROVE  /\ RemoveFirst(s, e) \in Seq(S)
         /\ e \notin ToSet(s) => RemoveFirst(s, e) = s
         /\ e \in ToSet(s) =>
              \E at \in 1 .. Len(s) :
                /\ s[at] = e /\ Len(RemoveFirst(s, e)) = Len(s) - 1
                /\ \A i \in 1 .. Len(s) - 1 :
                     RemoveFirst(s, e)[i] = IF i < at THEN s[i] ELSE s[i + 1]
<1> DEFINE I == {i \in 1 .. Len(s) : s[i] = e}
<1>1. e \in ToSet(s) <=> \E i \in 1 .. Len(s) : s[i] = e
  BY DEF ToSet
<1>2. CASE e \notin ToSet(s)
  BY <1>1, <1>2 DEF RemoveFirst
<1>3. CASE e \in ToSet(s)
  <2>1. I \in SUBSET Nat /\ I # {}
    BY <1>1, <1>3
  <2>2. \E x \in I : \A y \in I : x <= y
    BY <2>1, LeastNatural
  <2>3. Min(I) \in I
    BY <2>2 DEF Min
  <2>4. RemoveFirst(s, e) = RemoveAt(s, Min(I))
    BY <1>1, <1>3, <2>1 DEF RemoveFirst, SelectInSeq
  <2>5. Min(I) \in 1 .. Len(s) /\ s[Min(I)] = e
    BY <2>3
  <2> QED
    BY <1>3, <2>4, <2>5, RemoveAtCloses
<1> QED
  BY <1>2, <1>3

(* Out of a list without duplicates it takes the element itself. *)
LEMMA DistinctWithout ==
  ASSUME NEW S, NEW s \in Seq(S), NEW e, Distinct(s)
  PROVE  /\ RemoveFirst(s, e) \in Seq(S) /\ Distinct(RemoveFirst(s, e))
         /\ ToSet(RemoveFirst(s, e)) = ToSet(s) \ {e}
         /\ Len(RemoveFirst(s, e)) = IF e \in ToSet(s) THEN Len(s) - 1 ELSE Len(s)
<1> DEFINE t == RemoveFirst(s, e)
<1>1. CASE e \notin ToSet(s)
  <2>1. t = s
    BY <1>1, RemoveFirstCloses
  <2> QED
    BY <1>1, <2>1
<1>2. CASE e \in ToSet(s)
  <2>1. PICK at \in 1 .. Len(s) :
          /\ s[at] = e /\ Len(t) = Len(s) - 1
          /\ \A i \in 1 .. Len(s) - 1 : t[i] = IF i < at THEN s[i] ELSE s[i + 1]
    BY <1>2, RemoveFirstCloses
  <2>2. t \in Seq(S)
    BY RemoveFirstCloses
  <2> HIDE DEF t
  <2>n. Len(s) \in Nat /\ Len(t) \in Nat /\ at \in Nat
    BY <2>2
  <2>3. Distinct(t)
    <3> SUFFICES ASSUME NEW i \in 1 .. Len(t), NEW j \in 1 .. Len(t), t[i] = t[j] PROVE i = j
      BY DEF Distinct
    <3>1. PICK m \in 1 .. Len(s) : t[i] = s[m] /\ m = IF i < at THEN i ELSE i + 1
      BY <2>n, <2>1
    <3>2. PICK n \in 1 .. Len(s) : t[j] = s[n] /\ n = IF j < at THEN j ELSE j + 1
      BY <2>n, <2>1
    <3>3. m = n
      BY <3>1, <3>2 DEF Distinct
    <3> QED
      BY <2>n, <3>1, <3>2, <3>3
  <2>4. ToSet(t) = ToSet(s) \ {e}
    <3>1. ASSUME NEW x \in ToSet(t) PROVE x \in ToSet(s) \ {e}
      <4>1. PICK i \in 1 .. Len(t) : x = t[i]
        BY <2>2, <3>1 DEF ToSet
      <4>2. PICK m \in 1 .. Len(s) : t[i] = s[m] /\ m # at
        BY <2>n, <2>1
      <4>3. s[m] \in ToSet(s) /\ s[m] # e
        BY <2>1, <4>2 DEF ToSet, Distinct
      <4> QED
        BY <4>1, <4>2, <4>3
    <3>2. ASSUME NEW x \in ToSet(s) \ {e} PROVE x \in ToSet(t)
      <4>1. PICK m \in 1 .. Len(s) : x = s[m]
        BY <3>2 DEF ToSet
      <4>2. m # at
        BY <2>1, <3>2, <4>1
      <4>3. \E i \in 1 .. Len(t) : t[i] = s[m]
        <5>1. CASE m < at
          BY <2>n, <2>1, <5>1
        <5>2. CASE m > at
          <6>1. m - 1 \in 1 .. Len(t) /\ ~(m - 1 < at) /\ (m - 1) + 1 = m
            BY <2>n, <2>1, <5>2
          <6> QED
            BY <2>1, <6>1
        <5> QED
          BY <2>n, <4>2, <5>1, <5>2
      <4> QED
        BY <2>2, <4>1, <4>3 DEF ToSet
    <3> QED
      BY <3>1, <3>2
  <2> QED
    BY <1>2, <2>1, <2>2, <2>3, <2>4 DEF t
<1> QED
  BY <1>1, <1>2

LEMMA DistinctAppend ==
  ASSUME NEW S, NEW s \in Seq(S), NEW e \in S, Distinct(s), e \notin ToSet(s)
  PROVE  /\ Append(s, e) \in Seq(S) /\ Distinct(Append(s, e))
         /\ ToSet(Append(s, e)) = ToSet(s) \cup {e} /\ Len(Append(s, e)) = Len(s) + 1
         /\ Append(s, e)[Len(s) + 1] = e /\ \A i \in 1 .. Len(s) : Append(s, e)[i] = s[i]
<1> DEFINE t == Append(s, e)
<1>1. /\ t \in Seq(S) /\ Len(t) = Len(s) + 1 /\ t[Len(s) + 1] = e
      /\ \A i \in 1 .. Len(s) : t[i] = s[i]
  BY AppendProperties
<1> HIDE DEF t
<1>n. Len(s) \in Nat /\ \A i \in 1 .. Len(t) : i \in 1 .. Len(s) \/ i = Len(s) + 1
  BY <1>1
<1>2. \A i \in 1 .. Len(s) : s[i] # e
  BY DEF ToSet
<1>3. Distinct(t)
  BY <1>1, <1>n, <1>2 DEF Distinct
<1>4. ToSet(t) = ToSet(s) \cup {e}
  <2>1. DOMAIN t = 1 .. Len(t) /\ DOMAIN s = 1 .. Len(s)
    BY <1>1
  <2>2. ASSUME NEW x \in ToSet(t) PROVE x \in ToSet(s) \cup {e}
    BY <1>1, <1>n, <2>1 DEF ToSet
  <2>3. ASSUME NEW x \in ToSet(s) PROVE x \in ToSet(t)
    <3>1. PICK i \in 1 .. Len(s) : x = s[i]
      BY <2>1 DEF ToSet
    <3>2. i \in 1 .. Len(t) /\ t[i] = x
      BY <1>1, <1>n, <3>1
    <3> QED
      BY <2>1, <3>2 DEF ToSet
  <2>4. e \in ToSet(t)
    <3>1. Len(s) + 1 \in 1 .. Len(t)
      BY <1>1, <1>n
    <3> QED
      BY <1>1, <2>1, <3>1 DEF ToSet
  <2> QED
    BY <2>2, <2>3, <2>4
<1> QED
  BY <1>1, <1>3, <1>4 DEF t

LEMMA DistinctTail ==
  ASSUME NEW S, NEW s \in Seq(S), s # <<>>, Distinct(s)
  PROVE  /\ Tail(s) \in Seq(S) /\ Distinct(Tail(s)) /\ Len(Tail(s)) = Len(s) - 1
         /\ ToSet(Tail(s)) = ToSet(s) \ {s[1]}
<1> DEFINE t == Tail(s)
<1>1. /\ t \in Seq(S) /\ Len(t) = Len(s) - 1
      /\ \A i \in 1 .. Len(t) : t[i] = s[i + 1]
  BY HeadTailProperties
<1> HIDE DEF t
<1>n. Len(s) \in Nat /\ Len(s) >= 1
  BY EmptySeq
<1>2. \A i \in 1 .. Len(t) : i + 1 \in 1 .. Len(s)
  BY <1>1, <1>n
<1>3. Distinct(t)
  <2> SUFFICES ASSUME NEW i \in 1 .. Len(t), NEW j \in 1 .. Len(t), t[i] = t[j] PROVE i = j
    BY DEF Distinct
  <2>1. i + 1 = j + 1
    BY <1>1, <1>2 DEF Distinct
  <2> QED
    BY <2>1
<1>4. ToSet(t) = ToSet(s) \ {s[1]}
  <2>d. DOMAIN t = 1 .. Len(t) /\ DOMAIN s = 1 .. Len(s) /\ 1 \in 1 .. Len(s)
    BY <1>1, <1>n
  <2>1. ASSUME NEW x \in ToSet(t) PROVE x \in ToSet(s) \ {s[1]}
    <3>1. PICK i \in 1 .. Len(t) : x = t[i]
      BY <2>d DEF ToSet
    <3>2. x = s[i + 1] /\ i + 1 \in 1 .. Len(s) /\ i + 1 # 1
      BY <1>1, <1>2, <3>1
    <3> QED
      BY <2>d, <3>2 DEF ToSet, Distinct
  <2>2. ASSUME NEW x \in ToSet(s) \ {s[1]} PROVE x \in ToSet(t)
    <3>1. PICK m \in 1 .. Len(s) : x = s[m]
      BY <2>d DEF ToSet
    <3>2. m # 1
      BY <2>2, <3>1
    <3>3. m - 1 \in 1 .. Len(t) /\ (m - 1) + 1 = m
      BY <1>1, <1>n, <3>2
    <3>4. t[m - 1] = x
      BY <1>1, <3>1, <3>3
    <3> QED
      BY <2>d, <3>3, <3>4 DEF ToSet
  <2> QED
    BY <2>1, <2>2
<1> QED
  BY <1>1, <1>3, <1>4 DEF t
-----------------------------------------------------------------------------
(* A place in line is one attempt's; nobody sleeps past its own interval.  *)
LineIsOrderly ==
  /\ Distinct(chain)
  /\ lastAt <= sinceTurn
  /\ \A a \in Attempt : stage[a] = "asleep" => timer[a] + sinceTurn >= MinInterval

(* What the limiter keeps of a client are the attempts it let through.     *)
BudgetIsKept == hits = passed /\ \A c \in Client : Recent(hits[c]) <= Limit

LineInv == ThrottleTypeOK /\ WaitingIsTheLine /\ OneAtATime /\ LineIsOrderly
ThrottleInv == LineInv /\ BudgetIsKept
-----------------------------------------------------------------------------
LEMMA AgesFinite == IsFiniteSet(Ages) /\ 0 \in Ages /\ Ages \subseteq Nat
  BY FS_Interval, ThrottleAssumption DEF Ages

LEMMA CountUpTo == ASSUME NEW n \in Nat PROVE IsFiniteSet(1 .. n) /\ Cardinality(1 .. n) = n
<1>1. 1 \in Int /\ n \in Int
  OBVIOUS
<1>2. IsFiniteSet(1 .. n) /\ Cardinality(1 .. n) = IF 1 > n THEN 0 ELSE n - 1 + 1
  BY ONLY <1>1, FS_Interval, SMT
<1> QED
  BY <1>2

LEMMA InstantsOf ==
  ASSUME NEW h, NEW x
  PROVE  x \in Instants(h) <=> \E a \in Ages : \E i \in 1 .. h[a] : x = <<a, i>>
  BY DEF Instants

LEMMA RecentIsFinite ==
  ASSUME NEW cap \in Nat, NEW h \in [Ages -> 0 .. cap]
  PROVE  IsFiniteSet(Instants(h)) /\ Recent(h) \in Nat
<1>1. IsFiniteSet(Ages \X (1 .. cap))
  <2>1. IsFiniteSet(1 .. cap)
    BY CountUpTo
  <2> QED
    BY <2>1, AgesFinite, FS_Product
<1>2. Instants(h) \subseteq Ages \X (1 .. cap)
  <2> SUFFICES ASSUME NEW x \in Instants(h) PROVE x \in Ages \X (1 .. cap)
    OBVIOUS
  <2>1. PICK a \in Ages : \E i \in 1 .. h[a] : x = <<a, i>>
    BY InstantsOf
  <2>2. PICK i \in 1 .. h[a] : x = <<a, i>>
    BY <2>1
  <2>3. h[a] \in 0 .. cap
    OBVIOUS
  <2>4. i \in 1 .. cap
    BY <2>3
  <2> QED
    BY <2>2, <2>4
<1>3. IsFiniteSet(Instants(h))
  BY <1>1, <1>2, FS_Subset
<1> QED
  BY <1>3, FS_CardinalityType DEF Recent

LEMMA RecentNone ==
  /\ Recent(Nothing) = 0
  /\ \A cap \in Nat : \A h \in [Ages -> 0 .. cap] : Recent(h) = 0 => h = Nothing
<1>1. Instants(Nothing) = {}
  <2>1. \A a \in Ages : 1 .. Nothing[a] = {}
    BY DEF Nothing
  <2> QED
    BY <2>1, InstantsOf
<1>2. ASSUME NEW cap \in Nat, NEW h \in [Ages -> 0 .. cap], Recent(h) = 0 PROVE h = Nothing
  <2>1. Instants(h) = {}
    BY <1>2, RecentIsFinite, FS_EmptySet DEF Recent
  <2>2. ASSUME NEW a \in Ages PROVE h[a] = 0
    <3>1. h[a] \in 0 .. cap
      OBVIOUS
    <3>2. CASE h[a] # 0
      <4>1. 1 \in 1 .. h[a]
        BY <3>1, <3>2
      <4>2. <<a, 1>> \in Instants(h)
        BY <4>1, InstantsOf
      <4> QED
        BY <2>1, <4>2
    <3> QED
      BY <3>2
  <2> QED
    BY <2>2 DEF Nothing
<1> QED
  BY <1>1, <1>2, FS_EmptySet DEF Recent

LEMMA RecentOfAge ==
  ASSUME NEW cap \in Nat, NEW h \in [Ages -> 0 .. cap], NEW a \in Ages
  PROVE  h[a] <= Recent(h)
<1> DEFINE T == {a} \X (1 .. h[a])
<1>1. h[a] \in Nat
  OBVIOUS
<1>2. T \subseteq Instants(h)
  BY DEF Instants
<1>3. IsFiniteSet({a}) /\ Cardinality({a}) = 1
  BY FS_Singleton
<1>4. IsFiniteSet(1 .. h[a]) /\ Cardinality(1 .. h[a]) = h[a]
  BY <1>1, CountUpTo
<1>5. Cardinality(T) = 1 * h[a]
  BY <1>3, <1>4, FS_Product
<1>6. Cardinality(T) <= Cardinality(Instants(h))
  BY <1>2, RecentIsFinite, FS_Subset
<1> QED
  BY <1>1, <1>5, <1>6 DEF Recent

(* One more is one more, where the cap is not reached. *)
LEMMA RecentOne ==
  ASSUME NEW cap \in Nat, NEW h \in [Ages -> 0 .. cap], h[0] < cap
  PROVE  Recent(One(h, cap)) = Recent(h) + 1
<1> DEFINE x == <<0, h[0] + 1>>
<1>1. h[0] \in Nat /\ h[0] <= cap
  BY AgesFinite
<1>2. Instants(One(h, cap)) = Instants(h) \cup {x}
  <2>1. One(h, cap) = [h EXCEPT ![0] = h[0] + 1]
    BY DEF One
  <2>2. \A a \in Ages \ {0} : One(h, cap)[a] = h[a]
    BY <2>1
  <2>3. 1 .. One(h, cap)[0] = (1 .. h[0]) \cup {h[0] + 1}
    BY <1>1, <2>1, AgesFinite
  <2>4. ASSUME NEW y PROVE y \in Instants(One(h, cap)) <=> y \in Instants(h) \cup {x}
    <3>1. y \in Instants(One(h, cap)) <=> \E a \in Ages : \E i \in 1 .. One(h, cap)[a] : y = <<a, i>>
      BY InstantsOf
    <3>2. y \in Instants(h) <=> \E a \in Ages : \E i \in 1 .. h[a] : y = <<a, i>>
      BY InstantsOf
    <3>3. ASSUME NEW a \in Ages, NEW i \in 1 .. One(h, cap)[a], y = <<a, i>>
          PROVE  y = x \/ \E j \in 1 .. h[a] : y = <<a, j>>
      BY <2>2, <2>3, <3>3
    <3>4. ASSUME NEW a \in Ages, NEW i \in 1 .. h[a], y = <<a, i>>
          PROVE  i \in 1 .. One(h, cap)[a]
      BY <2>2, <2>3
    <3>5. y = x => \E i \in 1 .. One(h, cap)[0] : y = <<0, i>>
      BY <2>3
    <3>6. y \in Instants(One(h, cap)) => y \in Instants(h) \cup {x}
      BY <3>1, <3>2, <3>3
    <3>7. y \in Instants(h) \cup {x} => y \in Instants(One(h, cap))
      BY <3>1, <3>2, <3>4, <3>5, AgesFinite
    <3> QED
      BY <3>6, <3>7
  <2> QED
    BY <2>4
<1>3. x \notin Instants(h)
  <2>1. ~ \E i \in 1 .. h[0] : i = h[0] + 1
    BY <1>1
  <2>2. x \in Instants(h) <=> \E a \in Ages : \E i \in 1 .. h[a] : x = <<a, i>>
    BY InstantsOf
  <2> QED
    BY <2>1, <2>2
<1>4. IsFiniteSet(Instants(h))
  BY RecentIsFinite
<1> QED
  BY <1>2, <1>3, <1>4, FS_AddElement DEF Recent

(* A window that moves on holds no more. *)
LEMMA RecentAged ==
  ASSUME NEW cap \in Nat, NEW h \in [Ages -> 0 .. cap]
  PROVE  Aged(h) \in [Ages -> 0 .. cap] /\ Recent(Aged(h)) <= Recent(h)
<1> DEFINE S == Instants(Aged(h))
           T == Instants(h)
           f == [x \in S |-> <<x[1] - 1, x[2]>>]
<1>1. \A a \in Ages : a # 0 => a - 1 \in Ages
  BY ThrottleAssumption DEF Ages
<1>2. Aged(h) \in [Ages -> 0 .. cap]
  BY <1>1, AgesFinite DEF Aged
<1>3. ASSUME NEW x \in S PROVE /\ f[x] \in T /\ x[1] \in Nat /\ x = <<x[1], x[2]>>
  <2>1. PICK a \in Ages : \E i \in 1 .. Aged(h)[a] : x = <<a, i>>
    BY InstantsOf
  <2>2. PICK i \in 1 .. Aged(h)[a] : x = <<a, i>>
    BY <2>1
  <2>3. a # 0
    BY <2>2 DEF Aged
  <2>4. a - 1 \in Ages /\ i \in 1 .. h[a - 1]
    BY <1>1, <2>2, <2>3 DEF Aged
  <2>5. <<a - 1, i>> \in T
    BY <2>4, InstantsOf
  <2> QED
    BY <2>2, <2>5, AgesFinite
<1>4. f \in [S -> T]
  BY <1>3
<1>5. \A x, y \in S : f[x] = f[y] => x = y
  <2> SUFFICES ASSUME NEW x \in S, NEW y \in S, f[x] = f[y] PROVE x = y
    OBVIOUS
  <2>1. x[1] - 1 = y[1] - 1 /\ x[2] = y[2]
    OBVIOUS
  <2>2. x[1] \in Nat /\ y[1] \in Nat /\ x = <<x[1], x[2]>> /\ y = <<y[1], y[2]>>
    BY <1>3
  <2>3. x[1] = y[1]
    BY <2>1, <2>2
  <2> QED
    BY <2>1, <2>2, <2>3
<1>6. f \in Injection(S, T)
  BY <1>4, <1>5 DEF Injection, IsInjective
<1>7. Cardinality(S) <= Cardinality(T)
  BY <1>6, RecentIsFinite, FS_Injection
<1> QED
  BY <1>2, <1>7 DEF Recent

(* What is dropped as stale is nothing. *)
LEMMA NothingIsDropped == ASSUME ThrottleTypeOK, NEW c \in Client PROVE Kept(c) = hits[c]
  BY RecentNone, ThrottleAssumption DEF ThrottleTypeOK, Kept, Stale

LEMMA InitThrottle == ThrottleInit => ThrottleInv
<1> SUFFICES ASSUME ThrottleInit PROVE ThrottleInv
  OBVIOUS
<1>1. ThrottleTypeOK
  <2>1. Nothing \in [Ages -> 0 .. Limit] /\ Nothing \in [Ages -> 0 .. FailCap]
        /\ Nothing \in [Ages -> 0 .. Limit + 1]
    BY ThrottleAssumption DEF Nothing
  <2> QED
    BY <2>1, ThrottleAssumption DEF ThrottleInit, ThrottleTypeOK
<1>2. WaitingIsTheLine /\ OneAtATime /\ LineIsOrderly
  BY ThrottleAssumption DEF ThrottleInit, WaitingIsTheLine, OneAtATime, LineIsOrderly, ToSet, Distinct
<1>3. BudgetIsKept
  BY RecentNone, ThrottleAssumption DEF ThrottleInit, BudgetIsKept
<1> QED
  BY <1>1, <1>2, <1>3 DEF ThrottleInv, LineInv

LEMMA InLine ==
  ASSUME LineInv
  PROVE  /\ chain \in Seq(Attempt) /\ Len(chain) \in Nat /\ Distinct(chain)
         /\ ToSet(chain) = {a \in Attempt : stage[a] \in {"turn", "asleep", "verifying"}}
         /\ \A a \in Attempt : stage[a] \in {"asleep", "verifying"} => chain[1] = a /\ Len(chain) > 0
         /\ \A i \in 1 .. Len(chain) : chain[i] \in ToSet(chain)
<1>1. chain \in Seq(Attempt) /\ Len(chain) \in Nat /\ Distinct(chain)
  BY DEF LineInv, ThrottleTypeOK, LineIsOrderly
<1>2. /\ ToSet(chain) = {a \in Attempt : stage[a] \in {"turn", "asleep", "verifying"}}
      /\ \A a \in Attempt : stage[a] \in {"asleep", "verifying"} => chain[1] = a
  BY DEF LineInv, WaitingIsTheLine, OneAtATime
<1>3. ASSUME NEW a \in ToSet(chain) PROVE Len(chain) > 0
  BY <1>1, <1>3 DEF ToSet
<1>4. \A i \in 1 .. Len(chain) : chain[i] \in ToSet(chain)
  BY <1>1 DEF ToSet
<1> QED
  BY <1>1, <1>2, <1>3, <1>4

(* The limiter and its observation, when an attempt is over budget or not. *)
LEMMA RefusedBudget ==
  ASSUME ThrottleInv, NEW a \in Attempt, OverBudget(a)
  PROVE  hits' = hits /\ tracked' \in SUBSET Client /\ UNCHANGED <<failures, chain, stage, timer, waiting, lastAt, sinceTurn, passed>>
<1>1. ThrottleTypeOK /\ ClientOf[a] \in Client
  BY ThrottleAssumption DEF ThrottleInv, LineInv
<1>2. hits' = [d \in Client |-> Kept(d)] /\ tracked' = {d \in tracked : Kept(d) # Nothing} \cup {ClientOf[a]}
  BY DEF OverBudget
<1>3. hits' = hits
  BY <1>1, <1>2, NothingIsDropped DEF ThrottleTypeOK
<1> QED
  BY <1>1, <1>2, <1>3 DEF OverBudget, ThrottleTypeOK

LEMMA LetThroughBudget ==
  ASSUME ThrottleInv, NEW a \in Attempt, LetThrough(a)
  PROVE  /\ BudgetIsKept'
         /\ hits' \in [Client -> [Ages -> 0 .. Limit]] /\ tracked' \in SUBSET Client
         /\ passed' \in [Client -> [Ages -> 0 .. Limit + 1]]
<1>t. /\ ThrottleTypeOK /\ Limit \in Nat /\ hits \in [Client -> [Ages -> 0 .. Limit]]
      /\ passed \in [Client -> [Ages -> 0 .. Limit + 1]] /\ hits = passed /\ tracked \in SUBSET Client
  BY ThrottleAssumption DEF ThrottleInv, LineInv, BudgetIsKept, ThrottleTypeOK
<1> DEFINE c == ClientOf[a]
<1>c. c \in Client
  BY ThrottleAssumption
<1> HIDE DEF c
<1>1. /\ Allowed(c)
      /\ hits' = [d \in Client |-> IF d = c THEN One(Kept(d), Limit) ELSE Kept(d)]
      /\ tracked' = {d \in tracked : Kept(d) # Nothing} \cup {c}
      /\ passed' = [passed EXCEPT ![c] = One(passed[c], Limit + 1)]
  BY DEF LetThrough, c
<1>2. Recent(hits[c]) < Limit /\ hits' = [hits EXCEPT ![c] = One(hits[c], Limit)]
  BY <1>t, <1>c, <1>1, NothingIsDropped DEF Allowed
<1>3. hits[c] \in [Ages -> 0 .. Limit] /\ hits[c][0] \in Nat /\ 0 \in Ages
  BY <1>t, <1>c, AgesFinite
<1>4. hits[c][0] < Limit
  <2>1. hits[c][0] <= Recent(hits[c]) /\ Recent(hits[c]) \in Nat
    BY <1>t, <1>3, RecentOfAge, RecentIsFinite
  <2> QED
    BY <1>t, <1>2, <1>3, <2>1
<1>5. One(hits[c], Limit) = One(hits[c], Limit + 1)
  BY <1>t, <1>3, <1>4 DEF One
<1>6. Recent(One(hits[c], Limit)) <= Limit
  <2>1. Recent(One(hits[c], Limit)) = Recent(hits[c]) + 1 /\ Recent(hits[c]) \in Nat
    BY <1>t, <1>3, <1>4, RecentOne, RecentIsFinite
  <2> QED
    BY <1>t, <1>2, <2>1
<1>7. One(hits[c], Limit) \in [Ages -> 0 .. Limit] /\ One(hits[c], Limit) \in [Ages -> 0 .. Limit + 1]
  BY <1>t, <1>3, <1>4 DEF One
<1>8. BudgetIsKept'
  <2>1. hits' = passed'
    BY <1>t, <1>1, <1>2, <1>5
  <2>2. \A d \in Client : Recent(hits'[d]) <= Limit
    BY <1>t, <1>2, <1>6 DEF ThrottleInv, BudgetIsKept
  <2> QED
    BY <2>1, <2>2 DEF BudgetIsKept
<1> QED
  BY <1>t, <1>c, <1>1, <1>2, <1>5, <1>7, <1>8

(* The line, when one more is put in it. *)
LEMMA LetThroughLine == ASSUME ThrottleInv, NEW a \in Attempt, LetThrough(a) PROVE LineInv'
<1>t. /\ ThrottleTypeOK /\ LineInv /\ stage[a] = "out" /\ UNCHANGED <<failures, timer, sinceTurn>>
      /\ waiting \in Nat /\ MaxWaiting \in Nat /\ MinInterval \in Nat
      /\ stage \in [Attempt -> {"out", "fast", "turn", "asleep", "verifying"}]
      /\ sinceTurn \in 0 .. MinInterval /\ lastAt \in 0 .. MinInterval
  BY ThrottleAssumption DEF ThrottleInv, LineInv, LetThrough, ThrottleTypeOK
<1>h. /\ hits' \in [Client -> [Ages -> 0 .. Limit]] /\ tracked' \in SUBSET Client
      /\ passed' \in [Client -> [Ages -> 0 .. Limit + 1]]
  BY LetThroughBudget
<1>n. a \notin ToSet(chain)
  BY <1>t, InLine
<1>1. CASE UNCHANGED <<chain, waiting, stage, lastAt>>
  BY <1>t, <1>h, <1>1 DEF LineInv, ThrottleTypeOK, WaitingIsTheLine, OneAtATime, LineIsOrderly, Distinct
<1>2. CASE stage' = [stage EXCEPT ![a] = "fast"] /\ lastAt' = 0 /\ UNCHANGED <<chain, waiting>>
  <2>1. ThrottleTypeOK'
    BY <1>t, <1>h, <1>2 DEF ThrottleTypeOK
  <2>2. WaitingIsTheLine' /\ OneAtATime' /\ LineIsOrderly'
    BY <1>t, <1>2 DEF LineInv, WaitingIsTheLine, OneAtATime, LineIsOrderly, Distinct
  <2> QED
    BY <2>1, <2>2 DEF LineInv
<1>3. CASE /\ waiting <= MaxWaiting /\ waiting' = waiting + 1 /\ chain' = Append(chain, a)
           /\ stage' = [stage EXCEPT ![a] = "turn"] /\ UNCHANGED lastAt
  <2>1. /\ chain' \in Seq(Attempt) /\ Distinct(chain') /\ ToSet(chain') = ToSet(chain) \cup {a}
        /\ Len(chain') = Len(chain) + 1 /\ \A i \in 1 .. Len(chain) : chain'[i] = chain[i]
    BY <1>n, <1>3, InLine, <1>t, DistinctAppend
  <2>2. ThrottleTypeOK'
    BY <1>t, <1>h, <1>3, <2>1 DEF ThrottleTypeOK
  <2>3. WaitingIsTheLine'
    BY <1>t, <1>3, <2>1 DEF LineInv, WaitingIsTheLine
  <2>4. OneAtATime'
    <3> SUFFICES ASSUME NEW b \in Attempt, stage'[b] \in {"asleep", "verifying"} PROVE chain'[1] = b
      BY DEF OneAtATime
    <3>1. stage[b] \in {"asleep", "verifying"}
      BY <1>t, <1>3
    <3>2. chain[1] = b /\ 1 \in 1 .. Len(chain)
      BY <1>t, <3>1, InLine
    <3> QED
      BY <2>1, <3>2
  <2>5. LineIsOrderly'
    BY <1>t, <1>3, <2>1 DEF LineInv, LineIsOrderly, Distinct
  <2> QED
    BY <2>2, <2>3, <2>4, <2>5 DEF LineInv
<1> QED
  BY <1>1, <1>2, <1>3 DEF LetThrough

LEMMA TakeLine ==
  ASSUME LineInv, NEW a \in Attempt, TakeTurn(a) \/ WakeUp(a)
  PROVE  LineInv'
<1>t. /\ ThrottleTypeOK /\ MinInterval \in Nat /\ UNCHANGED <<hits, tracked, failures, chain, waiting, passed>>
      /\ stage \in [Attempt -> {"out", "fast", "turn", "asleep", "verifying"}]
      /\ timer \in [Attempt -> 0 .. MinInterval]
      /\ sinceTurn \in 0 .. MinInterval /\ lastAt \in 0 .. MinInterval
      /\ lastAt <= sinceTurn
  BY ThrottleAssumption DEF LineInv, TakeTurn, WakeUp, ThrottleTypeOK, LineIsOrderly
<1>1. /\ stage[a] \in {"turn", "asleep"} /\ chain[1] = a
  BY InLine DEF TakeTurn, WakeUp, FirstInLine
<1>2. \/ /\ stage' = [stage EXCEPT ![a] = "asleep"] /\ timer' = [timer EXCEPT ![a] = Wait] /\ Wait > 0
         /\ UNCHANGED <<lastAt, sinceTurn>>
      \/ /\ stage' = [stage EXCEPT ![a] = "verifying"] /\ lastAt' = 0 /\ sinceTurn' = 0 /\ UNCHANGED timer
  BY DEF TakeTurn, WakeUp
<1>3. ThrottleTypeOK'
  <2>1. Wait > 0 => Wait \in 0 .. MinInterval
    BY <1>t DEF Wait
  <2>2. timer' \in [Attempt -> 0 .. MinInterval]
    BY <1>t, <1>2, <2>1
  <2>3. /\ stage' \in [Attempt -> {"out", "fast", "turn", "asleep", "verifying"}]
        /\ lastAt' \in 0 .. MinInterval /\ sinceTurn' \in 0 .. MinInterval
    BY <1>t, <1>2
  <2> QED
    BY <1>t, <2>2, <2>3 DEF ThrottleTypeOK
<1>4. WaitingIsTheLine'
  <2>1. {b \in Attempt : stage'[b] \in {"turn", "asleep", "verifying"}}
          = {b \in Attempt : stage[b] \in {"turn", "asleep", "verifying"}}
    BY <1>t, <1>1, <1>2
  <2> QED
    BY <1>t, <2>1 DEF LineInv, WaitingIsTheLine
<1>5. OneAtATime'
  BY <1>t, <1>1, <1>2 DEF LineInv, OneAtATime
<1>6. LineIsOrderly'
  <2>1. Distinct(chain)'
    BY <1>t DEF LineInv, LineIsOrderly, Distinct
  <2>2. \A b \in Attempt : stage'[b] = "asleep" => timer'[b] + sinceTurn' >= MinInterval
    <3> SUFFICES ASSUME NEW b \in Attempt, stage'[b] = "asleep" PROVE timer'[b] + sinceTurn' >= MinInterval
      OBVIOUS
    <3>1. CASE b = a
      BY <1>t, <1>2, <3>1 DEF Wait
    <3>2. CASE b # a
      <4>1. stage[b] = "asleep"
        BY <1>t, <1>2, <3>2
      <4> QED
        BY <1>1, <3>2, <4>1, InLine
    <3> QED
      BY <3>1, <3>2
  <2>3. (lastAt <= sinceTurn)'
    BY <1>t, <1>2
  <2> QED
    BY <2>1, <2>2, <2>3 DEF LineIsOrderly
<1> QED
  BY <1>3, <1>4, <1>5, <1>6 DEF LineInv

(* The line, when one ends: it was not in it, or its head. *)
LEMMA LeaveLine ==
  ASSUME LineInv, NEW a \in Attempt, stage[a] \in {"fast", "verifying"}, Leave(a, {a}),
         waiting' = IF stage[a] = "verifying" THEN waiting - 1 ELSE waiting,
         UNCHANGED <<lastAt, sinceTurn>>,
         hits' \in [Client -> [Ages -> 0 .. Limit]], tracked' \in SUBSET Client,
         passed' \in [Client -> [Ages -> 0 .. Limit + 1]], failures' \in [Ages -> 0 .. FailCap]
  PROVE  LineInv'
<1>t. /\ ThrottleTypeOK /\ MinInterval \in Nat /\ waiting \in Nat /\ MaxWaiting \in Nat
      /\ stage \in [Attempt -> {"out", "fast", "turn", "asleep", "verifying"}]
      /\ timer \in [Attempt -> 0 .. MinInterval]
  BY ThrottleAssumption DEF LineInv, ThrottleTypeOK
<1>1. /\ stage' = [stage EXCEPT ![a] = "out"] /\ timer' = [timer EXCEPT ![a] = 0]
      /\ chain' = RemoveFirst(chain, a)
  BY <1>t DEF Leave
<1>2. /\ chain' \in Seq(Attempt) /\ Distinct(chain') /\ ToSet(chain') = ToSet(chain) \ {a}
      /\ Len(chain') = IF a \in ToSet(chain) THEN Len(chain) - 1 ELSE Len(chain)
      /\ a \notin ToSet(chain) => chain' = chain
  BY <1>1, InLine, DistinctWithout, RemoveFirstCloses
<1>3. a \in ToSet(chain) <=> stage[a] = "verifying"
  BY InLine
<1>4. ThrottleTypeOK'
  <2>1. waiting' \in Nat
    BY <1>t, <1>3, InLine DEF LineInv, WaitingIsTheLine
  <2> QED
    BY <1>t, <1>1, <1>2, <2>1 DEF ThrottleTypeOK
<1>5. WaitingIsTheLine'
  BY <1>t, <1>1, <1>2, <1>3, InLine DEF LineInv, WaitingIsTheLine
<1>6. OneAtATime'
  <2> SUFFICES ASSUME NEW b \in Attempt, stage'[b] \in {"asleep", "verifying"} PROVE chain'[1] = b
    BY DEF OneAtATime
  <2>1. b # a /\ stage[b] \in {"asleep", "verifying"}
    BY <1>t, <1>1
  <2>2. chain[1] = b /\ stage[a] # "verifying"
    BY <2>1, InLine
  <2> QED
    BY <1>2, <1>3, <2>2
<1>7. LineIsOrderly'
  BY <1>t, <1>1, <1>2 DEF LineInv, LineIsOrderly
<1> QED
  BY <1>4, <1>5, <1>6, <1>7 DEF LineInv

LEMMA TickLine == ASSUME ThrottleInv, ThrottleTick PROVE ThrottleInv'
<1>t. /\ ThrottleTypeOK /\ LineInv /\ MinInterval \in Nat /\ Limit \in Nat /\ FailCap \in Nat
      /\ hits \in [Client -> [Ages -> 0 .. Limit]] /\ passed \in [Client -> [Ages -> 0 .. Limit + 1]]
      /\ failures \in [Ages -> 0 .. FailCap] /\ timer \in [Attempt -> 0 .. MinInterval]
      /\ sinceTurn \in 0 .. MinInterval /\ lastAt \in 0 .. MinInterval
      /\ hits = passed /\ Limit + 1 \in Nat
  BY ThrottleAssumption DEF ThrottleInv, LineInv, BudgetIsKept, ThrottleTypeOK
<1>1. /\ hits' = [c \in Client |-> Aged(hits[c])] /\ passed' = [c \in Client |-> Aged(passed[c])]
      /\ failures' = Aged(failures)
      /\ timer' = [a \in Attempt |-> IF timer[a] > 0 THEN timer[a] - 1 ELSE 0]
      /\ lastAt' = (IF lastAt < MinInterval THEN lastAt + 1 ELSE lastAt)
      /\ sinceTurn' = (IF sinceTurn < MinInterval THEN sinceTurn + 1 ELSE sinceTurn)
      /\ UNCHANGED <<tracked, chain, stage, waiting>>
  BY DEF ThrottleTick
<1>2. ASSUME NEW c \in Client
      PROVE  /\ Aged(hits[c]) \in [Ages -> 0 .. Limit] /\ Recent(Aged(hits[c])) <= Limit
             /\ Aged(passed[c]) \in [Ages -> 0 .. Limit + 1]
  <2>1. hits[c] \in [Ages -> 0 .. Limit] /\ passed[c] \in [Ages -> 0 .. Limit + 1]
    BY <1>t
  <2>2. /\ Recent(Aged(hits[c])) <= Recent(hits[c]) /\ Aged(hits[c]) \in [Ages -> 0 .. Limit]
        /\ Aged(passed[c]) \in [Ages -> 0 .. Limit + 1] /\ Recent(hits[c]) \in Nat
        /\ Recent(Aged(hits[c])) \in Nat
    BY <1>t, <2>1, RecentAged, RecentIsFinite
  <2>3. Recent(hits[c]) <= Limit
    BY DEF ThrottleInv, BudgetIsKept
  <2> QED
    BY <1>t, <2>2, <2>3
<1>3. Aged(failures) \in [Ages -> 0 .. FailCap]
  BY <1>t, RecentAged
<1>4. ThrottleTypeOK'
  BY <1>t, <1>1, <1>2, <1>3 DEF ThrottleTypeOK
<1>5. WaitingIsTheLine' /\ OneAtATime'
  BY <1>t, <1>1 DEF LineInv, WaitingIsTheLine, OneAtATime
<1>6. LineIsOrderly'
  BY <1>t, <1>1 DEF LineInv, LineIsOrderly, Distinct
<1>7. BudgetIsKept'
  BY <1>t, <1>1, <1>2 DEF BudgetIsKept
<1> QED
  BY <1>4, <1>5, <1>6, <1>7 DEF ThrottleInv, LineInv

LEMMA VerifiedStep ==
  ASSUME ThrottleInv, NEW a \in Attempt, Throw(a) \/ \E right \in BOOLEAN : Answer(a, right)
  PROVE  ThrottleInv'
<1>t. /\ LineInv /\ Limit \in Nat /\ FailCap \in Nat /\ ClientOf[a] \in Client
      /\ hits \in [Client -> [Ages -> 0 .. Limit]] /\ tracked \in SUBSET Client
      /\ failures \in [Ages -> 0 .. FailCap] /\ passed \in [Client -> [Ages -> 0 .. Limit + 1]]
  BY ThrottleAssumption DEF ThrottleInv, LineInv, ThrottleTypeOK
<1>1. /\ stage[a] \in {"fast", "verifying"} /\ Leave(a, {a})
      /\ waiting' = IF stage[a] = "verifying" THEN waiting - 1 ELSE waiting
      /\ UNCHANGED <<lastAt, sinceTurn>>
  BY DEF Throw, Answer, Rejected, WaitingAfter
<1>2. \/ /\ failures' \in {failures, One(failures, FailCap)} /\ UNCHANGED <<hits, tracked, passed>>
      \/ /\ hits' = [hits EXCEPT ![ClientOf[a]] = Nothing] /\ tracked' = tracked \ {ClientOf[a]}
         /\ passed' = [passed EXCEPT ![ClientOf[a]] = Nothing] /\ UNCHANGED failures
  BY DEF Throw, Answer
<1>3. /\ hits' \in [Client -> [Ages -> 0 .. Limit]] /\ tracked' \in SUBSET Client
      /\ passed' \in [Client -> [Ages -> 0 .. Limit + 1]] /\ failures' \in [Ages -> 0 .. FailCap]
  <2>1. Nothing \in [Ages -> 0 .. Limit] /\ Nothing \in [Ages -> 0 .. Limit + 1]
    BY <1>t DEF Nothing
  <2>2. One(failures, FailCap) \in [Ages -> 0 .. FailCap]
    BY <1>t, AgesFinite DEF One
  <2>3. failures' \in [Ages -> 0 .. FailCap]
    BY <1>t, <1>2, <2>2
  <2>4. /\ hits' \in [Client -> [Ages -> 0 .. Limit]] /\ tracked' \in SUBSET Client
        /\ passed' \in [Client -> [Ages -> 0 .. Limit + 1]]
    <3>1. hits' = hits \/ hits' = [hits EXCEPT ![ClientOf[a]] = Nothing]
      BY <1>2
    <3>2. passed' = passed \/ passed' = [passed EXCEPT ![ClientOf[a]] = Nothing]
      BY <1>2
    <3>3. hits' \in [Client -> [Ages -> 0 .. Limit]]
      BY <1>t, <2>1, <3>1
    <3>4. passed' \in [Client -> [Ages -> 0 .. Limit + 1]]
      BY <1>t, <2>1, <3>2
    <3>5. tracked' \in SUBSET Client
      BY <1>t, <1>2
    <3> QED
      BY <3>3, <3>4, <3>5
  <2> QED
    BY <2>3, <2>4
<1>4. LineInv'
  BY <1>t, <1>1, <1>3, LeaveLine
<1>5. BudgetIsKept'
  BY <1>t, <1>2, RecentNone DEF ThrottleInv, BudgetIsKept
<1> QED
  BY <1>4, <1>5 DEF ThrottleInv

LEMMA ThrottleStep == ThrottleInv /\ [ThrottleNext]_throttleVars => ThrottleInv'
<1> SUFFICES ASSUME ThrottleInv, [ThrottleNext]_throttleVars PROVE ThrottleInv'
  OBVIOUS
<1>1. ASSUME UNCHANGED <<failures, chain, stage, timer, waiting, lastAt, sinceTurn, passed, hits>>,
             tracked' \in SUBSET Client
      PROVE  ThrottleInv'
  BY <1>1 DEF ThrottleInv, LineInv, ThrottleTypeOK, WaitingIsTheLine, OneAtATime, LineIsOrderly,
     BudgetIsKept, Distinct
<1>2. CASE UNCHANGED throttleVars
  BY <1>1, <1>2 DEF throttleVars, ThrottleInv, LineInv, ThrottleTypeOK
<1>3. ASSUME NEW a \in Attempt, OverBudget(a) PROVE ThrottleInv'
  BY <1>1, <1>3, RefusedBudget
<1>4. ASSUME NEW a \in Attempt, LetThrough(a) PROVE ThrottleInv'
  BY <1>4, LetThroughBudget, LetThroughLine DEF ThrottleInv
<1>5. ASSUME NEW a \in Attempt, TakeTurn(a) \/ WakeUp(a) PROVE ThrottleInv'
  <2>1. LineInv'
    BY <1>5, TakeLine DEF ThrottleInv
  <2>2. UNCHANGED <<hits, passed>>
    BY <1>5 DEF TakeTurn, WakeUp
  <2> QED
    BY <2>1, <2>2 DEF ThrottleInv, BudgetIsKept
<1> QED
  BY <1>2, <1>3, <1>4, <1>5, VerifiedStep, TickLine DEF ThrottleNext, Take

LEMMA ThrottleHeld == ThrottleInv => SignInIsHeld
<1> SUFFICES ASSUME ThrottleInv PROVE BudgetHolds
  BY DEF ThrottleInv, LineInv, SignInIsHeld
<1> QED
  BY DEF ThrottleInv, BudgetIsKept, BudgetHolds

(* What a step may do to those in line. *)
LEMMA TurnsStep ==
  ASSUME ThrottleInv, [ThrottleNext]_throttleVars, NEW a \in Attempt
  PROVE  /\ stage[a] # "verifying" /\ stage'[a] = "verifying" => sinceTurn = MinInterval
         /\ stage[a] \in {"turn", "asleep"} => stage'[a] # "out"
<1>t. /\ LineInv /\ MinInterval \in Nat
      /\ stage \in [Attempt -> {"out", "fast", "turn", "asleep", "verifying"}]
      /\ sinceTurn \in 0 .. MinInterval /\ lastAt \in 0 .. MinInterval
      /\ lastAt <= sinceTurn
      /\ \A b \in Attempt : stage[b] = "asleep" => timer[b] + sinceTurn >= MinInterval
  BY ThrottleAssumption DEF ThrottleInv, LineInv, ThrottleTypeOK, LineIsOrderly
<1>1. CASE stage' = stage
  BY <1>1
<1>2. ASSUME NEW b \in Attempt, LetThrough(b) PROVE stage'[a] = stage[a] \/ (stage[a] = "out" /\ stage'[a] \in {"fast", "turn"})
  BY <1>t, <1>2 DEF LetThrough
<1>3. ASSUME NEW b \in Attempt, TakeTurn(b)
      PROVE  stage'[a] = stage[a] \/ stage'[a] = "asleep" \/ (stage'[a] = "verifying" /\ sinceTurn = MinInterval)
  BY <1>t, <1>3 DEF TakeTurn, Wait
<1>4. ASSUME NEW b \in Attempt, WakeUp(b)
      PROVE  stage'[a] = stage[a] \/ (stage'[a] = "verifying" /\ sinceTurn = MinInterval)
  BY <1>t, <1>4 DEF WakeUp
<1>5. ASSUME NEW b \in Attempt, Throw(b) \/ \E right \in BOOLEAN : Answer(b, right)
      PROVE  stage'[a] = stage[a] \/ (stage[a] \in {"fast", "verifying"} /\ stage'[a] = "out")
  BY <1>t, <1>5 DEF Throw, Answer, Leave, Rejected
<1> QED
  BY <1>1, <1>2, <1>3, <1>4, <1>5 DEF ThrottleNext, throttleVars, OverBudget, ThrottleTick, Take

LEMMA ThrottleInductive == ThrottleSpec => []ThrottleInv
  BY InitThrottle, ThrottleStep, PTL DEF ThrottleSpec

(* The lists of instants, the line and the stages of attempts are well     *)
(* formed.                                                                 *)
THEOREM ThrottleTyped == ThrottleSpec => []ThrottleTypeOK
<1>1. ThrottleInv => ThrottleTypeOK
  BY DEF ThrottleInv, LineInv
<1> QED
  BY <1>1, ThrottleInductive, PTL

(* throttle.run's `waiting` is the number of attempts in line, within its  *)
(* bound, the head alone is verified, and limiter.attempt lets a client    *)
(* through `limit` times a window at most: however attempts come, throw    *)
(* and answer, and whatever a full map drops.                              *)
THEOREM SignInHeld == ThrottleSpec => []SignInIsHeld
  BY ThrottleInductive, ThrottleHeld, PTL

(* Under the slowdown passwords are verified MinInterval apart.            *)
THEOREM VerificationsAreSpaced == ThrottleSpec => SlowdownSpaces
<1> DEFINE A == \A a \in Attempt :
                  stage[a] # "verifying" /\ stage'[a] = "verifying" => sinceTurn = MinInterval
<1>1. ThrottleInv /\ [ThrottleNext]_throttleVars => [A]_throttleVars
  BY TurnsStep
<1> QED
  BY <1>1, ThrottleInductive, PTL DEF ThrottleSpec, SlowdownSpaces

(* An attempt in line is not ended by the verification of another.         *)
THEOREM OutcomesAreOwn == ThrottleSpec => OwnOutcome
<1> DEFINE A == \A a \in Attempt : stage[a] \in {"turn", "asleep"} => stage'[a] # "out"
<1>1. ThrottleInv /\ [ThrottleNext]_throttleVars => [A]_throttleVars
  BY TurnsStep
<1> QED
  BY <1>1, ThrottleInductive, PTL DEF ThrottleSpec, OwnOutcome
-----------------------------------------------------------------------------
(* At most one request has its row in admin_user. *)
Single == admins = {} \/ \E r \in Setup : admins = {r}

(* A row is of a token that was drawn for its audience and not ended, and  *)
(* carries its age and its rest.                                           *)
RowIsOfToken ==
  \A t \in Token : session[t].there =>
    /\ t \in drawn \ ended
    /\ session[t].audience = audience[t]
    /\ session[t].born = age[t] /\ session[t].idle = rest[t]

(* A token that lost its row without being ended was at one of its limits. *)
GoneIsOver ==
  \A t \in drawn \ ended : ~session[t].there =>
    rest[t] >= Rolling[audience[t]] \/ age[t] >= Ceiling[audience[t]]

(* Nothing is known of a token before it is drawn. *)
UndrawnIsFresh ==
  \A t \in Token \ drawn : age[t] = 0 /\ rest[t] = 0 /\ t \notin ended

SessionInv ==
  SessionTypeOK /\ Single /\ RowIsOfToken /\ GoneIsOver /\ UndrawnIsFresh /\ AdmittedIsCurrent
-----------------------------------------------------------------------------
LEMMA NoSessionTyped == NoSession \in Row /\ ~NoSession.there
<1>1. (CHOOSE a \in Audience : TRUE) \in Audience
  BY SessionAssumption
<1> QED
  BY <1>1, SessionAssumption DEF NoSession, Row

LEMMA InitSession == SessionInit => SessionInv
<1> SUFFICES ASSUME SessionInit PROVE SessionInv
  OBVIOUS
<1> USE SessionAssumption DEF SessionInit
<1>1. SessionTypeOK
  <2>1. (CHOOSE a \in Audience : TRUE) \in Audience
    OBVIOUS
  <2> QED
    BY <2>1, NoSessionTyped DEF SessionTypeOK
<1>2. Single /\ RowIsOfToken /\ GoneIsOver /\ UndrawnIsFresh /\ AdmittedIsCurrent
  BY NoSessionTyped DEF Single, RowIsOfToken, GoneIsOver, UndrawnIsFresh, AdmittedIsCurrent
<1> QED
  BY <1>1, <1>2 DEF SessionInv

(* Creating the administrator says nothing about sessions, and leaves one  *)
(* row: the second check is inside the transaction.                        *)
LEMMA AdminStep ==
  ASSUME SessionInv, NEW r \in Setup, BeginAdmin(r) \/ InsertAdmin(r)
  PROVE  SessionInv'
<1> USE DEF SessionInv
<1>1. SessionTypeOK' /\ Single'
  BY DEF BeginAdmin, InsertAdmin, CheckedAgain, HasAdmin, SessionTypeOK, Single
<1>2. UNCHANGED <<drawn, session, answered, audience, age, rest, ended>>
  BY DEF BeginAdmin, InsertAdmin
<1> QED
  BY <1>1, <1>2 DEF RowIsOfToken, GoneIsOver, UndrawnIsFresh, AdmittedIsCurrent

LEMMA CreateSessionStep ==
  ASSUME SessionInv, NEW t \in Token, NEW a \in Audience, CreateSession(t, a)
  PROVE  SessionInv'
<1> USE DEF SessionInv
<1>a. /\ session \in [Token -> Row] /\ audience \in [Token -> Audience]
      /\ [there |-> TRUE, audience |-> a, born |-> 0, idle |-> 0] \in Row
  BY SessionAssumption DEF SessionTypeOK, Row
<1>1. /\ t \notin drawn /\ drawn' = drawn \cup {t} /\ answered' = {}
      /\ audience' = [audience EXCEPT ![t] = a]
      /\ UNCHANGED <<admins, creating, age, rest, ended>>
  BY DEF CreateSession
<1>2. /\ session'[t] = [there |-> TRUE, audience |-> a, born |-> 0, idle |-> 0]
      /\ \A s \in Token \ {t} : session'[s] = IF s \in Lapsed THEN NoSession ELSE session[s]
  BY DEF CreateSession
<1>3. SessionTypeOK'
  <2>1. session' \in [Token -> Row]
    BY <1>a, NoSessionTyped DEF CreateSession
  <2> QED
    BY <1>a, <1>1, <2>1 DEF SessionTypeOK
<1>4. Single' /\ AdmittedIsCurrent'
  BY <1>1 DEF Single, AdmittedIsCurrent
<1>5. UndrawnIsFresh'
  BY <1>1 DEF UndrawnIsFresh
<1>6. RowIsOfToken'
  <2> SUFFICES ASSUME NEW s \in Token, session'[s].there
               PROVE  /\ s \in drawn' \ ended' /\ session'[s].audience = audience'[s]
                      /\ session'[s].born = age'[s] /\ session'[s].idle = rest'[s]
    BY DEF RowIsOfToken
  <2>1. CASE s = t
    BY <1>a, <1>1, <1>2, <2>1 DEF UndrawnIsFresh
  <2>2. CASE s # t
    BY <1>a, <1>1, <1>2, <2>2, NoSessionTyped DEF RowIsOfToken
  <2> QED
    BY <2>1, <2>2
<1>7. GoneIsOver'
  <2> SUFFICES ASSUME NEW s \in drawn' \ ended', ~session'[s].there
               PROVE  rest[s] >= Rolling[audience'[s]] \/ age[s] >= Ceiling[audience'[s]]
    BY <1>1 DEF GoneIsOver
  <2>1. s \in Token /\ s # t /\ s \in drawn \ ended /\ audience'[s] = audience[s]
    BY <1>a, <1>1, <1>2 DEF SessionTypeOK
  <2>2. CASE s \in Lapsed
    BY <1>1, <2>1, <2>2 DEF Lapsed, RowIsOfToken
  <2>3. CASE s \notin Lapsed
    BY <1>1, <1>2, <2>1, <2>3 DEF GoneIsOver
  <2> QED
    BY <2>2, <2>3
<1> QED
  BY <1>3, <1>4, <1>5, <1>6, <1>7

LEMMA ValidateSessionStep ==
  ASSUME SessionInv, NEW t \in Token, NEW a \in Audience, Validate(t, a)
  PROVE  SessionInv'
<1> USE DEF SessionInv
<1>a. /\ session \in [Token -> Row] /\ rest \in [Token -> 0 .. Longest]
      /\ 0 \in 0 .. Longest
  BY SessionAssumption DEF SessionTypeOK
<1>b. t \in drawn /\ UNCHANGED <<admins, creating, drawn, audience, age, ended>>
  BY DEF Validate
<1>1. CASE session' = session /\ answered' = {} /\ rest' = rest
  BY <1>b, <1>1 DEF SessionTypeOK, Single, RowIsOfToken, GoneIsOver, UndrawnIsFresh,
     AdmittedIsCurrent
<1>2. CASE /\ Found(t, a) /\ Over(t) /\ session' = [session EXCEPT ![t] = NoSession]
           /\ answered' = {} /\ rest' = rest
  <2>1. /\ session' \in [Token -> Row] /\ ~session'[t].there
        /\ \A s \in Token \ {t} : session'[s] = session[s]
    BY <1>a, <1>2, NoSessionTyped
  <2>2. t \notin ended =>
          rest[t] >= Rolling[audience[t]] \/ age[t] >= Ceiling[audience[t]]
    BY <1>2 DEF Found, Over, RowIsOfToken
  <2>3. GoneIsOver'
    BY <1>b, <1>2, <2>1, <2>2 DEF GoneIsOver, SessionTypeOK
  <2>4. RowIsOfToken'
    BY <1>b, <1>2, <2>1 DEF RowIsOfToken
  <2> QED
    BY <1>b, <1>2, <2>1, <2>3, <2>4 DEF SessionTypeOK, Single, UndrawnIsFresh, AdmittedIsCurrent
<1>3. CASE /\ Found(t, a) /\ ~Over(t) /\ session' = [session EXCEPT ![t].idle = 0]
           /\ answered' = {<<t, a, rest[t]>>} /\ rest' = [rest EXCEPT ![t] = 0]
  <2>1. /\ session' \in [Token -> Row] /\ session'[t].there /\ session'[t].idle = 0
        /\ session'[t].audience = session[t].audience /\ session'[t].born = session[t].born
        /\ \A s \in Token \ {t} : session'[s] = session[s] /\ rest'[s] = rest[s]
        /\ rest' \in [Token -> 0 .. Longest] /\ rest'[t] = 0
    <3>1. session[t] \in Row /\ session[t].there
      BY <1>a, <1>3 DEF Found
    <3>2. [session[t] EXCEPT !.idle = 0] \in Row
      BY <1>a, <3>1 DEF Row
    <3>3. session'[t] = [session[t] EXCEPT !.idle = 0]
      BY <1>a, <1>3
    <3>4. /\ session'[t].there = session[t].there /\ session'[t].idle = 0
          /\ session'[t].audience = session[t].audience
          /\ session'[t].born = session[t].born
      BY <3>1, <3>3 DEF Row
    <3> QED
      BY <1>a, <1>3, <3>1, <3>2, <3>3, <3>4
  <2>2. RowIsOfToken'
    BY <1>b, <1>3, <2>1 DEF RowIsOfToken, Found
  <2>3. GoneIsOver'
    BY <1>b, <2>1 DEF GoneIsOver, SessionTypeOK
  <2>4. UndrawnIsFresh'
    BY <1>b, <2>1 DEF UndrawnIsFresh
  <2>5. AdmittedIsCurrent'
    <3>1. /\ session[t].audience = a /\ session[t].there
          /\ ~(session[t].born >= Ceiling[a]) /\ ~(session[t].idle >= Rolling[a])
      BY <1>3 DEF Found, Over
    <3>2. age[t] \in Nat /\ Ceiling[a] \in Nat /\ rest[t] \in Nat /\ Rolling[a] \in Nat
      BY SessionAssumption DEF SessionTypeOK
    <3>3. audience[t] = a /\ t \notin ended /\ age[t] < Ceiling[a] /\ rest[t] < Rolling[a]
      BY <3>1, <3>2 DEF RowIsOfToken
    <3> QED
      BY <1>b, <1>3, <3>3 DEF AdmittedIsCurrent
  <2> QED
    BY <1>b, <1>3, <2>1, <2>2, <2>3, <2>4, <2>5 DEF SessionTypeOK, Single
<1> QED
  BY <1>1, <1>2, <1>3 DEF Validate, Misdirected

LEMMA EndSessionStep ==
  ASSUME SessionInv, NEW t \in Token, EndSession(t)
  PROVE  SessionInv'
<1> USE DEF SessionInv
<1>1. /\ session' = [session EXCEPT ![t] = NoSession] /\ ended' = ended \cup {t}
      /\ session[t].there /\ answered' = {}
      /\ UNCHANGED <<admins, creating, drawn, audience, age, rest>>
  BY DEF EndSession, Revoked
<1>2. /\ session' \in [Token -> Row] /\ ~session'[t].there
      /\ \A s \in Token \ {t} : session'[s] = session[s]
  BY <1>1, NoSessionTyped DEF SessionTypeOK
<1>3. t \in drawn
  BY <1>1 DEF RowIsOfToken
<1>4. RowIsOfToken' /\ GoneIsOver' /\ UndrawnIsFresh'
  BY <1>1, <1>2, <1>3 DEF RowIsOfToken, GoneIsOver, UndrawnIsFresh, SessionTypeOK
<1> QED
  BY <1>1, <1>2, <1>4 DEF SessionTypeOK, Single, AdmittedIsCurrent

(* Time ages a row and its token alike. *)
LEMMA SessionTickStep ==
  ASSUME SessionInv, SessionTick
  PROVE  SessionInv'
<1> USE DEF SessionInv
<1> DEFINE older(n) == IF n < Longest THEN n + 1 ELSE n
<1>1. /\ session' = [s \in Token |-> IF session[s].there
                        THEN [session[s] EXCEPT !.born = older(@), !.idle = older(@)]
                        ELSE session[s]]
      /\ age' = [s \in Token |-> IF s \in drawn THEN older(age[s]) ELSE 0]
      /\ rest' = [s \in Token |-> IF s \in drawn THEN older(rest[s]) ELSE 0]
      /\ answered' = {}
      /\ UNCHANGED <<admins, creating, drawn, audience, ended>>
  BY DEF SessionTick
<1>2. \A n \in 0 .. Longest : older(n) \in 0 .. Longest /\ older(n) >= n
  BY SessionAssumption
<1>3. 0 \in 0 .. Longest
  BY SessionAssumption
<1> HIDE DEF older
<1>4. /\ session' \in [Token -> Row]
      /\ \A s \in Token :
           /\ session'[s].there = session[s].there
           /\ session'[s].audience = session[s].audience
           /\ session[s].there => /\ session'[s].born = older(session[s].born)
                                 /\ session'[s].idle = older(session[s].idle)
  BY <1>1, <1>2 DEF SessionTypeOK, Row
<1>5. age' \in [Token -> 0 .. Longest] /\ rest' \in [Token -> 0 .. Longest]
  BY <1>1, <1>2, <1>3 DEF SessionTypeOK
<1>6. RowIsOfToken'
  BY <1>1, <1>4 DEF RowIsOfToken
<1>7. GoneIsOver'
  <2> SUFFICES ASSUME NEW s \in drawn \ ended, ~session[s].there
               PROVE  rest'[s] >= Rolling[audience[s]] \/ age'[s] >= Ceiling[audience[s]]
    BY <1>1, <1>4 DEF GoneIsOver, SessionTypeOK
  <2>1. s \in Token /\ rest'[s] >= rest[s] /\ age'[s] >= age[s]
    BY <1>1, <1>2 DEF SessionTypeOK
  <2>2. /\ rest[s] \in Nat /\ age[s] \in Nat /\ rest'[s] \in Nat /\ age'[s] \in Nat
        /\ Rolling[audience[s]] \in Nat /\ Ceiling[audience[s]] \in Nat
    BY <1>5, <2>1, SessionAssumption DEF SessionTypeOK
  <2> QED
    BY <2>1, <2>2 DEF GoneIsOver
<1> QED
  BY <1>1, <1>4, <1>5, <1>6, <1>7 DEF SessionTypeOK, Single, UndrawnIsFresh, AdmittedIsCurrent
-----------------------------------------------------------------------------
LEMMA SessionInductive == SessionSpec => []SessionInv
<1>1. SessionInv /\ [SessionNext]_sessionVars => SessionInv'
  <2> SUFFICES ASSUME SessionInv, [SessionNext]_sessionVars PROVE SessionInv'
    OBVIOUS
  <2>1. CASE UNCHANGED sessionVars
    BY <2>1 DEF sessionVars, SessionInv, SessionTypeOK, Single, RowIsOfToken, GoneIsOver,
       UndrawnIsFresh, AdmittedIsCurrent
  <2> QED
    BY <2>1, AdminStep, CreateSessionStep, ValidateSessionStep, EndSessionStep, SessionTickStep DEF SessionNext
<1> QED
  BY <1>1, InitSession, PTL DEF SessionSpec

(* The rows of admin_user and sessions are well formed. *)
THEOREM SessionsTyped == SessionSpec => []SessionTypeOK
<1>1. SessionInv => SessionTypeOK
  BY DEF SessionInv
<1> QED
  BY <1>1, SessionInductive, PTL

(* However many requests create the first administrator at once, one row   *)
(* is written.                                                             *)
THEOREM SingleAdministrator == SessionSpec => []OneAdmin
<1>1. SessionInv => OneAdmin
  <2> SUFFICES ASSUME SessionInv PROVE Cardinality(admins) <= 1
    BY DEF OneAdmin
  <2>1. CASE admins = {}
    BY <2>1, FS_EmptySet
  <2>2. CASE \E r \in Setup : admins = {r}
    <3>1. PICK r \in Setup : admins = {r}
      BY <2>2
    <3>2. Cardinality(admins) = 1
      BY <3>1, FS_Singleton
    <3> QED
      BY <3>2
  <2> QED
    BY <2>1, <2>2 DEF SessionInv, Single
<1> QED
  BY <1>1, SessionInductive, PTL

(* validateSession admits a token only for the audience it was drawn for,  *)
(* below its ceiling and not after it was signed out or revoked.           *)
THEOREM AdmittedSessionsAreCurrent == SessionSpec => []AdmittedIsCurrent
<1>1. SessionInv => AdmittedIsCurrent
  BY DEF SessionInv
<1> QED
  BY <1>1, SessionInductive, PTL

(* A token used within its window and below its ceiling keeps its row,     *)
(* whoever else signs in, is swept or sends it to the wrong place.         *)
THEOREM SessionsInUseStayGood == SessionSpec => []InUseStaysGood
<1>1. SessionInv => InUseStaysGood
  <2> SUFFICES ASSUME SessionInv, NEW t \in drawn \ ended,
                      rest[t] < Rolling[audience[t]], age[t] < Ceiling[audience[t]]
               PROVE  /\ session[t].there /\ session[t].audience = audience[t]
                      /\ session[t].idle = rest[t]
    BY DEF InUseStaysGood
  <2>1. t \in Token /\ rest[t] \in Nat /\ age[t] \in Nat
    BY DEF SessionInv, SessionTypeOK
  <2>2. Rolling[audience[t]] \in Nat /\ Ceiling[audience[t]] \in Nat
    BY <2>1, SessionAssumption DEF SessionInv, SessionTypeOK
  <2>3. session[t].there
    BY <2>1, <2>2 DEF SessionInv, GoneIsOver
  <2> QED
    BY <2>1, <2>3 DEF SessionInv, RowIsOfToken
<1> QED
  BY <1>1, SessionInductive, PTL

(* The three together.                                                     *)
THEOREM SessionsAreSound == SessionSpec => []SessionsHold
<1>1. OneAdmin /\ AdmittedIsCurrent /\ InUseStaysGood => SessionsHold
  BY DEF SessionsHold
<1> QED
  BY <1>1, SingleAdministrator, AdmittedSessionsAreCurrent, SessionsInUseStayGood, PTL
=============================================================================
