------------------------ MODULE TenantRunQueuesTheorems ------------------------
(***************************************************************************)
(* What the operators of TenantRunQueues do to a consistent scheduler      *)
(* state, for any finite set of runs, any tenants and any limits: every    *)
(* public method of the scheduler keeps Consistent(s), and what it changes.*)
(***************************************************************************)
EXTENDS TenantRunQueues, TLAPS, SequenceTheorems, FiniteSetTheorems

-----------------------------------------------------------------------------
(* Sequences as lists without repetition *)

\* The elements of a sequence, and the runs of a queue.
Elems(q) == {q[i] : i \in DOMAIN q}
Runs(q) == {q[i].run : i \in DOMAIN q}

Distinct(q) == \A i, j \in DOMAIN q : q[i] = q[j] => i = j
DistinctRuns(q) == \A i, j \in DOMAIN q : q[i].run = q[j].run => i = j

\* The two halves around position i: what removeQueued's splice and the
\* rotation's shift and push keep.
LEMMA HalvesType ==
  ASSUME NEW S, NEW q \in Seq(S), NEW i \in 1..Len(q)
  PROVE  /\ Before(q, i) \in Seq(S)
         /\ Len(Before(q, i)) = i - 1
         /\ \A k \in 1 .. i - 1 : Before(q, i)[k] = q[k]
         /\ After(q, i) \in Seq(S)
         /\ Len(After(q, i)) = Len(q) - i
         /\ \A k \in 1 .. Len(q) - i : After(q, i)[k] = q[i + k]
<1>1. Len(q) \in Nat /\ \A k \in 1..Len(q) : q[k] \in S
  BY LenProperties, ElementOfSeq
<1>2. /\ SubSeq(q, 1, i - 1) \in Seq(S)
      /\ Len(SubSeq(q, 1, i - 1)) = IF 1 <= i - 1 THEN (i - 1) - 1 + 1 ELSE 0
      /\ \A k \in 1 .. (i - 1) - 1 + 1 : SubSeq(q, 1, i - 1)[k] = q[1 + k - 1]
  <2>1. \A k \in 1 .. i - 1 : q[k] \in S
    BY <1>1
  <2> QED  BY <2>1, SubSeqProperties
<1>3. /\ SubSeq(q, i + 1, Len(q)) \in Seq(S)
      /\ Len(SubSeq(q, i + 1, Len(q))) = IF i + 1 <= Len(q) THEN Len(q) - (i + 1) + 1 ELSE 0
      /\ \A k \in 1 .. Len(q) - (i + 1) + 1 : SubSeq(q, i + 1, Len(q))[k] = q[i + 1 + k - 1]
  <2>1. \A k \in i + 1 .. Len(q) : q[k] \in S
    BY <1>1
  <2> QED  BY <1>1, <2>1, SubSeqProperties
<1>4. /\ Len(Before(q, i)) = i - 1
      /\ Len(After(q, i)) = Len(q) - i
  BY <1>1, <1>2, <1>3 DEF Before, After
<1>5. \A k \in 1 .. i - 1 : Before(q, i)[k] = q[k]
  BY <1>1, <1>2 DEF Before
<1>6. \A k \in 1 .. Len(q) - i : After(q, i)[k] = q[i + k]
  <2> TAKE k \in 1 .. Len(q) - i
  <2>1. k \in 1 .. Len(q) - (i + 1) + 1 /\ i + 1 + k - 1 = i + k
    BY <1>1
  <2> QED  BY <2>1, <1>3 DEF After
<1> QED  BY <1>2, <1>3, <1>4, <1>5, <1>6 DEF Before, After

\* Without(q, i) is q with the element at i gone.
LEMMA WithoutType ==
  ASSUME NEW S, NEW q \in Seq(S), NEW i \in 1..Len(q)
  PROVE  /\ Without(q, i) \in Seq(S)
         /\ Len(Without(q, i)) = Len(q) - 1
         /\ \A k \in 1 .. Len(q) - 1 : Without(q, i)[k] = IF k < i THEN q[k] ELSE q[k + 1]
<1> DEFINE b == Before(q, i)
           a == After(q, i)
<1>1. Len(q) \in Nat
  BY LenProperties
<1>2. /\ b \in Seq(S) /\ Len(b) = i - 1 /\ \A k \in 1 .. i - 1 : b[k] = q[k]
      /\ a \in Seq(S) /\ Len(a) = Len(q) - i /\ \A k \in 1 .. Len(q) - i : a[k] = q[i + k]
  BY HalvesType
<1> HIDE DEF a, b
<1>3. /\ b \o a \in Seq(S)
      /\ Len(b \o a) = Len(b) + Len(a)
      /\ \A k \in 1 .. Len(b) + Len(a) : (b \o a)[k] = IF k <= Len(b) THEN b[k] ELSE a[k - Len(b)]
  BY <1>2, ConcatProperties
<1>4. Len(b \o a) = Len(q) - 1
  BY <1>1, <1>2, <1>3
<1>5. ASSUME NEW k \in 1 .. Len(q) - 1
      PROVE  (b \o a)[k] = IF k < i THEN q[k] ELSE q[k + 1]
  <2>1. k \in 1 .. Len(b) + Len(a)
    BY <1>1, <1>2
  <2>2. CASE k < i
    <3>1. k \in 1 .. i - 1 /\ k <= Len(b)
      BY <2>2, <1>1, <1>2
    <3> QED  BY <2>1, <2>2, <3>1, <1>2, <1>3
  <2>3. CASE ~(k < i)
    <3>1. k - (i - 1) \in 1 .. Len(q) - i /\ ~(k <= Len(b)) /\ i + (k - (i - 1)) = k + 1
      BY <2>3, <1>1, <1>2
    <3>2. a[k - (i - 1)] = q[i + (k - (i - 1))]
      BY <3>1, <1>2
    <3> QED  BY <2>1, <2>3, <3>1, <3>2, <1>2, <1>3
  <2> QED  BY <2>2, <2>3
<1> QED  BY <1>3, <1>4, <1>5 DEF Without, a, b

\* After(q, i) \o Before(q, i) is q turned until position i is at the head,
\* with that head gone.
LEMMA TurnedType ==
  ASSUME NEW S, NEW q \in Seq(S), NEW i \in 1..Len(q)
  PROVE  /\ After(q, i) \o Before(q, i) \in Seq(S)
         /\ Len(After(q, i) \o Before(q, i)) = Len(q) - 1
         /\ \A k \in 1 .. Len(q) - 1 :
              (After(q, i) \o Before(q, i))[k] =
                IF k <= Len(q) - i THEN q[i + k] ELSE q[k - (Len(q) - i)]
<1> DEFINE b == Before(q, i)
           a == After(q, i)
<1>1. Len(q) \in Nat
  BY LenProperties
<1>2. /\ b \in Seq(S) /\ Len(b) = i - 1 /\ \A k \in 1 .. i - 1 : b[k] = q[k]
      /\ a \in Seq(S) /\ Len(a) = Len(q) - i /\ \A k \in 1 .. Len(q) - i : a[k] = q[i + k]
  BY HalvesType
<1> HIDE DEF a, b
<1>3. /\ a \o b \in Seq(S)
      /\ Len(a \o b) = Len(a) + Len(b)
      /\ \A k \in 1 .. Len(a) + Len(b) : (a \o b)[k] = IF k <= Len(a) THEN a[k] ELSE b[k - Len(a)]
  BY <1>2, ConcatProperties
<1>4. Len(a \o b) = Len(q) - 1
  BY <1>1, <1>2, <1>3
<1>5. ASSUME NEW k \in 1 .. Len(q) - 1
      PROVE  (a \o b)[k] = IF k <= Len(q) - i THEN q[i + k] ELSE q[k - (Len(q) - i)]
  <2>1. k \in 1 .. Len(a) + Len(b)
    BY <1>1, <1>2
  <2>2. CASE k <= Len(q) - i
    <3>1. k \in 1 .. Len(q) - i /\ k <= Len(a)
      BY <2>2, <1>1, <1>2
    <3> QED  BY <2>1, <2>2, <3>1, <1>2, <1>3
  <2>3. CASE ~(k <= Len(q) - i)
    <3>1. k - (Len(q) - i) \in 1 .. i - 1 /\ ~(k <= Len(a))
      BY <2>3, <1>1, <1>2
    <3> QED  BY <2>1, <2>3, <3>1, <1>2, <1>3
  <2> QED  BY <2>2, <2>3
<1> QED  BY <1>3, <1>4, <1>5 DEF a, b

\* Taking the element at i out of a list without repetition leaves a list
\* without repetition of the other elements, whichever half comes first.
LEMMA WithoutDistinct ==
  ASSUME NEW S, NEW q \in Seq(S), NEW i \in 1..Len(q), Distinct(q)
  PROVE  /\ Distinct(Without(q, i))
         /\ Elems(Without(q, i)) = Elems(q) \ {q[i]}
<1> DEFINE o == Without(q, i)
<1>1. Len(q) \in Nat /\ DOMAIN q = 1..Len(q)
  BY LenProperties
<1>2. o \in Seq(S) /\ Len(o) = Len(q) - 1
      /\ \A k \in 1 .. Len(q) - 1 : o[k] = IF k < i THEN q[k] ELSE q[k + 1]
  BY WithoutType
<1> HIDE DEF o
<1>3. DOMAIN o = 1 .. Len(q) - 1
  BY <1>2, LenProperties
<1> DEFINE from(k) == IF k < i THEN k ELSE k + 1
<1>4. ASSUME NEW k \in DOMAIN o
      PROVE  from(k) \in DOMAIN q /\ from(k) # i /\ o[k] = q[from(k)]
  BY <1>1, <1>2, <1>3
<1>5. ASSUME NEW m \in DOMAIN q, m # i
      PROVE  \E k \in DOMAIN o : from(k) = m
  <2>1. CASE m < i
    <3>1. m \in DOMAIN o
      BY <2>1, <1>1, <1>3
    <3> QED  BY <2>1, <3>1
  <2>2. CASE ~(m < i)
    <3>1. m - 1 \in DOMAIN o /\ ~(m - 1 < i) /\ (m - 1) + 1 = m
      BY <2>2, <1>1, <1>3, <1>5
    <3> QED  BY <3>1
  <2> QED  BY <2>1, <2>2
<1>6. Distinct(o)
  <2> SUFFICES ASSUME NEW j \in DOMAIN o, NEW k \in DOMAIN o, o[j] = o[k]
               PROVE  j = k
    BY DEF Distinct
  <2>1. from(j) = from(k)
    <3> HIDE DEF from
    <3> QED  BY <1>4 DEF Distinct
  <2> QED  BY <2>1, <1>1, <1>3
<1>7. Elems(o) = Elems(q) \ {q[i]}
  <2> HIDE DEF from
  <2>1. ASSUME NEW e \in Elems(o)  PROVE e \in Elems(q) \ {q[i]}
    <3>1. PICK k \in DOMAIN o : e = o[k]
      BY DEF Elems
    <3>2. from(k) \in DOMAIN q /\ from(k) # i /\ e = q[from(k)]
      BY <3>1, <1>4
    <3>3. i \in DOMAIN q
      BY <1>1
    <3> QED  BY <3>2, <3>3 DEF Elems, Distinct
  <2>2. ASSUME NEW e \in Elems(q) \ {q[i]}  PROVE e \in Elems(o)
    <3>1. PICK m \in DOMAIN q : e = q[m]
      BY DEF Elems
    <3>2. m # i
      BY <3>1
    <3>3. PICK k \in DOMAIN o : from(k) = m
      BY <3>2, <1>5
    <3>4. o[k] = e
      BY <3>1, <3>3, <1>4
    <3> QED  BY <3>4 DEF Elems
  <2> QED  BY <2>1, <2>2
<1> QED  BY <1>6, <1>7 DEF o

LEMMA TurnedDistinct ==
  ASSUME NEW S, NEW q \in Seq(S), NEW i \in 1..Len(q), Distinct(q)
  PROVE  /\ Distinct(After(q, i) \o Before(q, i))
         /\ Elems(After(q, i) \o Before(q, i)) = Elems(q) \ {q[i]}
<1> DEFINE o == After(q, i) \o Before(q, i)
<1>1. Len(q) \in Nat /\ DOMAIN q = 1..Len(q)
  BY LenProperties
<1>2. o \in Seq(S) /\ Len(o) = Len(q) - 1
      /\ \A k \in 1 .. Len(q) - 1 :
           o[k] = IF k <= Len(q) - i THEN q[i + k] ELSE q[k - (Len(q) - i)]
  BY TurnedType
<1> HIDE DEF o
<1>3. DOMAIN o = 1 .. Len(q) - 1
  BY <1>2, LenProperties
<1> DEFINE from(k) == IF k <= Len(q) - i THEN i + k ELSE k - (Len(q) - i)
<1>4. ASSUME NEW k \in DOMAIN o
      PROVE  from(k) \in DOMAIN q /\ from(k) # i /\ o[k] = q[from(k)]
  <2>1. CASE k <= Len(q) - i
    <3>1. i + k \in DOMAIN q /\ i + k # i
      BY <2>1, <1>1, <1>3
    <3> QED  BY <2>1, <3>1, <1>2, <1>3
  <2>2. CASE ~(k <= Len(q) - i)
    <3>1. k - (Len(q) - i) \in DOMAIN q /\ k - (Len(q) - i) # i
      BY <2>2, <1>1, <1>3
    <3> QED  BY <2>2, <3>1, <1>2, <1>3
  <2> QED  BY <2>1, <2>2
<1>5. ASSUME NEW m \in DOMAIN q, m # i
      PROVE  \E k \in DOMAIN o : from(k) = m
  <2>1. CASE m > i
    <3>1. m - i \in DOMAIN o /\ m - i <= Len(q) - i /\ i + (m - i) = m
      BY <2>1, <1>1, <1>3
    <3> QED  BY <3>1
  <2>2. CASE ~(m > i)
    <3>1. m + (Len(q) - i) \in DOMAIN o
      BY <2>2, <1>1, <1>3, <1>5
    <3>2. ~(m + (Len(q) - i) <= Len(q) - i) /\ (m + (Len(q) - i)) - (Len(q) - i) = m
      BY <1>1
    <3> QED  BY <3>1, <3>2
  <2> QED  BY <2>1, <2>2
<1>6. Distinct(o)
  <2> SUFFICES ASSUME NEW j \in DOMAIN o, NEW k \in DOMAIN o, o[j] = o[k]
               PROVE  j = k
    BY DEF Distinct
  <2>1. from(j) = from(k)
    <3> HIDE DEF from
    <3> QED  BY <1>4 DEF Distinct
  <2> QED  BY <2>1, <1>1, <1>3
<1>7. Elems(o) = Elems(q) \ {q[i]}
  <2> HIDE DEF from
  <2>1. ASSUME NEW e \in Elems(o)  PROVE e \in Elems(q) \ {q[i]}
    <3>1. PICK k \in DOMAIN o : e = o[k]
      BY DEF Elems
    <3>2. from(k) \in DOMAIN q /\ from(k) # i /\ e = q[from(k)]
      BY <3>1, <1>4
    <3>3. i \in DOMAIN q
      BY <1>1
    <3> QED  BY <3>2, <3>3 DEF Elems, Distinct
  <2>2. ASSUME NEW e \in Elems(q) \ {q[i]}  PROVE e \in Elems(o)
    <3>1. PICK m \in DOMAIN q : e = q[m]
      BY DEF Elems
    <3>2. m # i
      BY <3>1
    <3>3. PICK k \in DOMAIN o : from(k) = m
      BY <3>2, <1>5
    <3>4. o[k] = e
      BY <3>1, <3>3, <1>4
    <3> QED  BY <3>4 DEF Elems
  <2> QED  BY <2>1, <2>2
<1> QED  BY <1>6, <1>7 DEF o

\* A new element at the tail.
LEMMA AppendDistinct ==
  ASSUME NEW S, NEW q \in Seq(S), NEW e \in S, Distinct(q), e \notin Elems(q)
  PROVE  /\ Append(q, e) \in Seq(S)
         /\ Distinct(Append(q, e))
         /\ Elems(Append(q, e)) = Elems(q) \cup {e}
<1> DEFINE o == Append(q, e)
<1>1. Len(q) \in Nat /\ DOMAIN q = 1..Len(q)
  BY LenProperties
<1>2. /\ o \in Seq(S) /\ Len(o) = Len(q) + 1
      /\ \A k \in 1..Len(q) : o[k] = q[k]
      /\ o[Len(q) + 1] = e
  BY AppendProperties
<1> HIDE DEF o
<1>3. DOMAIN o = 1 .. Len(q) + 1
  BY <1>2, LenProperties
<1>4. ASSUME NEW k \in DOMAIN o
      PROVE  \/ k \in DOMAIN q /\ o[k] = q[k]
             \/ k = Len(q) + 1 /\ o[k] = e
  BY <1>1, <1>2, <1>3
<1>5. Distinct(o)
  BY <1>4 DEF Distinct, Elems
<1>6. Elems(o) = Elems(q) \cup {e}
  <2>1. Elems(o) \subseteq Elems(q) \cup {e}
    BY <1>4 DEF Elems
  <2>2. ASSUME NEW k \in DOMAIN q  PROVE k \in DOMAIN o /\ o[k] = q[k]
    BY <1>1, <1>2, <1>3
  <2>3. Len(q) + 1 \in DOMAIN o /\ o[Len(q) + 1] = e
    BY <1>1, <1>2, <1>3
  <2>4. Elems(q) \cup {e} \subseteq Elems(o)
    BY <2>2, <2>3 DEF Elems
  <2> QED  BY <2>1, <2>4
<1> QED  BY <1>2, <1>5, <1>6 DEF o

-----------------------------------------------------------------------------
(* Queues, whose entries differ in their run *)

LEMMA TailRuns ==
  ASSUME NEW q \in Seq(Entry), q # <<>>, DistinctRuns(q)
  PROVE  /\ Head(q) \in Entry /\ Head(q).run \in Runs(q)
         /\ Tail(q) \in Seq(Entry)
         /\ DistinctRuns(Tail(q))
         /\ Runs(Tail(q)) = Runs(q) \ {Head(q).run}
<1> DEFINE o == Tail(q)
<1>1. Len(q) \in Nat \ {0} /\ DOMAIN q = 1..Len(q)
  BY LenProperties, EmptySeq
<1>2. /\ Head(q) \in Entry /\ o \in Seq(Entry) /\ Len(o) = Len(q) - 1
      /\ \A k \in 1..Len(o) : o[k] = q[k + 1]
  BY HeadTailProperties
<1>3. Head(q) = q[1]
  BY <1>1
<1> HIDE DEF o
<1>4. DOMAIN o = 1 .. Len(q) - 1
  BY <1>2, LenProperties
<1>5. ASSUME NEW k \in DOMAIN o
      PROVE  k + 1 \in DOMAIN q /\ k + 1 # 1 /\ o[k] = q[k + 1]
  BY <1>1, <1>2, <1>4
<1>6. ASSUME NEW m \in DOMAIN q, m # 1
      PROVE  m - 1 \in DOMAIN o /\ o[m - 1] = q[m]
  <2>1. m - 1 \in DOMAIN o /\ (m - 1) + 1 = m
    BY <1>1, <1>4, <1>6
  <2> QED  BY <2>1, <1>5
<1>7. 1 \in DOMAIN q
  BY <1>1
<1>8. DistinctRuns(o)
  <2> SUFFICES ASSUME NEW j \in DOMAIN o, NEW k \in DOMAIN o, o[j].run = o[k].run
               PROVE  j = k
    BY DEF DistinctRuns
  <2>1. j + 1 = k + 1
    BY <1>5 DEF DistinctRuns
  <2> QED  BY <2>1, <1>1, <1>4
<1>9. Runs(o) = Runs(q) \ {q[1].run}
  <2>1. Runs(o) \subseteq Runs(q) \ {q[1].run}
    BY <1>5, <1>7 DEF Runs, DistinctRuns
  <2>2. ASSUME NEW e \in Runs(q) \ {q[1].run}  PROVE e \in Runs(o)
    <3>1. PICK m \in DOMAIN q : e = q[m].run
      BY DEF Runs
    <3> QED  BY <3>1, <1>6 DEF Runs
  <2> QED  BY <2>1, <2>2
<1>10. Head(q).run \in Runs(q)
  BY <1>3, <1>7 DEF Runs
<1> QED  BY <1>2, <1>3, <1>8, <1>9, <1>10 DEF o

LEMMA AppendRuns ==
  ASSUME NEW q \in Seq(Entry), NEW e \in Entry, DistinctRuns(q), e.run \notin Runs(q)
  PROVE  /\ Append(q, e) \in Seq(Entry) /\ Append(q, e) # <<>>
         /\ DistinctRuns(Append(q, e))
         /\ Runs(Append(q, e)) = Runs(q) \cup {e.run}
<1> DEFINE o == Append(q, e)
<1>1. Len(q) \in Nat /\ DOMAIN q = 1..Len(q)
  BY LenProperties
<1>2. /\ o \in Seq(Entry) /\ o # <<>> /\ Len(o) = Len(q) + 1
      /\ \A k \in 1..Len(q) : o[k] = q[k]
      /\ o[Len(q) + 1] = e
  BY AppendProperties
<1> HIDE DEF o
<1>3. DOMAIN o = 1 .. Len(q) + 1
  BY <1>2, LenProperties
<1>4. ASSUME NEW k \in DOMAIN o
      PROVE  \/ k \in DOMAIN q /\ o[k] = q[k]
             \/ k = Len(q) + 1 /\ o[k] = e
  BY <1>1, <1>2, <1>3
<1>5. DistinctRuns(o)
  BY <1>4 DEF DistinctRuns, Runs
<1>6. Runs(o) = Runs(q) \cup {e.run}
  <2>1. Runs(o) \subseteq Runs(q) \cup {e.run}
    BY <1>4 DEF Runs
  <2>2. ASSUME NEW k \in DOMAIN q  PROVE k \in DOMAIN o /\ o[k] = q[k]
    BY <1>1, <1>2, <1>3
  <2>3. Len(q) + 1 \in DOMAIN o /\ o[Len(q) + 1] = e
    BY <1>1, <1>2, <1>3
  <2>4. Runs(q) \cup {e.run} \subseteq Runs(o)
    BY <2>2, <2>3 DEF Runs
  <2> QED  BY <2>1, <2>4
<1> QED  BY <1>2, <1>5, <1>6 DEF o

LEMMA WithoutRuns ==
  ASSUME NEW q \in Seq(Entry), NEW i \in 1..Len(q), DistinctRuns(q)
  PROVE  /\ Without(q, i) \in Seq(Entry)
         /\ DistinctRuns(Without(q, i))
         /\ Runs(Without(q, i)) = Runs(q) \ {q[i].run}
<1> DEFINE o == Without(q, i)
<1>1. Len(q) \in Nat /\ DOMAIN q = 1..Len(q)
  BY LenProperties
<1>2. o \in Seq(Entry) /\ Len(o) = Len(q) - 1
      /\ \A k \in 1 .. Len(q) - 1 : o[k] = IF k < i THEN q[k] ELSE q[k + 1]
  BY WithoutType
<1> HIDE DEF o
<1>3. DOMAIN o = 1 .. Len(q) - 1
  BY <1>2, LenProperties
<1> DEFINE from(k) == IF k < i THEN k ELSE k + 1
<1>4. ASSUME NEW k \in DOMAIN o
      PROVE  from(k) \in DOMAIN q /\ from(k) # i /\ o[k] = q[from(k)]
  BY <1>1, <1>2, <1>3
<1>5. ASSUME NEW m \in DOMAIN q, m # i
      PROVE  \E k \in DOMAIN o : from(k) = m
  <2>1. CASE m < i
    <3>1. m \in DOMAIN o
      BY <2>1, <1>1, <1>3
    <3> QED  BY <2>1, <3>1
  <2>2. CASE ~(m < i)
    <3>1. m - 1 \in DOMAIN o /\ ~(m - 1 < i) /\ (m - 1) + 1 = m
      BY <2>2, <1>1, <1>3, <1>5
    <3> QED  BY <3>1
  <2> QED  BY <2>1, <2>2
<1>6. DistinctRuns(o)
  <2> SUFFICES ASSUME NEW j \in DOMAIN o, NEW k \in DOMAIN o, o[j].run = o[k].run
               PROVE  j = k
    BY DEF DistinctRuns
  <2>1. from(j) = from(k)
    <3> HIDE DEF from
    <3> QED  BY <1>4 DEF DistinctRuns
  <2> QED  BY <2>1, <1>1, <1>3
<1>7. i \in DOMAIN q
  BY <1>1
<1>8. Runs(o) = Runs(q) \ {q[i].run}
  <2> HIDE DEF from
  <2>1. Runs(o) \subseteq Runs(q) \ {q[i].run}
    BY <1>4, <1>7 DEF Runs, DistinctRuns
  <2>2. ASSUME NEW e \in Runs(q) \ {q[i].run}  PROVE e \in Runs(o)
    <3>1. PICK m \in DOMAIN q : e = q[m].run
      BY DEF Runs
    <3>2. m # i
      BY <3>1
    <3>3. PICK k \in DOMAIN o : from(k) = m
      BY <3>2, <1>5
    <3>4. o[k].run = e
      BY <3>1, <3>3, <1>4
    <3> QED  BY <3>4 DEF Runs
  <2> QED  BY <2>1, <2>2
<1> QED  BY <1>2, <1>6, <1>8 DEF o

-----------------------------------------------------------------------------
(* The position claimNext chooses *)

LEMMA LeastNatural ==
  ASSUME NEW T, T \subseteq Nat, T # {}
  PROVE  \E m \in T : \A n \in T : m =< n
<1> DEFINE R == {ss \in Nat \X Nat : ss[1] < ss[2]}
<1>1. IsWellFoundedOn(R, Nat)
  BY NatLessThanWellFounded DEF OpToRel
<1>2. PICK m \in T : \A n \in T : ~(<<n, m>> \in R)
  <2> HIDE DEF R
  <2>1. \E m \in T : \A n \in T : ~(<<n, m>> \in R)
    BY <1>1, WFMin
  <2> QED  BY <2>1
<1>3. ASSUME NEW n \in T  PROVE m =< n
  <2>1. m \in Nat /\ n \in Nat
    OBVIOUS
  <2>2. n < m => <<n, m>> \in R
    BY <2>1
  <2> HIDE DEF R
  <2> QED  BY <2>1, <2>2, <1>2
<1> QED  BY <1>3

\* The rotation serves one of the tenants that may be claimed from, and no
\* such tenant stands before it.
LEMMA RotationIndexIsFirst ==
  ASSUME NEW s \in Scheduler, Candidates(s) # {}
  PROVE  /\ RotationIndex(s) \in Candidates(s)
         /\ \A j \in Candidates(s) : RotationIndex(s) =< j
<1>1. Candidates(s) \subseteq Nat
  <2>1. s.order \in Seq(Tenant)
    BY DEF Scheduler
  <2>2. DOMAIN s.order = 1..Len(s.order)
    BY <2>1, LenProperties
  <2> QED  BY <2>2 DEF Candidates
<1>2. \E i \in Candidates(s) : \A j \in Candidates(s) : i =< j
  BY <1>1, LeastNatural
<1> QED  BY <1>2 DEF RotationIndex

\* The aged claim has a longest wait to serve: the least enqueuedAt among the
\* aged heads, then the last position among those.
LEMMA AgedIndexIsOldest ==
  ASSUME NEW s \in Scheduler, NEW now \in Nat, AgedCandidates(s, now) # {}
  PROVE  /\ AgedIndex(s, now) \in AgedCandidates(s, now)
         /\ \A j \in AgedCandidates(s, now) :
              Waited(s, s.order[j], now) =< Waited(s, s.order[AgedIndex(s, now)], now)
<1> DEFINE A == AgedCandidates(s, now)
           at(i) == Head(s.queue[s.order[i]]).at
           w(i) == Waited(s, s.order[i], now)
<1>1. s.order \in Seq(Tenant) /\ s.queue \in [Tenant -> Seq(Entry)]
  BY DEF Scheduler
<1>2. Len(s.order) \in Nat /\ DOMAIN s.order = 1..Len(s.order)
  BY <1>1, LenProperties
<1>3. ASSUME NEW i \in A
      PROVE  i \in 1..Len(s.order) /\ at(i) \in Nat
  <2>1. i \in 1..Len(s.order) /\ s.queue[s.order[i]] # <<>>
    BY <1>2 DEF AgedCandidates, Candidates, Eligible, Backlogged
  <2>2. s.order[i] \in Tenant
    BY <2>1, <1>1, ElementOfSeq
  <2>3. s.queue[s.order[i]] \in Seq(Entry)
    BY <1>1, <2>2
  <2>4. Head(s.queue[s.order[i]]) \in Entry
    BY <2>1, <2>3, HeadTailProperties
  <2> QED  BY <2>1, <2>4 DEF Entry
<1>4. \A i \in A : w(i) = now - at(i)
  BY DEF Waited
<1> HIDE DEF A, at, w
<1>5. PICK i0 \in A : \A j \in A : at(i0) =< at(j)
  <2> DEFINE T == {at(i) : i \in A}
  <2>1. T \subseteq Nat /\ T # {}
    BY <1>3 DEF A
  <2> HIDE DEF T
  <2>2. PICK m \in T : \A n \in T : m =< n
    BY <2>1, LeastNatural
  <2> QED  BY <2>2 DEF T
<1> DEFINE B == {i \in A : at(i) = at(i0)}
<1>6. PICK i \in B : \A j \in B : j =< i
  <2> DEFINE T == {Len(s.order) - i : i \in B}
  <2>1. T \subseteq Nat /\ T # {}
    BY <1>2, <1>3
  <2> HIDE DEF T
  <2>2. PICK m \in T : \A n \in T : m =< n
    BY <2>1, LeastNatural
  <2>3. PICK i \in B : m = Len(s.order) - i
    BY DEF T
  <2>4. ASSUME NEW j \in B  PROVE j =< i
    <3>1. Len(s.order) - i =< Len(s.order) - j
      BY <2>2, <2>3 DEF T
    <3>2. i \in 1..Len(s.order) /\ j \in 1..Len(s.order)
      BY <1>3
    <3> QED  BY <3>1, <3>2, <1>2
  <2> QED  BY <2>4
<1>7. i \in A /\ \A j \in A : w(j) < w(i) \/ (w(j) = w(i) /\ j =< i)
  <2>1. i \in A /\ at(i) = at(i0)
    OBVIOUS
  <2>2. ASSUME NEW j \in A
        PROVE  w(j) < w(i) \/ (w(j) = w(i) /\ j =< i)
    <3>1. at(i) \in Nat /\ at(j) \in Nat /\ at(i) =< at(j)
      BY <2>1, <1>3, <1>5
    <3>2. w(i) = now - at(i) /\ w(j) = now - at(j)
      BY <2>1, <1>4
    <3>3. CASE at(j) = at(i)
      <4>1. j \in B
        BY <3>3, <2>1
      <4> QED  BY <4>1, <3>2, <3>3, <1>6
    <3>4. CASE at(j) # at(i)
      BY <3>1, <3>2, <3>4
    <3> QED  BY <3>3, <3>4
  <2> QED  BY <2>1, <2>2
<1>8. /\ AgedIndex(s, now) \in A
      /\ \A j \in A : \/ w(j) < w(AgedIndex(s, now))
                      \/ w(j) = w(AgedIndex(s, now)) /\ j =< AgedIndex(s, now)
  <2>1. AgedIndex(s, now) = CHOOSE k \in A : \A j \in A : w(j) < w(k) \/ (w(j) = w(k) /\ j =< k)
    BY DEF AgedIndex, A, w
  <2> QED  BY <2>1, <1>7
<1>9. ASSUME NEW j \in A  PROVE w(j) =< w(AgedIndex(s, now))
  <2>1. w(j) \in Int /\ w(AgedIndex(s, now)) \in Int
    BY <1>3, <1>4, <1>8
  <2> QED  BY <2>1, <1>8
<1> QED  BY <1>8, <1>9 DEF A, w

\* Whatever claimNext chooses may be claimed.
LEMMA ClaimIndexMayBeClaimed ==
  ASSUME NEW s \in Scheduler, NEW now \in Nat, CanClaim(s)
  PROVE  /\ ClaimIndex(s, now) \in 1..Len(s.order)
         /\ Eligible(s, s.order[ClaimIndex(s, now)])
<1>1. s.order \in Seq(Tenant)
  BY DEF Scheduler
<1>2. DOMAIN s.order = 1..Len(s.order)
  BY <1>1, LenProperties
<1>3. AgedCandidates(s, now) \subseteq Candidates(s)
  BY DEF AgedCandidates
<1>4. ClaimIndex(s, now) \in Candidates(s)
  <2>1. CASE AgedCandidates(s, now) # {}
    BY <2>1, <1>3, AgedIndexIsOldest DEF ClaimIndex
  <2>2. CASE AgedCandidates(s, now) = {}
    BY <2>2, RotationIndexIsFirst DEF ClaimIndex, CanClaim
  <2> QED  BY <2>1, <2>2
<1> QED  BY <1>2, <1>4 DEF Candidates

-----------------------------------------------------------------------------
(* Consistency in terms of Elems and Runs *)

LEMMA OnceInRuns ==
  ASSUME NEW s
  PROVE  EachRunOnce(s) <=>
           \A t \in Tenant : /\ DistinctRuns(s.queue[t])
                             /\ \A r \in Runs(s.queue[t]) : TenantOf[r] = t /\ r \notin s.active
BY DEF EachRunOnce, Waiting, WaitingOf, DistinctRuns, Runs

LEMMA BacklogInElems ==
  ASSUME NEW s
  PROVE  RotationIsBacklog(s) <=>
           /\ Distinct(s.order)
           /\ \A t \in Tenant : s.queue[t] # <<>> <=> t \in Elems(s.order)
BY DEF RotationIsBacklog, Backlogged, Distinct, Elems

LEMMA ActiveIsFinite ==
  ASSUME NEW X \in SUBSET Run
  PROVE  IsFiniteSet(X) /\ Cardinality(X) \in Nat
BY RunAssumption, FS_Subset, FS_CardinalityType

\* An empty scheduler is consistent.
LEMMA EmptyConsistent == Consistent(EmptyScheduler)
<1> DEFINE s == EmptyScheduler
<1>1. s \in Scheduler
  <2>1. <<>> \in Seq(Entry) /\ <<>> \in Seq(Tenant)
    BY EmptySeq
  <2> QED  BY <2>1 DEF EmptyScheduler, Scheduler
<1>2. s.active = {} /\ s.order = <<>> /\ \A t \in Tenant : s.queue[t] = <<>>
  BY DEF EmptyScheduler
<1>3. DOMAIN <<>> = {}
  OBVIOUS
<1>4. LimitsHold(s)
  <2>1. \A t \in Tenant : ActiveOf(s, t) = {}
    BY <1>2 DEF ActiveOf
  <2>2. Cardinality({}) = 0
    BY FS_EmptySet
  <2>3. 0 =< MaxActive /\ 0 =< MaxPerTenant
    BY LimitAssumption
  <2> HIDE DEF s
  <2> QED  BY <1>2, <2>1, <2>2, <2>3 DEF LimitsHold
<1>5. OnePerSession(s)
  BY <1>2 DEF OnePerSession
<1>6. EachRunOnce(s)
  <2> HIDE DEF s
  <2> QED  BY <1>2, <1>3, OnceInRuns DEF Runs, DistinctRuns
<1>7. RotationIsBacklog(s)
  <2> HIDE DEF s
  <2> QED  BY <1>2, <1>3, BacklogInElems DEF Elems, Distinct
<1> QED  BY <1>1, <1>4, <1>5, <1>6, <1>7 DEF Consistent

-----------------------------------------------------------------------------
(* The methods keep a scheduler state consistent *)

\* enqueue: the two early throws are what keeps a run from being queued twice
\* or queued while it holds a slot.
LEMMA EnqueueConsistent ==
  ASSUME NEW s, Consistent(s), NEW r \in Run, NEW at \in Nat, CanEnqueue(s, r)
  PROVE  Consistent(Enqueue(s, r, at))
<1> DEFINE t == TenantOf[r]
           e == [run |-> r, at |-> at]
           n == Enqueue(s, r, at)
<1>1. /\ s \in Scheduler /\ LimitsHold(s) /\ OnePerSession(s)
      /\ EachRunOnce(s) /\ RotationIsBacklog(s)
  BY DEF Consistent
<1>2. /\ s.queue \in [Tenant -> Seq(Entry)] /\ s.order \in Seq(Tenant)
      /\ s.active \in SUBSET Run
  BY <1>1 DEF Scheduler
<1>3. t \in Tenant /\ e \in Entry /\ e.run = r
  BY TenantAssumption DEF Entry
<1>4. r \notin s.active /\ \A u \in Tenant : r \notin Runs(s.queue[u])
  BY DEF CanEnqueue, Waiting, WaitingOf, Runs
<1>5. /\ \A u \in Tenant : DistinctRuns(s.queue[u])
      /\ \A u \in Tenant : \A q \in Runs(s.queue[u]) : TenantOf[q] = u /\ q \notin s.active
  BY <1>1, OnceInRuns
<1>6. /\ Distinct(s.order)
      /\ \A u \in Tenant : s.queue[u] # <<>> <=> u \in Elems(s.order)
  BY <1>1, BacklogInElems
<1>7. /\ n.queue = [s.queue EXCEPT ![t] = Append(s.queue[t], e)]
      /\ n.order = IF s.queue[t] # <<>> THEN s.order ELSE Append(s.order, t)
      /\ n.active = s.active
      /\ n = [queue |-> n.queue, order |-> n.order, active |-> n.active]
  <2> DEFINE queue == [s.queue EXCEPT ![t] = Append(s.queue[t], e)]
             order == IF s.queue[t] # <<>> THEN s.order ELSE Append(s.order, t)
  <2>1. s = [queue |-> s.queue, order |-> s.order, active |-> s.active]
    BY <1>1 DEF Scheduler
  <2>2. n = [s EXCEPT !.queue = queue, !.order = order]
    BY <2>1 DEF Enqueue, Backlogged
  <2> HIDE DEF queue, order, n
  <2>3. n = [queue |-> queue, order |-> order, active |-> s.active]
    BY <2>1, <2>2
  <2> QED  BY <2>3 DEF queue, order
<1> HIDE DEF n, e, t
<1>8. /\ Append(s.queue[t], e) \in Seq(Entry) /\ Append(s.queue[t], e) # <<>>
      /\ DistinctRuns(Append(s.queue[t], e))
      /\ Runs(Append(s.queue[t], e)) = Runs(s.queue[t]) \cup {r}
  BY <1>2, <1>3, <1>4, <1>5, AppendRuns
<1>9. /\ n.order \in Seq(Tenant)
      /\ Distinct(n.order)
      /\ Elems(n.order) = Elems(s.order) \cup {t}
  <2>1. CASE s.queue[t] # <<>>
    BY <2>1, <1>2, <1>3, <1>6, <1>7
  <2>2. CASE s.queue[t] = <<>>
    BY <2>2, <1>2, <1>3, <1>6, <1>7, AppendDistinct
  <2> QED  BY <2>1, <2>2
<1>10. n \in Scheduler
  <2>1. n.queue \in [Tenant -> Seq(Entry)]
    BY <1>2, <1>7, <1>8
  <2> QED  BY <2>1, <1>2, <1>7, <1>9 DEF Scheduler
<1>11. LimitsHold(n) /\ OnePerSession(n)
  BY <1>1, <1>7 DEF LimitsHold, OnePerSession, ActiveOf
<1>12. EachRunOnce(n)
  <2> SUFFICES ASSUME NEW u \in Tenant
               PROVE  /\ DistinctRuns(n.queue[u])
                      /\ \A q \in Runs(n.queue[u]) : TenantOf[q] = u /\ q \notin n.active
    BY OnceInRuns
  <2>1. CASE u = t
    <3>1. n.queue[u] = Append(s.queue[t], e)
      BY <2>1, <1>2, <1>3, <1>7
    <3> QED  BY <2>1, <3>1, <1>3, <1>4, <1>5, <1>7, <1>8 DEF t
  <2>2. CASE u # t
    <3>1. n.queue[u] = s.queue[u]
      BY <2>2, <1>2, <1>7
    <3> QED  BY <3>1, <1>5, <1>7
  <2> QED  BY <2>1, <2>2
<1>13. RotationIsBacklog(n)
  <2>1. ASSUME NEW u \in Tenant
        PROVE  n.queue[u] # <<>> <=> u \in Elems(n.order)
    <3>1. CASE u = t
      BY <3>1, <1>2, <1>3, <1>7, <1>8, <1>9
    <3>2. CASE u # t
      BY <3>2, <1>2, <1>6, <1>7, <1>9
    <3> QED  BY <3>1, <3>2
  <2> QED  BY <2>1, <1>9, BacklogInElems
<1> QED  BY <1>10, <1>11, <1>12, <1>13 DEF Consistent, n

\* release: a slot given back cannot break a limit.
LEMMA ReleaseConsistent ==
  ASSUME NEW s, Consistent(s), NEW r \in Run
  PROVE  Consistent(Release(s, r))
<1> DEFINE n == Release(s, r)
<1>1. /\ s \in Scheduler /\ LimitsHold(s) /\ OnePerSession(s)
      /\ EachRunOnce(s) /\ RotationIsBacklog(s)
  BY DEF Consistent
<1>2. /\ n.queue = s.queue /\ n.order = s.order /\ n.active = s.active \ {r}
      /\ n \in Scheduler
  BY <1>1 DEF Release, Scheduler
<1> HIDE DEF n
<1>3. LimitsHold(n)
  <2>1. ASSUME NEW X \in SUBSET Run, NEW Y \in SUBSET X
        PROVE  Cardinality(Y) =< Cardinality(X)
    BY ActiveIsFinite, FS_Subset
  <2>2. Cardinality(n.active) =< Cardinality(s.active)
    BY <1>1, <1>2, <2>1 DEF Scheduler
  <2>3. \A t \in Tenant : Cardinality(ActiveOf(n, t)) =< Cardinality(ActiveOf(s, t))
    <3> TAKE t \in Tenant
    <3>1. ActiveOf(s, t) \in SUBSET Run /\ ActiveOf(n, t) \in SUBSET ActiveOf(s, t)
      BY <1>1, <1>2 DEF ActiveOf, Scheduler
    <3> QED  BY <3>1, <2>1
  <2>4. \A X \in SUBSET Run : Cardinality(X) \in Nat
    BY ActiveIsFinite
  <2>5. /\ n.active \in SUBSET Run /\ s.active \in SUBSET Run
        /\ \A t \in Tenant : ActiveOf(n, t) \in SUBSET Run /\ ActiveOf(s, t) \in SUBSET Run
    BY <1>1, <1>2 DEF ActiveOf, Scheduler
  <2>6. Cardinality(n.active) =< MaxActive
    BY <1>1, <2>2, <2>4, <2>5, LimitAssumption DEF LimitsHold
  <2>7. \A t \in Tenant : Cardinality(ActiveOf(n, t)) =< MaxPerTenant
    <3> TAKE t \in Tenant
    <3>1. /\ Cardinality(ActiveOf(n, t)) \in Nat /\ Cardinality(ActiveOf(s, t)) \in Nat
          /\ Cardinality(ActiveOf(n, t)) =< Cardinality(ActiveOf(s, t))
          /\ Cardinality(ActiveOf(s, t)) =< MaxPerTenant
      BY <1>1, <2>3, <2>4, <2>5 DEF LimitsHold
    <3> QED  BY <3>1, LimitAssumption
  <2> QED  BY <2>6, <2>7 DEF LimitsHold
<1>4. OnePerSession(n)
  BY <1>1, <1>2 DEF OnePerSession
<1>5. EachRunOnce(n)
  BY <1>1, <1>2, OnceInRuns
<1>6. RotationIsBacklog(n)
  BY <1>1, <1>2, BacklogInElems
<1> QED  BY <1>2, <1>3, <1>4, <1>5, <1>6 DEF Consistent, n

\* The step both ways of claiming share: the head of an eligible tenant gets a
\* slot, and the tenant goes behind the others or drops out.
LEMMA TakeConsistent ==
  ASSUME NEW s, Consistent(s), HasSlot(s),
         NEW i \in 1..Len(s.order), Eligible(s, s.order[i]),
         NEW others \in Seq(Tenant), Distinct(others),
         Elems(others) = Elems(s.order) \ {s.order[i]}
  PROVE  Consistent(Take(s, i, others))
<1> DEFINE t == s.order[i]
           q == s.queue[t]
           r == Head(q).run
           n == Take(s, i, others)
<1>1. /\ s \in Scheduler /\ LimitsHold(s) /\ OnePerSession(s)
      /\ EachRunOnce(s) /\ RotationIsBacklog(s)
  BY DEF Consistent
<1>2. /\ s.queue \in [Tenant -> Seq(Entry)] /\ s.order \in Seq(Tenant)
      /\ s.active \in SUBSET Run
  BY <1>1 DEF Scheduler
<1>3. t \in Tenant
  BY <1>2, ElementOfSeq
<1>4. q # <<>> /\ Cardinality(ActiveOf(s, t)) < MaxPerTenant /\ ~SessionBusy(s, r)
  BY DEF Eligible, Backlogged
<1>5. /\ \A u \in Tenant : DistinctRuns(s.queue[u])
      /\ \A u \in Tenant : \A x \in Runs(s.queue[u]) : TenantOf[x] = u /\ x \notin s.active
  BY <1>1, OnceInRuns
<1>6. /\ Distinct(s.order)
      /\ \A u \in Tenant : s.queue[u] # <<>> <=> u \in Elems(s.order)
  BY <1>1, BacklogInElems
<1>7. /\ Head(q) \in Entry /\ r \in Runs(q)
      /\ Tail(q) \in Seq(Entry)
      /\ DistinctRuns(Tail(q))
      /\ Runs(Tail(q)) = Runs(q) \ {r}
  BY <1>2, <1>3, <1>4, <1>5, TailRuns
<1>8. r \in Run /\ TenantOf[r] = t /\ r \notin s.active
  BY <1>3, <1>5, <1>7 DEF Entry
<1>9. /\ n.queue = [s.queue EXCEPT ![t] = Tail(q)]
      /\ n.order = IF Tail(q) = <<>> THEN others ELSE Append(others, t)
      /\ n.active = s.active \cup {r}
      /\ n = [queue |-> n.queue, order |-> n.order, active |-> n.active]
  BY DEF Take
<1> HIDE DEF n, t, q, r
<1>10. /\ n.order \in Seq(Tenant)
       /\ Distinct(n.order)
       /\ Elems(n.order) = IF Tail(q) = <<>> THEN Elems(s.order) \ {t} ELSE Elems(s.order) \cup {t}
  <2>1. Elems(others) = Elems(s.order) \ {t}
    BY DEF t
  <2>2. CASE Tail(q) = <<>>
    BY <2>1, <2>2, <1>9
  <2>3. CASE Tail(q) # <<>>
    <3>1. /\ Append(others, t) \in Seq(Tenant)
          /\ Distinct(Append(others, t))
          /\ Elems(Append(others, t)) = Elems(others) \cup {t}
      BY <2>1, <1>3, AppendDistinct
    <3> QED  BY <2>1, <2>3, <3>1, <1>9
  <2> QED  BY <2>2, <2>3
<1>11. n \in Scheduler
  <2>1. n.queue \in [Tenant -> Seq(Entry)]
    BY <1>2, <1>7, <1>9
  <2>2. n.active \in SUBSET Run
    BY <1>2, <1>8, <1>9
  <2> QED  BY <2>1, <2>2, <1>9, <1>10 DEF Scheduler
<1>12. LimitsHold(n)
  <2>1. ASSUME NEW X \in SUBSET Run, NEW L \in Nat, Cardinality(X) < L
        PROVE  Cardinality(X \cup {r}) =< L
    <3>1. IsFiniteSet(X) /\ Cardinality(X) \in Nat
      BY ActiveIsFinite
    <3>2. Cardinality(X \cup {r}) = IF r \in X THEN Cardinality(X) ELSE Cardinality(X) + 1
      BY <3>1, FS_AddElement
    <3> QED  BY <3>1, <3>2, <2>1
  <2>2. Cardinality(n.active) =< MaxActive
    BY <2>1, <1>2, <1>9, LimitAssumption DEF HasSlot
  <2>3. ASSUME NEW u \in Tenant  PROVE Cardinality(ActiveOf(n, u)) =< MaxPerTenant
    <3>1. ActiveOf(s, u) \in SUBSET Run
      BY <1>2 DEF ActiveOf
    <3>2. CASE u = t
      <4>1. ActiveOf(n, u) = ActiveOf(s, t) \cup {r}
        BY <3>2, <1>8, <1>9 DEF ActiveOf
      <4> QED  BY <3>1, <3>2, <4>1, <2>1, <1>4, LimitAssumption
    <3>3. CASE u # t
      <4>1. ActiveOf(n, u) = ActiveOf(s, u)
        BY <3>3, <1>8, <1>9 DEF ActiveOf
      <4> QED  BY <4>1, <1>1 DEF LimitsHold
    <3> QED  BY <3>2, <3>3
  <2> QED  BY <2>2, <2>3 DEF LimitsHold
<1>13. OnePerSession(n)
  BY <1>1, <1>4, <1>9 DEF OnePerSession, SessionBusy
<1>14. EachRunOnce(n)
  <2> SUFFICES ASSUME NEW u \in Tenant
               PROVE  /\ DistinctRuns(n.queue[u])
                      /\ \A x \in Runs(n.queue[u]) : TenantOf[x] = u /\ x \notin n.active
    BY OnceInRuns
  <2>1. CASE u = t
    <3>1. n.queue[u] = Tail(q)
      BY <2>1, <1>2, <1>3, <1>9
    <3>2. \A x \in Runs(q) : TenantOf[x] = t /\ x \notin s.active
      BY <1>3, <1>5 DEF q
    <3> QED  BY <2>1, <3>1, <3>2, <1>7, <1>9
  <2>2. CASE u # t
    <3>1. n.queue[u] = s.queue[u]
      BY <2>2, <1>2, <1>9
    <3>2. r \notin Runs(s.queue[u])
      BY <2>2, <1>5, <1>8
    <3> QED  BY <3>1, <3>2, <1>5, <1>9
  <2> QED  BY <2>1, <2>2
<1>15. RotationIsBacklog(n)
  <2>1. ASSUME NEW u \in Tenant
        PROVE  n.queue[u] # <<>> <=> u \in Elems(n.order)
    <3>1. CASE u = t
      BY <3>1, <1>2, <1>3, <1>9, <1>10
    <3>2. CASE u # t
      BY <3>2, <1>2, <1>6, <1>9, <1>10
    <3> QED  BY <3>1, <3>2
  <2> QED  BY <2>1, <1>10, BacklogInElems
<1> QED  BY <1>11, <1>12, <1>13, <1>14, <1>15 DEF Consistent, n

\* claimNext, by rotation and by age.
LEMMA ClaimConsistent ==
  ASSUME NEW s, Consistent(s), NEW now \in Nat, CanClaim(s)
  PROVE  Consistent(Claim(s, now))
<1> DEFINE i == ClaimIndex(s, now)
<1>1. s \in Scheduler /\ s.order \in Seq(Tenant)
  BY DEF Consistent, Scheduler
<1>2. i \in 1..Len(s.order) /\ Eligible(s, s.order[i]) /\ HasSlot(s)
  BY <1>1, ClaimIndexMayBeClaimed DEF CanClaim
<1>3. Distinct(s.order)
  BY BacklogInElems DEF Consistent
<1> HIDE DEF i
<1>4. /\ Without(s.order, i) \in Seq(Tenant)
      /\ Distinct(Without(s.order, i))
      /\ Elems(Without(s.order, i)) = Elems(s.order) \ {s.order[i]}
  BY <1>1, <1>2, <1>3, WithoutType, WithoutDistinct
<1>5. /\ After(s.order, i) \o Before(s.order, i) \in Seq(Tenant)
      /\ Distinct(After(s.order, i) \o Before(s.order, i))
      /\ Elems(After(s.order, i) \o Before(s.order, i)) = Elems(s.order) \ {s.order[i]}
  BY <1>1, <1>2, <1>3, TurnedType, TurnedDistinct
<1>6. Consistent(Take(s, i, Without(s.order, i)))
  BY <1>2, <1>4, TakeConsistent
<1>7. Consistent(Take(s, i, After(s.order, i) \o Before(s.order, i)))
  BY <1>2, <1>5, TakeConsistent
<1> QED  BY <1>6, <1>7 DEF Claim, i

\* removeQueued: a tenant leaves the rotation with its last waiting run.
LEMMA RemoveQueuedConsistent ==
  ASSUME NEW s, Consistent(s), NEW r \in Run
  PROVE  Consistent(RemoveQueued(s, r))
<1> DEFINE t == TenantOf[r]
           q == s.queue[t]
           n == RemoveQueued(s, r)
           i == CHOOSE i \in DOMAIN q : q[i].run = r
           rest == Without(q, i)
<1>1. /\ s \in Scheduler /\ LimitsHold(s) /\ OnePerSession(s)
      /\ EachRunOnce(s) /\ RotationIsBacklog(s)
  BY DEF Consistent
<1>2. /\ s.queue \in [Tenant -> Seq(Entry)] /\ s.order \in Seq(Tenant)
      /\ s.active \in SUBSET Run
      /\ s = [queue |-> s.queue, order |-> s.order, active |-> s.active]
  BY <1>1 DEF Scheduler
<1>3. t \in Tenant /\ q \in Seq(Entry)
  BY <1>2, TenantAssumption
<1>4. CASE r \notin WaitingOf(s, t)
  BY <1>4 DEF RemoveQueued
<1>5. CASE r \in WaitingOf(s, t)
  <2>1. /\ \A u \in Tenant : DistinctRuns(s.queue[u])
        /\ \A u \in Tenant : \A x \in Runs(s.queue[u]) : TenantOf[x] = u /\ x \notin s.active
    BY <1>1, OnceInRuns
  <2>2. /\ Distinct(s.order)
        /\ \A u \in Tenant : s.queue[u] # <<>> <=> u \in Elems(s.order)
    BY <1>1, BacklogInElems
  <2>3. i \in DOMAIN q /\ q[i].run = r
    BY <1>5 DEF WaitingOf
  <2>4. i \in 1..Len(q)
    BY <1>3, <2>3, LenProperties
  <2>5. n = [queue  |-> [s.queue EXCEPT ![t] = rest],
             order  |-> IF rest = <<>> THEN WithoutTenant(s.order, t) ELSE s.order,
             active |-> s.active]
    <3> DEFINE queue == [s.queue EXCEPT ![t] = rest]
               order == IF rest = <<>> THEN WithoutTenant(s.order, t) ELSE s.order
    <3>1. n = [s EXCEPT !.queue = queue, !.order = order]
      BY <1>2, <1>5 DEF RemoveQueued
    <3> HIDE DEF queue, order, n
    <3>2. n = [queue |-> queue, order |-> order, active |-> s.active]
      BY <1>2, <3>1
    <3> QED  BY <3>2 DEF queue, order
  <2> HIDE DEF n, i
  <2>6. rest \in Seq(Entry) /\ DistinctRuns(rest) /\ Runs(rest) = Runs(q) \ {r}
    BY <1>3, <2>1, <2>3, <2>4, WithoutRuns
  <2> HIDE DEF rest
  <2>7. q # <<>> /\ t \in Elems(s.order)
    <3>1. DOMAIN <<>> = {}
      OBVIOUS
    <3>2. q # <<>>
      BY <2>3, <3>1
    <3> QED  BY <1>3, <2>2, <3>2
  <2>8. /\ WithoutTenant(s.order, t) \in Seq(Tenant)
        /\ Distinct(WithoutTenant(s.order, t))
        /\ Elems(WithoutTenant(s.order, t)) = Elems(s.order) \ {t}
    <3> DEFINE P == {p \in DOMAIN s.order : s.order[p] = t}
    <3>1. PICK p \in DOMAIN s.order : s.order[p] = t
      BY <2>7 DEF Elems
    <3>2. DOMAIN s.order = 1..Len(s.order) /\ Len(s.order) \in Nat
      BY <1>2, LenProperties
    <3>3. P = {p}
      BY <2>2, <3>1 DEF Distinct
    <3>4. p =< p
      BY <3>2
    <3>5. (CHOOSE x \in P : \A y \in P : x =< y) = p
      <4> HIDE DEF P
      <4> QED  BY <3>3, <3>4
    <3>6. WithoutTenant(s.order, t) = Without(s.order, p)
      BY <3>3, <3>5 DEF WithoutTenant
    <3>7. p \in 1..Len(s.order)
      BY <3>2
    <3> HIDE DEF t
    <3>8. /\ Without(s.order, p) \in Seq(Tenant)
          /\ Distinct(Without(s.order, p))
          /\ Elems(Without(s.order, p)) = Elems(s.order) \ {s.order[p]}
      BY <1>2, <2>2, <3>7, WithoutType, WithoutDistinct
    <3> QED  BY <3>1, <3>6, <3>8
  <2>9. /\ n.order \in Seq(Tenant)
        /\ Distinct(n.order)
        /\ Elems(n.order) = IF rest = <<>> THEN Elems(s.order) \ {t} ELSE Elems(s.order)
    BY <1>2, <2>2, <2>5, <2>8
  <2>10. n.queue = [s.queue EXCEPT ![t] = rest] /\ n.active = s.active
    BY <2>5
  <2> HIDE DEF q, t
  <2>11. n \in Scheduler
    <3>1. n.queue \in [Tenant -> Seq(Entry)]
      BY <1>2, <2>6, <2>10
    <3>2. n = [queue |-> n.queue, order |-> n.order, active |-> n.active]
      BY <2>5
    <3> QED  BY <3>1, <3>2, <1>2, <2>9, <2>10 DEF Scheduler
  <2>12. LimitsHold(n) /\ OnePerSession(n)
    BY <1>1, <2>10 DEF LimitsHold, OnePerSession, ActiveOf
  <2>13. EachRunOnce(n)
    <3> SUFFICES ASSUME NEW u \in Tenant
                 PROVE  /\ DistinctRuns(n.queue[u])
                        /\ \A x \in Runs(n.queue[u]) : TenantOf[x] = u /\ x \notin n.active
      BY OnceInRuns
    <3>1. CASE u = t
      <4>1. n.queue[u] = rest
        BY <3>1, <1>2, <1>3, <2>10
      <4>2. \A x \in Runs(q) : TenantOf[x] = t /\ x \notin s.active
        BY <1>3, <2>1 DEF q
      <4> QED  BY <3>1, <4>1, <4>2, <2>6, <2>10
    <3>2. CASE u # t
      <4>1. n.queue[u] = s.queue[u]
        BY <3>2, <1>2, <2>10
      <4> QED  BY <4>1, <2>1, <2>10
    <3> QED  BY <3>1, <3>2
  <2>14. RotationIsBacklog(n)
    <3>1. ASSUME NEW u \in Tenant
          PROVE  n.queue[u] # <<>> <=> u \in Elems(n.order)
      <4>1. CASE u = t
        BY <4>1, <1>2, <1>3, <2>7, <2>9, <2>10
      <4>2. CASE u # t
        BY <4>2, <1>2, <2>2, <2>9, <2>10
      <4> QED  BY <4>1, <4>2
    <3> QED  BY <3>1, <2>9, BacklogInElems
  <2> QED  BY <2>11, <2>12, <2>13, <2>14 DEF Consistent, n
<1> QED  BY <1>4, <1>5

-----------------------------------------------------------------------------
(* What each method changes, for the callers of the scheduler *)

\* All the entries that wait.
Entries(s) == UNION {Elems(s.queue[t]) : t \in Tenant}

LEMMA WaitingIsEntries ==
  ASSUME NEW s
  PROVE  /\ \A e \in Entries(s) : e.run \in Waiting(s)
         /\ \A r \in Waiting(s) : \E e \in Entries(s) : e.run = r
         /\ \A r : r \in Waiting(s) <=> \E t \in Tenant : r \in Runs(s.queue[t])
         /\ \A e : e \in Entries(s) <=> \E t \in Tenant : e \in Elems(s.queue[t])
BY DEF Entries, Elems, Waiting, WaitingOf, Runs

\* A state of the scheduler holds entries and runs only.
LEMMA EntriesType ==
  ASSUME NEW s, Consistent(s)
  PROVE  Entries(s) \subseteq Entry /\ Waiting(s) \subseteq Run /\ s.active \subseteq Run
<1>1. s.queue \in [Tenant -> Seq(Entry)] /\ s.active \subseteq Run
  BY DEF Consistent, Scheduler
<1>2. \A t \in Tenant : Elems(s.queue[t]) \subseteq Entry
  BY <1>1, ElementOfSeq, LenProperties DEF Elems
<1>3. Entries(s) \subseteq Entry
  BY <1>2, WaitingIsEntries
<1> QED  BY <1>1, <1>3, WaitingIsEntries DEF Entry

LEMMA ElemsOfParts ==
  ASSUME NEW S, NEW q \in Seq(S)
  PROVE  /\ \A e \in S : Elems(Append(q, e)) = Elems(q) \cup {e}
         /\ q # <<>> => Head(q) \in Elems(q) /\ Elems(Tail(q)) \subseteq Elems(q)
         /\ \A i \in 1..Len(q) : Elems(Without(q, i)) \subseteq Elems(q)
<1>1. Len(q) \in Nat /\ DOMAIN q = 1..Len(q)
  BY LenProperties
<1>2. ASSUME NEW e \in S  PROVE Elems(Append(q, e)) = Elems(q) \cup {e}
  <2> DEFINE o == Append(q, e)
  <2>1. /\ DOMAIN o = 1 .. Len(q) + 1
        /\ \A k \in 1..Len(q) : o[k] = q[k]
        /\ o[Len(q) + 1] = e
    BY <1>1, AppendProperties
  <2> HIDE DEF o
  <2>2. \A k \in DOMAIN o : k \in 1..Len(q) \/ k = Len(q) + 1
    BY <1>1, <2>1
  <2>3. Len(q) + 1 \in DOMAIN o /\ \A k \in 1..Len(q) : k \in DOMAIN o
    BY <1>1, <2>1
  <2>4. Elems(o) = Elems(q) \cup {e}
    BY <1>1, <2>1, <2>2, <2>3 DEF Elems
  <2> QED  BY <2>4 DEF o
<1>3. ASSUME q # <<>>
      PROVE  Head(q) \in Elems(q) /\ Elems(Tail(q)) \subseteq Elems(q)
  <2>1. Len(q) # 0
    BY <1>3, EmptySeq
  <2>2. Head(q) = q[1] /\ 1 \in DOMAIN q
    BY <1>1, <2>1, <1>3, HeadTailProperties
  <2>3. /\ DOMAIN Tail(q) = 1 .. Len(q) - 1
        /\ \A k \in 1 .. Len(q) - 1 : Tail(q)[k] = q[k + 1]
    BY <1>1, <1>3, HeadTailProperties, LenProperties
  <2>4. \A k \in 1 .. Len(q) - 1 : k + 1 \in DOMAIN q
    BY <1>1
  <2> QED  BY <2>2, <2>3, <2>4 DEF Elems
<1>4. ASSUME NEW i \in 1..Len(q)  PROVE Elems(Without(q, i)) \subseteq Elems(q)
  <2> DEFINE w == Without(q, i)
  <2>1. /\ w \in Seq(S) /\ Len(w) = Len(q) - 1
        /\ \A k \in 1 .. Len(q) - 1 : w[k] = IF k < i THEN q[k] ELSE q[k + 1]
    BY WithoutType
  <2> HIDE DEF w
  <2>2. DOMAIN w = 1 .. Len(q) - 1
    BY <2>1, LenProperties
  <2>3. \A k \in 1 .. Len(q) - 1 : k \in DOMAIN q /\ k + 1 \in DOMAIN q
    BY <1>1
  <2>4. Elems(w) \subseteq Elems(q)
    BY <2>1, <2>2, <2>3 DEF Elems
  <2> QED  BY <2>4 DEF w
<1> QED  BY <1>2, <1>3, <1>4

\* enqueue adds one entry and takes no slot.
LEMMA EnqueueEffect ==
  ASSUME NEW s, Consistent(s), NEW r \in Run, NEW at \in Nat
  PROVE  /\ Enqueue(s, r, at).active = s.active
         /\ Entries(Enqueue(s, r, at)) = Entries(s) \cup {[run |-> r, at |-> at]}
         /\ Waiting(Enqueue(s, r, at)) = Waiting(s) \cup {r}
<1> DEFINE t == TenantOf[r]
           e == [run |-> r, at |-> at]
           n == Enqueue(s, r, at)
<1>1. /\ s.queue \in [Tenant -> Seq(Entry)]
      /\ s = [queue |-> s.queue, order |-> s.order, active |-> s.active]
  BY DEF Consistent, Scheduler
<1>2. t \in Tenant /\ e \in Entry /\ e.run = r
  BY TenantAssumption DEF Entry
<1>3. /\ n.queue = [s.queue EXCEPT ![t] = Append(s.queue[t], e)]
      /\ n.active = s.active
  <2> DEFINE queue == [s.queue EXCEPT ![t] = Append(s.queue[t], e)]
             order == IF s.queue[t] # <<>> THEN s.order ELSE Append(s.order, t)
  <2>1. n = [s EXCEPT !.queue = queue, !.order = order]
    BY <1>1 DEF Enqueue, Backlogged
  <2> HIDE DEF queue, order, n
  <2>2. n = [queue |-> queue, order |-> order, active |-> s.active]
    BY <1>1, <2>1
  <2> QED  BY <2>2 DEF queue
<1> HIDE DEF n, t, e
<1>4. Elems(Append(s.queue[t], e)) = Elems(s.queue[t]) \cup {e}
  BY <1>1, <1>2, ElemsOfParts
<1>5. \A u \in Tenant : Elems(n.queue[u]) = IF u = t THEN Elems(s.queue[u]) \cup {e}
                                            ELSE Elems(s.queue[u])
  BY <1>1, <1>2, <1>3, <1>4
<1>6. Entries(n) = Entries(s) \cup {e}
  BY <1>2, <1>5 DEF Entries
<1>7. Waiting(n) = Waiting(s) \cup {r}
  BY <1>2, <1>6, WaitingIsEntries
<1> QED  BY <1>3, <1>6, <1>7 DEF n, e

\* release gives one slot back and touches no queue.
LEMMA ReleaseEffect ==
  ASSUME NEW s, Consistent(s), NEW r
  PROVE  /\ Release(s, r).active = s.active \ {r}
         /\ Entries(Release(s, r)) = Entries(s)
         /\ Waiting(Release(s, r)) = Waiting(s)
<1>1. /\ Release(s, r).queue = s.queue
      /\ Release(s, r).active = s.active \ {r}
  BY DEF Release, Consistent, Scheduler
<1> QED  BY <1>1 DEF Entries, Waiting, WaitingOf

\* removeQueued takes the run out of the queue, wherever it waits.
LEMMA RemoveQueuedEffect ==
  ASSUME NEW s, Consistent(s), NEW r \in Run
  PROVE  /\ RemoveQueued(s, r).active = s.active
         /\ Entries(RemoveQueued(s, r)) \subseteq Entries(s)
         /\ Waiting(RemoveQueued(s, r)) = Waiting(s) \ {r}
<1> DEFINE t == TenantOf[r]
           q == s.queue[t]
           n == RemoveQueued(s, r)
           i == CHOOSE i \in DOMAIN q : q[i].run = r
<1>1. /\ s.queue \in [Tenant -> Seq(Entry)]
      /\ s = [queue |-> s.queue, order |-> s.order, active |-> s.active]
      /\ t \in Tenant /\ q \in Seq(Entry)
  BY TenantAssumption DEF Consistent, Scheduler
<1>2. /\ \A u \in Tenant : DistinctRuns(s.queue[u])
      /\ \A u \in Tenant : \A x \in Runs(s.queue[u]) : TenantOf[x] = u
  BY OnceInRuns DEF Consistent
<1>3. CASE r \notin WaitingOf(s, t)
  <2>1. n = s
    BY <1>3 DEF RemoveQueued
  <2>2. r \notin Waiting(s)
    BY <1>2, <1>3, WaitingIsEntries DEF WaitingOf, Runs
  <2> QED  BY <2>1, <2>2
<1>4. CASE r \in WaitingOf(s, t)
  <2>1. i \in DOMAIN q /\ q[i].run = r
    BY <1>4 DEF WaitingOf
  <2>2. i \in 1..Len(q)
    BY <1>1, <2>1, LenProperties
  <2>3. n.queue = [s.queue EXCEPT ![t] = Without(q, i)] /\ n.active = s.active
    <3> DEFINE queue == [s.queue EXCEPT ![t] = Without(q, i)]
               order == IF Without(q, i) = <<>> THEN WithoutTenant(s.order, t) ELSE s.order
    <3>1. n = [s EXCEPT !.queue = queue, !.order = order]
      BY <1>1, <1>4 DEF RemoveQueued
    <3> HIDE DEF queue, order, n
    <3>2. n = [queue |-> queue, order |-> order, active |-> s.active]
      BY <1>1, <3>1
    <3> QED  BY <3>2 DEF queue
  <2> HIDE DEF n, i, t
  <2>4. /\ Runs(Without(q, i)) = Runs(q) \ {r}
        /\ Elems(Without(q, i)) \subseteq Elems(q)
    BY <1>1, <1>2, <2>1, <2>2, WithoutRuns, ElemsOfParts
  <2>5. \A u \in Tenant : n.queue[u] = IF u = t THEN Without(q, i) ELSE s.queue[u]
    BY <1>1, <2>3
  <2>6. Entries(n) \subseteq Entries(s)
    BY <1>1, <2>4, <2>5, WaitingIsEntries
  <2>7. \A u \in Tenant : Runs(n.queue[u]) = Runs(s.queue[u]) \ {r}
    <3> TAKE u \in Tenant
    <3>1. CASE u = t
      BY <3>1, <2>4, <2>5
    <3>2. CASE u # t
      BY <3>2, <1>2, <2>5 DEF t
    <3> QED  BY <3>1, <3>2
  <2>8. Waiting(n) = Waiting(s) \ {r}
    <3>1. \A x : x \in Waiting(n) <=> \E u \in Tenant : x \in Runs(n.queue[u])
      BY WaitingIsEntries
    <3>2. \A x : x \in Waiting(s) <=> \E u \in Tenant : x \in Runs(s.queue[u])
      BY WaitingIsEntries
    <3>3. \A x : x \in Waiting(n) <=> x \in Waiting(s) \ {r}
      BY <3>1, <3>2, <2>7
    <3> QED  BY <3>3
  <2> QED  BY <2>3, <2>6, <2>8 DEF n
<1> QED  BY <1>3, <1>4

\* claimNext hands out a slot no limit and no conversation forbids, to a run
\* that waits, which then waits no more.
LEMMA ClaimEffect ==
  ASSUME NEW s, Consistent(s), NEW now \in Nat, CanClaim(s)
  PROVE  LET e == Claimed(s, now) IN
         /\ e \in Entries(s) /\ e \in Entry
         /\ e.run \in Waiting(s) /\ e.run \notin s.active
         /\ Claim(s, now).active = s.active \cup {e.run}
         /\ Entries(Claim(s, now)) \subseteq Entries(s)
         /\ Waiting(Claim(s, now)) = Waiting(s) \ {e.run}
         /\ Cardinality(s.active) < MaxActive
         /\ Cardinality(ActiveOf(s, TenantOf[e.run])) < MaxPerTenant
         /\ ~SessionBusy(s, e.run)
<1> DEFINE k == ClaimIndex(s, now)
           t == s.order[k]
           q == s.queue[t]
           e == Claimed(s, now)
           n == Claim(s, now)
<1>1. /\ s \in Scheduler /\ s.order \in Seq(Tenant)
      /\ s.queue \in [Tenant -> Seq(Entry)]
  BY DEF Consistent, Scheduler
<1>2. k \in 1..Len(s.order) /\ Eligible(s, t) /\ HasSlot(s)
  BY <1>1, ClaimIndexMayBeClaimed DEF CanClaim
<1>3. t \in Tenant /\ q \in Seq(Entry) /\ q # <<>>
  BY <1>1, <1>2, ElementOfSeq DEF Eligible, Backlogged
<1>4. /\ \A u \in Tenant : DistinctRuns(s.queue[u])
      /\ \A u \in Tenant : \A x \in Runs(s.queue[u]) : TenantOf[x] = u /\ x \notin s.active
  BY OnceInRuns DEF Consistent
<1>5. /\ n.queue = [s.queue EXCEPT ![t] = Tail(q)]
      /\ n.active = s.active \cup {Head(q).run}
  BY DEF Claim, Take
<1>6. e = Head(q)
  BY DEF Claimed
<1> HIDE DEF k, t, q, e, n
<1>7. /\ e \in Entry /\ e.run \in Runs(q) /\ Runs(Tail(q)) = Runs(q) \ {e.run}
      /\ e \in Elems(q) /\ Elems(Tail(q)) \subseteq Elems(q)
  BY <1>3, <1>4, <1>6, TailRuns, ElemsOfParts DEF q
<1>8. TenantOf[e.run] = t /\ e.run \notin s.active
  BY <1>3, <1>4, <1>7 DEF q
<1>9. e \in Entries(s) /\ e.run \in Waiting(s)
  BY <1>3, <1>7, WaitingIsEntries DEF q
<1>10. \A u \in Tenant : n.queue[u] = IF u = t THEN Tail(q) ELSE s.queue[u]
  BY <1>1, <1>5
<1>11. Entries(n) \subseteq Entries(s)
  BY <1>3, <1>7, <1>10, WaitingIsEntries DEF q
<1>12. \A u \in Tenant : Runs(n.queue[u]) = Runs(s.queue[u]) \ {e.run}
  <2> TAKE u \in Tenant
  <2>1. CASE u = t
    BY <2>1, <1>7, <1>10 DEF q
  <2>2. CASE u # t
    BY <2>2, <1>4, <1>8, <1>10
  <2> QED  BY <2>1, <2>2
<1>13. Waiting(n) = Waiting(s) \ {e.run}
  <2>1. \A x : x \in Waiting(n) <=> \E u \in Tenant : x \in Runs(n.queue[u])
    BY WaitingIsEntries
  <2>2. \A x : x \in Waiting(s) <=> \E u \in Tenant : x \in Runs(s.queue[u])
    BY WaitingIsEntries
  <2>3. \A x : x \in Waiting(n) <=> x \in Waiting(s) \ {e.run}
    BY <2>1, <2>2, <1>12
  <2> QED  BY <2>3
<1>14. /\ Cardinality(s.active) < MaxActive
       /\ Cardinality(ActiveOf(s, TenantOf[e.run])) < MaxPerTenant
       /\ ~SessionBusy(s, e.run)
  BY <1>2, <1>6, <1>8 DEF Eligible, HasSlot, q
<1> QED  BY <1>5, <1>6, <1>7, <1>8, <1>9, <1>11, <1>13, <1>14 DEF e, n

=============================================================================
