----------------------- MODULE GatewayTrafficTheorems -----------------------
(***************************************************************************)
(* Requests and arguments stay usable for every budget, every size of      *)
(* messages, every set of documents and sessions of any length.            *)
(*                                                                         *)
(* The model's functions on sequences are recursive, so their values are   *)
(* found by induction, here over sets: a set of numbers has a least        *)
(* element, from which follow an induction over sequences and that a       *)
(* recursive function on them is what its definition says.                 *)
(***************************************************************************)
EXTENDS GatewayTraffic, SequenceTheorems, FiniteSetTheorems, WellFoundedInduction,
        NaturalsInduction, TLAPS

-----------------------------------------------------------------------------
(* Induction over data *)

\* A set of numbers has a least element: what induction over data rests on,
\* with sets in place of predicates.
LEMMA LeastNumber ==
  ASSUME NEW T \in SUBSET Nat, T # {}
  PROVE  \E n \in T : \A m \in T : n =< m
<1>1. PICK n \in T : \A m \in T : ~(<<m, n>> \in OpToRel(<, Nat))
  BY NatLessThanWellFounded, WFMin, Zenon
<1>2. \A m \in T : ~(m < n)
  BY <1>1 DEF OpToRel
<1> QED  BY <1>2

\* A set of sequences that has the empty one and, with each, every one that is
\* longer by an element has them all.
LEMMA SequenceInduction ==
  ASSUME NEW E, NEW P, <<>> \in P,
         \A s \in Seq(E), e \in E : s \in P => Append(s, e) \in P
  PROVE  Seq(E) \subseteq P
<1> SUFFICES ASSUME NEW bad \in Seq(E), bad \notin P
             PROVE  FALSE
  OBVIOUS
<1> DEFINE T == {n \in Nat : \E s \in Seq(E) : Len(s) = n /\ s \notin P}
<1>1. Len(bad) \in T
  BY LenProperties
<1>2. PICK n \in T : \A m \in T : n =< m
  <2> HIDE DEF T
  <2>1. T \in SUBSET Nat
    BY DEF T
  <2> QED  BY <1>1, <2>1, LeastNumber
<1>3. PICK s \in Seq(E) : Len(s) = n /\ s \notin P
  BY <1>2
<1>4. PICK r \in Seq(E), e \in E : s = Append(r, e)
  BY <1>3, SequenceEmptyOrAppend
<1>5. Len(r) \in Nat /\ n = Len(r) + 1
  BY <1>3, <1>4, AppendProperties, LenProperties
<1>6. r \notin P
  BY <1>3, <1>4
<1>7. Len(r) \in T
  BY <1>5, <1>6
<1> QED  BY <1>2, <1>5, <1>7

\* Append is undone by Front and Last.
LEMMA AppendLast ==
  ASSUME NEW E, NEW s \in Seq(E), NEW e \in E
  PROVE  /\ Append(s, e) # <<>> /\ Append(s, e) \in Seq(E)
         /\ Front(Append(s, e)) = s /\ Last(Append(s, e)) = e
<1> DEFINE t == Append(s, e)
<1>1. /\ t \in Seq(E) /\ t # <<>> /\ Len(s) \in Nat /\ Len(t) = Len(s) + 1
      /\ \A i \in 1..Len(s) : t[i] = s[i]
      /\ t[Len(s) + 1] = e
  BY AppendProperties, LenProperties
<1>2. Last(t) = e
  BY <1>1 DEF Last
<1>3. SubSeq(t, 1, Len(s)) = s
  <2> HIDE DEF t
  <2>1. \A i \in 1..Len(s) : t[i] \in E
    BY <1>1, ElementOfSeq
  <2>2. /\ SubSeq(t, 1, Len(s)) \in Seq(E)
        /\ Len(SubSeq(t, 1, Len(s))) = Len(s)
        /\ \A i \in 1..Len(s) : SubSeq(t, 1, Len(s))[i] = t[i]
    BY <1>1, <2>1, SubSeqProperties
  <2> QED  BY <1>1, <2>2, SeqEqual
<1>4. Front(t) = s
  BY <1>1, <1>3 DEF Front
<1> QED  BY <1>1, <1>2, <1>4

LEMMA FrontLast ==
  ASSUME NEW E, NEW s \in Seq(E), s # <<>>
  PROVE  /\ Front(s) \in Seq(E) /\ Last(s) \in E
         /\ s = Append(Front(s), Last(s)) /\ Len(Front(s)) = Len(s) - 1
<1>1. PICK r \in Seq(E), e \in E : s = Append(r, e)
  BY SequenceEmptyOrAppend
<1>2. Len(s) = Len(r) + 1 /\ Len(r) \in Nat
  BY <1>1, AppendProperties, LenProperties
<1> QED  BY <1>1, <1>2, AppendLast

\* A function on sequences can be defined by what it is for the empty one and
\* for a sequence with one more element: the values for the initial parts of a
\* sequence make up a run of the definition.
Recursive(f, E, S, a, G) ==
  /\ f \in [Seq(E) -> S] /\ f[<<>>] = a
  /\ \A s \in Seq(E), e \in E : f[Append(s, e)] = G[<<f[s], e>>]

\* Such a function exists for every first value and every step G. Tokens, parts,
\* scans and reads of the gateway are functions of this kind.
LEMMA RecursionOverSequences ==
  ASSUME NEW E, NEW S, NEW a, NEW G, a \in S, G \in [S \X E -> S]
  PROVE  \E f : Recursive(f, E, S, a, G)
<1> DEFINE Run(r, s) == /\ r \in [0..Len(s) -> S] /\ r[0] = a
                        /\ \A i \in 1..Len(s) : r[i] = G[<<r[i - 1], s[i]>>]
           P == {s \in Seq(E) : \E r : Run(r, s)}
           f == [s \in Seq(E) |-> (CHOOSE r : Run(r, s))[Len(s)]]
<1>1. \A s \in Seq(E) : \E r : Run(r, s)
  <2>1. <<>> \in P
    <3>1. <<>> \in Seq(E) /\ Len(<<>>) = 0
      BY EmptySeq
    <3>2. Run([i \in 0..0 |-> a], <<>>)
      BY <3>1
    <3> QED  BY <3>1, <3>2
  <2>2. ASSUME NEW s \in Seq(E), NEW e \in E, s \in P
        PROVE  Append(s, e) \in P
    <3>1. PICK r : Run(r, s)
      BY <2>2
    <3> DEFINE n == Len(s)
               t == Append(s, e)
               q == [i \in 0..(n + 1) |-> IF i = n + 1 THEN G[<<r[n], e>>] ELSE r[i]]
    <3>2. /\ n \in Nat /\ t \in Seq(E) /\ Len(t) = n + 1
          /\ \A i \in 1..n : t[i] = s[i]
          /\ t[n + 1] = e
      BY AppendProperties, LenProperties
    <3>3. /\ r \in [0..n -> S] /\ r[0] = a
          /\ \A i \in 1..n : r[i] = G[<<r[i - 1], s[i]>>]
      BY <3>1
    <3> HIDE DEF n, t
    <3>4. r[n] \in S
      BY <3>2, <3>3
    <3>5. q \in [0..(n + 1) -> S] /\ q[0] = a
      BY <3>2, <3>3, <3>4
    <3>6. \A i \in 1..(n + 1) : q[i] = G[<<q[i - 1], t[i]>>]
      <4> SUFFICES ASSUME NEW i \in 1..(n + 1)  PROVE q[i] = G[<<q[i - 1], t[i]>>]
        OBVIOUS
      <4>1. i \in 0..(n + 1) /\ i - 1 \in 0..(n + 1) /\ i - 1 # n + 1
        BY <3>2
      <4>2. q[i - 1] = r[i - 1]
        BY <4>1
      <4>3. CASE i = n + 1
        <5>1. q[i] = G[<<r[n], e>>] /\ i - 1 = n
          BY <3>2, <4>1, <4>3
        <5> QED  BY <3>2, <4>2, <4>3, <5>1
      <4>4. CASE i # n + 1
        <5>1. i \in 1..n /\ q[i] = r[i]
          BY <3>2, <4>1, <4>4
        <5>2. r[i] = G[<<r[i - 1], s[i]>>] /\ t[i] = s[i]
          BY <3>2, <3>3, <5>1
        <5> QED  BY <4>2, <5>1, <5>2
      <4> QED  BY <4>3, <4>4
    <3> HIDE DEF q
    <3>7. Run(q, t)
      BY <3>2, <3>5, <3>6
    <3> QED  BY <3>2, <3>7 DEF t
  <2> HIDE DEF P
  <2>3. Seq(E) \subseteq P
    BY <2>1, <2>2, SequenceInduction
  <2> QED  BY <2>3 DEF P
<1>2. ASSUME NEW s \in Seq(E), NEW e \in E, NEW r, NEW q, Run(r, s), Run(q, Append(s, e))
      PROVE  q[Len(s) + 1] = G[<<r[Len(s)], e>>]
  <2> DEFINE n == Len(s)
             t == Append(s, e)
             T == {i \in 0..n : q[i] # r[i]}
  <2>1. /\ n \in Nat /\ t \in Seq(E) /\ Len(t) = n + 1
        /\ \A i \in 1..n : t[i] = s[i]
        /\ t[n + 1] = e
    BY AppendProperties, LenProperties
  <2>2. /\ r[0] = a /\ \A i \in 1..n : r[i] = G[<<r[i - 1], s[i]>>]
    BY <1>2
  <2>3. /\ q[0] = a /\ \A i \in 1..(n + 1) : q[i] = G[<<q[i - 1], t[i]>>]
    BY <1>2, <2>1
  <2> HIDE DEF n, t
  <2>4. T = {}
    <3> SUFFICES ASSUME T # {} PROVE FALSE
      OBVIOUS
    <3>1. PICK k \in T : \A m \in T : k =< m
      <4>1. T \in SUBSET Nat
        BY <2>1
      <4> HIDE DEF T
      <4> QED  BY <4>1, LeastNumber
    <3>2. k \in 1..n
      BY <2>1, <2>2, <2>3, <3>1
    <3>3. k - 1 \in 0..n /\ k - 1 \notin T
      BY <2>1, <3>1, <3>2
    <3>4. q[k - 1] = r[k - 1]
      BY <3>3
    <3>5. q[k] = r[k]
      <4>1. r[k] = G[<<r[k - 1], s[k]>>] /\ t[k] = s[k]
        BY <2>1, <2>2, <3>2
      <4>2. q[k] = G[<<q[k - 1], t[k]>>]
        BY <2>1, <2>3, <3>2
      <4> QED  BY <3>4, <4>1, <4>2
    <3> QED  BY <3>1, <3>5
  <2>5. q[n] = r[n]
    BY <2>1, <2>4
  <2>6. q[n + 1] = G[<<q[n], t[n + 1]>>]
    BY <2>1, <2>3
  <2> QED  BY <2>1, <2>5, <2>6 DEF n
<1>3. \A s \in Seq(E) : Run(CHOOSE r : Run(r, s), s)
  <2> HIDE DEF Run
  <2> QED  BY <1>1
<1>4. f \in [Seq(E) -> S]
  <2> SUFFICES ASSUME NEW s \in Seq(E)
               PROVE  (CHOOSE r : Run(r, s))[Len(s)] \in S
    OBVIOUS
  <2> DEFINE r == CHOOSE x : Run(x, s)
  <2>1. Run(r, s)
    BY <1>3
  <2> HIDE DEF r
  <2>2. r[Len(s)] \in S
    BY <2>1, LenProperties
  <2> QED  BY <2>2 DEF r
<1>5. f[<<>>] = a
  <2> DEFINE r == CHOOSE x : Run(x, <<>>)
  <2>1. <<>> \in Seq(E) /\ Len(<<>>) = 0
    BY EmptySeq
  <2>2. Run(r, <<>>)
    BY <1>3, <2>1
  <2>3. f[<<>>] = r[Len(<<>>)]
    BY <2>1
  <2> HIDE DEF r, f
  <2> QED  BY <2>1, <2>2, <2>3
<1>6. ASSUME NEW s \in Seq(E), NEW e \in E
      PROVE  f[Append(s, e)] = G[<<f[s], e>>]
  <2> DEFINE t == Append(s, e)
             r == CHOOSE x : Run(x, s)
             q == CHOOSE x : Run(x, t)
  <2>1. t \in Seq(E) /\ Len(t) = Len(s) + 1
    BY AppendProperties
  <2>2. Run(r, s) /\ Run(q, t)
    BY <1>3, <2>1
  <2>3. f[s] = r[Len(s)] /\ f[t] = q[Len(t)]
    BY <2>1
  <2> HIDE DEF Run, r, q, f
  <2>4. q[Len(s) + 1] = G[<<r[Len(s)], e>>]
    BY <1>2, <2>2
  <2> QED  BY <2>1, <2>3, <2>4
<1> HIDE DEF f
<1>7. Recursive(f, E, S, a, G)
  BY <1>4, <1>5, <1>6 DEF Recursive
<1> QED  BY <1>7

-----------------------------------------------------------------------------
(* What the recursive functions compute *)

\* The size of a sequence of messages (estimateMessagesTokens).
LEMMA TokensDef ==
  /\ Tokens \in [Seq(Message) -> Nat] /\ Tokens[<<>>] = 0
  /\ \A s \in Seq(Message), m \in Message : Tokens[Append(s, m)] = Tokens[s] + m.size
<1> DEFINE Body(f) == [s \in Seq(Message) |->
                         IF s = <<>> THEN 0 ELSE f[Front(s)] + Last(s).size]
<1>1. \E f : f = Body(f)
  <2> DEFINE G == [p \in Nat \X Message |-> p[1] + p[2].size]
  <2>1. G \in [Nat \X Message -> Nat]
    BY DEF Message
  <2>2. \A n \in Nat, m \in Message : G[<<n, m>>] = n + m.size
    OBVIOUS
  <2> HIDE DEF G
  <2>r. PICK f : Recursive(f, Message, Nat, 0, G)
    BY <2>1, RecursionOverSequences
  <2>3. /\ f \in [Seq(Message) -> Nat] /\ f[<<>>] = 0
        /\ \A s \in Seq(Message), m \in Message : f[Append(s, m)] = G[<<f[s], m>>]
    BY <2>r DEF Recursive
  <2>4. ASSUME NEW s \in Seq(Message), s # <<>>
        PROVE  f[s] = f[Front(s)] + Last(s).size
    <3>1. Front(s) \in Seq(Message) /\ Last(s) \in Message /\ s = Append(Front(s), Last(s))
      BY <2>4, FrontLast
    <3>2. f[s] = G[<<f[Front(s)], Last(s)>>]
      BY <2>3, <3>1
    <3>3. f[Front(s)] \in Nat
      BY <2>3, <3>1
    <3>4. f[s] = f[Front(s)] + Last(s).size
      BY <2>2, <3>1, <3>2, <3>3
    <3> QED  BY <3>4
  <2>5. f = [s \in Seq(Message) |-> IF s = <<>> THEN 0 ELSE f[Front(s)] + Last(s).size]
    BY <2>3, <2>4
  <2> QED  BY <2>5
<1>2. Tokens = Body(Tokens)
  BY <1>1 DEF Tokens
<1>3. <<>> \in Seq(Message) /\ Tokens[<<>>] = 0
  BY <1>2, EmptySeq
<1>4. ASSUME NEW s \in Seq(Message), NEW m \in Message
      PROVE  Tokens[Append(s, m)] = Tokens[s] + m.size
  BY <1>2, AppendLast
<1>5. \A s \in Seq(Message) : Tokens[s] \in Nat
  <2> DEFINE P == {s \in Seq(Message) : Tokens[s] \in Nat}
  <2>1. <<>> \in P
    BY <1>3
  <2>2. \A s \in Seq(Message), m \in Message : s \in P => Append(s, m) \in P
    BY <1>4, AppendLast DEF Message
  <2> HIDE DEF P
  <2>3. Seq(Message) \subseteq P
    BY <2>1, <2>2, SequenceInduction
  <2> QED  BY <2>3 DEF P
<1>6. Tokens \in [Seq(Message) -> Nat]
  BY <1>2, <1>5
<1> QED  BY <1>3, <1>4, <1>6

Part == [system : Seq(Message), talk : Seq(Message)]

\* What one more message changes.
With(parts, m) ==
  IF m.role = "system" THEN [system |-> Append(parts.system, m), talk |-> parts.talk]
  ELSE [system |-> parts.system, talk |-> Append(parts.talk, m)]

\* The system messages and the conversation, one message at a time.
LEMMA PartsDef ==
  /\ Parts \in [Seq(Message) -> Part] /\ Parts[<<>>] = [system |-> <<>>, talk |-> <<>>]
  /\ \A s \in Seq(Message), m \in Message : Parts[Append(s, m)] = With(Parts[s], m)
<1> DEFINE Rest(parts, m) == IF m.role = "system" THEN [parts EXCEPT !.system = Append(@, m)]
                             ELSE [parts EXCEPT !.talk = Append(@, m)]
           Body(f) == [s \in Seq(Message) |->
                         IF s = <<>> THEN [system |-> <<>>, talk |-> <<>>]
                         ELSE Rest(f[Front(s)], Last(s))]
<1>0. \A parts \in Part, m \in Message : Rest(parts, m) = With(parts, m) /\ With(parts, m) \in Part
  <2> SUFFICES ASSUME NEW parts \in Part, NEW m \in Message
               PROVE  Rest(parts, m) = With(parts, m) /\ With(parts, m) \in Part
    OBVIOUS
  <2>0. parts.system \in Seq(Message) /\ parts.talk \in Seq(Message)
        /\ parts = [system |-> parts.system, talk |-> parts.talk]
    BY DEF Part
  <2>1. Append(parts.system, m) \in Seq(Message) /\ Append(parts.talk, m) \in Seq(Message)
    BY <2>0, AppendProperties
  <2>2. Rest(parts, m) = With(parts, m)
    <3>1. PICK a \in Seq(Message), b \in Seq(Message) :
            /\ parts = [system |-> a, talk |-> b]
            /\ parts.system = a /\ parts.talk = b
      BY <2>0
    <3> DEFINE c == Append(parts.system, m)
               d == Append(parts.talk, m)
    <3> HIDE DEF c, d
    <3>2. [parts EXCEPT !.system = c] = [system |-> c, talk |-> parts.talk]
      BY <3>1
    <3>3. [parts EXCEPT !.talk = d] = [system |-> parts.system, talk |-> d]
      BY <3>1
    <3> USE DEF c, d
    <3> QED  BY <3>2, <3>3, Zenon DEF With
  <2>3. With(parts, m) \in Part
    BY <2>0, <2>1 DEF With, Part
  <2> QED  BY <2>2, <2>3
<1>1. \E f : f = Body(f)
  <2> DEFINE G == [p \in Part \X Message |-> With(p[1], p[2])]
             a == [system |-> <<>>, talk |-> <<>>]
  <2>1. G \in [Part \X Message -> Part] /\ a \in Part
    BY <1>0, EmptySeq DEF Part
  <2>2. \A p \in Part, m \in Message : G[<<p, m>>] = With(p, m)
    OBVIOUS
  <2> HIDE DEF G
  <2>r. PICK f : Recursive(f, Message, Part, a, G)
    BY <2>1, RecursionOverSequences
  <2>3. /\ f \in [Seq(Message) -> Part] /\ f[<<>>] = a
        /\ \A s \in Seq(Message), m \in Message : f[Append(s, m)] = G[<<f[s], m>>]
    BY <2>r DEF Recursive
  <2> HIDE DEF Rest
  <2>4. ASSUME NEW s \in Seq(Message), s # <<>>
        PROVE  f[s] = Rest(f[Front(s)], Last(s))
    <3>1. Front(s) \in Seq(Message) /\ Last(s) \in Message /\ s = Append(Front(s), Last(s))
      BY <2>4, FrontLast
    <3>2. f[s] = G[<<f[Front(s)], Last(s)>>]
      BY <2>3, <3>1
    <3> QED  BY <1>0, <2>2, <2>3, <3>1, <3>2
  <2>5. f = [s \in Seq(Message) |-> IF s = <<>> THEN a ELSE Rest(f[Front(s)], Last(s))]
    <3> HIDE DEF a
    <3> QED  BY <2>3, <2>4
  <2> QED  BY <2>5
<1>2. Parts = Body(Parts)
  BY <1>1 DEF Parts
<1> HIDE DEF Rest
<1>3. <<>> \in Seq(Message) /\ Parts[<<>>] = [system |-> <<>>, talk |-> <<>>]
  BY <1>2, EmptySeq
<1>4. ASSUME NEW s \in Seq(Message), NEW m \in Message
      PROVE  Parts[Append(s, m)] = Rest(Parts[s], m)
  BY <1>2, AppendLast
<1>5. \A s \in Seq(Message) : Parts[s] \in Part
  <2> DEFINE P == {s \in Seq(Message) : Parts[s] \in Part}
  <2>1. <<>> \in P
    <3>1. [system |-> <<>>, talk |-> <<>>] \in Part
      BY EmptySeq DEF Part
    <3> QED  BY <1>3, <3>1
  <2>2. \A s \in Seq(Message), m \in Message : s \in P => Append(s, m) \in P
    BY <1>0, <1>4, AppendLast
  <2> HIDE DEF P
  <2>3. Seq(Message) \subseteq P
    BY <2>1, <2>2, SequenceInduction
  <2> QED  BY <2>3 DEF P
<1>6. Parts \in [Seq(Message) -> Part]
  BY <1>2, <1>5
<1> QED  BY <1>0, <1>3, <1>4, <1>5, <1>6

-----------------------------------------------------------------------------
(* JSON, as scanJsonState and as JSON.parse read it *)

Mode == {"plain", "string", "escape"}
Scan == [mode : Mode, stack : Seq(Closing)]

\* What ScanJsonState does with one more symbol.
Step(s, c) ==
  CASE s.mode = "escape"             -> [mode |-> "string", stack |-> s.stack]
    [] s.mode = "string" /\ c = "b"  -> [mode |-> "escape", stack |-> s.stack]
    [] s.mode = "string" /\ c = "q"  -> [mode |-> "plain", stack |-> s.stack]
    [] s.mode = "plain" /\ c = "q"   -> [mode |-> "string", stack |-> s.stack]
    [] s.mode = "plain" /\ c \in Opening ->
         [mode |-> "plain", stack |-> Append(s.stack, Closer(c))]
    [] s.mode = "plain" /\ c \in Closing /\ s.stack # <<>> ->
         [mode |-> "plain", stack |-> Front(s.stack)]
    [] OTHER -> s

\* How a record with another mode, or another stack, is written out.
LEMMA ScanExcept ==
  ASSUME NEW s \in Scan
  PROVE  /\ \A x \in Mode : [s EXCEPT !.mode = x] = [mode |-> x, stack |-> s.stack]
         /\ \A y \in Seq(Closing) : [s EXCEPT !.stack = y] = [mode |-> s.mode, stack |-> y]
<1>1. PICK a \in Mode, b \in Seq(Closing) : s = [mode |-> a, stack |-> b]
  <2>1. s.mode \in Mode /\ s.stack \in Seq(Closing) /\ s = [mode |-> s.mode, stack |-> s.stack]
    BY DEF Scan
  <2> QED  BY <2>1
<1>2. s.mode = a /\ s.stack = b
  BY <1>1
<1> QED  BY <1>1, <1>2

LEMMA StepType ==
  ASSUME NEW s \in Scan, NEW c \in Symbol
  PROVE  Step(s, c) \in Scan
<1>1. s.mode \in Mode /\ s.stack \in Seq(Closing)
  BY DEF Scan
<1>2. c \in Opening => Append(s.stack, Closer(c)) \in Seq(Closing)
  <2>1. Closer(c) \in Closing
    BY DEF Closer, Closing
  <2> QED  BY <1>1, <2>1, AppendProperties
<1>3. s.stack # <<>> => Front(s.stack) \in Seq(Closing)
  BY <1>1, FrontLast
<1>4. CASE s.mode = "escape"
  BY <1>1, <1>4 DEF Step, Scan, Mode
<1>5. CASE s.mode = "string"
  BY <1>1, <1>5 DEF Step, Scan, Mode
<1>6. CASE s.mode = "plain" /\ c \in Opening
  <2>1. Step(s, c) = [mode |-> "plain", stack |-> Append(s.stack, Closer(c))]
    BY <1>6 DEF Step, Opening, Closing
  <2> QED  BY <1>1, <1>2, <1>6, <2>1 DEF Scan, Mode
<1>7. CASE s.mode = "plain" /\ c \in Closing /\ s.stack # <<>>
  <2>1. Step(s, c) = [mode |-> "plain", stack |-> Front(s.stack)]
    BY <1>7 DEF Step, Opening, Closing
  <2> QED  BY <1>1, <1>3, <1>7, <2>1 DEF Scan, Mode
<1>8. CASE s.mode = "plain" /\ ~(c \in Opening) /\ ~(c \in Closing /\ s.stack # <<>>)
  BY <1>1, <1>8 DEF Step, Scan, Mode
<1> QED  BY <1>1, <1>4, <1>5, <1>6, <1>7, <1>8 DEF Mode

\* scanJsonState reads one symbol after the other.
LEMMA ScanDef ==
  /\ ScanJsonState \in [Seq(Symbol) -> Scan]
  /\ ScanJsonState[<<>>] = [mode |-> "plain", stack |-> <<>>]
  /\ \A t \in Seq(Symbol), c \in Symbol : ScanJsonState[Append(t, c)] = Step(ScanJsonState[t], c)
<1> DEFINE a == [mode |-> "plain", stack |-> <<>>]
           Rest(s, c) == CASE s.mode = "escape"             -> [s EXCEPT !.mode = "string"]
                           [] s.mode = "string" /\ c = "b"  -> [s EXCEPT !.mode = "escape"]
                           [] s.mode = "string" /\ c = "q"  -> [s EXCEPT !.mode = "plain"]
                           [] s.mode = "plain" /\ c = "q"   -> [s EXCEPT !.mode = "string"]
                           [] s.mode = "plain" /\ c \in Opening ->
                                [s EXCEPT !.stack = Append(@, Closer(c))]
                           [] s.mode = "plain" /\ c \in Closing /\ s.stack # <<>> ->
                                [s EXCEPT !.stack = Front(@)]
                           [] OTHER -> s
           Body(f) == [t \in Seq(Symbol) |-> IF t = <<>> THEN a ELSE Rest(f[Front(t)], Last(t))]
<1>0. \A s \in Scan, c \in Symbol : Rest(s, c) = Step(s, c)
  <2> SUFFICES ASSUME NEW s \in Scan, NEW c \in Symbol
               PROVE  Rest(s, c) = Step(s, c)
    OBVIOUS
  <2>1. /\ [s EXCEPT !.mode = "string"] = [mode |-> "string", stack |-> s.stack]
        /\ [s EXCEPT !.mode = "escape"] = [mode |-> "escape", stack |-> s.stack]
        /\ [s EXCEPT !.mode = "plain"] = [mode |-> "plain", stack |-> s.stack]
    BY ScanExcept DEF Mode
  <2>2. s.mode \in Mode /\ s.stack \in Seq(Closing)
    BY DEF Scan
  <2>3. c \in Opening => [s EXCEPT !.stack = Append(s.stack, Closer(c))]
                           = [mode |-> s.mode, stack |-> Append(s.stack, Closer(c))]
    <3>1. c \in Opening => Append(s.stack, Closer(c)) \in Seq(Closing)
      BY <2>2, AppendProperties DEF Closer, Closing
    <3> QED  BY <3>1, ScanExcept
  <2>4. s.stack # <<>> => [s EXCEPT !.stack = Front(s.stack)]
                            = [mode |-> s.mode, stack |-> Front(s.stack)]
    <3>1. s.stack # <<>> => Front(s.stack) \in Seq(Closing)
      BY <2>2, FrontLast
    <3> QED  BY <3>1, ScanExcept
  <2>5. CASE s.mode = "escape"
    BY <2>1, <2>5 DEF Step
  <2>6. CASE s.mode = "string"
    BY <2>1, <2>6 DEF Step
  <2>7. CASE s.mode = "plain" /\ c = "q"
    BY <2>1, <2>7 DEF Step
  <2>8. CASE s.mode = "plain" /\ c # "q" /\ c \in Opening
    <3>1. Rest(s, c) = [s EXCEPT !.stack = Append(s.stack, Closer(c))]
      BY <2>8 DEF Opening, Closing
    <3>2. Step(s, c) = [mode |-> "plain", stack |-> Append(s.stack, Closer(c))]
      BY <2>8 DEF Step, Opening, Closing
    <3> QED  BY <2>3, <2>8, <3>1, <3>2
  <2>9. CASE s.mode = "plain" /\ c # "q" /\ ~(c \in Opening)
    <3>1. CASE c \in Closing /\ s.stack # <<>>
      <4>1. Rest(s, c) = [s EXCEPT !.stack = Front(s.stack)]
        BY <2>9, <3>1 DEF Opening, Closing
      <4>2. Step(s, c) = [mode |-> "plain", stack |-> Front(s.stack)]
        BY <2>9, <3>1 DEF Step, Opening, Closing
      <4> QED  BY <2>4, <2>9, <3>1, <4>1, <4>2
    <3>2. CASE ~(c \in Closing /\ s.stack # <<>>)
      BY <2>9, <3>2 DEF Step
    <3> QED  BY <3>1, <3>2
  <2> QED  BY <2>2, <2>5, <2>6, <2>7, <2>8, <2>9 DEF Mode
<1>1. \E f : f = Body(f)
  <2> DEFINE G == [p \in Scan \X Symbol |-> Step(p[1], p[2])]
  <2>1. G \in [Scan \X Symbol -> Scan] /\ a \in Scan
    BY StepType, EmptySeq DEF Scan, Mode
  <2>2. \A s \in Scan, c \in Symbol : G[<<s, c>>] = Step(s, c)
    OBVIOUS
  <2> HIDE DEF G
  <2>r. PICK f : Recursive(f, Symbol, Scan, a, G)
    BY <2>1, RecursionOverSequences
  <2>3. /\ f \in [Seq(Symbol) -> Scan] /\ f[<<>>] = a
        /\ \A t \in Seq(Symbol), c \in Symbol : f[Append(t, c)] = G[<<f[t], c>>]
    BY <2>r DEF Recursive
  <2> HIDE DEF Rest
  <2>4. ASSUME NEW t \in Seq(Symbol), t # <<>>
        PROVE  f[t] = Rest(f[Front(t)], Last(t))
    <3>1. Front(t) \in Seq(Symbol) /\ Last(t) \in Symbol /\ t = Append(Front(t), Last(t))
      BY <2>4, FrontLast
    <3>2. f[t] = G[<<f[Front(t)], Last(t)>>]
      BY <2>3, <3>1
    <3> QED  BY <1>0, <2>2, <2>3, <3>1, <3>2
  <2>5. f = [t \in Seq(Symbol) |-> IF t = <<>> THEN a ELSE Rest(f[Front(t)], Last(t))]
    <3> HIDE DEF a
    <3> QED  BY <2>3, <2>4
  <2> QED  BY <2>5
<1>2. ScanJsonState = Body(ScanJsonState)
  BY <1>1, Zenon DEF ScanJsonState
<1> HIDE DEF Rest
<1>3. <<>> \in Seq(Symbol) /\ ScanJsonState[<<>>] = a
  BY <1>2, EmptySeq
<1>4. ASSUME NEW t \in Seq(Symbol), NEW c \in Symbol
      PROVE  ScanJsonState[Append(t, c)] = Rest(ScanJsonState[t], c)
  BY <1>2, AppendLast
<1>5. \A t \in Seq(Symbol) : ScanJsonState[t] \in Scan
  <2> DEFINE P == {t \in Seq(Symbol) : ScanJsonState[t] \in Scan}
  <2>1. <<>> \in P
    <3>1. a \in Scan
      BY EmptySeq DEF Scan, Mode
    <3> QED  BY <1>3, <3>1
  <2>2. \A t \in Seq(Symbol), c \in Symbol : t \in P => Append(t, c) \in P
    BY <1>0, <1>4, AppendLast, StepType
  <2> HIDE DEF P
  <2>3. Seq(Symbol) \subseteq P
    BY <2>1, <2>2, SequenceInduction
  <2> QED  BY <2>3 DEF P
<1>6. ScanJsonState \in [Seq(Symbol) -> Scan]
  BY <1>2, <1>5
<1> QED  BY <1>0, <1>3, <1>4, <1>5, <1>6

Quoted == {"string", "key"}
Escaped == {"stringEscape", "keyEscape"}
Plain == {"start", "colon", "element", "[", "{", "member", "named", "number", "value"}
State == [at : Quoted \cup Escaped \cup Plain \cup {"error"}, stack : Seq(Closing)]

LEMMA StateExcept ==
  ASSUME NEW s \in State
  PROVE  \A x : [s EXCEPT !.at = x] = [at |-> x, stack |-> s.stack]
<1>1. PICK b \in Seq(Closing) : \E a : s = [at |-> a, stack |-> b]
  <2>1. s.stack \in Seq(Closing) /\ s = [at |-> s.at, stack |-> s.stack]
    BY DEF State
  <2> QED  BY <2>1
<1>2. PICK a : s = [at |-> a, stack |-> b]
  BY <1>1
<1>3. s.at = a /\ s.stack = b
  BY <1>2
<1> QED  BY <1>2, <1>3

\* What the parser does with a symbol, by what it has read.
LEMMA ReadQuoted ==
  ASSUME NEW s \in State, NEW c \in Symbol, s.at \in Quoted
  PROVE  LET r == ReadSymbol(s, c) IN
           /\ r \in State /\ r.stack = s.stack
           /\ c = "b" => r.at \in Escaped
           /\ c = "q" => r.at \in {"value", "named"}
           /\ c \notin {"b", "q"} => r.at = s.at
<1>1. s.stack \in Seq(Closing)
  BY DEF State
<1>2. CASE c = "b"
  <2>1. PICK x \in Escaped : ReadSymbol(s, c) = [at |-> x, stack |-> s.stack]
    BY <1>2, StateExcept DEF ReadSymbol, ReadToken, Text, Quoted, Escaped, Value, Closing
  <2> QED  BY <1>1, <1>2, <2>1 DEF State
<1>3. CASE c = "q"
  <2>1. PICK x \in {"value", "named"} : ReadSymbol(s, c) = [at |-> x, stack |-> s.stack]
    BY <1>3, StateExcept DEF ReadSymbol, ReadToken, Text, Quoted, Escaped, Value, Closing
  <2>2. ReadSymbol(s, c) \in State
    <3>1. x \in Plain
      BY DEF Plain
    <3> QED  BY <1>1, <2>1, <3>1 DEF State
  <2> QED  BY <1>3, <2>1, <2>2
<1>4. CASE c \notin {"b", "q"}
  <2>1. ReadSymbol(s, c) = s
    BY <1>4 DEF ReadSymbol, ReadToken, Text, Quoted, Escaped, Value, Closing
  <2> QED  BY <1>4, <2>1
<1> QED  BY <1>2, <1>3, <1>4

LEMMA ReadEscaped ==
  ASSUME NEW s \in State, NEW c \in Symbol, s.at \in Escaped
  PROVE  LET r == ReadSymbol(s, c) IN
           r \in State /\ r.stack = s.stack /\ r.at \in Quoted
<1>1. s.stack \in Seq(Closing)
  BY DEF State
<1>2. PICK x \in Quoted : ReadSymbol(s, c) = [at |-> x, stack |-> s.stack]
  BY StateExcept DEF ReadSymbol, ReadToken, Text, Quoted, Escaped, Value, Closing
<1> QED  BY <1>1, <1>2 DEF State

LEMMA ReadError ==
  ASSUME NEW s \in State, NEW c \in Symbol, s.at = "error"
  PROVE  ReadSymbol(s, c) \in State /\ ReadSymbol(s, c).at = "error"
<1>1. s.stack \in Seq(Closing)
  BY DEF State
<1>2. ReadSymbol(s, c) = [at |-> "error", stack |-> s.stack]
  <2>1. s = [at |-> "error", stack |-> s.stack]
    BY DEF State
  <2>2. CASE c = "w"
    BY <2>1, <2>2 DEF ReadSymbol, ReadBlank, Text
  <2>3. CASE c # "w"
    BY <2>3, StateExcept DEF ReadSymbol, ReadToken, Value, Closing, Fail
  <2> QED  BY <2>2, <2>3
<1> QED  BY <1>1, <1>2 DEF State

LEMMA ReadPlain ==
  ASSUME NEW s \in State, NEW c \in Symbol, s.at \in Plain
  PROVE  LET r == ReadSymbol(s, c) IN
           /\ r \in State
           /\ \/ r.at = "error"
              \/ c = "q" /\ r.at \in Quoted /\ r.stack = s.stack
              \/ c \in Opening /\ r.at \in Plain /\ r.stack = Append(s.stack, Closer(c))
              \/ /\ c \in Closing /\ s.stack # <<>> /\ Last(s.stack) = c
                 /\ r.at = "value" /\ r.stack = Front(s.stack)
                 /\ s.at \notin {"member", "element", "start"}
              \/ c = "," /\ r.at \in {"member", "element"} /\ r.stack = s.stack
              \/ c \in {":", "1", "w"} /\ r.at \in Plain /\ r.stack = s.stack
<1> DEFINE r == ReadSymbol(s, c)
           e == [at |-> "error", stack |-> s.stack]
           Ends == /\ c \in Closing /\ s.stack # <<>> /\ Last(s.stack) = c
                   /\ r = [at |-> "value", stack |-> Front(s.stack)]
                   /\ s.at \notin {"member", "element", "start"}
           Opens == c \in Opening /\ r = [at |-> c, stack |-> Append(s.stack, Closer(c))]
           Goes(x) == r = [at |-> x, stack |-> s.stack]
<1>1. s.stack \in Seq(Closing) /\ Fail(s) = e
  BY StateExcept DEF State, Fail
<1>2. \/ ReadValue(s, c) = e
      \/ c = "q" /\ ReadValue(s, c) = [at |-> "string", stack |-> s.stack]
      \/ c = "1" /\ ReadValue(s, c) = [at |-> "number", stack |-> s.stack]
      \/ c \in Opening /\ ReadValue(s, c) = [at |-> c, stack |-> Append(s.stack, Closer(c))]
  BY <1>1, StateExcept DEF ReadValue, Opening
<1>3. \/ ReadCloser(s, c) = e
      \/ /\ s.stack # <<>> /\ Last(s.stack) = c
         /\ ReadCloser(s, c) = [at |-> "value", stack |-> Front(s.stack)]
  BY <1>1, Zenon DEF ReadCloser
<1>4. \/ ReadComma(s) = e
      \/ ReadComma(s) = [at |-> "member", stack |-> s.stack]
      \/ ReadComma(s) = [at |-> "element", stack |-> s.stack]
  BY <1>1, StateExcept DEF ReadComma
<1>13. CASE c = "w"
  <2>1. s.at \notin Text
    BY DEF Plain, Text
  <2>2. r = [at |-> "value", stack |-> s.stack] \/ r = s
    BY <1>13, <2>1, StateExcept DEF ReadSymbol, ReadBlank
  <2>3. CASE r = s
    BY <1>13, <2>3
  <2>4. CASE r = [at |-> "value", stack |-> s.stack]
    <3>1. r \in State /\ r.at \in Plain /\ r.stack = s.stack
      <4> HIDE DEF r
      <4>1. "value" \in Plain /\ r.at = "value" /\ r.stack = s.stack
        BY <2>4 DEF Plain
      <4>2. r \in State
        BY <1>1, <2>4, <4>1 DEF State
      <4> QED  BY <4>1, <4>2
    <3>2. c \in {":", "1", "w"}
      BY <1>13
    <3> QED  BY <3>1, <3>2, Zenon
  <2> QED  BY <2>2, <2>3, <2>4
<1> SUFFICES ASSUME c # "w"
             PROVE  /\ r \in State
                    /\ \/ r.at = "error"
                       \/ c = "q" /\ r.at \in Quoted /\ r.stack = s.stack
                       \/ /\ c \in Opening /\ r.at \in Plain
                          /\ r.stack = Append(s.stack, Closer(c))
                       \/ /\ c \in Closing /\ s.stack # <<>> /\ Last(s.stack) = c
                          /\ r.at = "value" /\ r.stack = Front(s.stack)
                          /\ s.at \notin {"member", "element", "start"}
                       \/ c = "," /\ r.at \in {"member", "element"} /\ r.stack = s.stack
                       \/ c \in {":", "1"} /\ r.at \in Plain /\ r.stack = s.stack
  BY <1>13
<1>5. \/ Goes("error")
      \/ Opens
      \/ Ends
      \/ c = "q" /\ (Goes("string") \/ Goes("key"))
      \/ c = "," /\ (Goes("member") \/ Goes("element"))
      \/ c = "1" /\ Goes("number")
      \/ c = ":" /\ Goes("colon")
  <2>0. r = ReadToken(s, c)
    BY DEF ReadSymbol
  <2>1. CASE s.at \in {"start", "colon", "element"}
    <3>1. r = ReadValue(s, c)
      BY <2>0, <2>1 DEF ReadToken, Value
    <3> QED  BY <1>2, <3>1, Zenon
  <2>2. CASE s.at = "["
    <3>1. (c = "]" /\ r = ReadCloser(s, c)) \/ r = ReadValue(s, c)
      BY <2>0, <2>2 DEF ReadToken, Value
    <3> QED  BY <1>2, <1>3, <2>2, <3>1, Zenon DEF Closing
  <2>3. CASE s.at = "{"
    <3>1. \/ c = "}" /\ r = ReadCloser(s, c)
          \/ c = "q" /\ Goes("key")
          \/ r = Fail(s)
      BY <2>0, <2>3, StateExcept DEF ReadToken, Value
    <3> QED  BY <1>1, <1>3, <2>3, <3>1, Zenon DEF Closing
  <2>4. CASE s.at = "member"
    <3>1. (c = "q" /\ Goes("key")) \/ r = Fail(s)
      BY <2>0, <2>4, StateExcept DEF ReadToken, Value
    <3> QED  BY <1>1, <3>1, Zenon
  <2>5. CASE s.at = "named"
    <3>1. (c = ":" /\ Goes("colon")) \/ r = Fail(s)
      BY <2>0, <2>5, StateExcept DEF ReadToken, Value
    <3> QED  BY <1>1, <3>1, Zenon
  <2>6. CASE s.at \in Value
    <3>1. \/ c = "1" /\ Goes("number")
          \/ c = "," /\ r = ReadComma(s)
          \/ c \in Closing /\ r = ReadCloser(s, c)
          \/ r = Fail(s)
      <4>1. s = [at |-> s.at, stack |-> s.stack]
        BY DEF State
      <4> QED  BY <2>0, <2>6, <4>1 DEF ReadToken, Value, Closing
    <3>2. s.at \notin {"member", "element", "start"}
      BY <2>6 DEF Value
    <3> QED  BY <1>1, <1>3, <1>4, <3>1, <3>2, Zenon
  <2> QED  BY <2>1, <2>2, <2>3, <2>4, <2>5, <2>6 DEF Plain, Value
<1> HIDE DEF r
<1>6. ASSUME NEW x \in {"error", "string", "key", "member", "element", "number", "colon"}, Goes(x)
      PROVE  r \in State /\ r.at = x /\ r.stack = s.stack
  BY <1>1, <1>6 DEF State, Quoted, Plain
<1>7. CASE Opens
  <2>1. Append(s.stack, Closer(c)) \in Seq(Closing) /\ c \in Plain
    <3>1. Closer(c) \in Closing /\ c \in Plain
      BY <1>7 DEF Closer, Closing, Opening, Plain
    <3> QED  BY <1>1, <3>1, AppendProperties
  <2>2. r.at = c /\ r.stack = Append(s.stack, Closer(c))
    BY <1>7
  <2>3. r \in State
    BY <1>7, <2>1 DEF State
  <2> QED  BY <1>7, <2>1, <2>2, <2>3, Zenon DEF r
<1>8. CASE Ends
  <2>1. Front(s.stack) \in Seq(Closing)
    BY <1>1, <1>8, FrontLast
  <2>2. r.at = "value" /\ r.stack = Front(s.stack)
    BY <1>8
  <2>3. r \in State
    <3>1. "value" \in Plain
      BY DEF Plain
    <3> QED  BY <1>8, <2>1, <3>1 DEF State
  <2> QED  BY <1>8, <2>2, <2>3, Zenon DEF r
<1>9. CASE Goes("error")
  BY <1>6, <1>9 DEF r
<1>10. CASE c = "q" /\ (Goes("string") \/ Goes("key"))
  BY <1>6, <1>10 DEF r, Quoted
<1>11. CASE c = "," /\ (Goes("member") \/ Goes("element"))
  BY <1>6, <1>11 DEF r
<1>12. CASE (c = "1" /\ Goes("number")) \/ (c = ":" /\ Goes("colon"))
  BY <1>6, <1>12 DEF r, Plain
<1> QED  BY <1>5, <1>7, <1>8, <1>9, <1>10, <1>11, <1>12

LEMMA ReadSymbolType ==
  ASSUME NEW s \in State, NEW c \in Symbol
  PROVE  ReadSymbol(s, c) \in State
<1>1. s.at \in Quoted \cup Escaped \cup Plain \cup {"error"}
  BY DEF State
<1> QED  BY <1>1, ReadQuoted, ReadEscaped, ReadPlain, ReadError

\* So does JSON.parse.
LEMMA ReadDef ==
  /\ Read \in [Seq(Symbol) -> State]
  /\ Read[<<>>] = [at |-> "start", stack |-> <<>>]
  /\ \A t \in Seq(Symbol), c \in Symbol : Read[Append(t, c)] = ReadSymbol(Read[t], c)
<1> DEFINE a == [at |-> "start", stack |-> <<>>]
           Body(f) == [t \in Seq(Symbol) |->
                         IF t = <<>> THEN a ELSE ReadSymbol(f[Front(t)], Last(t))]
<1>0. a \in State
  BY EmptySeq DEF State, Plain
<1>1. \E f : f = Body(f)
  <2> DEFINE G == [p \in State \X Symbol |-> ReadSymbol(p[1], p[2])]
  <2>1. G \in [State \X Symbol -> State]
    BY ReadSymbolType
  <2>2. \A s \in State, c \in Symbol : G[<<s, c>>] = ReadSymbol(s, c)
    OBVIOUS
  <2> HIDE DEF G, a
  <2>3. PICK f : Recursive(f, Symbol, State, a, G)
    BY <1>0, <2>1, RecursionOverSequences
  <2>4. /\ f \in [Seq(Symbol) -> State] /\ f[<<>>] = a
        /\ \A t \in Seq(Symbol), c \in Symbol : f[Append(t, c)] = G[<<f[t], c>>]
    BY <2>3 DEF Recursive
  <2>5. ASSUME NEW t \in Seq(Symbol), t # <<>>
        PROVE  f[t] = ReadSymbol(f[Front(t)], Last(t))
    <3>1. Front(t) \in Seq(Symbol) /\ Last(t) \in Symbol /\ t = Append(Front(t), Last(t))
      BY <2>5, FrontLast
    <3>2. f[t] = G[<<f[Front(t)], Last(t)>>]
      BY <2>4, <3>1
    <3> QED  BY <2>2, <2>4, <3>1, <3>2
  <2>6. f = Body(f)
    BY <2>4, <2>5
  <2> QED  BY <2>6
<1>2. Read = Body(Read)
  BY <1>1, Zenon DEF Read
<1>3. <<>> \in Seq(Symbol) /\ Read[<<>>] = a
  BY <1>2, EmptySeq
<1>4. ASSUME NEW t \in Seq(Symbol), NEW c \in Symbol
      PROVE  Read[Append(t, c)] = ReadSymbol(Read[t], c)
  BY <1>2, AppendLast
<1>5. \A t \in Seq(Symbol) : Read[t] \in State
  <2> DEFINE P == {t \in Seq(Symbol) : Read[t] \in State}
  <2>1. <<>> \in P
    BY <1>0, <1>3
  <2>2. \A t \in Seq(Symbol), c \in Symbol : t \in P => Append(t, c) \in P
    BY <1>4, AppendLast, ReadSymbolType
  <2> HIDE DEF P
  <2>3. Seq(Symbol) \subseteq P
    BY <2>1, <2>2, SequenceInduction
  <2> QED  BY <2>3 DEF P
<1>6. Read \in [Seq(Symbol) -> State]
  BY <1>2, <1>5
<1> QED  BY <1>3, <1>4, <1>6

\* The scan, while the parser accepts: the same brackets are open, and what is
\* a string for the one is a string for the other.
Same(r, s) ==
  /\ s.stack = r.stack
  /\ r.at \in Quoted => s.mode = "string"
  /\ r.at \in Escaped => s.mode = "escape"
  /\ r.at \in Plain => s.mode = "plain"

LEMMA Kinds ==
  /\ \A a \in Quoted : a \notin Escaped /\ a \notin Plain
  /\ \A a \in Escaped : a \notin Quoted /\ a \notin Plain
  /\ \A a \in Plain : a \notin Quoted /\ a \notin Escaped
  /\ {"value", "named", "member", "element"} \subseteq Plain
  /\ "error" \notin Quoted \cup Escaped \cup Plain
BY DEF Quoted, Escaped, Plain

LEMMA SameAfter ==
  ASSUME NEW r \in State, NEW s \in Scan, NEW c \in Symbol, Same(r, s), r.at # "error",
         NEW x, NEW y, x = ReadSymbol(r, c), y = Step(s, c), x.at # "error"
  PROVE  Same(x, y)
<1>1. r.at \in Quoted \cup Escaped \cup Plain
  BY DEF State
<1>2. CASE r.at \in Quoted
  <2>1. s.mode = "string" /\ s.stack = r.stack
    BY <1>2 DEF Same
  <2>2. /\ x.stack = r.stack
        /\ c = "b" => x.at \in Escaped
        /\ c = "q" => x.at \in {"value", "named"}
        /\ c \notin {"b", "q"} => x.at = r.at
    BY <1>2, ReadQuoted
  <2>3. CASE c = "b"
    <3>1. y = [mode |-> "escape", stack |-> s.stack]
      BY <2>1, <2>3 DEF Step
    <3>2. y.mode = "escape" /\ y.stack = s.stack /\ x.at \in Escaped
      BY <2>2, <2>3, <3>1
    <3> QED  BY <2>1, <2>2, <3>2, Kinds DEF Same
  <2>4. CASE c = "q"
    <3>1. y = [mode |-> "plain", stack |-> s.stack]
      BY <2>1, <2>4 DEF Step
    <3>2. y.mode = "plain" /\ y.stack = s.stack /\ x.at \in Plain
      BY <2>2, <2>4, <3>1, Kinds
    <3> QED  BY <2>1, <2>2, <3>2, Kinds DEF Same
  <2>5. CASE c \notin {"b", "q"}
    <3>1. y = s
      BY <2>1, <2>5 DEF Step
    <3> QED  BY <1>2, <2>1, <2>2, <2>5, <3>1, Kinds DEF Same
  <2> QED  BY <2>3, <2>4, <2>5
<1>3. CASE r.at \in Escaped
  <2>1. s.mode = "escape" /\ s.stack = r.stack
    BY <1>3 DEF Same
  <2>2. x.stack = r.stack /\ x.at \in Quoted
    BY <1>3, ReadEscaped
  <2>3. y = [mode |-> "string", stack |-> s.stack]
    BY <2>1 DEF Step
  <2>4. y.mode = "string" /\ y.stack = s.stack
    BY <2>3
  <2> QED  BY <2>1, <2>2, <2>4, Kinds DEF Same
<1>4. CASE r.at \in Plain
  <2>1. s.mode = "plain" /\ s.stack = r.stack
    BY <1>4 DEF Same
  <2>2. \/ c = "q" /\ x.at \in Quoted /\ x.stack = r.stack
        \/ c \in Opening /\ x.at \in Plain /\ x.stack = Append(r.stack, Closer(c))
        \/ c \in Closing /\ r.stack # <<>> /\ x.at \in Plain /\ x.stack = Front(r.stack)
        \/ c \in {",", ":", "1", "w"} /\ x.at \in Plain /\ x.stack = r.stack
    <3>1. LET z == ReadSymbol(r, c) IN
              \/ c = "q" /\ z.at \in Quoted /\ z.stack = r.stack
              \/ c \in Opening /\ z.at \in Plain /\ z.stack = Append(r.stack, Closer(c))
              \/ /\ c \in Closing /\ r.stack # <<>> /\ Last(r.stack) = c
                 /\ z.at = "value" /\ z.stack = Front(r.stack)
              \/ c = "," /\ z.at \in {"member", "element"} /\ z.stack = r.stack
              \/ c \in {":", "1", "w"} /\ z.at \in Plain /\ z.stack = r.stack
      BY <1>4, ReadPlain
    <3> QED  BY <3>1, Kinds
  <2>3. CASE c = "q" /\ x.at \in Quoted /\ x.stack = r.stack
    <3>1. y = [mode |-> "string", stack |-> s.stack]
      BY <2>1, <2>3 DEF Step, Opening, Closing
    <3>2. y.mode = "string" /\ y.stack = s.stack
      BY <3>1
    <3> QED  BY <2>1, <2>3, <3>2, Kinds DEF Same
  <2>4. CASE c \in Opening /\ x.at \in Plain /\ x.stack = Append(r.stack, Closer(c))
    <3>1. y = [mode |-> "plain", stack |-> Append(s.stack, Closer(c))]
      BY <2>1, <2>4 DEF Step, Opening, Closing
    <3>2. y.mode = "plain" /\ y.stack = Append(s.stack, Closer(c))
      BY <3>1
    <3> QED  BY <2>1, <2>4, <3>2, Kinds DEF Same
  <2>5. CASE c \in Closing /\ r.stack # <<>> /\ x.at \in Plain /\ x.stack = Front(r.stack)
    <3>1. y = [mode |-> "plain", stack |-> Front(s.stack)]
      BY <2>1, <2>5 DEF Step, Opening, Closing
    <3>2. y.mode = "plain" /\ y.stack = Front(s.stack)
      BY <3>1
    <3> QED  BY <2>1, <2>5, <3>2, Kinds DEF Same
  <2>6. CASE c \in {",", ":", "1", "w"} /\ x.at \in Plain /\ x.stack = r.stack
    <3>1. y = s
      BY <2>1, <2>6 DEF Step, Opening, Closing
    <3> QED  BY <2>1, <2>6, <3>1, Kinds DEF Same
  <2> QED  BY <2>2, <2>3, <2>4, <2>5, <2>6
<1> QED  BY <1>1, <1>2, <1>3, <1>4

\* What JSON.parse has not refused, scanJsonState understands.
LEMMA ScanFollowsRead ==
  ASSUME NEW t \in Seq(Symbol), Read[t].at # "error"
  PROVE  Same(Read[t], ScanJsonState[t])
<1> DEFINE P == {u \in Seq(Symbol) : Read[u].at # "error" => Same(Read[u], ScanJsonState[u])}
<1>1. <<>> \in P
  <2>1. /\ Read[<<>>].at = "start" /\ Read[<<>>].stack = <<>>
        /\ ScanJsonState[<<>>].mode = "plain" /\ ScanJsonState[<<>>].stack = <<>>
    BY ReadDef, ScanDef
  <2>2. "start" \in Plain
    BY DEF Plain
  <2>3. Same(Read[<<>>], ScanJsonState[<<>>])
    BY <2>1, <2>2, Kinds DEF Same
  <2> QED  BY <2>3, EmptySeq
<1>2. ASSUME NEW u \in Seq(Symbol), NEW c \in Symbol, u \in P
      PROVE  Append(u, c) \in P
  <2>1. /\ Read[u] \in State /\ ScanJsonState[u] \in Scan /\ Append(u, c) \in Seq(Symbol)
        /\ Read[Append(u, c)] = ReadSymbol(Read[u], c)
        /\ ScanJsonState[Append(u, c)] = Step(ScanJsonState[u], c)
    BY ReadDef, ScanDef, AppendProperties
  <2>2. ASSUME ReadSymbol(Read[u], c).at # "error"
        PROVE  Same(ReadSymbol(Read[u], c), Step(ScanJsonState[u], c))
    <3>1. Read[u].at # "error"
      BY <2>1, <2>2, ReadError
    <3>2. Same(Read[u], ScanJsonState[u])
      BY <1>2, <3>1
    <3> QED  BY <2>1, <2>2, <3>1, <3>2, SameAfter
  <2> QED  BY <2>1, <2>2
<1> HIDE DEF P
<1>3. Seq(Symbol) \subseteq P
  BY <1>1, <1>2, SequenceInduction
<1> QED  BY <1>3 DEF P

-----------------------------------------------------------------------------
(* Sequences and numbers *)

LEMMA ConcatAppend ==
  ASSUME NEW E, NEW s \in Seq(E), NEW t \in Seq(E), NEW e \in E
  PROVE  s \o Append(t, e) = Append(s \o t, e) /\ s \o t \in Seq(E)
<1>1. /\ s \o t \in Seq(E) /\ Len(s \o t) = Len(s) + Len(t)
      /\ Append(t, e) \in Seq(E) /\ Len(Append(t, e)) = Len(t) + 1
      /\ Len(s) \in Nat /\ Len(t) \in Nat
  BY ConcatProperties, AppendProperties, LenProperties
<1> DEFINE a == s \o Append(t, e)
           b == Append(s \o t, e)
<1>2. a \in Seq(E) /\ b \in Seq(E) /\ Len(a) = Len(s) + Len(t) + 1 /\ Len(b) = Len(a)
  BY <1>1, ConcatProperties, AppendProperties
<1>3. ASSUME NEW i \in 1..Len(a) PROVE a[i] = b[i]
  <2>1. CASE i =< Len(s)
    <3>1. i \in 1..Len(s) /\ i \in 1..Len(s \o t)
      BY <1>1, <1>2, <2>1
    <3>2. a[i] = s[i]
      BY <1>1, <3>1, ConcatProperties
    <3>3. b[i] = (s \o t)[i] /\ (s \o t)[i] = s[i]
      BY <1>1, <3>1, ConcatProperties, AppendProperties
    <3> QED  BY <3>2, <3>3
  <2>2. CASE i > Len(s) /\ i # Len(a)
    <3>1. i \in 1..Len(s \o t) /\ i - Len(s) \in 1..Len(t) /\ i \in (Len(s) + 1)..Len(s \o t)
          /\ i \in (Len(s) + 1)..(Len(s) + Len(t) + 1)
      BY <1>1, <1>2, <2>2
    <3>2. a[i] = Append(t, e)[i - Len(s)] /\ Append(t, e)[i - Len(s)] = t[i - Len(s)]
      BY <1>1, <3>1, ConcatProperties, AppendProperties
    <3>3. b[i] = (s \o t)[i] /\ (s \o t)[i] = t[i - Len(s)]
      BY <1>1, <3>1, ConcatProperties, AppendProperties
    <3> QED  BY <3>2, <3>3
  <2>3. CASE i = Len(a)
    <3>1. /\ i - Len(s) = Len(t) + 1 /\ i \in 1..(Len(s) + Len(t) + 1)
          /\ i > Len(s) /\ i = Len(s \o t) + 1
      BY <1>1, <1>2, <2>3
    <3>2. a[i] = Append(t, e)[i - Len(s)]
      BY <1>1, <3>1, ConcatProperties
    <3>3. Append(t, e)[i - Len(s)] = e /\ b[i] = e
      BY <1>1, <3>1, AppendProperties
    <3> QED  BY <3>2, <3>3
  <2> QED  BY <1>1, <1>2, <2>1, <2>2, <2>3
<1> HIDE DEF a, b
<1>4. a = b
  BY <1>2, <1>3, SeqEqual
<1> QED  BY <1>1, <1>4 DEF a, b

LEMMA LargestNumber ==
  ASSUME NEW n \in Nat, NEW T \in SUBSET (0..n), T # {}
  PROVE  Max(T) \in T /\ \A m \in T : m =< Max(T)
<1> DEFINE R == {k \in Nat : k =< n /\ n - k \in T}
<1>0. ASSUME NEW m \in T
      PROVE  m \in 0..n /\ n - m \in Nat /\ n - m =< n /\ n - (n - m) = m /\ n - m \in R
  <2>1. m \in 0..n
    OBVIOUS
  <2>2. n - m \in Nat /\ n - m =< n /\ n - (n - m) = m
    BY <2>1
  <2> QED  BY <2>1, <2>2
<1>1. R \in SUBSET Nat /\ R # {}
  <2>1. PICK m \in T : TRUE
    OBVIOUS
  <2>2. R \in SUBSET Nat
    OBVIOUS
  <2> HIDE DEF R
  <2> QED  BY <1>0, <2>1, <2>2
<1>2. PICK k \in R : \A j \in R : k =< j
  <2> HIDE DEF R
  <2> QED  BY <1>1, LeastNumber
<1>3. n - k \in T /\ k \in Nat
  BY <1>2
<1> HIDE DEF R
<1>4. \A m \in T : m =< n - k
  <2> SUFFICES ASSUME NEW m \in T PROVE m =< n - k
    OBVIOUS
  <2>1. k =< n - m
    BY <1>0, <1>2
  <2> QED  BY <1>0, <1>3, <2>1
<1>5. n - k >= n - k
  BY <1>3
<1>6. \A m \in T : m \in Int
  BY <1>0
<1>7. \E x \in T : \A y \in T : x >= y
  BY <1>3, <1>4, <1>6
<1>8. Max(T) \in T /\ \A y \in T : Max(T) >= y
  BY <1>7 DEF Max
<1> QED  BY <1>6, <1>8

LEMMA SmallestNumber ==
  ASSUME NEW T \in SUBSET Nat, T # {}
  PROVE  Min(T) \in T /\ \A m \in T : Min(T) =< m
BY LeastNumber DEF Min

LEMMA LargestIsLast ==
  ASSUME NEW n \in Nat, NEW T \in SUBSET (0..n), n \in T
  PROVE  Max(T) = n
<1>1. Max(T) \in T /\ n =< Max(T)
  BY LargestNumber
<1>2. Max(T) \in 0..n
  BY <1>1
<1> QED  BY <1>1, <1>2

LEMMA WholeSequence ==
  ASSUME NEW E, NEW s \in Seq(E)
  PROVE  /\ SubSeq(s, 1, Len(s)) = s
         /\ Len(s) \in Nat /\ DOMAIN s = 1..Len(s) /\ 1..Len(s) \subseteq 0..Len(s)
         /\ 0 \in 0..Len(s)
         /\ s # <<>> => Len(s) \in 1..Len(s) /\ Len(s) >= 1
<1>1. Len(s) \in Nat /\ DOMAIN s = 1..Len(s) /\ \A i \in 1..Len(s) : s[i] \in E
  BY LenProperties, ElementOfSeq
<1>2. /\ SubSeq(s, 1, Len(s)) \in Seq(E) /\ Len(SubSeq(s, 1, Len(s))) = Len(s)
      /\ \A i \in 1..Len(s) : SubSeq(s, 1, Len(s))[i] = s[i]
  BY <1>1, SubSeqProperties
<1>3. SubSeq(s, 1, Len(s)) = s
  BY <1>2, SeqEqual
<1>4. s # <<>> => Len(s) # 0
  BY EmptySeq
<1> QED  BY <1>1, <1>3, <1>4

-----------------------------------------------------------------------------
(* tool-call-argument-repair.ts *)

\* Brackets that close what was open, read after a text: the text's are theirs,
\* the last opened first.
Closes(t, u) ==
  LET now == Read[t].stack
      then == Read[t \o u].stack
  IN /\ Read[t \o u].at \in Plain
     /\ u # <<>> => Read[t].at \notin {"member", "element"}
     /\ Len(now) = Len(then) + Len(u)
     /\ \A i \in 1..Len(then) : now[i] = then[i]
     /\ \A i \in 1..Len(u) : now[Len(now) - i + 1] = u[i]

LEMMA ReadClosing ==
  ASSUME NEW t \in Seq(Symbol), Read[t].at \in Plain, NEW u \in Seq(Closing),
         Read[t \o u].at # "error"
  PROVE  Closes(t, u)
<1> DEFINE P == {v \in Seq(Closing) : Read[t \o v].at # "error" => Closes(t, v)}
<1>0. Seq(Closing) \subseteq Seq(Symbol) /\ Closing \subseteq Symbol
  <2>1. Closing \subseteq Symbol
    BY DEF Closing, Symbol
  <2> QED  BY <2>1, SeqMonotonic
<1>1. <<>> \in P
  <2>1. <<>> \in Seq(Closing) /\ Len(<<>>) = 0 /\ t \o <<>> = t
    BY EmptySeq, ConcatEmptySeq
  <2>2. Read[t].stack \in Seq(Closing) /\ Len(Read[t].stack) \in Nat
    <3>1. Read[t].stack \in Seq(Closing)
      BY ReadDef DEF State
    <3> QED  BY <3>1, LenProperties
  <2>3. Closes(t, <<>>)
    BY <2>1, <2>2 DEF Closes
  <2> QED  BY <2>1, <2>3
<1>2. ASSUME NEW v \in Seq(Closing), NEW c \in Closing, v \in P
      PROVE  Append(v, c) \in P
  <2>1. v \in Seq(Symbol) /\ c \in Symbol /\ t \o v \in Seq(Symbol)
        /\ t \o Append(v, c) = Append(t \o v, c)
        /\ Append(v, c) \in Seq(Closing) /\ Len(Append(v, c)) = Len(v) + 1 /\ Len(v) \in Nat
        /\ \A i \in 1..Len(v) : Append(v, c)[i] = v[i]
        /\ Append(v, c)[Len(v) + 1] = c
    BY <1>0, ConcatAppend, AppendProperties, LenProperties
  <2> DEFINE w == Append(v, c)
             now == Read[t].stack
             r == Read[t \o v]
             x == Read[t \o w]
  <2>2. /\ now \in Seq(Closing) /\ Len(now) \in Nat
        /\ r \in State /\ x \in State /\ x = ReadSymbol(r, c)
    <3>1. Read[t] \in State /\ r \in State /\ x \in State
      <4>1. w \in Seq(Symbol) /\ t \o w \in Seq(Symbol)
        BY <1>0, <2>1, ConcatProperties
      <4> HIDE DEF w
      <4> QED  BY <2>1, <4>1, ReadDef
    <3>2. now \in Seq(Closing)
      BY <3>1 DEF State
    <3>3. x = ReadSymbol(r, c)
      BY <2>1, ReadDef
    <3> HIDE DEF now, r, x
    <3> QED  BY <3>1, <3>2, <3>3, LenProperties
  <2> SUFFICES ASSUME x.at # "error" PROVE Closes(t, w)
    BY <2>1
  <2>3. r.at # "error"
    BY <2>1, <2>2, ReadError
  <2>4. /\ r.at \in Plain /\ Len(now) = Len(r.stack) + Len(v)
        /\ \A i \in 1..Len(r.stack) : now[i] = r.stack[i]
        /\ \A i \in 1..Len(v) : now[Len(now) - i + 1] = v[i]
    BY <1>2, <2>3 DEF Closes
  <2> HIDE DEF w, now, r, x
  <2>5. /\ r.stack # <<>> /\ Last(r.stack) = c /\ x.at = "value" /\ x.stack = Front(r.stack)
        /\ r.at \notin {"member", "element"}
    BY <1>2, <2>1, <2>2, <2>4, ReadPlain DEF Closing, Opening
  <2>6. r.stack \in Seq(Closing) /\ x.stack \in Seq(Closing)
    BY <2>2 DEF State
  <2>7. r.stack = Append(x.stack, c) /\ Len(r.stack) = Len(x.stack) + 1 /\ Len(x.stack) \in Nat
        /\ \A i \in 1..Len(x.stack) : r.stack[i] = x.stack[i]
        /\ r.stack[Len(x.stack) + 1] = c
    <3>1. r.stack = Append(x.stack, c)
      BY <2>5, <2>6, FrontLast
    <3>2. PICK e : e = x.stack
      OBVIOUS
    <3>3. e \in Seq(Closing) /\ c \in Closing
      BY <2>6, <3>2
    <3>4. /\ Len(Append(e, c)) = Len(e) + 1 /\ Len(e) \in Nat
          /\ \A i \in 1..Len(e) : Append(e, c)[i] = e[i]
          /\ Append(e, c)[Len(e) + 1] = c
      BY <3>3, AppendProperties, LenProperties
    <3> QED  BY <3>1, <3>2, <3>4
  <2>l. /\ Len(r.stack) \in Nat /\ Len(r.stack) = Len(x.stack) + 1 /\ Len(x.stack) \in Nat
        /\ Len(w) = Len(v) + 1 /\ Len(v) \in Nat
        /\ Len(now) = Len(r.stack) + Len(v) /\ Len(now) \in Nat
    <3>1. Len(r.stack) = Len(x.stack) + 1 /\ Len(x.stack) \in Nat
      BY <2>7
    <3>2. Len(r.stack) \in Nat
      BY <3>1
    <3>3. Len(now) = Len(r.stack) + Len(v)
      BY <2>4
    <3> QED  BY <2>1, <2>2, <3>1, <3>2, <3>3 DEF w
  <2>8. Len(now) = Len(x.stack) + Len(w)
    <3>1. \A a, b \in Nat : (a + 1) + b = a + (b + 1)
      OBVIOUS
    <3>2. (Len(x.stack) + 1) + Len(v) = Len(x.stack) + (Len(v) + 1)
      BY <2>l, <3>1
    <3> QED  BY <2>l, <3>2
  <2>9. ASSUME NEW i \in 1..Len(x.stack) PROVE now[i] = x.stack[i]
    <3>1. i \in 1..Len(r.stack)
      BY <2>7
    <3> QED  BY <2>4, <2>7, <3>1
  <2>10. ASSUME NEW i \in 1..Len(w) PROVE now[Len(now) - i + 1] = w[i]
    <3>1. CASE i = Len(w)
      <4>1. Len(now) - i + 1 = Len(x.stack) + 1
        BY <2>l, <2>8, <3>1
      <4>0. w[i] = c
        BY <2>1, <2>l, <3>1 DEF w
      <4>2. Len(x.stack) + 1 \in 1..Len(r.stack)
        BY <2>7
      <4>3. now[Len(x.stack) + 1] = r.stack[Len(x.stack) + 1]
        BY <2>4, <4>2
      <4>4. r.stack[Len(x.stack) + 1] = c
        BY <2>7
      <4> QED  BY <4>0, <4>1, <4>3, <4>4
    <3>2. CASE i # Len(w)
      <4>1. i \in 1..Len(v)
        BY <2>l, <3>2
      <4> QED  BY <2>1, <2>4, <4>1 DEF w
    <3> QED  BY <3>1, <3>2
  <2>11. x.at \in Plain
    BY <2>5 DEF Plain
  <2>12. Read[t].at \notin {"member", "element"}
    <3>1. CASE v = <<>>
      <4>1. t \o v = t
        BY <3>1, ConcatEmptySeq
      <4> QED  BY <2>5, <4>1 DEF r
    <3>2. CASE v # <<>>
      BY <1>2, <2>3, <3>2 DEF Closes, r
    <3> QED  BY <3>1, <3>2
  <2> QED  BY <2>8, <2>9, <2>10, <2>11, <2>12 DEF Closes, now, x
<1> HIDE DEF P
<1>3. Seq(Closing) \subseteq P
  BY <1>1, <1>2, SequenceInduction
<1> QED  BY <1>3 DEF P

LEMMA ReverseType ==
  ASSUME NEW E, NEW s \in Seq(E)
  PROVE  /\ Reverse(s) \in Seq(E) /\ Len(Reverse(s)) = Len(s)
         /\ \A i \in 1..Len(s) : Reverse(s)[i] = s[Len(s) - i + 1]
<1>1. Len(s) \in Nat /\ \A i \in 1..Len(s) : s[i] \in E
  BY LenProperties, ElementOfSeq
<1>2. \A i \in 1..Len(s) : Len(s) - i + 1 \in 1..Len(s)
  BY <1>1
<1>3. Reverse(s) \in [1..Len(s) -> E]
  BY <1>1, <1>2 DEF Reverse
<1>4. Reverse(s) \in Seq(E)
  BY <1>1, <1>3, SeqDef
<1>5. DOMAIN Reverse(s) = 1..Len(Reverse(s)) /\ Len(Reverse(s)) \in Nat
  BY <1>4, LenProperties
<1>6. 1..Len(Reverse(s)) = 1..Len(s)
  BY <1>3, <1>5
<1>7. Len(Reverse(s)) = Len(s)
  BY <1>1, <1>5, <1>6
<1> QED  BY <1>4, <1>7 DEF Reverse

LEMMA ReverseIs ==
  ASSUME NEW E, NEW s \in Seq(E), NEW u \in Seq(E), Len(u) = Len(s),
         \A i \in 1..Len(u) : s[Len(s) - i + 1] = u[i]
  PROVE  Reverse(s) = u
<1>1. Len(s) \in Nat /\ s = [i \in 1..Len(s) |-> s[i]] /\ u = [i \in 1..Len(s) |-> u[i]]
      /\ \A i \in 1..Len(s) : s[i] \in E
  BY LenProperties
<1>2. ASSUME NEW i \in 1..Len(s)
      PROVE  (Len(s) - i) + 1 = Len(s) - i + 1 /\ s[(Len(s) - i) + 1] = u[i]
  BY <1>1
<1> QED  BY <1>1, <1>2 DEF Reverse

LEMMA PrefixByElements ==
  ASSUME NEW E, NEW s \in Seq(E), NEW x \in Seq(E), Len(s) =< Len(x),
         \A i \in 1..Len(s) : x[i] = s[i]
  PROVE  IsPrefix(s, x)
<1>1. Len(s) \in Nat /\ \A i \in 1..Len(s) : x[i] \in E
  <2>1. \A i \in 1..Len(s) : s[i] \in E
    BY ElementOfSeq
  <2> QED  BY <2>1, LenProperties
<1>2. /\ SubSeq(x, 1, Len(s)) \in Seq(E) /\ Len(SubSeq(x, 1, Len(s))) = Len(s)
      /\ \A i \in 1..Len(s) : SubSeq(x, 1, Len(s))[i] = x[i]
  BY <1>1, SubSeqProperties
<1>3. SubSeq(x, 1, Len(s)) = s
  BY <1>2, SeqEqual
<1> QED  BY <1>3, WholeSequence DEF IsPrefix

LEMMA PrefixOf ==
  ASSUME NEW E, NEW s \in Seq(E), NEW t \in Seq(E)
  PROVE  IsPrefix(s, s) /\ IsPrefix(s, s \o t)
<1>1. /\ s \o t \in Seq(E) /\ Len(s \o t) = Len(s) + Len(t) /\ Len(s) \in Nat /\ Len(t) \in Nat
      /\ \A i \in 1..Len(s) : (s \o t)[i] = s[i]
  BY ConcatProperties, LenProperties
<1>2. Len(s) =< Len(s) /\ Len(s) =< Len(s \o t)
  BY <1>1
<1> QED  BY <1>1, <1>2, PrefixByElements

\* A text that ends with neither a comma nor white space has nothing to lose.
LEMMA NoTail ==
  ASSUME NEW t \in Seq(Symbol), t # <<>>, Last(t) \notin Dropped
  PROVE  WithoutTail(t) = t
<1> DEFINE T == {0} \cup {i \in DOMAIN t : t[i] \notin Dropped}
           n == Len(t)
<1>1. /\ SubSeq(t, 1, n) = t
      /\ n \in Nat /\ DOMAIN t = 1..n /\ 1..n \subseteq 0..n /\ 0 \in 0..n /\ n \in 1..n
  BY WholeSequence
<1>2. n \in T
  <2>1. t[n] \notin Dropped
    BY DEF Last
  <2> HIDE DEF n
  <2> QED  BY <1>1, <2>1
<1>3. T \in SUBSET (0..n)
  <2> HIDE DEF n
  <2> QED  BY <1>1
<1>4. Max(T) = n
  <2> HIDE DEF T, n
  <2> QED  BY <1>1, <1>2, <1>3, LargestIsLast
<1> QED  BY <1>1, <1>4, Zenon DEF WithoutTail

\* A repaired text is JSON.
LEMMA RepairedParses ==
  ASSUME NEW t, RepairTruncatedJson(t) # <<>>
  PROVE  Parsed(RepairTruncatedJson(t)) /\ ~Parsed(t)
<1> DEFINE candidate[n \in 1..5] == IF n = 1 THEN t ELSE Shortened(candidate[n - 1])
           tries == {n \in 1..5 : Parsed(Close(candidate[n]).closed)}
<1>1. ~Parsed(t) /\ tries # {} /\ RepairTruncatedJson(t) = Close(candidate[Min(tries)]).closed
  BY Zenon DEF RepairTruncatedJson
<1>2. tries \in SUBSET Nat
  OBVIOUS
<1>3. Min(tries) \in tries
  <2> HIDE DEF tries
  <2> QED  BY <1>1, <1>2, SmallestNumber
<1>4. Parsed(Close(candidate[Min(tries)]).closed)
  <2> HIDE DEF candidate
  <2>1. \A m \in tries : Parsed(Close(candidate[m]).closed)
    OBVIOUS
  <2> HIDE DEF tries
  <2> QED  BY <1>3, <2>1, Zenon
<1> QED  BY <1>1, <1>4, Zenon

\* What the attempts to repair t start from.
Attempts(t) == LET candidate[n \in 1..5] == IF n = 1 THEN t ELSE Shortened(candidate[n - 1])
               IN candidate

\* The attempts, one after the other.
LEMMA Candidates ==
  ASSUME NEW t
  PROVE  /\ Attempts(t)[1] = t /\ Attempts(t)[2] = Shortened(Attempts(t)[1])
         /\ Attempts(t)[3] = Shortened(Attempts(t)[2])
         /\ Attempts(t)[4] = Shortened(Attempts(t)[3])
         /\ Attempts(t)[5] = Shortened(Attempts(t)[4])
<1> DEFINE candidate[n \in 1..5] == IF n = 1 THEN t ELSE Shortened(candidate[n - 1])
           Body(g) == [n \in 1..5 |-> IF n = 1 THEN t ELSE Shortened(g[n - 1])]
<1>1. \E g : g = Body(g)
  <2>1. PICK second, third, fourth, fifth :
          /\ second = Shortened(t) /\ third = Shortened(second)
          /\ fourth = Shortened(third) /\ fifth = Shortened(fourth)
    OBVIOUS
  <2> DEFINE g == [n \in 1..5 |-> CASE n = 1 -> t [] n = 2 -> second [] n = 3 -> third
                                     [] n = 4 -> fourth [] n = 5 -> fifth]
  <2>2. ASSUME NEW n \in 1..5
        PROVE  g[n] = IF n = 1 THEN t ELSE Shortened(g[n - 1])
    BY <2>1
  <2>3. g = Body(g)
    BY <2>2
  <2> QED  BY <2>3
<1>2. candidate = CHOOSE g : g = Body(g)
  BY Zenon
<1>3. candidate = Body(candidate)
  <2> HIDE DEF Body, candidate
  <2> QED  BY <1>1, <1>2
<1>4. \A n \in 1..5 : candidate[n] = IF n = 1 THEN t ELSE Shortened(candidate[n - 1])
  <2> HIDE DEF candidate
  <2> QED  BY <1>3
<1>5. /\ candidate[1] = t /\ candidate[2] = Shortened(candidate[1])
      /\ candidate[3] = Shortened(candidate[2]) /\ candidate[4] = Shortened(candidate[3])
      /\ candidate[5] = Shortened(candidate[4])
  <2> HIDE DEF candidate
  <2>1. 1 \in 1..5 /\ 2 \in 1..5 /\ 3 \in 1..5 /\ 4 \in 1..5 /\ 5 \in 1..5
        /\ 2 - 1 = 1 /\ 3 - 1 = 2 /\ 4 - 1 = 3 /\ 5 - 1 = 4
    OBVIOUS
  <2> QED  BY <1>4, <2>1
<1>6. candidate = Attempts(t)
  BY Zenon DEF Attempts
<1> HIDE DEF candidate
<1> QED  BY <1>5, <1>6

\* The first attempt suffices when it gives JSON.
LEMMA FirstAttempt ==
  ASSUME NEW t, t # <<>>, ~Parsed(t), Parsed(Close(t).closed)
  PROVE  RepairTruncatedJson(t) = Close(t).closed
<1> DEFINE candidate[n \in 1..5] == IF n = 1 THEN t ELSE Shortened(candidate[n - 1])
           tries == {n \in 1..5 : Parsed(Close(candidate[n]).closed)}
<1>1. candidate[1] = t
  <2>1. candidate = Attempts(t)
    BY Zenon DEF Attempts
  <2> HIDE DEF candidate
  <2> QED  BY <2>1, Candidates
<1>2. 1 \in tries
  <2> HIDE DEF candidate
  <2> QED  BY <1>1
<1>3. tries \in SUBSET Nat /\ \A n \in tries : n >= 1
  OBVIOUS
<1>4. Min(tries) = 1
  <2> HIDE DEF tries
  <2>1. Min(tries) \in tries /\ Min(tries) =< 1
    BY <1>2, <1>3, SmallestNumber
  <2>2. Min(tries) \in Nat /\ Min(tries) >= 1
    BY <1>3, <2>1
  <2> QED  BY <2>1, <2>2
<1>5. RepairTruncatedJson(t) = Close(candidate[Min(tries)]).closed
  BY <1>2, Zenon DEF RepairTruncatedJson
<1> QED  BY <1>1, <1>4, <1>5, Zenon

\* What brackets cannot mend: an error, or a string that is still open.
LEMMA BrokenStays ==
  ASSUME NEW t \in Seq(Symbol), Read[t].at \notin Plain, NEW u \in Seq(Closing)
  PROVE  Read[t \o u].at \notin Plain
<1> DEFINE P == {v \in Seq(Closing) : Read[t \o v].at \notin Plain}
<1>0. Seq(Closing) \subseteq Seq(Symbol) /\ Closing \subseteq Symbol
  <2>1. Closing \subseteq Symbol
    BY DEF Closing, Symbol
  <2> QED  BY <2>1, SeqMonotonic
<1>1. <<>> \in P
  BY EmptySeq, ConcatEmptySeq
<1>2. ASSUME NEW v \in Seq(Closing), NEW c \in Closing, v \in P
      PROVE  Append(v, c) \in P
  <2>1. v \in Seq(Symbol) /\ c \in Symbol /\ t \o v \in Seq(Symbol)
        /\ t \o Append(v, c) = Append(t \o v, c) /\ Append(v, c) \in Seq(Closing)
    BY <1>0, ConcatAppend, AppendProperties
  <2> DEFINE r == Read[t \o v]
             x == Read[t \o Append(v, c)]
  <2>2. r \in State /\ x = ReadSymbol(r, c) /\ r.at \notin Plain
    BY <1>2, <2>1, ReadDef
  <2> HIDE DEF r, x
  <2>3. r.at \in Quoted \cup Escaped \cup {"error"}
    BY <2>2 DEF State
  <2>4. c \notin {"b", "q"}
    BY DEF Closing
  <2>5. x.at \notin Plain
    <3>1. CASE r.at \in Quoted
      <4>1. x.at = r.at
        BY <2>1, <2>2, <2>4, <3>1, ReadQuoted
      <4> QED  BY <2>2, <4>1
    <3>2. CASE r.at \in Escaped
      <4>1. x.at \in Quoted
        BY <2>1, <2>2, <3>2, ReadEscaped
      <4> QED  BY <4>1, Kinds
    <3>3. CASE r.at = "error"
      <4>1. x.at = "error"
        BY <2>1, <2>2, <3>3, ReadError
      <4> QED  BY <4>1, Kinds
    <3> QED  BY <2>3, <3>1, <3>2, <3>3
  <2> QED  BY <2>1, <2>5 DEF x
<1> HIDE DEF P
<1>3. Seq(Closing) \subseteq P
  BY <1>1, <1>2, SequenceInduction
<1> QED  BY <1>3 DEF P

\* After a comma outside a string, a member or an element must come.
LEMMA AfterComma ==
  ASSUME NEW t \in Seq(Symbol), t # <<>>, Last(t) = ",", Read[t].at \in Plain
  PROVE  Read[t].at \in {"member", "element"}
<1> DEFINE r == Read[Front(t)]
           x == Read[t]
<1>1. r \in State /\ "," \in Symbol /\ x = ReadSymbol(r, ",")
  <2>1. Front(t) \in Seq(Symbol) /\ "," \in Symbol /\ t = Append(Front(t), ",")
    BY FrontLast
  <2> QED  BY <2>1, ReadDef
<1> HIDE DEF r, x
<1>2. x.at \in Plain
  BY DEF x
<1>3. r.at \in Quoted \cup Escaped \cup Plain \cup {"error"}
  BY <1>1 DEF State
<1>4. CASE r.at \in Quoted
  <2>1. x.at = r.at
    BY <1>1, <1>4, ReadQuoted
  <2> QED  BY <1>2, <1>4, <2>1, Kinds
<1>5. CASE r.at \in Escaped
  <2>1. x.at \in Quoted
    BY <1>1, <1>5, ReadEscaped
  <2> QED  BY <1>2, <2>1, Kinds
<1>6. CASE r.at = "error"
  <2>1. x.at = "error"
    BY <1>1, <1>6, ReadError
  <2> QED  BY <1>2, <2>1, Kinds
<1>7. CASE r.at \in Plain
  <2>1. x.at # "error"
    BY <1>2, Kinds
  <2>2. x.at \in {"member", "element"}
    BY <1>1, <1>7, <2>1, ReadPlain DEF Opening, Closing
  <2> QED  BY <2>2 DEF x
<1> QED  BY <1>3, <1>4, <1>5, <1>6, <1>7

\* A document that lost nothing but brackets at its end comes back, unless there
\* is white space before them.
LEMMA BracketsComeBack ==
  ASSUME NEW t \in Seq(Symbol), NEW u \in Seq(Closing), Parsed(t \o u), Last(t) # "w"
  PROVE  Repaired(t) = t \o u
<1>1. CASE u = <<>>
  <2>1. t \o u = t
    BY <1>1, ConcatEmptySeq
  <2>2. RepairTruncatedJson(t) = <<>>
    BY <2>1, Zenon DEF RepairTruncatedJson
  <2> QED  BY <2>1, <2>2, Zenon DEF Repaired
<1>2. CASE u # <<>>
  <2> DEFINE open == Read[t].stack
  <2>1. Read[t \o u].at \in Plain /\ Read[t \o u].stack = <<>>
    <3>1. Value \subseteq Plain
      BY DEF Value, Plain
    <3> QED  BY <3>1 DEF Parsed
  <2>2. Read[t].at \in Plain
    BY <2>1, BrokenStays
  <2>3. Read[t \o u].at # "error" /\ Read[t].at # "error"
    BY <2>1, <2>2, Kinds
  <2>4. Closes(t, u)
    BY <2>2, <2>3, ReadClosing
  <2>5. /\ Len(open) = Len(u) /\ open \in Seq(Closing) /\ u \in Seq(Closing)
        /\ \A i \in 1..Len(u) : open[Len(open) - i + 1] = u[i]
        /\ Read[t].at \notin {"member", "element"}
    <3>1. Len(<<>>) = 0 /\ Len(u) \in Nat
      BY LenProperties, EmptySeq
    <3>2. open \in Seq(Closing)
      BY ReadDef DEF State
    <3>3. /\ Len(open) = Len(Read[t \o u].stack) + Len(u)
          /\ \A i \in 1..Len(u) : open[Len(open) - i + 1] = u[i]
          /\ Read[t].at \notin {"member", "element"}
      BY <1>2, <2>4 DEF Closes
    <3>4. Len(open) = 0 + Len(u)
      BY <2>1, <3>1, <3>3
    <3>5. Len(open) = Len(u)
      BY <3>1, <3>4
    <3> QED  BY <3>2, <3>3, <3>5
  <2>6. open # <<>>
    <3>1. Len(u) # 0
      BY <1>2, EmptySeq
    <3>2. Len(<<>>) = 0
      BY EmptySeq
    <3> QED  BY <2>5, <3>1, <3>2
  <2>7. t # <<>> /\ ~Parsed(t)
    <3>1. t # <<>>
      BY <2>6, ReadDef
    <3> QED  BY <2>6, <3>1 DEF Parsed
  <2>8. WithoutTail(t) = t
    <3>1. Last(t) # ","
      BY <2>2, <2>5, <2>7, AfterComma
    <3> QED  BY <2>7, <3>1, NoTail DEF Dropped
  <2>9. ScanJsonState[t].mode = "plain" /\ ScanJsonState[t].stack = open
    BY <2>2, <2>3, ScanFollowsRead DEF Same
  <2>10. Reverse(open) = u
    <3> HIDE DEF open
    <3> QED  BY <2>5, ReverseIs
  <2>11. Close(t).closed = t \o u
    <3>1. Close(t) = [working |-> t, closed |-> t \o Reverse(open)]
      <4> HIDE DEF open
      <4>1. ScanJsonState[t].mode # "escape" /\ ScanJsonState[t].mode # "string"
        BY <2>9
      <4> QED  BY <2>8, <2>9, <4>1, Zenon DEF Close
    <3>2. Close(t).closed = t \o Reverse(open)
      BY <3>1
    <3> QED  BY <2>10, <3>2
  <2>12. RepairTruncatedJson(t) = t \o u
    BY <2>7, <2>11, FirstAttempt
  <2>13. t \o u # <<>>
    <3>1. Read[<<>>].at \notin Value
      BY ReadDef DEF Value
    <3> QED  BY <3>1 DEF Parsed
  <2>14. IsPrefix(t, t \o u)
    <3>1. u \in Seq(Symbol)
      <4>1. Closing \subseteq Symbol
        BY DEF Closing, Symbol
      <4> QED  BY <4>1, SeqMonotonic
    <3> QED  BY <3>1, PrefixOf
  <2> QED  BY <2>12, <2>13, <2>14, Zenon DEF Repaired
<1> QED  BY <1>1, <1>2

\* What the attempts to repair t start from: t itself or what is in front of one
\* of its commas or blanks, or nothing.
Cut(c, t) ==
  /\ c \in Seq(Symbol) /\ Len(c) =< Len(t) /\ \A i \in 1..Len(c) : c[i] = t[i]
  /\ \/ Len(c) = 0
     \/ Len(c) = Len(t)
     \/ Len(c) < Len(t) /\ t[Len(c) + 1] \in Dropped

LEMMA Stripped ==
  ASSUME NEW t \in Seq(Symbol), t # <<>>, Last(t) = "w", NEW c, Cut(c, t)
  PROVE  LET s == WithoutTail(c) IN
           /\ s \in Seq(Symbol) /\ Len(s) < Len(t) /\ \A i \in 1..Len(s) : s[i] = t[i]
           /\ s = <<>> \/ t[Len(s) + 1] \in Dropped
<1> DEFINE T == {0} \cup {i \in DOMAIN c : c[i] \notin Dropped}
<1>n. PICK n : n = Len(c)
  OBVIOUS
<1>l. PICK l : l = Len(t)
  OBVIOUS
<1>1. /\ c \in Seq(Symbol) /\ n \in Nat /\ DOMAIN c = 1..n /\ \A i \in 1..n : c[i] \in Symbol
      /\ l \in Nat /\ l >= 1 /\ t[l] = "w" /\ n =< l
      /\ \A i \in 1..n : c[i] = t[i]
      /\ n = 0 \/ n = l \/ (n < l /\ t[n + 1] \in Dropped)
  BY <1>n, <1>l, WholeSequence, LenProperties, ElementOfSeq DEF Cut, Last
<1>d. "w" \in Dropped
  BY Zenon DEF Dropped
<1>2. T \in SUBSET (0..n) /\ T # {}
  BY <1>1
<1>k. PICK k : k = Max(T)
  OBVIOUS
<1>3. k \in T /\ \A m \in T : m =< k
  <2> HIDE DEF T
  <2> QED  BY <1>1, <1>2, <1>k, LargestNumber
<1>4. k \in 0..n /\ (k = 0 \/ c[k] \notin Dropped)
  BY <1>2, <1>3
<1>5. \A i \in 1..n : c[i] \notin Dropped => i =< k
  BY <1>1, <1>3
<1>s. PICK s : s = WithoutTail(c)
  OBVIOUS
<1>6. s = SubSeq(c, 1, k)
  BY <1>k, <1>s, Zenon DEF WithoutTail
<1> HIDE DEF T
<1>7. s \in Seq(Symbol) /\ Len(s) = k /\ \A i \in 1..k : s[i] = c[i]
  <2>1. k \in Int /\ \A i \in 1..k : c[i] \in Symbol
    BY <1>1, <1>4
  <2>2. /\ SubSeq(c, 1, k) \in Seq(Symbol) /\ Len(SubSeq(c, 1, k)) = IF 1 =< k THEN k - 1 + 1 ELSE 0
        /\ \A i \in 1..(k - 1 + 1) : SubSeq(c, 1, k)[i] = c[1 + i - 1]
    BY <2>1, SubSeqProperties
  <2> QED  BY <1>4, <1>6, <2>1, <2>2
<1>8. k < l /\ (k = 0 \/ t[k + 1] \in Dropped)
  <2>1. CASE k < n
    <3>1. k + 1 \in 1..n /\ ~(k + 1 =< k)
      BY <1>1, <1>4, <2>1
    <3>2. c[k + 1] \in Dropped
      BY <1>5, <3>1
    <3> QED  BY <1>1, <1>4, <2>1, <3>1, <3>2
  <2>2. CASE k = n /\ k # 0
    <3>1. n \in 1..n /\ c[n] \notin Dropped
      BY <1>1, <1>4, <2>2
    <3>2. n # l
      BY <1>1, <1>d, <3>1
    <3> QED  BY <1>1, <2>2, <3>2
  <2>3. CASE k = 0
    BY <1>1, <2>3
  <2> QED  BY <1>1, <1>4, <2>1, <2>2, <2>3
<1>9. k = 0 => s = <<>>
  BY <1>7, EmptySeq
<1>10. /\ s \in Seq(Symbol) /\ Len(s) < Len(t) /\ \A i \in 1..Len(s) : s[i] = t[i]
       /\ s = <<>> \/ t[Len(s) + 1] \in Dropped
  BY <1>1, <1>4, <1>7, <1>8, <1>9, <1>l
<1> QED  BY <1>10, <1>s

\* An attempt goes on with a quote or a bracket where t has something else.
Astray(w, t) ==
  /\ w \in Seq(Symbol)
  /\ \E m \in 0..(Len(t) - 1) :
       /\ \A i \in 1..m : w[i] = t[i]
       /\ \/ Len(w) = m + 1 /\ w[m + 1] = "q" /\ t[m + 1] # "q"
          \/ Len(w) = m /\ (t[m + 1] \in Dropped \/ ScanJsonState[w].stack = <<>>)

LEMMA QuoteAstray ==
  ASSUME NEW t \in Seq(Symbol), NEW v \in Seq(Symbol), Len(v) < Len(t), t[Len(v) + 1] # "q",
         \A i \in 1..Len(v) : v[i] = t[i]
  PROVE  Astray(Append(v, "q"), t)
<1>1. PICK w : w = Append(v, "q")
  OBVIOUS
<1>2. "q" \in Symbol /\ Len(v) \in Nat /\ Len(t) \in Nat
  BY LenProperties DEF Symbol
<1>3. /\ w \in Seq(Symbol) /\ Len(w) = Len(v) + 1 /\ w[Len(v) + 1] = "q"
      /\ \A i \in 1..Len(v) : w[i] = v[i]
  BY <1>1, <1>2, AppendProperties
<1>4. Len(v) \in 0..(Len(t) - 1) /\ \A i \in 1..Len(v) : w[i] = t[i]
  BY <1>2, <1>3
<1>5. Astray(w, t)
  BY <1>3, <1>4 DEF Astray
<1> QED  BY <1>1, <1>5

LEMMA WorkingAstray ==
  ASSUME NEW t \in Seq(Symbol), t # <<>>, Last(t) = "w", NEW c, Cut(c, t)
  PROVE  LET working == Close(c).working IN
           /\ Astray(working, t)
           /\ Close(c).closed = working \o Reverse(ScanJsonState[working].stack)
<1>s. PICK s : s = WithoutTail(c)
  OBVIOUS
<1>v. PICK v : v = IF ScanJsonState[s].mode = "escape" THEN Front(s) ELSE s
  OBVIOUS
<1>w. PICK w : w = IF ScanJsonState[v].mode = "string" THEN Append(v, "q") ELSE v
  OBVIOUS
<1>1. Close(c) = [working |-> w, closed |-> w \o Reverse(ScanJsonState[w].stack)]
  BY <1>s, <1>v, <1>w, Zenon DEF Close
<1>2. /\ s \in Seq(Symbol) /\ Len(s) < Len(t) /\ \A i \in 1..Len(s) : s[i] = t[i]
      /\ s = <<>> \/ t[Len(s) + 1] \in Dropped
  BY <1>s, Stripped
<1>3. Len(s) \in Nat /\ Len(t) \in Nat
  BY <1>2, LenProperties
<1>4. Astray(w, t)
  <2>1. CASE ScanJsonState[s].mode = "escape"
    <3>1. s # <<>>
      <4>1. ScanJsonState[<<>>] = [mode |-> "plain", stack |-> <<>>]
        BY ScanDef
      <4>2. ScanJsonState[<<>>].mode = "plain"
        BY <4>1
      <4> QED  BY <2>1, <4>2
    <3>2. PICK b : b = Last(s)
      OBVIOUS
    <3>3. v \in Seq(Symbol) /\ b \in Symbol /\ s = Append(v, b)
      BY <1>2, <1>v, <2>1, <3>1, <3>2, FrontLast
    <3>4. PICK z \in Scan : z = ScanJsonState[v]
      BY <3>3, ScanDef
    <3>5. ScanJsonState[s] = Step(z, b)
      BY <3>3, <3>4, ScanDef
    <3>6. z.mode = "string" /\ b = "b"
      <4>1. Step(z, b).mode = "escape"
        BY <2>1, <3>5
      <4>2. z.mode \in Mode
        BY DEF Scan
      <4> QED  BY <4>1, <4>2 DEF Step, Mode
    <3>7. w = Append(v, "q")
      BY <1>w, <3>4, <3>6
    <3>8. Len(s) = Len(v) + 1 /\ Len(v) \in Nat /\ s[Len(v) + 1] = b
          /\ \A i \in 1..Len(v) : s[i] = v[i]
      BY <3>3, AppendProperties, LenProperties
    <3>9. Len(v) < Len(t) /\ t[Len(v) + 1] # "q" /\ \A i \in 1..Len(v) : v[i] = t[i]
      BY <1>2, <1>3, <3>6, <3>8
    <3> QED  BY <3>3, <3>7, <3>9, QuoteAstray
  <2>2. CASE ScanJsonState[s].mode = "string"
    <3>1. v = s /\ w = Append(s, "q")
      BY <1>v, <1>w, <2>2
    <3>2. s # <<>>
      <4>1. ScanJsonState[<<>>] = [mode |-> "plain", stack |-> <<>>]
        BY ScanDef
      <4>2. ScanJsonState[<<>>].mode = "plain"
        BY <4>1
      <4> QED  BY <2>2, <4>2
    <3>3. t[Len(s) + 1] # "q"
      BY <1>2, <3>2, Zenon DEF Dropped
    <3> QED  BY <1>2, <3>1, <3>3, QuoteAstray
  <2>3. CASE ScanJsonState[s].mode \notin {"escape", "string"}
    <3>1. w = s
      BY <1>v, <1>w, <2>3
    <3>2. Len(s) \in 0..(Len(t) - 1)
      BY <1>2, <1>3
    <3>3. s = <<>> => ScanJsonState[s].stack = <<>>
      <4>1. ScanJsonState[<<>>] = [mode |-> "plain", stack |-> <<>>]
        BY ScanDef
      <4>2. ScanJsonState[<<>>].stack = <<>>
        BY <4>1
      <4> QED  BY <4>2
    <3> QED  BY <1>2, <3>1, <3>2, <3>3 DEF Astray
  <2> QED  BY <2>1, <2>2, <2>3
<1>5. Close(c).working = w /\ Close(c).closed = w \o Reverse(ScanJsonState[w].stack)
  BY <1>1
<1> QED  BY <1>4, <1>5

\* So its result does not have t at its front.
LEMMA AstrayStays ==
  ASSUME NEW t \in Seq(Symbol), NEW w, Astray(w, t)
  PROVE  ~IsPrefix(t, w \o Reverse(ScanJsonState[w].stack))
<1> DEFINE r == Reverse(ScanJsonState[w].stack)
           x == w \o r
<1>1. SUFFICES ASSUME IsPrefix(t, x) PROVE FALSE
  OBVIOUS
<1>2. w \in Seq(Symbol) /\ ScanJsonState[w].stack \in Seq(Closing)
  <2>1. w \in Seq(Symbol)
    BY DEF Astray
  <2> QED  BY <2>1, ScanDef DEF Scan
<1>3. /\ r \in Seq(Closing) /\ Closing \subseteq Symbol
      /\ ScanJsonState[w].stack = <<>> => Len(r) = 0
  <2>1. r \in Seq(Closing)
    BY <1>2, ReverseType
  <2>2. ScanJsonState[w].stack = <<>> => Len(r) = 0
    BY <1>2, ReverseType, EmptySeq
  <2>3. Closing \subseteq Symbol
    BY Zenon DEF Closing, Symbol
  <2> QED  BY <2>1, <2>2, <2>3
<1>4. /\ x \in Seq(Symbol) /\ Len(x) = Len(w) + Len(r) /\ Len(w) \in Nat /\ Len(r) \in Nat
      /\ \A i \in 1..Len(w) : x[i] = w[i]
      /\ \A i \in 1..Len(r) : x[Len(w) + i] = r[i] /\ r[i] \in Closing
  <2>1. r \in Seq(Symbol) /\ Len(w) \in Nat /\ Len(r) \in Nat
        /\ \A i \in 1..Len(r) : r[i] \in Closing
    <3> HIDE DEF r
    <3> QED  BY <1>2, <1>3, SeqMonotonic, LenProperties, ElementOfSeq
  <2> HIDE DEF r
  <2>2. /\ x \in Seq(Symbol) /\ Len(x) = Len(w) + Len(r)
        /\ \A i \in 1..Len(x) : x[i] = IF i <= Len(w) THEN w[i] ELSE r[i - Len(w)]
    BY <1>2, <2>1, ConcatProperties
  <2> QED  BY <2>1, <2>2
<1> HIDE DEF r, x
<1>5. Len(t) =< Len(x) /\ \A i \in 1..Len(t) : x[i] = t[i]
  <2>1. Len(t) =< Len(x) /\ SubSeq(t, 1, Len(t)) = SubSeq(x, 1, Len(t))
    BY <1>1 DEF IsPrefix
  <2>2. SubSeq(t, 1, Len(t)) = t /\ Len(t) \in Nat
    BY WholeSequence
  <2>3. \A i \in 1..Len(t) : x[i] \in Symbol
    BY <1>4, <2>1, <2>2, ElementOfSeq
  <2>4. \A i \in 1..Len(t) : SubSeq(x, 1, Len(t))[i] = x[1 + i - 1]
    BY <2>2, <2>3, SubSeqProperties
  <2> QED  BY <2>1, <2>2, <2>4
<1>6. PICK m \in 0..(Len(t) - 1) :
        /\ \A i \in 1..m : w[i] = t[i]
        /\ \/ Len(w) = m + 1 /\ w[m + 1] = "q" /\ t[m + 1] # "q"
           \/ Len(w) = m /\ (t[m + 1] \in Dropped \/ ScanJsonState[w].stack = <<>>)
  BY DEF Astray
<1>7. m \in Nat /\ m + 1 \in 1..Len(t) /\ x[m + 1] = t[m + 1]
  <2>1. Len(t) \in Nat
    BY WholeSequence
  <2> QED  BY <1>5, <2>1
<1>8. CASE Len(w) = m + 1 /\ w[m + 1] = "q" /\ t[m + 1] # "q"
  BY <1>4, <1>7, <1>8
<1>9. CASE Len(w) = m /\ t[m + 1] \in Dropped
  <2>1. Len(r) >= 1
    BY <1>4, <1>5, <1>7, <1>9
  <2>2. x[m + 1] \in Closing
    BY <1>4, <1>9, <2>1
  <2>3. \A a \in Closing : a \notin Dropped
    BY Zenon DEF Closing, Dropped
  <2> QED  BY <1>7, <1>9, <2>2, <2>3
<1>10. CASE Len(w) = m /\ ScanJsonState[w].stack = <<>>
  BY <1>3, <1>4, <1>5, <1>7, <1>10
<1> QED  BY <1>6, <1>8, <1>9, <1>10

LEMMA ShortenedCut ==
  ASSUME NEW t \in Seq(Symbol), t # <<>>, Last(t) = "w", NEW c, Cut(c, t)
  PROVE  Cut(Shortened(c), t)
<1>w. PICK w : w = Close(c).working
  OBVIOUS
<1>c. PICK comma : comma = "," /\ comma # "q" /\ comma \in Dropped
  BY Zenon DEF Dropped
<1> DEFINE T == {1} \cup {i \in DOMAIN w : w[i] = comma}
<1>h. comma # "q" /\ comma \in Dropped
  BY <1>c, Zenon
<1>1. Astray(w, t)
  BY <1>w, WorkingAstray
<1>2. w \in Seq(Symbol) /\ Len(w) \in Nat /\ DOMAIN w = 1..Len(w)
      /\ \A i \in 1..Len(w) : w[i] \in Symbol
  <2>1. w \in Seq(Symbol)
    BY <1>1 DEF Astray
  <2> QED  BY <2>1, LenProperties, ElementOfSeq
<1>3. T \in SUBSET (0..(Len(w) + 1)) /\ T # {}
  BY <1>2
<1>k. PICK k : k = Max(T)
  OBVIOUS
<1>4. k \in T
  <2>1. Len(w) + 1 \in Nat
    BY <1>2
  <2> HIDE DEF T
  <2> QED  BY <1>3, <1>k, <2>1, LargestNumber
<1>5. Shortened(c) = SubSeq(w, 1, k - 1)
  BY <1>c, <1>k, <1>w, Zenon DEF Shortened
<1>6. k = 1 \/ (k \in 1..Len(w) /\ w[k] = comma)
  BY <1>2, <1>4
<1> HIDE DEF T
<1>7. Len(t) \in Nat
  BY WholeSequence
<1>8. PICK j : j = k - 1
  OBVIOUS
<1>9. PICK z : z = SubSeq(w, 1, j)
  OBVIOUS
<1>10. Shortened(c) = z
  BY <1>5, <1>8, <1>9
<1>11. CASE k = 1
  <2>1. j = 0
    BY <1>8, <1>11
  <2>2. z = <<>>
    <3>1. SubSeq(w, 1, 0) \in Seq(Symbol) /\ Len(SubSeq(w, 1, 0)) = 0
      BY SubSeqProperties
    <3> QED  BY <1>9, <2>1, <3>1, EmptySeq
  <2>3. z \in Seq(Symbol) /\ Len(z) = 0
    BY <2>2, EmptySeq
  <2> QED  BY <1>7, <1>10, <2>3 DEF Cut
<1>12. CASE k # 1 /\ k \in 1..Len(w) /\ w[k] = comma
  <2>1. PICK m \in 0..(Len(t) - 1) :
          /\ \A i \in 1..m : w[i] = t[i]
          /\ Len(w) = m \/ (Len(w) = m + 1 /\ w[m + 1] = "q")
    BY <1>1 DEF Astray
  <2>2. k \in 1..m /\ t[k] = comma /\ j \in 1..m /\ j + 1 = k
    <3>1. k # m + 1
      BY <1>h, <1>12, <2>1
    <3>2. m \in Nat /\ k \in Nat /\ 1 =< k /\ k =< m /\ k # 1
      <4>1. m \in Nat /\ (Len(w) = m \/ Len(w) = m + 1)
        BY <1>7, <2>1
      <4>2. k \in Nat /\ 1 =< k /\ k =< Len(w) /\ k # 1
        BY <1>2, <1>12
      <4> QED  BY <3>1, <4>1, <4>2
    <3>3. t[k] = comma
      BY <1>12, <2>1, <3>2
    <3> QED  BY <1>8, <3>2, <3>3
  <2>3. /\ z \in Seq(Symbol) /\ Len(z) = j /\ \A i \in 1..j : z[i] = w[i]
    <3>1. j \in Int /\ \A i \in 1..j : w[i] \in Symbol
      BY <1>2, <1>8, <1>12
    <3>2. /\ SubSeq(w, 1, j) \in Seq(Symbol)
          /\ Len(SubSeq(w, 1, j)) = IF 1 =< j THEN j - 1 + 1 ELSE 0
          /\ \A i \in 1..(j - 1 + 1) : SubSeq(w, 1, j)[i] = w[1 + i - 1]
      BY <3>1, SubSeqProperties
    <3> QED  BY <1>9, <2>2, <3>1, <3>2
  <2>4. /\ Len(z) < Len(t) /\ t[Len(z) + 1] \in Dropped /\ \A i \in 1..Len(z) : z[i] = t[i]
        /\ Len(z) =< Len(t)
    BY <1>7, <1>h, <2>1, <2>2, <2>3
  <2> QED  BY <1>10, <2>3, <2>4 DEF Cut
<1> QED  BY <1>6, <1>11, <1>12

\* White space at the end of what was received is in the way of every repair.
LEMMA BlankEnds ==
  ASSUME NEW t \in Seq(Symbol), Last(t) = "w"
  PROVE  Repaired(t) = t
<1>1. CASE t = <<>>
  <2>1. RepairTruncatedJson(t) = <<>>
    BY <1>1, Zenon DEF RepairTruncatedJson
  <2> QED  BY <2>1, Zenon DEF Repaired
<1>2. CASE t # <<>>
  <2> DEFINE candidate[n \in 1..5] == IF n = 1 THEN t ELSE Shortened(candidate[n - 1])
             tries == {n \in 1..5 : Parsed(Close(candidate[n]).closed)}
  <2>1. /\ candidate[1] = t /\ candidate[2] = Shortened(candidate[1])
        /\ candidate[3] = Shortened(candidate[2]) /\ candidate[4] = Shortened(candidate[3])
        /\ candidate[5] = Shortened(candidate[4])
    <3>1. candidate = Attempts(t)
      BY Zenon DEF Attempts
    <3> HIDE DEF candidate
    <3> QED  BY <3>1, Candidates
  <2> HIDE DEF candidate
  <2>2. Cut(t, t)
    BY WholeSequence DEF Cut
  <2>3. \A n \in 1..5 : Cut(candidate[n], t)
    <3>1. Cut(candidate[1], t)
      BY <2>1, <2>2
    <3>2. Cut(candidate[2], t)
      BY <1>2, <2>1, <3>1, ShortenedCut
    <3>3. Cut(candidate[3], t)
      BY <1>2, <2>1, <3>2, ShortenedCut
    <3>4. Cut(candidate[4], t)
      BY <1>2, <2>1, <3>3, ShortenedCut
    <3>5. Cut(candidate[5], t)
      BY <1>2, <2>1, <3>4, ShortenedCut
    <3> QED  BY <3>1, <3>2, <3>3, <3>4, <3>5
  <2>4. \A n \in 1..5 : ~IsPrefix(t, Close(candidate[n]).closed)
    <3> SUFFICES ASSUME NEW n \in 1..5 PROVE ~IsPrefix(t, Close(candidate[n]).closed)
      OBVIOUS
    <3>1. PICK c : c = candidate[n]
      OBVIOUS
    <3>2. Cut(c, t)
      BY <2>3, <3>1
    <3>3. /\ Astray(Close(c).working, t)
          /\ Close(c).closed = Close(c).working \o Reverse(ScanJsonState[Close(c).working].stack)
      BY <1>2, <3>2, WorkingAstray
    <3>4. ~IsPrefix(t, Close(c).closed)
      BY <3>3, AstrayStays
    <3> QED  BY <3>1, <3>4
  <2>5. ASSUME RepairTruncatedJson(t) # <<>>
        PROVE  ~IsPrefix(t, RepairTruncatedJson(t))
    <3>1. tries # {} /\ RepairTruncatedJson(t) = Close(candidate[Min(tries)]).closed
      BY <2>5, Zenon DEF RepairTruncatedJson, candidate
    <3>2. tries \in SUBSET Nat /\ \A n \in tries : n \in 1..5
      OBVIOUS
    <3> HIDE DEF tries
    <3>3. Min(tries) \in 1..5
      BY <3>1, <3>2, SmallestNumber
    <3> QED  BY <2>4, <3>1, <3>3, Zenon
  <2> QED  BY <2>5, Zenon DEF Repaired
<1> QED  BY <1>1, <1>2

\* What is sent for a text has it at its front, and is JSON when it is longer.
LEMMA RepairedExtends ==
  ASSUME NEW t \in Seq(Symbol)
  PROVE  /\ IsPrefix(t, Repaired(t))
         /\ Repaired(t) # t => Parsed(Repaired(t)) /\ ~Parsed(t)
<1>1. CASE Repaired(t) = t
  BY <1>1, PrefixOf
<1>2. CASE Repaired(t) # t
  <2>1. RepairTruncatedJson(t) # <<>> /\ Repaired(t) = RepairTruncatedJson(t)
        /\ IsPrefix(t, RepairTruncatedJson(t))
    BY <1>2, Zenon DEF Repaired
  <2> QED  BY <2>1, RepairedParses
<1> QED  BY <1>1, <1>2


-----------------------------------------------------------------------------
(* context-budget.ts, prompt-prefix.ts *)

LEMMA TokensOfBoth ==
  ASSUME NEW s \in Seq(Message), NEW t \in Seq(Message)
  PROVE  Tokens[s \o t] = Tokens[s] + Tokens[t]
<1> DEFINE P == {u \in Seq(Message) : Tokens[s \o u] = Tokens[s] + Tokens[u]}
<1>1. <<>> \in P
  <2>1. s \o <<>> = s /\ Tokens[<<>>] = 0 /\ Tokens[s] \in Nat /\ <<>> \in Seq(Message)
    BY TokensDef, ConcatEmptySeq, EmptySeq
  <2> QED  BY <2>1
<1>2. ASSUME NEW u \in Seq(Message), NEW m \in Message, u \in P
      PROVE  Append(u, m) \in P
  <2>1. s \o u \in Seq(Message) /\ s \o Append(u, m) = Append(s \o u, m)
        /\ Append(u, m) \in Seq(Message)
    BY ConcatAppend, AppendProperties
  <2>2. /\ Tokens[Append(s \o u, m)] = Tokens[s \o u] + m.size
        /\ Tokens[Append(u, m)] = Tokens[u] + m.size
        /\ Tokens[s] \in Nat /\ Tokens[u] \in Nat /\ m.size \in Nat
    BY <2>1, TokensDef DEF Message
  <2>3. Tokens[s \o u] = Tokens[s] + Tokens[u]
    BY <1>2
  <2>4. Tokens[s \o Append(u, m)] = Tokens[s] + Tokens[Append(u, m)]
    BY <2>1, <2>2, <2>3
  <2> QED  BY <2>1, <2>4
<1> HIDE DEF P
<1>3. Seq(Message) \subseteq P
  BY <1>1, <1>2, SequenceInduction
<1> QED  BY <1>3 DEF P

LEMMA PartsOf ==
  /\ System(<<>>) = <<>> /\ Talk(<<>>) = <<>>
  /\ \A s \in Seq(Message) : System(s) \in Seq(Message) /\ Talk(s) \in Seq(Message)
  /\ \A s \in Seq(Message), m \in Message :
       /\ m.role = "system" =>
            System(Append(s, m)) = Append(System(s), m) /\ Talk(Append(s, m)) = Talk(s)
       /\ m.role # "system" =>
            System(Append(s, m)) = System(s) /\ Talk(Append(s, m)) = Append(Talk(s), m)
<1>1. System(<<>>) = <<>> /\ Talk(<<>>) = <<>>
  BY PartsDef DEF System, Talk
<1>2. \A s \in Seq(Message) : System(s) \in Seq(Message) /\ Talk(s) \in Seq(Message)
  BY PartsDef DEF System, Talk, Part
<1>3. ASSUME NEW s \in Seq(Message), NEW m \in Message
      PROVE  /\ m.role = "system" =>
                  System(Append(s, m)) = Append(System(s), m) /\ Talk(Append(s, m)) = Talk(s)
             /\ m.role # "system" =>
                  System(Append(s, m)) = System(s) /\ Talk(Append(s, m)) = Append(Talk(s), m)
  <2>1. Parts[Append(s, m)] = With(Parts[s], m)
    BY PartsDef
  <2>2. CASE m.role = "system"
    <3>1. With(Parts[s], m) = [system |-> Append(Parts[s].system, m), talk |-> Parts[s].talk]
      BY <2>2 DEF With
    <3> QED  BY <2>1, <2>2, <3>1 DEF System, Talk
  <2>3. CASE m.role # "system"
    <3>1. With(Parts[s], m) = [system |-> Parts[s].system, talk |-> Append(Parts[s].talk, m)]
      BY <2>3 DEF With
    <3> QED  BY <2>1, <2>3, <3>1 DEF System, Talk
  <2> QED  BY <2>2, <2>3
<1> QED  BY <1>1, <1>2, <1>3

LEMMA PartsOfBoth ==
  ASSUME NEW s \in Seq(Message), NEW t \in Seq(Message)
  PROVE  System(s \o t) = System(s) \o System(t) /\ Talk(s \o t) = Talk(s) \o Talk(t)
<1> DEFINE P == {u \in Seq(Message) : /\ System(s \o u) = System(s) \o System(u)
                                      /\ Talk(s \o u) = Talk(s) \o Talk(u)}
<1>1. <<>> \in P
  <2>1. s \o <<>> = s /\ System(s) \o <<>> = System(s) /\ Talk(s) \o <<>> = Talk(s)
    BY PartsOf, ConcatEmptySeq
  <2> QED  BY <2>1, PartsOf, EmptySeq
<1>2. ASSUME NEW u \in Seq(Message), NEW m \in Message, u \in P
      PROVE  Append(u, m) \in P
  <2>1. s \o u \in Seq(Message) /\ s \o Append(u, m) = Append(s \o u, m)
        /\ Append(u, m) \in Seq(Message)
    BY ConcatAppend, AppendProperties
  <2>2. System(s \o u) = System(s) \o System(u) /\ Talk(s \o u) = Talk(s) \o Talk(u)
    BY <1>2
  <2>3. /\ System(s) \o Append(System(u), m) = Append(System(s) \o System(u), m)
        /\ Talk(s) \o Append(Talk(u), m) = Append(Talk(s) \o Talk(u), m)
    <3>1. /\ System(s) \in Seq(Message) /\ System(u) \in Seq(Message)
          /\ Talk(s) \in Seq(Message) /\ Talk(u) \in Seq(Message)
      BY PartsOf
    <3>2. System(s) \o Append(System(u), m) = Append(System(s) \o System(u), m)
      BY <3>1, ConcatAppend
    <3>3. Talk(s) \o Append(Talk(u), m) = Append(Talk(s) \o Talk(u), m)
      BY <3>1, ConcatAppend
    <3> QED  BY <3>2, <3>3
  <2>4. CASE m.role = "system"
    <3>1. /\ System(Append(s \o u, m)) = Append(System(s \o u), m)
          /\ Talk(Append(s \o u, m)) = Talk(s \o u)
          /\ System(Append(u, m)) = Append(System(u), m) /\ Talk(Append(u, m)) = Talk(u)
      BY <2>1, <2>4, PartsOf
    <3> QED  BY <2>1, <2>2, <2>3, <3>1
  <2>5. CASE m.role # "system"
    <3>1. /\ Talk(Append(s \o u, m)) = Append(Talk(s \o u), m)
          /\ System(Append(s \o u, m)) = System(s \o u)
          /\ Talk(Append(u, m)) = Append(Talk(u), m) /\ System(Append(u, m)) = System(u)
      BY <2>1, <2>5, PartsOf
    <3> QED  BY <2>1, <2>2, <2>3, <3>1
  <2> QED  BY <2>4, <2>5
<1> HIDE DEF P
<1>3. Seq(Message) \subseteq P
  BY <1>1, <1>2, SequenceInduction
<1> QED  BY <1>3 DEF P

\* The parts have nothing left to part.
LEMMA PartsOfParts ==
  ASSUME NEW s \in Seq(Message)
  PROVE  /\ System(System(s)) = System(s) /\ Talk(System(s)) = <<>>
         /\ System(Talk(s)) = <<>> /\ Talk(Talk(s)) = Talk(s)
<1> DEFINE Q(u) == /\ System(System(u)) = System(u) /\ Talk(System(u)) = <<>>
                   /\ System(Talk(u)) = <<>> /\ Talk(Talk(u)) = Talk(u)
           P == {u \in Seq(Message) : Q(u)}
<1>1. <<>> \in P
  BY PartsOf, EmptySeq
<1>2. ASSUME NEW u \in Seq(Message), NEW m \in Message, u \in P
      PROVE  Append(u, m) \in P
  <2>1. Append(u, m) \in Seq(Message) /\ System(u) \in Seq(Message) /\ Talk(u) \in Seq(Message)
    BY PartsOf, AppendProperties
  <2>2. Q(u)
    BY <1>2
  <2>3. CASE m.role = "system"
    <3>1. System(Append(u, m)) = Append(System(u), m) /\ Talk(Append(u, m)) = Talk(u)
      BY <2>3, PartsOf
    <3>2. /\ System(Append(System(u), m)) = Append(System(System(u)), m)
          /\ Talk(Append(System(u), m)) = Talk(System(u))
      BY <2>1, <2>3, PartsOf
    <3> QED  BY <2>1, <2>2, <3>1, <3>2
  <2>4. CASE m.role # "system"
    <3>1. Talk(Append(u, m)) = Append(Talk(u), m) /\ System(Append(u, m)) = System(u)
      BY <2>4, PartsOf
    <3>2. /\ Talk(Append(Talk(u), m)) = Append(Talk(Talk(u)), m)
          /\ System(Append(Talk(u), m)) = System(Talk(u))
      BY <2>1, <2>4, PartsOf
    <3> QED  BY <2>1, <2>2, <3>1, <3>2
  <2> QED  BY <2>3, <2>4
<1> HIDE DEF P
<1>3. Seq(Message) \subseteq P
  BY <1>1, <1>2, SequenceInduction
<1> QED  BY <1>3 DEF P

LEMMA NothingButTalk ==
  ASSUME NEW s \in Seq(Message), System(s) = <<>>
  PROVE  Talk(s) = s
<1> DEFINE P == {u \in Seq(Message) : System(u) = <<>> => Talk(u) = u}
<1>1. <<>> \in P
  BY PartsOf, EmptySeq
<1>2. ASSUME NEW u \in Seq(Message), NEW m \in Message, u \in P
      PROVE  Append(u, m) \in P
  <2>1. Append(u, m) \in Seq(Message)
    BY AppendProperties
  <2>2. CASE m.role = "system"
    <3>1. System(Append(u, m)) = Append(System(u), m) /\ System(u) \in Seq(Message)
      BY <2>2, PartsOf
    <3>2. System(Append(u, m)) # <<>>
      BY <3>1, AppendLast
    <3> QED  BY <2>1, <3>2
  <2>3. CASE m.role # "system"
    <3>1. Talk(Append(u, m)) = Append(Talk(u), m) /\ System(Append(u, m)) = System(u)
      BY <2>3, PartsOf
    <3> QED  BY <1>2, <2>1, <3>1
  <2> QED  BY <2>2, <2>3
<1> HIDE DEF P
<1>3. Seq(Message) \subseteq P
  BY <1>1, <1>2, SequenceInduction
<1> QED  BY <1>3 DEF P

\* A sequence is what is before a position and what is from it on.
LEMMA SplitAt ==
  ASSUME NEW E, NEW s \in Seq(E), NEW i \in 1..Len(s), NEW j \in 1..i
  PROVE  /\ SubSeq(s, j, i - 1) \in Seq(E) /\ LatestFrom(s, j) \in Seq(E)
         /\ LatestFrom(s, i) \in Seq(E)
         /\ Len(SubSeq(s, 1, i - 1)) = i - 1 /\ Len(LatestFrom(s, i)) = Len(s) - i + 1
         /\ \A k \in 1..(i - 1) : SubSeq(s, 1, i - 1)[k] = s[k]
         /\ \A k \in 1..(Len(s) - i + 1) : LatestFrom(s, i)[k] = s[i + k - 1]
         /\ LatestFrom(s, j) = SubSeq(s, j, i - 1) \o LatestFrom(s, i)
<1> DEFINE n == Len(s)
           a == SubSeq(s, j, i - 1)
           b == LatestFrom(s, i)
           c == LatestFrom(s, j)
<1>1. n \in Nat /\ i \in Nat /\ j \in Nat /\ 1 =< j /\ j =< i /\ i =< n
  BY LenProperties
<1>2. \A k \in 1..n : s[k] \in E
  BY ElementOfSeq
<1> HIDE DEF n
<1>3. /\ a \in Seq(E) /\ Len(a) = i - j
      /\ \A k \in 1..(i - j) : a[k] = s[j + k - 1]
  <2>1. i - 1 \in Int /\ j \in Int /\ (\A k \in j..(i - 1) : s[k] \in E)
    BY <1>1, <1>2
  <2>2. i - 1 - j + 1 = i - j /\ (i - 1 < j => i - j = 0)
    BY <1>1
  <2>3. /\ a \in Seq(E)
        /\ Len(a) = IF j =< i - 1 THEN i - 1 - j + 1 ELSE 0
        /\ \A k \in 1..(i - 1 - j + 1) : a[k] = s[j + k - 1]
    BY <2>1, SubSeqProperties
  <2> QED  BY <1>1, <2>2, <2>3
<1>4. /\ b \in Seq(E) /\ Len(b) = n - i + 1
      /\ \A k \in 1..(n - i + 1) : b[k] = s[i + k - 1]
  <2>1. i \in Int /\ n \in Int /\ i =< n /\ (\A k \in i..n : s[k] \in E)
    BY <1>1, <1>2
  <2> QED  BY <2>1, SubSeqProperties DEF LatestFrom, n
<1>5. /\ c \in Seq(E) /\ Len(c) = n - j + 1
      /\ \A k \in 1..(n - j + 1) : c[k] = s[j + k - 1]
  <2>1. j \in Int /\ n \in Int /\ j =< n /\ (\A k \in j..n : s[k] \in E)
    BY <1>1, <1>2
  <2> QED  BY <2>1, SubSeqProperties DEF LatestFrom, n
<1>6. /\ Len(SubSeq(s, 1, i - 1)) = i - 1
      /\ \A k \in 1..(i - 1) : SubSeq(s, 1, i - 1)[k] = s[k]
  <2>1. i - 1 \in Int /\ (\A k \in 1..(i - 1) : s[k] \in E)
    BY <1>1, <1>2
  <2>2. i - 1 - 1 + 1 = i - 1 /\ (i - 1 < 1 => i - 1 = 0) /\ i - 1 \in Nat
    BY <1>1
  <2>3. /\ Len(SubSeq(s, 1, i - 1)) = IF 1 =< i - 1 THEN i - 1 - 1 + 1 ELSE 0
        /\ \A k \in 1..(i - 1 - 1 + 1) : SubSeq(s, 1, i - 1)[k] = s[1 + k - 1]
    BY <2>1, SubSeqProperties
  <2>4. \A k \in 1..(i - 1) : 1 + k - 1 = k
    BY <1>1
  <2> QED  BY <1>1, <2>2, <2>3, <2>4
<1> HIDE DEF a, b, c
<1>7. c = a \o b
  <2>1. /\ a \o b \in Seq(E) /\ Len(a \o b) = Len(a) + Len(b)
        /\ \A k \in 1..(Len(a) + Len(b)) :
             (a \o b)[k] = IF k =< Len(a) THEN a[k] ELSE b[k - Len(a)]
    BY <1>3, <1>4, ConcatProperties
  <2>2. Len(a) + Len(b) = n - j + 1
    BY <1>1, <1>3, <1>4
  <2>3. ASSUME NEW k \in 1..(n - j + 1) PROVE c[k] = (a \o b)[k]
    <3>1. CASE k =< i - j
      <4>1. k \in 1..(i - j)
        BY <1>1, <3>1
      <4> QED  BY <1>1, <1>3, <1>5, <2>1, <2>2, <3>1, <4>1
    <3>2. CASE ~(k =< i - j)
      <4>1. k - (i - j) \in 1..(n - i + 1) /\ i + (k - (i - j)) - 1 = j + k - 1
        BY <1>1, <3>2
      <4>2. b[k - (i - j)] = s[j + k - 1]
        BY <1>4, <4>1
      <4>3. (a \o b)[k] = b[k - (i - j)]
        BY <1>1, <1>3, <2>1, <2>2, <3>2
      <4> QED  BY <1>5, <4>2, <4>3
    <3> QED  BY <3>1, <3>2
  <2> QED  BY <1>5, <2>1, <2>2, <2>3, SeqEqual
<1> QED  BY <1>3, <1>4, <1>5, <1>6, <1>7 DEF a, b, c, n

LEMMA ElementsOfAppend ==
  ASSUME NEW s \in Seq(Message), NEW m \in Message
  PROVE  ToSet(Append(s, m)) = ToSet(s) \cup {m}
<1>1. /\ Len(s) \in Nat /\ DOMAIN s = 1..Len(s) /\ DOMAIN Append(s, m) = 1..(Len(s) + 1)
      /\ \A i \in 1..Len(s) : Append(s, m)[i] = s[i]
      /\ Append(s, m)[Len(s) + 1] = m
  BY AppendProperties, LenProperties
<1>2. 1..(Len(s) + 1) = 1..Len(s) \cup {Len(s) + 1}
  BY <1>1
<1> QED  BY <1>1, <1>2 DEF ToSet

LEMMA ElementsOfBoth ==
  ASSUME NEW s \in Seq(Message), NEW t \in Seq(Message)
  PROVE  ToSet(s \o t) = ToSet(s) \cup ToSet(t)
<1> DEFINE P == {u \in Seq(Message) : ToSet(s \o u) = ToSet(s) \cup ToSet(u)}
<1>1. <<>> \in P
  <2>1. s \o <<>> = s /\ <<>> \in Seq(Message) /\ DOMAIN <<>> = {}
    BY ConcatEmptySeq, EmptySeq
  <2> QED  BY <2>1 DEF ToSet
<1>2. ASSUME NEW u \in Seq(Message), NEW m \in Message, u \in P
      PROVE  Append(u, m) \in P
  <2>1. s \o u \in Seq(Message) /\ s \o Append(u, m) = Append(s \o u, m)
        /\ Append(u, m) \in Seq(Message)
    BY ConcatAppend, AppendProperties
  <2>2. ToSet(s \o u) = ToSet(s) \cup ToSet(u)
    BY <1>2
  <2>3. ToSet(Append(s \o u, m)) = ToSet(s \o u) \cup {m}
    BY <2>1, ElementsOfAppend
  <2>4. ToSet(Append(u, m)) = ToSet(u) \cup {m}
    BY ElementsOfAppend
  <2> QED  BY <2>1, <2>2, <2>3, <2>4
<1> HIDE DEF P
<1>3. Seq(Message) \subseteq P
  BY <1>1, <1>2, SequenceInduction
<1> QED  BY <1>3 DEF P

\* Each message is in one part; the last one ends its part.
LEMMA ElementsOfParts ==
  ASSUME NEW s \in Seq(Message)
  PROVE  /\ ToSet(s) = ToSet(System(s)) \cup ToSet(Talk(s))
         /\ s # <<>> => \/ Last(s) \in ToSet(System(s))
                        \/ Talk(s) # <<>> /\ Last(s) = Last(Talk(s))
<1> DEFINE P == {u \in Seq(Message) : ToSet(u) = ToSet(System(u)) \cup ToSet(Talk(u))}
<1>1. <<>> \in P
  BY PartsOf, EmptySeq
<1>2. ASSUME NEW u \in Seq(Message), NEW m \in Message
      PROVE  /\ u \in P => Append(u, m) \in P
             /\ \/ m \in ToSet(System(Append(u, m)))
                \/ Talk(Append(u, m)) # <<>> /\ m = Last(Talk(Append(u, m)))
  <2>1. System(u) \in Seq(Message) /\ Talk(u) \in Seq(Message) /\ Append(u, m) \in Seq(Message)
    BY PartsOf, AppendProperties
  <2>2. /\ ToSet(Append(u, m)) = ToSet(u) \cup {m}
        /\ ToSet(Append(System(u), m)) = ToSet(System(u)) \cup {m}
        /\ ToSet(Append(Talk(u), m)) = ToSet(Talk(u)) \cup {m}
    BY <2>1, ElementsOfAppend
  <2>3. CASE m.role = "system"
    <3>1. System(Append(u, m)) = Append(System(u), m) /\ Talk(Append(u, m)) = Talk(u)
      BY <2>3, PartsOf
    <3> QED  BY <2>1, <2>2, <3>1
  <2>4. CASE m.role # "system"
    <3>1. Talk(Append(u, m)) = Append(Talk(u), m) /\ System(Append(u, m)) = System(u)
      BY <2>4, PartsOf
    <3>2. Append(Talk(u), m) # <<>> /\ Last(Append(Talk(u), m)) = m
      BY <2>1, AppendLast
    <3> QED  BY <2>1, <2>2, <3>1, <3>2
  <2> QED  BY <2>3, <2>4
<1>3. s # <<>> => \/ Last(s) \in ToSet(System(s))
                  \/ Talk(s) # <<>> /\ Last(s) = Last(Talk(s))
  <2> HIDE DEF P
  <2> SUFFICES ASSUME s # <<>>
               PROVE  \/ Last(s) \in ToSet(System(s))
                      \/ Talk(s) # <<>> /\ Last(s) = Last(Talk(s))
    OBVIOUS
  <2>1. Front(s) \in Seq(Message) /\ Last(s) \in Message /\ s = Append(Front(s), Last(s))
    BY FrontLast
  <2> QED  BY <1>2, <2>1
<1> HIDE DEF P
<1>4. Seq(Message) \subseteq P
  BY <1>1, <1>2, SequenceInduction
<1> QED  BY <1>3, <1>4 DEF P

\* A tool's result comes right after its call.
Linked(talk) ==
  \A i \in 1..Len(talk) :
    talk[i].role = "tool" => i > 1 /\ talk[i - 1].id = talk[i].call

LEMMA LinkedAppend ==
  ASSUME NEW t \in Seq(Message), Linked(t), NEW m \in Message,
         m.role = "tool" => t # <<>> /\ Last(t).id = m.call
  PROVE  Linked(Append(t, m))
<1> DEFINE n == Len(t)
           w == Append(t, m)
<1>1. /\ n \in Nat /\ Len(w) = n + 1 /\ w[n + 1] = m
      /\ \A i \in 1..n : w[i] = t[i]
  BY AppendProperties, LenProperties
<1>2. m.role = "tool" => n # 0 /\ t[n].id = m.call
  BY EmptySeq DEF Last
<1>3. \A i \in 1..n : t[i].role = "tool" => i > 1 /\ t[i - 1].id = t[i].call
  BY DEF Linked
<1> HIDE DEF n, w
<1>4. ASSUME NEW i \in 1..(n + 1), w[i].role = "tool"
      PROVE  i > 1 /\ w[i - 1].id = w[i].call
  <2>1. CASE i = n + 1
    <3>1. w[i] = m /\ n # 0 /\ t[n].id = m.call /\ i - 1 = n
      BY <1>1, <1>2, <1>4, <2>1
    <3>2. n \in 1..n /\ i > 1
      BY <1>1, <2>1, <3>1
    <3> QED  BY <1>1, <3>1, <3>2
  <2>2. CASE i # n + 1
    <3>1. i \in 1..n /\ w[i] = t[i]
      BY <1>1, <2>2
    <3>2. i > 1 /\ t[i - 1].id = t[i].call
      BY <1>3, <1>4, <3>1
    <3>3. i - 1 \in 1..n
      BY <1>1, <3>1, <3>2
    <3> QED  BY <1>1, <3>1, <3>2, <3>3
  <2> QED  BY <2>1, <2>2
<1> QED  BY <1>1, <1>4 DEF Linked, n, w

\* From a message of the user on, no result lacks its call.
LEMMA LinkedFrom ==
  ASSUME NEW t \in Seq(Message), Linked(t), NEW i \in 1..Len(t), i = 1 \/ t[i].role = "user",
         NEW k, k = LatestFrom(t, i)
  PROVE  \A m \in ToSet(k) : m.role = "tool" => \E n \in ToSet(k) : n.id = m.call
<1> DEFINE l == Len(t) - i + 1
<1>1. /\ Len(t) \in Nat /\ i \in Nat /\ 1 =< i /\ i =< Len(t) /\ l \in Nat
      /\ DOMAIN k = 1..l /\ \A j \in 1..l : k[j] = t[i + j - 1]
  <2>1. Len(t) \in Nat
    BY LenProperties
  <2>2. i \in Nat /\ 1 =< i /\ i =< Len(t) /\ l \in Nat
    BY <2>1
  <2>3. i \in 1..i
    BY <2>2
  <2>4. k \in Seq(Message) /\ Len(k) = l /\ \A j \in 1..l : k[j] = t[i + j - 1]
    BY <2>3, SplitAt
  <2>5. DOMAIN k = 1..Len(k)
    BY <2>4, LenProperties
  <2> QED  BY <2>1, <2>2, <2>4, <2>5
<1> HIDE DEF l
<1> SUFFICES ASSUME NEW j \in 1..l, k[j].role = "tool"
             PROVE  \E h \in 1..l : k[h].id = k[j].call
  <2>1. ToSet(k) = {k[h] : h \in 1..l}
    BY <1>1 DEF ToSet
  <2> QED  BY <2>1
<1>2. i + j - 1 \in 1..Len(t) /\ k[j] = t[i + j - 1]
  BY <1>1 DEF l
<1>3. i + j - 1 > 1 /\ t[i + j - 1 - 1].id = k[j].call
  BY <1>2 DEF Linked
<1>4. j # 1
  <2> SUFFICES ASSUME j = 1 PROVE FALSE
    OBVIOUS
  <2>1. i + j - 1 = i
    BY <1>1
  <2> QED  BY <1>2, <1>3, <2>1
<1>5. j - 1 \in 1..l /\ i + (j - 1) - 1 = i + j - 1 - 1
  BY <1>1, <1>4
<1> QED  BY <1>1, <1>3, <1>5

\* From the last turn on, the user speaks once.
LEMMA OneUser ==
  ASSUME NEW t \in Seq(Message), NEW i \in 1..Len(t), \A j \in TurnStarts(t) : j =< i,
         NEW k, k = LatestFrom(t, i)
  PROVE  Cardinality({m \in ToSet(k) : m.role = "user"}) =< 1
<1> DEFINE l == Len(t) - i + 1
           users == {m \in ToSet(k) : m.role = "user"}
<1>1. /\ Len(t) \in Nat /\ i \in Nat /\ 1 =< i /\ i =< Len(t) /\ l \in Nat /\ DOMAIN t = 1..Len(t)
      /\ DOMAIN k = 1..l /\ \A j \in 1..l : k[j] = t[i + j - 1]
  <2>1. Len(t) \in Nat /\ DOMAIN t = 1..Len(t)
    BY LenProperties
  <2>2. i \in Nat /\ 1 =< i /\ i =< Len(t) /\ l \in Nat
    BY <2>1
  <2>3. i \in 1..i
    BY <2>2
  <2>4. k \in Seq(Message) /\ Len(k) = l /\ \A j \in 1..l : k[j] = t[i + j - 1]
    BY <2>3, SplitAt
  <2>5. DOMAIN k = 1..Len(k)
    BY <2>4, LenProperties
  <2> QED  BY <2>1, <2>2, <2>4, <2>5
<1>2. ASSUME NEW j \in 1..l, k[j].role = "user"
      PROVE  j = 1
  <2> HIDE DEF l
  <2>1. i + j - 1 \in 1..Len(t) /\ k[j] = t[i + j - 1]
    BY <1>1 DEF l
  <2>2. i + j - 1 \in TurnStarts(t)
    BY <1>1, <1>2, <2>1 DEF TurnStarts
  <2>3. i + j - 1 =< i
    BY <2>2
  <2> QED  BY <1>1, <2>3
<1>3. users \subseteq {k[1]}
  <2> HIDE DEF l
  <2> QED  BY <1>1, <1>2 DEF ToSet
<1>4. IsFiniteSet({k[1]}) /\ Cardinality({k[1]}) = 1
  BY FS_Singleton
<1> HIDE DEF users
<1>5. Cardinality(users) =< Cardinality({k[1]})
  BY <1>3, <1>4, FS_Subset
<1> QED  BY <1>4, <1>5 DEF users

LEMMA SuffixOf ==
  ASSUME NEW E, NEW s \in Seq(E), NEW i \in 1..Len(s)
  PROVE  IsSuffix(LatestFrom(s, i), s) /\ IsSuffix(s, s)
<1> DEFINE k == LatestFrom(s, i)
           l == Len(s) - i + 1
<1>1. Len(s) \in Nat /\ i \in Nat /\ 1 =< i /\ i =< Len(s) /\ l \in Nat /\ l =< Len(s)
      /\ i \in 1..i
  BY LenProperties
<1>2. k \in Seq(E) /\ Len(k) = l /\ \A j \in 1..l : k[j] = s[i + j - 1]
  BY <1>1, SplitAt
<1>3. /\ Reverse(k) \in Seq(E) /\ Len(Reverse(k)) = l
      /\ \A j \in 1..l : Reverse(k)[j] = k[l - j + 1]
      /\ Reverse(s) \in Seq(E) /\ Len(Reverse(s)) = Len(s)
      /\ \A j \in 1..Len(s) : Reverse(s)[j] = s[Len(s) - j + 1]
  <2> HIDE DEF k, l
  <2> QED  BY <1>2, ReverseType
<1> HIDE DEF k
<1>4. ASSUME NEW j \in 1..l PROVE Reverse(s)[j] = Reverse(k)[j]
  <2>1. l - j + 1 \in 1..l /\ i + (l - j + 1) - 1 = Len(s) - j + 1 /\ j \in 1..Len(s)
    BY <1>1
  <2> HIDE DEF l
  <2>2. k[l - j + 1] = s[i + (l - j + 1) - 1]
    BY <1>2, <2>1
  <2> QED  BY <1>3, <2>1, <2>2
<1>5. IsPrefix(Reverse(k), Reverse(s))
  <2> HIDE DEF l
  <2>1. Len(Reverse(k)) =< Len(Reverse(s))
    BY <1>1, <1>3
  <2> QED  BY <1>3, <1>4, <2>1, PrefixByElements
<1>6. IsPrefix(Reverse(s), Reverse(s))
  BY <1>3, PrefixOf
<1> QED  BY <1>5, <1>6 DEF IsSuffix, k

\* Where the latest turns begin that are kept.
LEMMA KeptFromIs ==
  ASSUME Budget \in Nat, NEW t \in Seq(Message), t # <<>>, NEW fixed \in Nat,
         NEW from, from = KeptFrom(t, fixed)
  PROVE  /\ from \in TurnStarts(t) /\ from \in 1..Len(t)
         /\ \/ \A j \in TurnStarts(t) : j =< from
            \/ fixed + Tokens[LatestFrom(t, from)] =< Budget
         /\ \A j \in TurnStarts(t) : j < from => fixed + Tokens[LatestFrom(t, j)] > Budget
<1> DEFINE starts == TurnStarts(t)
           fits == {i \in starts : fixed + Tokens[LatestFrom(t, i)] =< Budget}
<1>1. /\ Len(t) \in Nat /\ DOMAIN t = 1..Len(t) /\ 1 \in 1..Len(t) /\ 1..Len(t) \subseteq 0..Len(t)
  BY WholeSequence
<1>2. starts \in SUBSET (0..Len(t)) /\ 1 \in starts /\ starts \subseteq 1..Len(t)
      /\ starts \subseteq Nat
  BY <1>1 DEF TurnStarts
<1>3. \A i \in 1..Len(t) : Tokens[LatestFrom(t, i)] \in Nat
  <2> SUFFICES ASSUME NEW i \in 1..Len(t) PROVE Tokens[LatestFrom(t, i)] \in Nat
    OBVIOUS
  <2>1. i \in 1..i
    BY <1>1
  <2>2. LatestFrom(t, i) \in Seq(Message)
    BY <2>1, SplitAt
  <2> QED  BY <2>2, TokensDef
<1> HIDE DEF starts
<1>4. Max(starts) \in starts /\ \A j \in starts : j =< Max(starts)
  BY <1>1, <1>2, LargestNumber
<1>5. from = Min({Max(starts)} \cup fits)
  BY DEF KeptFrom, starts
<1>6. from \in {Max(starts)} \cup fits /\ \A j \in {Max(starts)} \cup fits : from =< j
  <2> DEFINE T == {Max(starts)} \cup fits
  <2>1. T \in SUBSET Nat /\ T # {}
    BY <1>2, <1>4
  <2> HIDE DEF T
  <2> QED  BY <1>5, <2>1, SmallestNumber DEF T
<1>7. from \in starts
  BY <1>4, <1>6
<1>8. \/ \A j \in starts : j =< from
      \/ fixed + Tokens[LatestFrom(t, from)] =< Budget
  BY <1>4, <1>6
<1>9. ASSUME NEW j \in starts, j < from
      PROVE  fixed + Tokens[LatestFrom(t, j)] > Budget
  <2>1. j \notin fits
    <3>1. j \in Nat /\ from \in Nat
      BY <1>2, <1>7
    <3> HIDE DEF fits
    <3> QED  BY <1>6, <1>9, <3>1
  <2>2. ~(fixed + Tokens[LatestFrom(t, j)] =< Budget)
    BY <2>1
  <2>3. Tokens[LatestFrom(t, j)] \in Nat
    BY <1>2, <1>3
  <2> QED  BY <2>2, <2>3
<1> QED  BY <1>2, <1>7, <1>8, <1>9 DEF starts

Fixed(h) == Tokens[System(h)] + ToolsTokens + NoticeTokens

\* A request whose history is kept.
LEMMA WholeUsable ==
  ASSUME Configured, NEW h \in Seq(Message), Talk(h) # <<>>, Linked(Talk(h)),
         Budget = 0 \/ KeptFrom(Talk(h), Fixed(h)) = 1,
         NEW f, f = System(h) \o Talk(h)
  PROVE  Usable(f, h)
<1> DEFINE S == System(h)
           T == Talk(h)
<1>1. S \in Seq(Message) /\ T \in Seq(Message)
  BY PartsOf
<1>2. Talk(f) = T
  <2>1. Talk(f) = Talk(S) \o Talk(T)
    BY <1>1, PartsOfBoth
  <2>2. Talk(S) = <<>> /\ Talk(T) = T
    BY PartsOfParts
  <2>3. <<>> \o T = T
    BY <1>1, ConcatEmptySeq
  <2> QED  BY <2>1, <2>2, <2>3
<1>3. Len(T) \in Nat /\ 1 \in 1..Len(T) /\ LatestFrom(T, 1) = T
  <2> HIDE DEF T
  <2>1. Len(T) \in Nat /\ 1 \in 1..Len(T) /\ SubSeq(T, 1, Len(T)) = T
    BY <1>1, WholeSequence DEF T
  <2> QED  BY <2>1 DEF LatestFrom
<1>4. IsSuffix(T, T)
  <2> HIDE DEF T
  <2> QED  BY <1>1, <1>3, SuffixOf
<1>5. f = S \o <<>> \o T
  <2>1. S \o <<>> = S
    BY <1>1, ConcatEmptySeq
  <2> QED  BY <2>1
<1>6. \A m \in ToSet(T) : m.role = "tool" => \E n \in ToSet(T) : n.id = m.call
  <2> HIDE DEF T
  <2>1. Linked(T)
    BY DEF T
  <2> QED  BY <1>1, <1>3, <2>1, LinkedFrom
<1>7. ASSUME Budget > 0
      PROVE  \/ Tokens[f] + ToolsTokens =< Budget
             \/ Cardinality({m \in ToSet(T) : m.role = "user"}) =< 1
  <2>1. Budget \in Nat /\ NoticeTokens \in Nat /\ ToolsTokens \in Nat
        /\ Tokens[S] \in Nat /\ Tokens[T] \in Nat
    BY <1>1, TokensDef DEF Configured
  <2>2. Fixed(h) = Tokens[S] + ToolsTokens + NoticeTokens /\ Fixed(h) \in Nat
    BY <2>1 DEF Fixed
  <2>3. KeptFrom(T, Fixed(h)) = 1
    BY <1>7, <2>1
  <2>4. Tokens[f] = Tokens[S] + Tokens[T]
    BY <1>1, TokensOfBoth
  <2> HIDE DEF T, S
  <2>5. \/ \A j \in TurnStarts(T) : j =< 1
        \/ Fixed(h) + Tokens[LatestFrom(T, 1)] =< Budget
    <3>1. T # <<>>
      BY DEF T
    <3> QED  BY <1>1, <2>1, <2>2, <2>3, <3>1, KeptFromIs
  <2>6. CASE \A j \in TurnStarts(T) : j =< 1
    BY <1>1, <1>3, <2>6, OneUser
  <2>7. CASE Fixed(h) + Tokens[T] =< Budget
    <3>1. Tokens[f] + ToolsTokens =< Budget
      BY <2>1, <2>2, <2>4, <2>7
    <3> QED  BY <3>1
  <2> QED  BY <1>3, <2>5, <2>6, <2>7
<1> HIDE DEF S, T
<1>8. Talk(h) = T /\ System(h) = S
  BY DEF S, T
<1> QED  BY <1>2, <1>4, <1>5, <1>6, <1>7, <1>8, Zenon DEF Usable

LEMMA NoticeParts ==
  ASSUME Configured
  PROVE  /\ Notice \in Message /\ Notice.id = 0 /\ Notice.size = NoticeTokens
         /\ <<Notice>> \in Seq(Message) /\ ToSet(<<Notice>>) = {Notice}
         /\ System(<<Notice>>) = <<Notice>> /\ Talk(<<Notice>>) = <<>>
         /\ Tokens[<<Notice>>] = NoticeTokens
<1>1. Notice \in Message /\ Notice.id = 0 /\ Notice.size = NoticeTokens /\ Notice.role = "system"
  BY DEF Notice, New, Message, Configured
<1> HIDE DEF Notice
<1>2. <<>> \in Seq(Message) /\ Append(<<>>, Notice) = <<Notice>>
  BY EmptySeq
<1>3. <<Notice>> \in Seq(Message)
  BY <1>1
<1>4. System(<<Notice>>) = <<Notice>> /\ Talk(<<Notice>>) = <<>>
  <2>1. /\ System(Append(<<>>, Notice)) = Append(System(<<>>), Notice)
        /\ Talk(Append(<<>>, Notice)) = Talk(<<>>)
    BY <1>1, <1>2, PartsOf
  <2>2. System(<<>>) = <<>> /\ Talk(<<>>) = <<>>
    BY PartsOf
  <2> QED  BY <1>2, <2>1, <2>2
<1>5. Tokens[<<Notice>>] = NoticeTokens
  <2>1. Tokens[Append(<<>>, Notice)] = Tokens[<<>>] + Notice.size /\ Tokens[<<>>] = 0
    BY <1>1, <1>2, TokensDef
  <2> QED  BY <1>1, <1>2, <2>1 DEF Configured
<1>6. ToSet(<<Notice>>) = {Notice}
  BY DEF ToSet
<1> QED  BY <1>1, <1>3, <1>4, <1>5, <1>6

\* What is kept of a conversation has no system message, as the conversation.
LEMMA TalkFrom ==
  ASSUME NEW t \in Seq(Message), System(t) = <<>>, NEW i \in 1..Len(t)
  PROVE  /\ LatestFrom(t, i) \in Seq(Message)
         /\ System(LatestFrom(t, i)) = <<>> /\ Talk(LatestFrom(t, i)) = LatestFrom(t, i)
<1> DEFINE a == SubSeq(t, 1, i - 1)
           k == LatestFrom(t, i)
<1>1. Len(t) \in Nat /\ 1 \in 1..i /\ 1 \in 1..Len(t)
  BY LenProperties
<1>2. a \in Seq(Message) /\ k \in Seq(Message) /\ LatestFrom(t, 1) = a \o k
  BY <1>1, SplitAt
<1>3. t = a \o k
  BY <1>2, WholeSequence DEF LatestFrom
<1> HIDE DEF a, k
<1>4. System(t) = System(a) \o System(k)
  BY <1>2, <1>3, PartsOfBoth
<1>5. System(k) = <<>>
  <2>1. System(a) \in Seq(Message) /\ System(k) \in Seq(Message)
    BY <1>2, PartsOf
  <2>2. Len(System(a)) + Len(System(k)) = 0 /\ Len(System(a)) \in Nat /\ Len(System(k)) \in Nat
    <3>1. Len(System(a) \o System(k)) = Len(System(a)) + Len(System(k))
      BY <2>1, ConcatProperties
    <3>2. Len(System(a) \o System(k)) = 0
      BY <1>4, EmptySeq
    <3> QED  BY <2>1, <3>1, <3>2, LenProperties
  <2>3. Len(System(k)) = 0
    BY <2>2
  <2> QED  BY <2>1, <2>3, EmptySeq
<1> QED  BY <1>2, <1>5, NothingButTalk DEF k

LEMMA SubSeqAgree ==
  ASSUME NEW E, NEW s, NEW t, NEW a \in Int, NEW b \in Int, a =< b,
         \A k \in a..b : s[k] = t[k] /\ t[k] \in E
  PROVE  SubSeq(s, a, b) = SubSeq(t, a, b) /\ SubSeq(s, a, b) \in Seq(E)
<1> DEFINE n == b - a + 1
<1>1. n \in Nat /\ \A k \in 1..n : a + k - 1 \in a..b
  OBVIOUS
<1>2. \A k \in a..b : s[k] \in E
  OBVIOUS
<1>3. /\ SubSeq(s, a, b) \in Seq(E) /\ Len(SubSeq(s, a, b)) = n
      /\ \A k \in 1..n : SubSeq(s, a, b)[k] = s[a + k - 1]
  BY <1>2, SubSeqProperties
<1>4. /\ SubSeq(t, a, b) \in Seq(E) /\ Len(SubSeq(t, a, b)) = n
      /\ \A k \in 1..n : SubSeq(t, a, b)[k] = t[a + k - 1]
  BY SubSeqProperties
<1> HIDE DEF n
<1>5. \A k \in 1..n : SubSeq(s, a, b)[k] = SubSeq(t, a, b)[k]
  BY <1>1, <1>3, <1>4
<1> QED  BY <1>3, <1>4, <1>5, SeqEqual

\* What the turn before the kept ones would have added.
LEMMA DroppedTurn ==
  ASSUME NEW t \in Seq(Message), NEW i \in TurnStarts(t), i # 1,
         NEW d, d = SubSeq(t, 1, i - 1), NEW j, j = Max(TurnStarts(d))
  PROVE  /\ j \in TurnStarts(t) /\ j < i /\ j \in 1..i
         /\ LatestFrom(d, j) \in Seq(Message)
         /\ LatestFrom(t, j) = LatestFrom(d, j) \o LatestFrom(t, i)
<1>1. /\ Len(t) \in Nat /\ DOMAIN t = 1..Len(t)
      /\ i \in 1..Len(t) /\ 1 \in 1..i /\ i \in Nat /\ i > 1 /\ i - 1 \in Nat /\ i - 1 >= 1
  <2>1. Len(t) \in Nat /\ DOMAIN t = 1..Len(t)
    BY LenProperties
  <2>2. i \in 1..Len(t)
    BY <2>1 DEF TurnStarts
  <2> QED  BY <2>1, <2>2
<1>2. d \in Seq(Message) /\ Len(d) = i - 1 /\ \A k \in 1..(i - 1) : d[k] = t[k]
  BY <1>1, SplitAt
<1>3. DOMAIN d = 1..(i - 1) /\ d # <<>>
  <2>1. DOMAIN d = 1..Len(d)
    BY <1>2, LenProperties
  <2>2. Len(d) # 0
    BY <1>1, <1>2
  <2> QED  BY <1>2, <2>1, <2>2, EmptySeq
<1>4. j \in TurnStarts(d)
  <2> DEFINE starts == TurnStarts(d)
  <2>1. 1 \in starts /\ starts \in SUBSET (0..(i - 1))
    <3>1. 1 \in 1..(i - 1) /\ 1..(i - 1) \subseteq 0..(i - 1)
      BY <1>1
    <3> QED  BY <1>3, <3>1 DEF TurnStarts
  <2> HIDE DEF starts
  <2>2. Max(starts) \in starts
    BY <1>1, <2>1, LargestNumber
  <2> QED  BY <2>2 DEF starts
<1>5. j \in 1..(i - 1) /\ (j = 1 \/ d[j].role = "user")
  BY <1>3, <1>4 DEF TurnStarts
<1>6. j < i /\ j \in 1..i /\ j \in 1..Len(t)
  BY <1>1, <1>5
<1>7. j \in TurnStarts(t)
  BY <1>1, <1>2, <1>5, <1>6 DEF TurnStarts
<1>8. LatestFrom(d, j) = SubSeq(t, j, i - 1)
  <2>1. j \in Int /\ i - 1 \in Int /\ j =< i - 1
    BY <1>1, <1>5
  <2>2. \A k \in j..(i - 1) : d[k] = t[k] /\ t[k] \in Message
    <3>1. \A k \in j..(i - 1) : k \in 1..(i - 1) /\ k \in 1..Len(t)
      BY <1>1, <1>5
    <3>2. \A k \in 1..Len(t) : t[k] \in Message
      BY ElementOfSeq
    <3> QED  BY <1>2, <3>1, <3>2
  <2>3. SubSeq(d, j, i - 1) = SubSeq(t, j, i - 1)
    <3>1. PICK b : b = i - 1
      OBVIOUS
    <3>2. PICK e : e = d
      OBVIOUS
    <3>3. PICK c : c = j
      OBVIOUS
    <3>4. b \in Int /\ c \in Int /\ c =< b /\ \A k \in c..b : e[k] = t[k] /\ t[k] \in Message
      BY <2>1, <2>2, <3>1, <3>2, <3>3
    <3>5. SubSeq(e, c, b) = SubSeq(t, c, b) /\ SubSeq(e, c, b) \in Seq(Message)
      BY <3>4, SubSeqAgree
    <3> QED  BY <3>1, <3>2, <3>3, <3>5
  <2> QED  BY <1>2, <2>3 DEF LatestFrom
<1>9. /\ SubSeq(t, j, i - 1) \in Seq(Message)
      /\ LatestFrom(t, j) = SubSeq(t, j, i - 1) \o LatestFrom(t, i)
  BY <1>1, <1>6, SplitAt
<1> QED  BY <1>6, <1>7, <1>8, <1>9

LEMMA Rearranged ==
  ASSUME NEW a \in Nat, NEW b \in Nat, NEW notice \in Nat, NEW other \in Nat,
         NEW c, c = a + notice + b, NEW d, d = a + other + notice
  PROVE  c + other = d + b /\ c \in Nat
OBVIOUS

LEMMA Exceeded ==
  ASSUME NEW a \in Nat, NEW b \in Nat, NEW c \in Nat, NEW e \in Nat,
         NEW other \in Nat, NEW bound \in Nat, a + other = e + b, e + (c + b) > bound
  PROVE  a + other + c > bound
OBVIOUS

\* A request whose oldest turns are dropped.
LEMMA CompactUsable ==
  ASSUME Configured, NEW h \in Seq(Message), Talk(h) # <<>>, Linked(Talk(h)),
         NEW from, from = KeptFrom(Talk(h), Fixed(h)), from # 1,
         NEW f, f = System(h) \o <<Notice>> \o LatestFrom(Talk(h), from)
  PROVE  Usable(f, h)
<1> DEFINE S == System(h)
           T == Talk(h)
           K == LatestFrom(T, from)
           N == <<Notice>>
<1>1. S \in Seq(Message) /\ T \in Seq(Message) /\ T # <<>> /\ Linked(T)
      /\ System(T) = <<>> /\ System(S) = S /\ Talk(S) = <<>>
  BY PartsOf, PartsOfParts
<1>2. /\ Budget \in Nat /\ NoticeTokens \in Nat /\ ToolsTokens \in Nat
      /\ Tokens[S] \in Nat /\ Fixed(h) = Tokens[S] + ToolsTokens + NoticeTokens
      /\ Fixed(h) \in Nat
  <2>1. Budget \in Nat /\ NoticeTokens \in Nat /\ ToolsTokens \in Nat /\ Tokens[S] \in Nat
    BY <1>1, TokensDef DEF Configured
  <2>2. Fixed(h) = Tokens[S] + ToolsTokens + NoticeTokens
    BY DEF Fixed
  <2> QED  BY <2>1, <2>2
<1>3. from = KeptFrom(T, Fixed(h))
  OBVIOUS
<1>n. /\ N \in Seq(Message) /\ System(N) = N /\ Talk(N) = <<>> /\ Tokens[N] = NoticeTokens
  BY NoticeParts
<1>f. f = S \o N \o K
  OBVIOUS
<1>a. Talk(h) = T /\ System(h) = S /\ <<Notice>> = N
  OBVIOUS
<1> HIDE DEF S, T, N
<1>4. /\ from \in TurnStarts(T) /\ from \in 1..Len(T)
      /\ \/ \A j \in TurnStarts(T) : j =< from
         \/ Fixed(h) + Tokens[K] =< Budget
      /\ \A j \in TurnStarts(T) : j < from => Fixed(h) + Tokens[LatestFrom(T, j)] > Budget
  BY <1>1, <1>2, <1>3, KeptFromIs
<1>5. K \in Seq(Message) /\ Talk(K) = K /\ Tokens[K] \in Nat
  <2>1. K \in Seq(Message) /\ Talk(K) = K
    BY <1>1, <1>4, TalkFrom
  <2> QED  BY <2>1, TokensDef
<1>6. Len(T) \in Nat /\ from \in Nat /\ from >= 1 /\ from =< Len(T)
      /\ Len(K) = Len(T) - from + 1 /\ Len(T) - Len(K) = from - 1
  <2>1. Len(T) \in Nat /\ from \in Nat /\ from >= 1 /\ from =< Len(T) /\ from \in 1..from
    BY <1>1, <1>4, LenProperties
  <2>2. Len(K) = Len(T) - from + 1
    BY <1>1, <1>4, <2>1, SplitAt
  <2> QED  BY <2>1, <2>2
<1>7. Talk(f) = K
  <2>1. S \o N \in Seq(Message) /\ Talk(S \o N) = Talk(S) \o Talk(N)
    BY <1>1, <1>n, ConcatProperties, PartsOfBoth
  <2>2. Talk(f) = Talk(S \o N) \o Talk(K)
    BY <1>5, <1>f, <2>1, PartsOfBoth
  <2>3. <<>> \o <<>> = <<>> /\ <<>> \o K = K
    BY <1>5, ConcatEmptySeq, EmptySeq
  <2> QED  BY <1>1, <1>n, <1>5, <2>1, <2>2, <2>3
<1>8. Tokens[f] + ToolsTokens = Fixed(h) + Tokens[K] /\ Tokens[f] \in Nat
  <2>1. S \o N \in Seq(Message) /\ Tokens[S \o N] = Tokens[S] + NoticeTokens
    BY <1>1, <1>n, ConcatProperties, TokensOfBoth
  <2>2. Tokens[f] = Tokens[S \o N] + Tokens[K]
    BY <1>5, <1>f, <2>1, TokensOfBoth
  <2>3. PICK a, b, c, d : a = Tokens[S] /\ b = Tokens[K] /\ c = Tokens[f] /\ d = Fixed(h)
    OBVIOUS
  <2>4. /\ a \in Nat /\ b \in Nat /\ NoticeTokens \in Nat /\ ToolsTokens \in Nat
        /\ c = a + NoticeTokens + b /\ d = a + ToolsTokens + NoticeTokens
    BY <1>2, <1>5, <2>1, <2>2, <2>3
  <2>5. c + ToolsTokens = d + b /\ c \in Nat
    BY <2>4, Rearranged
  <2> QED  BY <2>3, <2>5
<1>9. IsSuffix(K, T)
  BY <1>1, <1>4, SuffixOf
<1>10. K # T
  <2>1. Len(K) # Len(T)
    BY <1>6
  <2> QED  BY <2>1
<1>11. \A m \in ToSet(K) : m.role = "tool" => \E n \in ToSet(K) : n.id = m.call
  <2>1. from = 1 \/ T[from].role = "user"
    BY <1>4 DEF TurnStarts
  <2> QED  BY <1>1, <1>4, <2>1, LinkedFrom
<1>12. \/ Tokens[f] + ToolsTokens =< Budget
       \/ Cardinality({m \in ToSet(K) : m.role = "user"}) =< 1
  <2>1. CASE \A j \in TurnStarts(T) : j =< from
    BY <1>1, <1>4, <2>1, OneUser
  <2>2. CASE Fixed(h) + Tokens[K] =< Budget
    BY <1>8, <2>2
  <2> QED  BY <1>4, <2>1, <2>2
<1>13. LET d == SubSeq(T, 1, Len(T) - Len(K)) IN
         Tokens[f] + ToolsTokens + Tokens[LatestFrom(d, Max(TurnStarts(d)))] > Budget
  <2> DEFINE d == SubSeq(T, 1, from - 1)
             j == Max(TurnStarts(d))
             L == LatestFrom(d, j)
  <2>1. j \in TurnStarts(T) /\ j < from /\ L \in Seq(Message) /\ LatestFrom(T, j) = L \o K
    <3>1. PICK e : e = d
      OBVIOUS
    <3>2. PICK n : n = j
      OBVIOUS
    <3>3. e = SubSeq(T, 1, from - 1) /\ n = Max(TurnStarts(e)) /\ from # 1
      BY <3>1, <3>2
    <3>4. /\ n \in TurnStarts(T) /\ n < from /\ LatestFrom(e, n) \in Seq(Message)
          /\ LatestFrom(T, n) = LatestFrom(e, n) \o LatestFrom(T, from)
      <4>1. T \in Seq(Message) /\ from \in TurnStarts(T)
        BY <1>1, <1>4
      <4> HIDE DEF d, j, L, K
      <4> QED  BY <3>3, <4>1, DroppedTurn
    <3> QED  BY <3>1, <3>2, <3>4
  <2>2. Tokens[L \o K] = Tokens[L] + Tokens[K] /\ Tokens[L] \in Nat
    BY <1>5, <2>1, TokensOfBoth, TokensDef
  <2>3. Fixed(h) + Tokens[L \o K] > Budget
    BY <1>4, <2>1
  <2> HIDE DEF d, j, L, K
  <2>4. Tokens[f] + ToolsTokens + Tokens[L] > Budget
    <3>1. PICK a, b, c, e : a = Tokens[f] /\ b = Tokens[K] /\ c = Tokens[L] /\ e = Fixed(h)
      OBVIOUS
    <3>2. /\ a \in Nat /\ b \in Nat /\ c \in Nat /\ e \in Nat
          /\ ToolsTokens \in Nat /\ Budget \in Nat
          /\ a + ToolsTokens = e + b /\ e + (c + b) > Budget
      BY <1>2, <1>5, <1>8, <2>2, <2>3, <3>1
    <3>3. a + ToolsTokens + c > Budget
      BY <3>2, Exceeded
    <3> QED  BY <3>1, <3>3
  <2>5. d = SubSeq(T, 1, Len(T) - Len(K))
    BY <1>6 DEF d
  <2> QED  BY <2>4, <2>5 DEF L, j
<1> HIDE DEF K
<1>14. f = System(h) \o <<Notice>> \o K
  BY <1>a, <1>f
<1> QED  BY <1>a, <1>7, <1>9, <1>10, <1>11, <1>12, <1>13, <1>14, Zenon DEF Usable

LEMMA LargestIs ==
  ASSUME NEW T \in SUBSET Nat, NEW n \in T, \A m \in T : m =< n
  PROVE  Max(T) = n
<1>1. n \in Nat /\ T \in SUBSET (0..n)
  OBVIOUS
<1> QED  BY <1>1, LargestIsLast

Known(h) == \A i \in 1..Len(h) : h[i].id = i

\* The last message of a history is in a request that has its system messages
\* and the end of its conversation, so the request tells how long it was.
LEMMA LastIdIs ==
  ASSUME Configured, NEW h \in Seq(Message), Known(h), Talk(h) # <<>>,
         NEW i \in 1..Len(Talk(h)), NEW k, k = LatestFrom(Talk(h), i),
         NEW s \in Seq(Message), ToSet(System(h)) \subseteq ToSet(s),
         ToSet(s) \subseteq ToSet(System(h)) \cup {Notice},
         NEW f, f = s \o k
  PROVE  Max({m.id : m \in ToSet(f)}) = Len(h) /\ Len(h) \in 1..Len(h) /\ f \in Seq(Message)
<1> DEFINE S == System(h)
           T == Talk(h)
           ids == {m.id : m \in ToSet(f)}
           n == Len(h)
<1>1. S \in Seq(Message) /\ T \in Seq(Message) /\ T # <<>>
  BY PartsOf
<1>2. h # <<>>
  BY PartsOf
<1>3. n \in Nat /\ n \in 1..n /\ DOMAIN h = 1..n
  BY <1>2, WholeSequence
<1>a. i \in 1..Len(T) /\ k = LatestFrom(T, i)
  OBVIOUS
<1>b. /\ ToSet(h) = ToSet(S) \cup ToSet(T)
      /\ Last(h) \in ToSet(S) \/ Last(h) = Last(T)
  BY <1>2, ElementsOfParts
<1>c. /\ ToSet(S) \subseteq ToSet(s) /\ ToSet(s) \subseteq ToSet(S) \cup {Notice}
  OBVIOUS
<1>d. h[n].id = n /\ Last(h) = h[n] /\ \A m \in ToSet(h) : m.id \in 1..n
  <2> HIDE DEF n
  <2> QED  BY <1>3 DEF Known, ToSet, Last, n
<1> HIDE DEF S, T, n
<1>4. /\ Len(T) \in Nat /\ i \in Nat /\ i >= 1 /\ i =< Len(T) /\ i \in 1..i
      /\ DOMAIN T = 1..Len(T)
  BY <1>1, <1>a, LenProperties
<1>5. /\ k \in Seq(Message) /\ Len(k) = Len(T) - i + 1 /\ DOMAIN k = 1..(Len(T) - i + 1)
      /\ \A j \in 1..(Len(T) - i + 1) : k[j] = T[i + j - 1]
  <2>1. /\ k \in Seq(Message) /\ Len(k) = Len(T) - i + 1
        /\ \A j \in 1..(Len(T) - i + 1) : k[j] = T[i + j - 1]
    BY <1>1, <1>4, <1>a, SplitAt
  <2>2. DOMAIN k = 1..Len(k)
    BY <2>1, LenProperties
  <2> QED  BY <2>1, <2>2
<1>6. ToSet(k) \subseteq ToSet(T)
  <2>1. \A j \in 1..(Len(T) - i + 1) : i + j - 1 \in 1..Len(T)
    BY <1>4
  <2> QED  BY <1>4, <1>5, <2>1 DEF ToSet
<1>7. Last(T) \in ToSet(k)
  <2>1. Len(T) - i + 1 \in 1..(Len(T) - i + 1) /\ i + (Len(T) - i + 1) - 1 = Len(T)
    BY <1>4
  <2>2. k[Len(T) - i + 1] = T[Len(T)]
    BY <1>5, <2>1
  <2> QED  BY <1>5, <2>1, <2>2 DEF ToSet, Last
<1>8. f \in Seq(Message) /\ ToSet(f) = ToSet(s) \cup ToSet(k)
  BY <1>5, ConcatProperties, ElementsOfBoth
<1>9. n \in ids
  <2>1. Last(h) \in ToSet(f)
    BY <1>7, <1>8, <1>b, <1>c
  <2> QED  BY <1>d, <2>1
<1>10. \A x \in ids : x \in Nat /\ x =< n
  <2>1. ToSet(f) \subseteq ToSet(h) \cup {Notice}
    BY <1>6, <1>8, <1>b, <1>c
  <2>2. \A m \in ToSet(h) \cup {Notice} : m.id \in Nat /\ m.id =< n
    <3>1. Notice.id = 0
      BY NoticeParts
    <3> QED  BY <1>3, <1>d, <3>1
  <2> QED  BY <2>1, <2>2
<1>11. ids \in SUBSET Nat
  <2> HIDE DEF ids
  <2> QED  BY <1>10
<1>12. Max(ids) = n
  <2> HIDE DEF ids
  <2> QED  BY <1>9, <1>10, <1>11, LargestIs
<1> QED  BY <1>3, <1>8, <1>12 DEF n

\* What is forwarded of a history is usable.
LEMMA ForwardUsable ==
  ASSUME Configured, NEW h \in Seq(Message), Known(h), Talk(h) # <<>>, Linked(Talk(h)),
         NEW f, f = NormalizePromptForPrefixCache(CompactConversation(h))
  PROVE  /\ f \in Seq(Message) /\ Usable(f, h)
         /\ Max({m.id : m \in ToSet(f)}) = Len(h) /\ Len(h) \in 1..Len(h)
<1> DEFINE S == System(h)
           T == Talk(h)
           N == <<Notice>>
           from == KeptFrom(T, Fixed(h))
           K == LatestFrom(T, from)
<1>1. S \in Seq(Message) /\ T \in Seq(Message)
      /\ System(T) = <<>> /\ System(S) = S /\ Talk(S) = <<>> /\ Talk(T) = T
  BY PartsOf, PartsOfParts
<1>2. CASE Budget = 0 \/ from = 1
  <2>1. CompactConversation(h) = h
    BY <1>2, Zenon DEF CompactConversation, Fixed
  <2>2. f = S \o T
    BY <2>1 DEF NormalizePromptForPrefixCache
  <2>3. Usable(f, h)
    BY <1>2, <2>2, WholeUsable
  <2>4. LatestFrom(T, 1) = T /\ 1 \in 1..Len(T)
    <3>0. T # <<>>
      OBVIOUS
    <3> HIDE DEF T
    <3>1. 1 \in 1..Len(T) /\ SubSeq(T, 1, Len(T)) = T
      BY <1>1, <3>0, WholeSequence
    <3> QED  BY <3>1 DEF LatestFrom
  <2> QED  BY <1>1, <2>2, <2>3, <2>4, LastIdIs
<1>3. CASE Budget # 0 /\ from # 1
  <2>1. CompactConversation(h) = S \o N \o K
    BY <1>3, Zenon DEF CompactConversation, Fixed
  <2>2. from \in 1..Len(T)
    <3>1. Budget \in Nat /\ Fixed(h) \in Nat
      <4>1. Tokens[S] \in Nat /\ ToolsTokens \in Nat /\ NoticeTokens \in Nat /\ Budget \in Nat
        BY <1>1, TokensDef DEF Configured
      <4>2. Fixed(h) = Tokens[S] + ToolsTokens + NoticeTokens
        BY DEF Fixed
      <4> QED  BY <4>1, <4>2
    <3> QED  BY <1>1, <3>1, KeptFromIs
  <2>3. K \in Seq(Message) /\ System(K) = <<>> /\ Talk(K) = K
    <3>1. from \in 1..Len(T)
      BY <2>2
    <3> HIDE DEF from, T
    <3> QED  BY <1>1, <3>1, TalkFrom
  <2>4. /\ N \in Seq(Message) /\ System(N) = N /\ Talk(N) = <<>> /\ ToSet(N) = {Notice}
    BY NoticeParts
  <2>k. K = LatestFrom(Talk(h), from) /\ from \in 1..Len(Talk(h)) /\ S = System(h)
    BY <2>2
  <2>u. f = S \o N \o K => Usable(f, h)
    BY <1>3, CompactUsable
  <2>c. f = System(S \o N \o K) \o Talk(S \o N \o K)
    BY <2>1 DEF NormalizePromptForPrefixCache
  <2> HIDE DEF S, N, K, from, T
  <2>5. S \o N \in Seq(Message) /\ System(S \o N) = S \o N /\ Talk(S \o N) = <<>>
        /\ ToSet(S \o N) = ToSet(S) \cup {Notice}
    <3>1. <<>> \o <<>> = <<>>
      BY ConcatEmptySeq, EmptySeq
    <3>2. S \o N \in Seq(Message) /\ ToSet(S \o N) = ToSet(S) \cup ToSet(N)
      BY <1>1, <2>4, ConcatProperties, ElementsOfBoth
    <3>3. System(S \o N) = System(S) \o System(N) /\ Talk(S \o N) = Talk(S) \o Talk(N)
      BY <1>1, <2>4, PartsOfBoth
    <3> QED  BY <1>1, <2>4, <3>1, <3>2, <3>3
  <2>6. f = S \o N \o K
    <3>1. /\ System(S \o N \o K) = System(S \o N) \o System(K)
          /\ Talk(S \o N \o K) = Talk(S \o N) \o Talk(K)
      BY <2>3, <2>5, PartsOfBoth
    <3>2. (S \o N) \o <<>> = S \o N /\ <<>> \o K = K
      BY <2>3, <2>5, ConcatEmptySeq
    <3> QED  BY <2>3, <2>5, <2>c, <3>1, <3>2
  <2>7. Usable(f, h)
    BY <2>6, <2>u
  <2> QED  BY <2>5, <2>6, <2>7, <2>k, LastIdIs
<1> QED  BY <1>2, <1>3


-----------------------------------------------------------------------------
(* The invariant *)

\* A call's arguments as the client got them: n symbols of a document, repaired.
Delivery(d, n) ==
  [document |-> d, received |-> SubSeq(d, 1, n), text |-> Repaired(SubSeq(d, 1, n))]

\* The invariant: messages have their place as their id, results follow their
\* calls, the last request is usable for the history it was made of, and what
\* was delivered is the repair of what came.
HistoryInv == history \in Seq(Message) /\ Known(history) /\ Linked(Talk(history))

ForwardedInv ==
  forwarded # <<>> =>
    LastId \in 1..Len(history) /\ Usable(forwarded, SubSeq(history, 1, LastId))

ArgumentsInv ==
  document \in Seq(Symbol) /\ \E n \in 0..Len(document) : arguments = SubSeq(document, 1, n)

DeliveredInv ==
  delivered # <<>> => \E d \in Seq(Symbol) : \E n \in 0..Len(d) : delivered = Delivery(d, n)

IInv == HistoryInv /\ ForwardedInv /\ ArgumentsInv /\ DeliveredInv

\* A session that has not begun.
LEMMA InitTrue == Init => IInv
<1> SUFFICES ASSUME Init PROVE IInv
  OBVIOUS
<1>1. <<>> \in Seq(Message) /\ <<>> \in Seq(Symbol) /\ Len(<<>>) = 0 /\ Talk(<<>>) = <<>>
  BY EmptySeq, PartsOf
<1>2. HistoryInv
  BY <1>1 DEF Init, HistoryInv, Known, Linked
<1>3. ForwardedInv /\ DeliveredInv
  BY DEF Init, ForwardedInv, DeliveredInv
<1>4. ArgumentsInv
  <2>1. SubSeq(<<>>, 1, 0) = <<>>
    BY <1>1, WholeSequence
  <2> QED  BY <1>1, <2>1 DEF Init, ArgumentsInv
<1> QED  BY <1>2, <1>3, <1>4 DEF IInv

\* Another message at the end of the history.
LEMMA Longer ==
  ASSUME HistoryInv, NEW m \in Message, m.id = Len(history) + 1,
         m.role = "tool" => Talk(history) # <<>> /\ Last(Talk(history)).id = m.call
  PROVE  LET h == Append(history, m) IN
           /\ h \in Seq(Message) /\ Known(h) /\ Linked(Talk(h))
           /\ Len(h) = Len(history) + 1
           /\ \A n \in 1..Len(history) : SubSeq(h, 1, n) = SubSeq(history, 1, n)
<1> DEFINE h == Append(history, m)
           l == Len(history)
<1>1. /\ history \in Seq(Message) /\ l \in Nat /\ h \in Seq(Message) /\ Len(h) = l + 1
      /\ \A i \in 1..l : h[i] = history[i] /\ history[i] \in Message /\ history[i].id = i
      /\ h[l + 1] = m /\ m.id = l + 1
  BY AppendProperties, LenProperties, ElementOfSeq DEF HistoryInv, Known
<1>2. Linked(Talk(h))
  <2>1. CASE m.role = "system"
    BY <1>1, <2>1, PartsOf DEF HistoryInv
  <2>2. CASE m.role # "system"
    <3>1. Talk(h) = Append(Talk(history), m) /\ Talk(history) \in Seq(Message)
          /\ Linked(Talk(history))
      BY <1>1, <2>2, PartsOf DEF HistoryInv
    <3> QED  BY <3>1, LinkedAppend
  <2> QED  BY <2>1, <2>2
<1> HIDE DEF h, l
<1>3. \A i \in 1..(l + 1) : h[i].id = i
  <2>1. \A i \in 1..(l + 1) : i = l + 1 \/ i \in 1..l
    BY <1>1
  <2> QED  BY <1>1, <2>1
<1>4. ASSUME NEW n \in 1..l PROVE SubSeq(h, 1, n) = SubSeq(history, 1, n)
  <2>1. n \in Int /\ 1 =< n /\ 1 \in Int /\ 1..n \subseteq 1..l
    BY <1>1
  <2>2. \A k \in 1..n : h[k] = history[k] /\ history[k] \in Message
    BY <1>1, <2>1
  <2>3. SubSeq(h, 1, n) = SubSeq(history, 1, n) /\ SubSeq(h, 1, n) \in Seq(Message)
    BY <2>1, <2>2, SubSeqAgree
  <2> QED  BY <2>3
<1> QED  BY <1>1, <1>2, <1>3, <1>4 DEF Known, h, l

LEMMA AddIs ==
  ASSUME HistoryInv, NEW role \in {"system", "user", "assistant"}, NEW size \in Nat
  PROVE  /\ Add(role, size, 0) \in Message /\ Add(role, size, 0).id = Len(history) + 1
         /\ Add(role, size, 0).role = role
<1>1. Len(history) \in Nat
  BY LenProperties DEF HistoryInv
<1> QED  BY <1>1 DEF Add, New, Message

\* A request stays usable when the history goes on.
LEMMA StillUsable ==
  ASSUME HistoryInv, ForwardedInv, NEW m \in Message, history' = Append(history, m),
         m.id = Len(history) + 1,
         m.role = "tool" => Talk(history) # <<>> /\ Last(Talk(history)).id = m.call,
         UNCHANGED forwarded
  PROVE  HistoryInv' /\ ForwardedInv'
<1>1. HistoryInv'
  BY Longer DEF HistoryInv
<1>2. ForwardedInv'
  <2> SUFFICES ASSUME forwarded' # <<>>
               PROVE  /\ LastId' \in 1..Len(history')
                      /\ Usable(forwarded', SubSeq(history', 1, LastId'))
    BY DEF ForwardedInv
  <2>1. LastId' = LastId
    BY DEF LastId
  <2>2. LastId \in 1..Len(history) /\ Usable(forwarded, SubSeq(history, 1, LastId))
    BY DEF ForwardedInv
  <2>3. Len(history) \in Nat /\ Len(history') = Len(history) + 1
        /\ SubSeq(history', 1, LastId) = SubSeq(history, 1, LastId)
    BY <2>2, Longer, LenProperties DEF HistoryInv
  <2>4. LastId \in 1..Len(history')
    BY <2>2, <2>3
  <2> QED  BY <2>1, <2>2, <2>3, <2>4
<1> QED  BY <1>1, <1>2

\* A message of the user, of the system or of the agent.
LEMMA AddKeeps ==
  ASSUME IInv, NEW role \in {"system", "user", "assistant"}, NEW size \in Nat,
         history' = Append(history, Add(role, size, 0)), delivered' = <<>>,
         UNCHANGED <<forwarded, document, arguments>>
  PROVE  IInv'
<1>1. HistoryInv' /\ ForwardedInv'
  <2>1. PICK m : m = Add(role, size, 0)
    OBVIOUS
  <2>2. m \in Message /\ m.id = Len(history) + 1 /\ m.role # "tool"
    BY <2>1, AddIs DEF IInv
  <2>3. history' = Append(history, m) /\ UNCHANGED forwarded
    BY <2>1
  <2> QED  BY <2>2, <2>3, StillUsable DEF IInv
<1>2. ArgumentsInv'
  BY DEF IInv, ArgumentsInv
<1>3. DeliveredInv'
  BY DEF DeliveredInv
<1> QED  BY <1>1, <1>2, <1>3 DEF IInv

LEMMA ForwardKeeps == ASSUME Configured, IInv, Forward PROVE IInv'
<1>1. HistoryInv /\ UNCHANGED <<history, document, arguments>> /\ Talk(history) # <<>>
  BY DEF IInv, Forward
<1>2. PICK f : f = NormalizePromptForPrefixCache(CompactConversation(history))
  OBVIOUS
<1>3. forwarded' = f /\ delivered' = <<>>
  BY <1>2 DEF Forward
<1>4. /\ Usable(f, history) /\ Max({m.id : m \in ToSet(f)}) = Len(history)
      /\ Len(history) \in 1..Len(history)
  <2>1. history \in Seq(Message) /\ Known(history) /\ Linked(Talk(history))
    BY <1>1 DEF HistoryInv
  <2> QED  BY <1>1, <1>2, <2>1, ForwardUsable
<1>5. SubSeq(history, 1, Len(history)) = history
  BY <1>1, WholeSequence DEF HistoryInv
<1>6. LastId' = Len(history)
  BY <1>3, <1>4 DEF LastId
<1>7. ForwardedInv'
  BY <1>1, <1>3, <1>4, <1>5, <1>6 DEF ForwardedInv
<1>8. HistoryInv' /\ ArgumentsInv' /\ DeliveredInv'
  BY <1>1, <1>3 DEF IInv, HistoryInv, ArgumentsInv, DeliveredInv
<1> QED  BY <1>7, <1>8 DEF IInv

LEMMA FinishKeeps == ASSUME IInv, NEW size \in Nat, Finish(size) PROVE IInv'
<1> DEFINE c == Add("assistant", size, 0)
           l == Len(history)
           h == Append(history, c)
           r == New("tool", size, l + 2, l + 1)
<1>1. HistoryInv /\ ForwardedInv /\ ArgumentsInv /\ l \in Nat /\ history \in Seq(Message)
  BY LenProperties DEF IInv, HistoryInv
<1>2. c \in Message /\ c.id = l + 1 /\ c.role = "assistant" /\ r \in Message
      /\ r.id = l + 2 /\ r.call = l + 1
  <2>1. r \in Message /\ r.id = l + 2 /\ r.call = l + 1
    BY <1>1 DEF New, Message
  <2> QED  BY <1>1, <2>1, AddIs
<1>3. history' = Append(h, r)
  <2>1. history' = history \o <<c, r>>
    BY DEF Finish
  <2>2. <<c>> \in Seq(Message) /\ <<c, r>> = Append(<<c>>, r)
        /\ <<>> \in Seq(Message) /\ <<c>> = Append(<<>>, c)
    BY <1>2, EmptySeq
  <2>3. history \o <<c>> = Append(history \o <<>>, c) /\ history \o <<>> = history
    BY <1>1, <1>2, <2>2, ConcatAppend, ConcatEmptySeq
  <2>4. history \o <<c, r>> = Append(history \o <<c>>, r)
    BY <1>1, <1>2, <2>2, ConcatAppend
  <2> QED  BY <2>1, <2>3, <2>4
<1>4. /\ UNCHANGED forwarded /\ document' = <<>> /\ arguments' = <<>>
      /\ delivered' = [document |-> document, received |-> arguments, text |-> Repaired(arguments)]
  BY DEF Finish
<1> HIDE DEF c, r
<1>5. /\ h \in Seq(Message) /\ Known(h) /\ Linked(Talk(h)) /\ Len(h) = l + 1
      /\ \A n \in 1..l : SubSeq(h, 1, n) = SubSeq(history, 1, n)
  BY <1>1, <1>2, Longer
<1>6. Talk(h) # <<>> /\ Last(Talk(h)).id = l + 1
  <2>1. Talk(h) = Append(Talk(history), c) /\ Talk(history) \in Seq(Message)
    BY <1>1, <1>2, PartsOf
  <2>2. Talk(h) # <<>> /\ Last(Talk(h)) = c
    BY <1>2, <2>1, AppendLast
  <2> QED  BY <1>2, <2>2
<1> HIDE DEF l, h
<1>7. /\ history' \in Seq(Message) /\ Len(history') = l + 2
      /\ \A i \in 1..(l + 1) : history'[i] = h[i] /\ h[i] \in Message
      /\ history'[l + 2] = r
  <2>1. /\ history' \in Seq(Message) /\ Len(history') = Len(h) + 1
        /\ \A i \in 1..Len(h) : history'[i] = h[i] /\ h[i] \in Message
        /\ history'[Len(h) + 1] = r
    BY <1>2, <1>3, <1>5, AppendProperties, ElementOfSeq
  <2> QED  BY <1>1, <1>5, <2>1
<1>8. HistoryInv'
  <2>1. \A i \in 1..(l + 2) : history'[i].id = i
    <3>1. \A i \in 1..(l + 2) : i = l + 2 \/ i \in 1..(l + 1)
      BY <1>1
    <3>2. \A i \in 1..(l + 1) : h[i].id = i
      BY <1>5 DEF Known
    <3> QED  BY <1>2, <1>7, <3>1, <3>2
  <2>2. Linked(Talk(history'))
    <3>1. CASE r.role = "system"
      BY <1>2, <1>3, <1>5, <3>1, PartsOf
    <3>2. CASE r.role # "system"
      <4>1. Talk(history') = Append(Talk(h), r) /\ Talk(h) \in Seq(Message)
        BY <1>2, <1>3, <1>5, <3>2, PartsOf
      <4> QED  BY <1>2, <1>5, <1>6, <4>1, LinkedAppend
    <3> QED  BY <3>1, <3>2
  <2> QED  BY <1>7, <2>1, <2>2 DEF HistoryInv, Known
<1>9. ForwardedInv'
  <2> SUFFICES ASSUME forwarded' # <<>>
               PROVE  /\ LastId' \in 1..Len(history')
                      /\ Usable(forwarded', SubSeq(history', 1, LastId'))
    BY DEF ForwardedInv
  <2>1. LastId' = LastId /\ forwarded' = forwarded
    BY <1>4 DEF LastId
  <2>2. LastId \in 1..l /\ Usable(forwarded, SubSeq(history, 1, LastId))
    BY <1>1, <1>4 DEF ForwardedInv, l
  <2>3. SubSeq(history', 1, LastId) = SubSeq(history, 1, LastId)
    <3>1. PICK n : n = LastId
      OBVIOUS
    <3>2. n \in Int /\ 1 \in Int /\ 1 =< n /\ 1..n \subseteq 1..(l + 1)
      BY <1>1, <2>2, <3>1
    <3>3. \A k \in 1..n : history'[k] = h[k] /\ h[k] \in Message
      BY <1>7, <3>2
    <3>4. SubSeq(history', 1, n) = SubSeq(h, 1, n) /\ SubSeq(history', 1, n) \in Seq(Message)
      BY <3>2, <3>3, SubSeqAgree
    <3> QED  BY <1>5, <2>2, <3>1, <3>4
  <2>4. LastId \in 1..Len(history')
    BY <1>1, <1>7, <2>2
  <2> QED  BY <2>1, <2>2, <2>3, <2>4
<1>10. DeliveredInv'
  <2>1. PICK n \in 0..Len(document) : arguments = SubSeq(document, 1, n)
    BY <1>1 DEF ArgumentsInv
  <2>2. delivered' = Delivery(document, n) /\ document \in Seq(Symbol)
    BY <1>1, <1>4, <2>1 DEF Delivery, ArgumentsInv
  <2> QED  BY <2>2 DEF DeliveredInv
<1>11. ArgumentsInv'
  <2>1. <<>> \in Seq(Symbol) /\ Len(<<>>) = 0 /\ SubSeq(<<>>, 1, 0) = <<>>
    BY EmptySeq, WholeSequence
  <2> QED  BY <1>4, <2>1 DEF ArgumentsInv
<1> QED  BY <1>8, <1>9, <1>10, <1>11 DEF IInv

LEMMA ArgumentsKeep ==
  ASSUME Configured, IInv, \/ Break
                           \/ \E d \in Documents : CallTool(d)
                           \/ \E n \in 1..2 : Observe(n)
  PROVE  IInv'
<1>1. UNCHANGED <<history, forwarded, delivered>>
  BY DEF Break, CallTool, Observe
<1>2. HistoryInv' /\ ForwardedInv' /\ DeliveredInv'
  BY <1>1 DEF IInv, HistoryInv, ForwardedInv, DeliveredInv, LastId
<1>3. <<>> \in Seq(Symbol) /\ Len(<<>>) = 0 /\ SubSeq(<<>>, 1, 0) = <<>>
  BY EmptySeq, WholeSequence
<1>4. ASSUME Break PROVE ArgumentsInv'
  BY <1>3, <1>4 DEF Break, ArgumentsInv
<1>5. ASSUME \E d \in Documents : CallTool(d) PROVE ArgumentsInv'
  <2>1. PICK d \in Documents : CallTool(d)
    BY <1>5
  <2>2. document' = d /\ arguments' = <<>> /\ d \in Seq(Symbol)
    BY <2>1 DEF CallTool, Configured
  <2>3. Len(d) \in Nat /\ 0 \in 0..Len(d) /\ SubSeq(d, 1, 0) = <<>>
    <3>1. Len(d) \in Nat
      BY <2>2, LenProperties
    <3>2. SubSeq(d, 1, 0) \in Seq(Symbol) /\ Len(SubSeq(d, 1, 0)) = 0
      BY SubSeqProperties
    <3> QED  BY <3>1, <3>2, EmptySeq
  <2> QED  BY <2>2, <2>3 DEF ArgumentsInv
<1>6. ASSUME \E n \in 1..2 : Observe(n) PROVE ArgumentsInv'
  <2>1. PICK n \in 1..2 : Observe(n)
    BY <1>6
  <2>2. PICK k : k = Len(arguments) + n
    OBVIOUS
  <2>3. document' = document /\ k =< Len(document) /\ arguments' = SubSeq(document, 1, k)
    BY <2>1, <2>2 DEF Observe
  <2>4. document \in Seq(Symbol) /\ Len(document) \in Nat /\ k \in Nat
    <3>1. PICK j \in 0..Len(document) : arguments = SubSeq(document, 1, j)
      BY DEF IInv, ArgumentsInv
    <3>2. document \in Seq(Symbol) /\ Len(document) \in Nat
          /\ \A i \in 1..Len(document) : document[i] \in Symbol
      BY LenProperties, ElementOfSeq DEF IInv, ArgumentsInv
    <3>3. j \in Int /\ \A i \in 1..j : document[i] \in Symbol
      BY <3>1, <3>2
    <3>4. SubSeq(document, 1, j) \in Seq(Symbol)
      BY <3>3, SubSeqProperties
    <3>5. Len(arguments) \in Nat
      BY <3>1, <3>4, LenProperties
    <3> QED  BY <2>2, <3>2, <3>5
  <2>5. k \in 0..Len(document)
    BY <2>3, <2>4
  <2> QED  BY <2>3, <2>4, <2>5 DEF ArgumentsInv
<1>7. ArgumentsInv'
  BY <1>4, <1>5, <1>6
<1> QED  BY <1>2, <1>7 DEF IInv

LEMMA NextKeeps == ASSUME Configured, IInv, [Next]_vars PROVE IInv'
<1>0. Sizes \subseteq Nat
  BY DEF Configured
<1>1. CASE Forward
  BY <1>1, ForwardKeeps
<1>2. CASE \/ Break
           \/ \E d \in Documents : CallTool(d)
           \/ \E n \in 1..2 : Observe(n)
  BY <1>2, ArgumentsKeep
<1>3. ASSUME NEW size \in Sizes, UserSays(size) \/ SystemSays(size) \/ Answer(size)
      PROVE  IInv'
  <2>1. PICK role \in {"system", "user", "assistant"} :
          /\ history' = Append(history, Add(role, size, 0)) /\ delivered' = <<>>
          /\ UNCHANGED <<forwarded, document, arguments>>
    BY <1>3 DEF UserSays, SystemSays, Answer
  <2> QED  BY <1>0, <2>1, AddKeeps
<1>4. ASSUME NEW size \in Sizes, Finish(size) PROVE IInv'
  BY <1>0, <1>4, FinishKeeps
<1>5. CASE UNCHANGED vars
  BY <1>5 DEF vars, IInv, HistoryInv, ForwardedInv, ArgumentsInv, DeliveredInv, LastId
<1> QED  BY <1>1, <1>2, <1>3, <1>4, <1>5 DEF Next

\* What is delivered for a document of which n symbols came.
LEMMA DeliveredRestored == ASSUME DeliveredInv PROVE ArgumentsAreRestored
<1> SUFFICES ASSUME delivered # <<>> PROVE ArgumentsAreRestored
  BY DEF ArgumentsAreRestored
<1>1. PICK d \in Seq(Symbol) : \E n \in 0..Len(d) : delivered = Delivery(d, n)
  BY DEF DeliveredInv
<1>2. PICK n \in 0..Len(d) : delivered = Delivery(d, n)
  BY <1>1
<1> DEFINE t == SubSeq(d, 1, n)
           u == SubSeq(d, n + 1, Len(d))
<1>3. delivered.document = d /\ delivered.received = t /\ delivered.text = Repaired(t)
  BY <1>2 DEF Delivery
<1>4. /\ Len(d) \in Nat /\ n \in Nat /\ n =< Len(d) /\ \A i \in 1..Len(d) : d[i] \in Symbol
  BY LenProperties, ElementOfSeq
<1>5. t \in Seq(Symbol) /\ Len(t) = n
  <2>1. n \in Int /\ \A i \in 1..n : d[i] \in Symbol
    BY <1>4
  <2>2. t \in Seq(Symbol) /\ Len(t) = IF 1 =< n THEN n - 1 + 1 ELSE 0
    BY <2>1, SubSeqProperties
  <2> QED  BY <1>4, <2>2
<1>6. u \in Seq(Symbol) /\ d = t \o u
  <2>1. CASE n = Len(d)
    <3>1. PICK a : a = n + 1
      OBVIOUS
    <3>2. a \in Int /\ Len(d) \in Int /\ a > Len(d) /\ \A i \in a..Len(d) : d[i] \in Symbol
      BY <1>4, <2>1, <3>1
    <3>3. SubSeq(d, a, Len(d)) \in Seq(Symbol) /\ Len(SubSeq(d, a, Len(d))) = 0
      BY <3>2, SubSeqProperties
    <3>4. u \in Seq(Symbol) /\ u = <<>>
      BY <3>1, <3>3, EmptySeq
    <3>5. t = d /\ t \o <<>> = t
      BY <1>5, <2>1, WholeSequence, ConcatEmptySeq
    <3> QED  BY <3>4, <3>5
  <2>2. CASE n # Len(d)
    <3>1. PICK a : a = n + 1
      OBVIOUS
    <3>2. a \in 1..Len(d) /\ 1 \in 1..a /\ a - 1 = n /\ 1 \in 1..Len(d)
      BY <1>4, <2>2, <3>1
    <3>3. /\ LatestFrom(d, a) \in Seq(Symbol)
          /\ LatestFrom(d, 1) = SubSeq(d, 1, a - 1) \o LatestFrom(d, a)
      BY <3>2, SplitAt
    <3>4. SubSeq(d, 1, Len(d)) = d
      BY WholeSequence
    <3> QED  BY <3>1, <3>2, <3>3, <3>4 DEF LatestFrom
  <2> QED  BY <2>1, <2>2
<1> HIDE DEF t, u
<1>7. /\ IsPrefix(t, Repaired(t))
      /\ Repaired(t) # t => Parsed(Repaired(t)) /\ ~Parsed(t)
  BY <1>5, RepairedExtends
<1>8. ASSUME Parsed(d), ToSet(u) \subseteq Closing, Last(t) # "w" PROVE Repaired(t) = d
  <2>1. u \in Seq(Closing)
    <3>1. Len(u) \in Nat /\ DOMAIN u = 1..Len(u) /\ u = [i \in 1..Len(u) |-> u[i]]
      BY <1>6, LenProperties
    <3>2. \A i \in 1..Len(u) : u[i] \in Closing
      BY <1>8, <3>1 DEF ToSet
    <3>3. u \in [1..Len(u) -> Closing]
      BY <3>1, <3>2
    <3> QED  BY <3>1, <3>3, SeqDef
  <2> QED  BY <1>5, <1>6, <1>8, <2>1, BracketsComeBack
<1>9. Len(delivered.received) = n
  BY <1>3, <1>5
<1>10. SubSeq(delivered.document, Len(delivered.received) + 1, Len(delivered.document)) = u
  BY <1>3, <1>9 DEF u
<1>11. Parsed(delivered.document)
         /\ ToSet(SubSeq(delivered.document, Len(delivered.received) + 1, Len(delivered.document)))
              \subseteq Closing
         => delivered.text = IF Last(delivered.received) = "w"
                             THEN delivered.received ELSE delivered.document
  <2>1. Last(t) = "w" => Repaired(t) = t
    BY <1>5, BlankEnds
  <2> QED  BY <1>3, <1>8, <1>10, <2>1
<1> QED  BY <1>3, <1>7, <1>11, Zenon DEF ArgumentsAreRestored

\* The invariant says what the property does.
LEMMA IInvUsable == ASSUME IInv PROVE TrafficStaysUsable
<1>1. RequestsStayUsable
  BY DEF IInv, ForwardedInv, RequestsStayUsable, Past
<1> QED  BY <1>1, DeliveredRestored DEF IInv, TrafficStaysUsable

\* TrafficStaysUsable: whatever a session says and however its tool calls are cut
\* off, a request that the gateway forwards ends with the latest messages in
\* their order, keeps within the budget or is down to one turn, drops nothing
\* that fits and no call of a result it keeps; and the arguments of a call reach
\* the client as they came or closed to JSON: as the model wrote them when only
\* closing brackets were lost, unless white space stood before those.
THEOREM TheTrafficStaysUsable == Configured => (Spec => []TrafficStaysUsable)
<1> SUFFICES ASSUME Configured PROVE Spec => []TrafficStaysUsable
  OBVIOUS
<1>1. Init => IInv
  BY InitTrue
<1>2. IInv /\ [Next]_vars => IInv'
  BY NextKeeps
<1>3. IInv => TrafficStaysUsable
  BY IInvUsable
<1> QED  BY <1>1, <1>2, <1>3, PTL DEF Spec

-----------------------------------------------------------------------------
(* Types *)

\* The history is within its bound, and a document is one of those there are.
Bounded == Len(history) =< MaxMessages /\ document \in Documents \cup {<<>>}

LEMMA HistoryBounded ==
  ASSUME Configured, HistoryInv, Len(history) =< MaxMessages, [Next]_vars
  PROVE  Len(history') =< MaxMessages
<1>1. history \in Seq(Message) /\ Len(history) \in Nat /\ MaxMessages \in Nat
  BY LenProperties DEF HistoryInv, Configured
<1>2. CASE history' = history
  BY <1>1, <1>2
<1>3. ASSUME NEW m, Len(history) < MaxMessages, history' = Append(history, m)
      PROVE  Len(history') =< MaxMessages
  <2>1. history \in Seq(Message \cup {m}) /\ m \in Message \cup {m}
    BY <1>1, SeqMonotonic
  <2>2. Len(history') = Len(history) + 1
    BY <1>3, <2>1, AppendProperties
  <2> QED  BY <1>1, <1>3, <2>2
<1>4. ASSUME NEW m, NEW n, Len(history) + 2 =< MaxMessages, history' = history \o <<m, n>>
      PROVE  Len(history') =< MaxMessages
  <2> DEFINE E == Message \cup {m, n}
  <2>1. history \in Seq(E) /\ <<m, n>> \in Seq(E) /\ Len(<<m, n>>) = 2
    BY <1>1, SeqMonotonic
  <2>2. Len(history') = Len(history) + 2
    BY <1>4, <2>1, ConcatProperties
  <2> QED  BY <1>1, <1>4, <2>2
<1>5. \/ history' = history
      \/ \E m : Len(history) < MaxMessages /\ history' = Append(history, m)
      \/ \E m, n : Len(history) + 2 =< MaxMessages /\ history' = history \o <<m, n>>
  BY Zenon DEF Next, vars, Forward, Break, UserSays, SystemSays, Answer, Finish, CallTool,
               Observe, Asked, Quiet
<1> QED  BY <1>2, <1>3, <1>4, <1>5, Zenon

LEMMA NextBounded ==
  ASSUME Configured, IInv, Bounded, [Next]_vars
  PROVE  Bounded'
<1>1. Len(history') =< MaxMessages
  BY HistoryBounded DEF IInv, Bounded
<1>2. document' = document \/ document' = <<>> \/ document' \in Documents
  BY Zenon DEF Next, vars, Forward, Break, UserSays, SystemSays, Answer, Finish, CallTool,
               Observe
<1> QED  BY <1>1, <1>2 DEF Bounded

LEMMA BoundedTypes == ASSUME IInv, Bounded PROVE TypeOK
<1>1. \A i \in DOMAIN history : history[i].id = i
  <2>1. history \in Seq(Message) /\ \A i \in 1..Len(history) : history[i].id = i
    BY DEF IInv, HistoryInv, Known
  <2> QED  BY <2>1, LenProperties
<1>2. IsPrefix(arguments, document)
  <2>1. PICK n \in 0..Len(document) : arguments = SubSeq(document, 1, n)
    BY DEF IInv, ArgumentsInv
  <2>2. PICK t : t = SubSeq(document, 1, n)
    OBVIOUS
  <2>3. /\ document \in Seq(Symbol) /\ Len(document) \in Nat
        /\ \A i \in 1..Len(document) : document[i] \in Symbol
    BY LenProperties, ElementOfSeq DEF IInv, ArgumentsInv
  <2>4. n \in Int /\ 1 \in Int /\ n =< Len(document) /\ \A i \in 1..n : document[i] \in Symbol
    BY <2>3
  <2>5. /\ t \in Seq(Symbol) /\ Len(t) = n
        /\ \A i \in 1..n : document[i] = t[i]
    BY <2>2, <2>4, SubSeqProperties
  <2>6. IsPrefix(t, document)
    BY <2>3, <2>4, <2>5, PrefixByElements
  <2> QED  BY <2>1, <2>2, <2>6
<1> QED  BY <1>1, <1>2 DEF Bounded, TypeOK

\* Types of the traffic: a message's id is its place, and what the tracker has
\* accumulated is the beginning of what the model is writing.
THEOREM TypeCorrect == Configured => (Spec => []TypeOK)
<1> SUFFICES ASSUME Configured PROVE Spec => []TypeOK
  OBVIOUS
<1>1. Init => IInv /\ Bounded
  <2> SUFFICES ASSUME Init PROVE Bounded
    BY InitTrue
  <2>1. Len(<<>>) = 0 /\ MaxMessages \in Nat
    BY EmptySeq DEF Configured
  <2> QED  BY <2>1 DEF Init, Bounded
<1>2. IInv /\ Bounded /\ [Next]_vars => (IInv /\ Bounded)'
  BY NextKeeps, NextBounded
<1>3. IInv /\ Bounded => TypeOK
  BY BoundedTypes
<1> QED  BY <1>1, <1>2, <1>3, PTL DEF Spec
=============================================================================
