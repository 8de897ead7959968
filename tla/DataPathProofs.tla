---------------------------- MODULE DataPathProofs ----------------------------
(***************************************************************************)
(* Proofs about DataPath, for any set of texts and requests, any limits,   *)
(* any ring and every cut of bodies and streams into chunks: the routes    *)
(* agree, upstream gets what was counted, the grant covers it, the         *)
(* prepared bytes are exact and both readers find the same usage.          *)
(***************************************************************************)
EXTENDS DataPath, SequenceTheorems, FiniteSetTheorems, FunctionTheorems, WellFoundedInduction, TLAPS

(***************************************************************************)
(* Induction. A set of numbers has a least one, so a set with 0 that is    *)
(* closed under successors has them all. What is proved by induction is    *)
(* stated as such a set.                                                   *)
(***************************************************************************)

\* Every non-empty set of natural numbers has a least element.
LEMMA LeastNumber ==
  ASSUME NEW T, T \subseteq Nat, T # {}
  PROVE  \E x \in T : \A y \in T : x =< y
<1>1. IsWellFoundedOn(OpToRel(<,Nat), Nat)
  BY NatLessThanWellFounded
<1>2. PICK x \in T : \A y \in T : ~ (<<y, x>> \in OpToRel(<,Nat))
  BY <1>1, WFMin
<1>3. \A y \in T : ~(y < x)
  BY <1>2 DEF OpToRel
<1>4. \A y \in T : x =< y
  <2> TAKE y \in T
  <2>1. x \in Nat /\ y \in Nat
    BY <1>2
  <2> QED BY <1>3, <2>1
<1> QED BY <1>4

\* Induction over the natural numbers for a property given as a set.
LEMMA Induction ==
  ASSUME NEW P, 0 \in P, \A n \in Nat : n \in P => n + 1 \in P
  PROVE  \A n \in Nat : n \in P
<1> DEFINE T == {n \in Nat : n \notin P}
<1>1. ASSUME T # {}
      PROVE  FALSE
  <2>1. PICK x \in T : \A y \in T : x =< y
    <3> HIDE DEF T
    <3>1. T \subseteq Nat
      BY DEF T
    <3> QED BY <1>1, <3>1, LeastNumber
  <2>2. x \in Nat /\ x # 0 /\ x - 1 \in Nat
    BY <2>1
  <2>3. x - 1 \in P
    BY <2>1, <2>2
  <2> QED BY <2>1, <2>2, <2>3
<1> QED BY <1>1

\* The minimum of a non-empty set of numbers is its least element.
LEMMA MinIsLeast ==
  ASSUME NEW T, T \subseteq Nat, T # {}
  PROVE  Min(T) \in T /\ \A y \in T : Min(T) =< y
BY LeastNumber DEF Min

\* A bounded set of numbers has a greatest one, which is its maximum.
LEMMA MaxIsGreatest ==
  ASSUME NEW n \in Nat, NEW T, T \subseteq 0..n, T # {}
  PROVE  Max(T) \in T /\ \A y \in T : Max(T) >= y
<1> DEFINE D == {k \in Nat : n - k \in T}
<1>1. D \subseteq Nat /\ D # {}
  <2>1. PICK y \in T : TRUE
    OBVIOUS
  <2>2. n - y \in Nat /\ n - (n - y) = y
    BY <2>1
  <2> QED BY <2>1, <2>2
<1>2. PICK k \in D : \A j \in D : k =< j
  BY <1>1, LeastNumber
<1>3. n - k \in T /\ \A y \in T : n - k >= y
  <2>1. n - k \in T
    BY <1>2
  <2>2. ASSUME NEW y \in T
        PROVE  n - k >= y
    <3>1. n - y \in Nat /\ n - (n - y) = y /\ y \in Nat
      BY <2>2
    <3>2. n - y \in D
      BY <3>1
    <3>3. k =< n - y /\ k \in Nat
      BY <1>2, <3>2
    <3> QED BY <3>1, <3>3
  <2> QED BY <2>1, <2>2
<1> QED BY <1>3 DEF Max

(***************************************************************************)
(* Sums and flattened sequences.                                           *)
(***************************************************************************)

\* The recursive function of Total exists.
LEMMA TotalDefined ==
  ASSUME NEW numbers \in Seq(Nat)
  PROVE  \E sum : /\ sum = [n \in 0..Len(numbers) |-> IF n = 0 THEN 0 ELSE sum[n - 1] + numbers[n]]
                  /\ Total(numbers) = sum[Len(numbers)]
<1> DEFINE Sums(m, sum) == sum = [n \in 0..m |-> IF n = 0 THEN 0 ELSE sum[n - 1] + numbers[n]]
           P == {m \in Nat : \E sum : Sums(m, sum)}
<1>1. 0 \in P
  <2>1. Sums(0, [n \in 0..0 |-> 0])
    OBVIOUS
  <2> QED BY <2>1
<1>2. ASSUME NEW m \in Nat, m \in P
      PROVE  m + 1 \in P
  <2>1. PICK f : Sums(m, f)
    BY <1>2
  <2> DEFINE g == [n \in 0..(m + 1) |-> IF n = m + 1 THEN f[m] + numbers[n] ELSE f[n]]
  <2>2. ASSUME NEW n \in 0..(m + 1)
        PROVE  g[n] = IF n = 0 THEN 0 ELSE g[n - 1] + numbers[n]
    <3>1. CASE n = m + 1
      BY <3>1
    <3>2. CASE n \in 0..m
      <4>1. g[n] = f[n] /\ (n # 0 => g[n - 1] = f[n - 1])
        BY <3>2
      <4> HIDE DEF g
      <4> QED BY <2>1, <3>2, <4>1
    <3> QED BY <3>1, <3>2
  <2>3. Sums(m + 1, g)
    BY <2>2
  <2>4. \E sum : Sums(m + 1, sum)
    <3> HIDE DEF Sums, g
    <3> QED BY <2>3, Zenon
  <2>5. m + 1 \in Nat
    OBVIOUS
  <2> HIDE DEF Sums
  <2> QED BY <2>4, <2>5
<1>3. \A m \in Nat : m \in P
  <2> HIDE DEF P
  <2> QED BY <1>1, <1>2, Induction
<1>4. Len(numbers) \in P
  BY <1>3, LenProperties
<1> QED BY <1>4 DEF Total

\* A sum of numbers is a number, and grows with each of them.
LEMMA TotalMonotone ==
  ASSUME NEW a \in Seq(Nat), NEW b \in Seq(Nat), Len(a) = Len(b),
         \A i \in 1..Len(a) : a[i] =< b[i]
  PROVE  Total(a) \in Nat /\ Total(b) \in Nat /\ Total(a) =< Total(b)
<1>1. PICK f : /\ f = [n \in 0..Len(a) |-> IF n = 0 THEN 0 ELSE f[n - 1] + a[n]]
               /\ Total(a) = f[Len(a)]
  BY TotalDefined
<1>2. PICK g : /\ g = [n \in 0..Len(b) |-> IF n = 0 THEN 0 ELSE g[n - 1] + b[n]]
               /\ Total(b) = g[Len(b)]
  BY TotalDefined
<1> DEFINE P == {n \in Nat : n =< Len(a) => f[n] \in Nat /\ g[n] \in Nat /\ f[n] =< g[n]}
<1>3. Len(a) \in Nat
  BY LenProperties
<1>4. 0 \in P
  <2>1. f[0] = 0 /\ g[0] = 0
    BY <1>1, <1>2, <1>3
  <2> QED BY <2>1
<1>5. ASSUME NEW n \in Nat, n \in P
      PROVE  n + 1 \in P
  <2>1. CASE n + 1 =< Len(a)
    <3>1. f[n] \in Nat /\ g[n] \in Nat /\ f[n] =< g[n]
      BY <1>3, <1>5, <2>1
    <3>2. n + 1 \in 1..Len(a)
      BY <1>3, <2>1
    <3>3. a[n + 1] \in Nat /\ b[n + 1] \in Nat /\ a[n + 1] =< b[n + 1]
      BY <3>2, ElementOfSeq
    <3>4. f[n + 1] = f[n] + a[n + 1] /\ g[n + 1] = g[n] + b[n + 1]
      BY <1>1, <1>2, <1>3, <3>2
    <3>5. f[n + 1] \in Nat /\ g[n + 1] \in Nat /\ f[n + 1] =< g[n + 1]
      BY <3>1, <3>3, <3>4, SMTT(40)
    <3> QED BY <3>5
  <2>2. CASE ~(n + 1 =< Len(a))
    BY <2>2
  <2> QED BY <2>1, <2>2
<1>6. Len(a) \in P
  <2> HIDE DEF P
  <2> QED BY <1>3, <1>4, <1>5, Induction
<1> QED BY <1>1, <1>2, <1>3, <1>6

\* The recursive function of FlattenSeq exists.
LEMMA FlattenDefined ==
  ASSUME NEW S, NEW seqs \in Seq(Seq(S)), Len(seqs) # 0
  PROVE  \E f : /\ f = [i \in 1..Len(seqs) |-> IF i = 1 THEN seqs[i] ELSE f[i - 1] \o seqs[i]]
                /\ FlattenSeq(seqs) = f[Len(seqs)]
<1> DEFINE Flat(n, f) == f = [i \in 1..n |-> IF i = 1 THEN seqs[i] ELSE f[i - 1] \o seqs[i]]
           P == {n \in Nat : \E f : Flat(n, f)}
<1>1. 0 \in P
  <2>1. Flat(0, [i \in 1..0 |-> 0])
    OBVIOUS
  <2> QED BY <2>1
<1>2. ASSUME NEW n \in Nat, n \in P
      PROVE  n + 1 \in P
  <2>1. PICK f : Flat(n, f)
    BY <1>2
  <2> DEFINE g == [i \in 1..(n + 1) |-> IF i = n + 1 THEN IF i = 1 THEN seqs[i] ELSE f[n] \o seqs[i]
                                        ELSE f[i]]
  <2>2. ASSUME NEW i \in 1..(n + 1)
        PROVE  g[i] = IF i = 1 THEN seqs[i] ELSE g[i - 1] \o seqs[i]
    <3>1. CASE i = n + 1
      BY <3>1
    <3>2. CASE i \in 1..n
      <4>1. g[i] = f[i] /\ (i # 1 => g[i - 1] = f[i - 1])
        BY <3>2
      <4> HIDE DEF g
      <4> QED BY <2>1, <3>2, <4>1
    <3> QED BY <3>1, <3>2
  <2>3. Flat(n + 1, g)
    BY <2>2
  <2> HIDE DEF g
  <2>4. (\E flat : Flat(n + 1, flat)) /\ n + 1 \in Nat
    <3> HIDE DEF Flat
    <3> QED BY <2>3
  <2> QED BY <2>4
<1>3. \A n \in Nat : n \in P
  <2> HIDE DEF P
  <2> QED BY <1>1, <1>2, Induction
<1>4. Len(seqs) \in P
  BY <1>3, LenProperties
<1> QED BY <1>4 DEF FlattenSeq

\* Sequences of one kind are joined to one of that kind; if none is empty the
\* result begins as the first and ends as the last of them.
LEMMA FlattenFacts ==
  ASSUME NEW S, NEW seqs \in Seq(Seq(S))
  PROVE  /\ FlattenSeq(seqs) \in Seq(S)
         /\ seqs = <<>> => FlattenSeq(seqs) = <<>>
         /\ seqs # <<>> /\ (\A i \in 1..Len(seqs) : seqs[i] # <<>>) =>
               LET flat == FlattenSeq(seqs)
                   last == seqs[Len(seqs)]
               IN  flat # <<>> /\ flat[1] = seqs[1][1] /\ flat[Len(flat)] = last[Len(last)]
<1>1. Len(seqs) \in Nat /\ DOMAIN seqs = 1..Len(seqs) /\ \A i \in 1..Len(seqs) : seqs[i] \in Seq(S)
  BY LenProperties, ElementOfSeq
<1>2. CASE Len(seqs) = 0
  <2>1. seqs = <<>> /\ FlattenSeq(seqs) = <<>>
    BY <1>1, <1>2, EmptySeq DEF FlattenSeq
  <2> QED BY <2>1, EmptySeq
<1>3. CASE Len(seqs) # 0
  <2>1. PICK f : /\ f = [i \in 1..Len(seqs) |-> IF i = 1 THEN seqs[i] ELSE f[i - 1] \o seqs[i]]
                 /\ FlattenSeq(seqs) = f[Len(seqs)]
    BY <1>3, FlattenDefined
  <2> DEFINE filled == \A i \in 1..Len(seqs) : seqs[i] # <<>>
             P == {n \in Nat : n + 1 =< Len(seqs) =>
                     /\ f[n + 1] \in Seq(S)
                     /\ filled => /\ f[n + 1] # <<>> /\ f[n + 1][1] = seqs[1][1]
                                  /\ f[n + 1][Len(f[n + 1])] = seqs[n + 1][Len(seqs[n + 1])]}
  <2>2. 0 \in P
    <3>1. f[1] = seqs[1] /\ seqs[1] \in Seq(S)
      BY <1>1, <1>3, <2>1
    <3>2. filled => seqs[1] # <<>>
      BY <1>1, <1>3
    <3> HIDE DEF filled
    <3> QED BY <3>1, <3>2
  <2>3. ASSUME NEW n \in Nat, n \in P
        PROVE  n + 1 \in P
    <3> SUFFICES ASSUME n + 2 =< Len(seqs)
                 PROVE  /\ f[n + 2] \in Seq(S)
                        /\ filled => /\ f[n + 2] # <<>> /\ f[n + 2][1] = seqs[1][1]
                                     /\ f[n + 2][Len(f[n + 2])] = seqs[n + 2][Len(seqs[n + 2])]
      BY <2>3
    <3>1. /\ f[n + 1] \in Seq(S)
          /\ filled => f[n + 1] # <<>> /\ f[n + 1][1] = seqs[1][1]
      BY <1>1, <2>3
    <3>0. n + 2 \in 1..Len(seqs) /\ n + 2 # 1 /\ (n + 2) - 1 = n + 1
      BY <1>1
    <3>2. /\ seqs[n + 2] \in Seq(S)
          /\ filled => seqs[n + 2] # <<>>
          /\ f[n + 2] = f[n + 1] \o seqs[n + 2]
      <4>1. f[n + 2] = f[(n + 2) - 1] \o seqs[n + 2]
        BY ONLY <2>1, <3>0
      <4> QED BY <1>1, <3>0, <4>1
    <3> DEFINE a == f[n + 1]
               b == seqs[n + 2]
    <3>3. /\ Len(a) \in Nat /\ (filled => Len(a) > 0)
          /\ Len(b) \in Nat /\ (filled => Len(b) > 0)
      BY <3>1, <3>2, EmptySeq, LenProperties
    <3> HIDE DEF a, b, filled
    <3>4. /\ a \o b \in Seq(S) /\ Len(a \o b) = Len(a) + Len(b)
          /\ \A i \in 1..(Len(a) + Len(b)) : (a \o b)[i] = IF i =< Len(a) THEN a[i] ELSE b[i - Len(a)]
      BY <3>1, <3>2, ConcatProperties DEF a, b
    <3>5. filled => /\ a \o b # <<>> /\ (a \o b)[1] = a[1]
                    /\ (a \o b)[Len(a \o b)] = b[Len(b)]
      BY <3>3, <3>4, EmptySeq
    <3> QED BY <3>1, <3>2, <3>4, <3>5 DEF a, b
  <2>4. Len(seqs) - 1 \in Nat /\ (Len(seqs) - 1) + 1 = Len(seqs)
    BY <1>1, <1>3
  <2>5. Len(seqs) - 1 \in P
    <3> HIDE DEF P
    <3>1. \A n \in Nat : n \in P
      BY <2>2, <2>3, Induction
    <3> QED BY <2>4, <3>1
  <2>6. /\ f[Len(seqs)] \in Seq(S)
        /\ filled => /\ f[Len(seqs)] # <<>> /\ f[Len(seqs)][1] = seqs[1][1]
                     /\ f[Len(seqs)][Len(f[Len(seqs)])] = seqs[Len(seqs)][Len(seqs[Len(seqs)])]
    <3> HIDE DEF filled
    <3> QED BY <2>4, <2>5
  <2>7. seqs # <<>>
    BY <1>3, EmptySeq
  <2> QED BY <2>1, <2>6, <2>7
<1> QED BY <1>1, <1>2, <1>3

(***************************************************************************)
(* What a request counts as.                                               *)
(***************************************************************************)

WalkError == {"none", "invalid_body", "non_text"}
Walk == [error : WalkError, texts : Seq(Texts)]

\* A function on the first numbers is a sequence.
LEMMA FunctionIsSeq ==
  ASSUME NEW S, NEW n \in Nat, NEW f \in [1..n -> S]
  PROVE  f \in Seq(S) /\ Len(f) = n /\ DOMAIN f = 1..n
<1>1. f \in Seq(S)
  BY SeqDef
<1>2. DOMAIN f = 1..n /\ DOMAIN f = 1..Len(f) /\ Len(f) \in Nat
  BY <1>1, LenProperties
<1> QED BY <1>1, <1>2

\* Walks one after the other are a walk, and without an error if each of them is.
LEMMA FirstErrorFacts ==
  ASSUME NEW walks \in Seq(Walk)
  PROVE  /\ FirstError(walks) \in Walk
         /\ FirstError(walks).error = "none" <=> \A i \in 1..Len(walks) : walks[i].error = "none"
<1> DEFINE failed == {i \in DOMAIN walks : walks[i].error # "none"}
           texts == [i \in DOMAIN walks |-> walks[i].texts]
<1>1. Len(walks) \in Nat /\ DOMAIN walks = 1..Len(walks) /\ \A i \in 1..Len(walks) : walks[i] \in Walk
  BY LenProperties, ElementOfSeq
<1>2. CASE failed # {}
  <2>1. failed \subseteq Nat
    BY <1>1
  <2>2. Min(failed) \in failed
    <3> HIDE DEF failed
    <3> QED BY <1>2, <2>1, MinIsLeast
  <2>3. walks[Min(failed)].error \in WalkError \ {"none"}
    BY <1>1, <2>2 DEF Walk
  <2>4. FirstError(walks) = Refused(walks[Min(failed)].error)
    BY <1>2 DEF FirstError
  <2>5. <<>> \in Seq(Texts)
    BY EmptySeq
  <2>6. ~ \A i \in 1..Len(walks) : walks[i].error = "none"
    BY <1>1, <1>2
  <2> QED BY <2>3, <2>4, <2>5, <2>6 DEF Refused, Walk
<1>3. CASE failed = {}
  <2>1. texts \in [1..Len(walks) -> Seq(Texts)]
    BY <1>1 DEF Walk
  <2>2. texts \in Seq(Seq(Texts))
    <3> HIDE DEF texts
    <3> QED BY <1>1, <2>1, FunctionIsSeq
  <2>3. FlattenSeq(texts) \in Seq(Texts)
    <3> HIDE DEF texts
    <3> QED BY <2>2, FlattenFacts
  <2>4. FirstError(walks) = Accepted(FlattenSeq(texts))
    BY <1>3 DEF FirstError
  <2>5. \A i \in 1..Len(walks) : walks[i].error = "none"
    BY <1>1, <1>3
  <2> HIDE DEF texts
  <2> QED BY <2>3, <2>4, <2>5 DEF Accepted, Walk, WalkError
<1> QED BY <1>2, <1>3

\* What is walked of a content.
LEMMA WalkContentType ==
  ASSUME NEW content \in Content, NEW allowed, NEW unknownError \in WalkError
  PROVE  WalkContent(content, allowed, unknownError) \in Walk
<1> DEFINE parts == content.parts
           walks == [i \in DOMAIN parts |-> WalkPart(parts[i], allowed, unknownError)]
           texts == [i \in DOMAIN parts |-> parts[i].text]
<1>1. /\ parts \in Seq(Part) /\ Len(parts) \in Nat /\ DOMAIN parts = 1..Len(parts)
      /\ \A i \in 1..Len(parts) : parts[i] \in Part
  <2>1. parts \in Seq(Part)
    BY DEF Content
  <2> HIDE DEF parts
  <2> QED BY <2>1, LenProperties, ElementOfSeq
<1>2. <<>> \in Seq(Texts)
  BY EmptySeq
<1>3. \A t \in Texts : <<t>> \in Seq(Texts)
  OBVIOUS
<1> HIDE DEF parts
<1>4. \A i \in 1..Len(parts) : WalkPart(parts[i], allowed, unknownError) \in Walk
  BY <1>1, <1>2, <1>3 DEF WalkPart, Part, Walk, WalkError, Refused, Accepted
<1>5. walks \in [1..Len(parts) -> Walk]
  BY <1>1, <1>4
<1>6. FirstError(walks) \in Walk
  <2> HIDE DEF walks
  <2> QED BY <1>1, <1>5, FunctionIsSeq, FirstErrorFacts
<1>7. texts \in [1..Len(parts) -> Texts]
  BY <1>1 DEF Part
<1>8. texts \in Seq(Texts)
  <2> HIDE DEF texts
  <2> QED BY <1>1, <1>7, FunctionIsSeq
<1>9. Refused(unknownError) \in Walk /\ Accepted(texts) \in Walk
  <2> HIDE DEF texts
  <2> QED BY <1>2, <1>8 DEF Walk, WalkError, Refused, Accepted
<1> HIDE DEF walks, texts
<1> QED BY <1>6, <1>9 DEF WalkContent, TextsOf, parts, walks, texts

\* What is walked of two parts of an item, one after the other.
LEMMA TwoWalks ==
  ASSUME NEW a \in Walk, NEW b \in Walk
  PROVE  FirstError(<<a, b>>) \in Walk
<1>1. <<a, b>> \in Seq(Walk)
  OBVIOUS
<1> QED BY <1>1, FirstErrorFacts

\* What is walked of an item of either endpoint.
LEMMA WalkItemType ==
  ASSUME NEW item \in Item
  PROVE  WalkItem(item) \in Walk /\ WalkChatMessage(item) \in Walk
<1>1. /\ item.content \in Content /\ Accepted(item.extras) \in Walk
      /\ \A e \in WalkError : Refused(e) \in Walk
  BY EmptySeq DEF Item, Walk, WalkError, Accepted, Refused
<1>2. \A allowed : /\ WalkContent(item.content, allowed, "invalid_body") \in Walk
                   /\ WalkContent(item.content, allowed, "non_text") \in Walk
  BY <1>1, WalkContentType DEF WalkError
<1>3. WalkResponseMessage(item) \in Walk
  BY <1>1, <1>2 DEF WalkResponseMessage, WalkError
<1>4. FirstError(<<Accepted(item.extras), WalkContent(item.content, {"input_text", "text"}, "invalid_body")>>)
        \in Walk
  BY <1>1, <1>2, TwoWalks
<1>5. Refused("invalid_body") \in Walk
  BY <1>1 DEF WalkError
<1>6. WalkItem(item) \in Walk
  BY <1>1, <1>2, <1>3, <1>4, <1>5 DEF WalkItem
<1>7. WalkChatMessage(item) \in Walk
  BY <1>1, <1>2, TwoWalks DEF WalkChatMessage
<1> QED BY <1>6, <1>7

NormalizeError == WalkError \cup {"max_tokens_conflict", "input_too_large"}
Counted == [error : {"none"}, texts : Seq(Texts), opaque : Nat, count : Nat, max : Nat \ {0},
            toolUse : BOOLEAN]

\* The walks of the items, and the sums over them.
LEMMA ItemsFacts ==
  ASSUME NEW items \in Seq(Item)
  PROVE  /\ Len(items) \in Nat /\ DOMAIN items = 1..Len(items)
         /\ [i \in DOMAIN items |-> WalkItem(items[i])] \in Seq(Walk)
         /\ [i \in DOMAIN items |-> WalkChatMessage(items[i])] \in Seq(Walk)
         /\ Total([i \in DOMAIN items |-> items[i].opaque]) \in Nat
<1>1. Len(items) \in Nat /\ DOMAIN items = 1..Len(items) /\ \A i \in 1..Len(items) : items[i] \in Item
  BY LenProperties, ElementOfSeq
<1>2. [i \in DOMAIN items |-> WalkItem(items[i])] \in [1..Len(items) -> Walk]
  BY <1>1, WalkItemType
<1>3. [i \in DOMAIN items |-> WalkChatMessage(items[i])] \in [1..Len(items) -> Walk]
  BY <1>1, WalkItemType
<1>4. [i \in DOMAIN items |-> items[i].opaque] \in [1..Len(items) -> Nat]
  BY <1>1 DEF Item
<1> DEFINE opaque == [i \in DOMAIN items |-> items[i].opaque]
<1>5. Total(opaque) \in Nat
  <2> HIDE DEF opaque
  <2>1. opaque \in Seq(Nat)
    BY <1>1, <1>4, FunctionIsSeq DEF opaque
  <2>2. \A i \in 1..Len(opaque) : opaque[i] =< opaque[i]
    BY <2>1, ElementOfSeq
  <2> QED BY <2>1, <2>2, TotalMonotone
<1> QED BY <1>1, <1>2, <1>3, <1>5, FunctionIsSeq

\* A limit that is not refused is a positive number.
LEMMA LimitFacts ==
  ASSUME NEW limit \in {NoLimit, BadLimit} \cup (Nat \ {0}), limit # BadLimit
  PROVE  /\ LimitOr(limit, DefaultMaxOutput) \in Nat \ {0}
         /\ \A other \in Nat \ {0} : LimitOr(limit, other) \in Nat \ {0}
BY DEF LimitOr, NoLimit, BadLimit, DefaultMaxOutput

\* What a normalization returns: one of its errors, or a count.
IsResult(n) == n.error \in NormalizeError /\ (n.error = "none" => n \in Counted)

\* A refusal is such a result.
LEMMA NotNormalizedFacts ==
  ASSUME NEW e \in NormalizeError, e # "none"
  PROVE  IsResult(NotNormalized(e))
BY DEF IsResult, NotNormalized, NormalizedRequest

\* So is the record of what was counted.
LEMMA NormalizedFacts ==
  ASSUME NEW texts \in Seq(Texts), NEW opaque \in Nat, NEW count \in Nat, NEW max \in Nat \ {0},
         NEW toolUse \in BOOLEAN
  PROVE  IsResult(NormalizedRequest("none", texts, opaque, count, max, toolUse))
BY Zenon DEF IsResult, NormalizedRequest, Counted, NormalizeError, WalkError

\* A chat body is refused for one of the errors, or counted.
LEMMA ChatType ==
  ASSUME NEW body \in Body, NEW maxInputBytes
  PROVE  IsResult(NormalizeChatCompletions(body, maxInputBytes))
<1> DEFINE walk == FirstError([i \in DOMAIN body.items |-> WalkChatMessage(body.items[i])])
           texts == walk.texts \o body.extras
           calls == \E i \in DOMAIN body.items : body.items[i].type # "message"
           max == LimitOr(body.max, LimitOr(body.legacyMax, DefaultMaxOutput))
           tool == body.tools \/ calls
           n == NormalizeChatCompletions(body, maxInputBytes)
<1>1. /\ body.items \in Seq(Item) /\ body.extras \in Seq(Texts) /\ body.tools \in BOOLEAN
      /\ body.max \in {NoLimit, BadLimit} \cup (Nat \ {0})
      /\ body.legacyMax \in {NoLimit, BadLimit} \cup (Nat \ {0})
  BY DEF Body
<1>2. walk \in Walk /\ Len(body.items) \in Nat
  BY <1>1, ItemsFacts, FirstErrorFacts
<1>3. texts \in Seq(Texts)
  <2> HIDE DEF walk
  <2>1. walk.texts \in Seq(Texts)
    BY <1>2 DEF Walk
  <2> QED BY <1>1, <2>1, ConcatProperties
<1>4. BadLimit \notin {body.max, body.legacyMax} => max \in Nat \ {0}
  BY <1>1, LimitFacts
<1>5. \/ n = NotNormalized("invalid_body") \/ n = NotNormalized("max_tokens_conflict")
      \/ n = NotNormalized("input_too_large")
      \/ n = NotNormalized(walk.error) /\ walk.error # "none"
      \/ /\ n = NormalizedRequest("none", texts, 0, Len(body.items), max, tool)
         /\ BadLimit \notin {body.max, body.legacyMax}
  <2> HIDE DEF walk, calls, max
  <2> QED BY DEF NormalizeChatCompletions, walk, calls, max
<1>6. tool \in BOOLEAN
  OBVIOUS
<1> HIDE DEF walk, texts, calls, max, n, tool
<1>7. /\ IsResult(NotNormalized("invalid_body")) /\ IsResult(NotNormalized("input_too_large"))
      /\ IsResult(NotNormalized("max_tokens_conflict"))
      /\ walk.error # "none" => IsResult(NotNormalized(walk.error))
  <2>1. /\ {"invalid_body", "max_tokens_conflict", "input_too_large"} \subseteq NormalizeError
        /\ walk.error \in NormalizeError
    BY <1>2 DEF NormalizeError, Walk, WalkError
  <2> QED BY <2>1, NotNormalizedFacts
<1>8. max \in Nat \ {0} => IsResult(NormalizedRequest("none", texts, 0, Len(body.items), max, tool))
  <2>1. 0 \in Nat
    OBVIOUS
  <2> QED BY <1>2, <1>3, <1>6, <2>1, NormalizedFacts, Zenon
<1>9. IsResult(n)
  BY <1>4, <1>5, <1>7, <1>8
<1> QED BY <1>9 DEF n

\* So is a body of /responses.
LEMMA ResponsesType ==
  ASSUME NEW body \in Body, NEW maxInputBytes
  PROVE  IsResult(NormalizeResponses(body, maxInputBytes))
<1> DEFINE walked == FirstError([i \in DOMAIN body.items |-> WalkItem(body.items[i])])
           said == Accepted(TextsOf(body.items[1].content.parts))
           walk == IF body.input = "string" THEN said ELSE walked
           texts == walk.texts \o body.extras
           opaque == Total([i \in DOMAIN body.items |-> body.items[i].opaque])
           calls == \E i \in DOMAIN body.items :
                       body.items[i].type \in {"function_call", "function_call_output"}
           tool == body.tools \/ calls
           n == NormalizeResponses(body, maxInputBytes)
<1>1. /\ body.items \in Seq(Item) /\ body.extras \in Seq(Texts) /\ body.tools \in BOOLEAN
      /\ body.max \in {NoLimit, BadLimit} \cup (Nat \ {0})
      /\ body.input = "string" => Len(body.items) = 1
  BY DEF Body
<1>2. walked \in Walk /\ Len(body.items) \in Nat /\ opaque \in Nat
  BY <1>1, ItemsFacts, FirstErrorFacts
<1>3. body.input = "string" => said \in Walk
  <2> SUFFICES ASSUME body.input = "string"
               PROVE  said \in Walk
    OBVIOUS
  <2> DEFINE content == body.items[1].content
  <2>1. 1 \in 1..Len(body.items)
    BY <1>1, <1>2
  <2>2. body.items[1] \in Item
    BY <1>1, <2>1, ElementOfSeq
  <2>6. content \in Content
    BY <2>2 DEF Item
  <2> HIDE DEF content
  <2>3. WalkContent([content EXCEPT !.shape = "string"], {}, "invalid_body") \in Walk
    BY <2>6, WalkContentType DEF Content, WalkError
  <2>4. [content EXCEPT !.shape = "string"].shape = "string" /\ [content EXCEPT !.shape = "string"].parts = content.parts
    BY <2>6 DEF Content
  <2>5. WalkContent([content EXCEPT !.shape = "string"], {}, "invalid_body") = Accepted(TextsOf(content.parts))
    BY <2>4 DEF WalkContent
  <2> QED BY <2>3, <2>5 DEF content
<1>4. walk \in Walk
  <2> HIDE DEF walked, said
  <2> QED BY <1>2, <1>3
<1>5. texts \in Seq(Texts)
  <2> HIDE DEF walk
  <2>1. walk.texts \in Seq(Texts)
    BY <1>4 DEF Walk
  <2> QED BY <1>1, <2>1, ConcatProperties
<1>6. body.max # BadLimit => LimitOr(body.max, DefaultMaxOutput) \in Nat \ {0}
  BY <1>1, LimitFacts
<1>7. \/ n = NotNormalized("invalid_body") \/ n = NotNormalized("input_too_large")
      \/ n = NotNormalized(walk.error) /\ walk.error # "none"
      \/ /\ n = NormalizedRequest("none", texts, opaque, Len(body.items),
                                  LimitOr(body.max, DefaultMaxOutput), tool)
         /\ body.max # BadLimit
  <2>1. n = CASE ~body.hasModel \/ body.input = "other" \/ body.foreign -> NotNormalized("invalid_body")
             [] walk.error # "none" -> NotNormalized(walk.error)
             [] body.max = BadLimit -> NotNormalized("invalid_body")
             [] BytesOf(texts) + opaque > maxInputBytes -> NotNormalized("input_too_large")
             [] OTHER -> NormalizedRequest("none", texts, opaque, Len(body.items),
                                           LimitOr(body.max, DefaultMaxOutput), tool)
    BY Zenon DEF NormalizeResponses
  <2> HIDE DEF walk, texts, opaque, tool, n
  <2> QED BY <2>1
<1>8. tool \in BOOLEAN
  OBVIOUS
<1> HIDE DEF walk, texts, calls, opaque, n, tool
<1>9. /\ IsResult(NotNormalized("invalid_body")) /\ IsResult(NotNormalized("input_too_large"))
      /\ walk.error # "none" => IsResult(NotNormalized(walk.error))
  <2>1. /\ {"invalid_body", "input_too_large"} \subseteq NormalizeError
        /\ walk.error \in NormalizeError
    BY <1>4 DEF NormalizeError, Walk, WalkError
  <2> QED BY <2>1, NotNormalizedFacts
<1>10. body.max # BadLimit =>
          IsResult(NormalizedRequest("none", texts, opaque, Len(body.items),
                                     LimitOr(body.max, DefaultMaxOutput), tool))
  BY <1>2, <1>5, <1>6, <1>8, NormalizedFacts, Zenon
<1>11. IsResult(n)
  BY <1>7, <1>9, <1>10
<1> QED BY <1>11 DEF n

\* Whatever is asked, there is an error to tell, or something was counted.
LEMMA NormalizedType ==
  ASSUME NEW r \in Request
  PROVE  /\ Normalized(r).error \in NormalizeError
         /\ Normalized(r).error = "none" => Normalized(r) \in Counted
<1>1. r.body \in Body
  BY DEF Request
<1> QED BY <1>1, ChatType, ResponsesType DEF Normalized, IsResult

-----------------------------------------------------------------------------
(***************************************************************************)
(* What a client is told on each route.                                    *)
(***************************************************************************)

\* The gateway's own verdict on a request, and the answers RoutesAgree allows.
VerdictOf(r) == IF LegacyIngress(r) = Proceeds THEN ClassifyModel(r) ELSE LegacyIngress(r)
Alike(r, on, told, fault) ==
    \/ VerdictOf(r) # Proceeds /\ told.status = VerdictOf(r).status
    \/ told = Internal /\ (fault \/ (on # "legacy" /\ ((on = "prepare" /\ r.indexKey) \/ r.model = "long")))
    \/ on = "relay" /\ r.json = "lax" /\ told.status = 400
    \/ on = "legacy" /\ told.status = 413 /\ ~WithinWorkLimit(Normalized(r))

\* The public errors, by their status.
LEMMA PublicErrorFacts ==
  ASSUME NEW e \in NormalizeError, e # "none"
  PROVE  /\ PublicError(e).status = IF e = "input_too_large" THEN 413 ELSE 400
         /\ PublicError(e) # Proceeds
BY DEF NormalizeError, WalkError, PublicError, Answer, Proceeds

\* The gateway's verdict, case by case.
LEMMA VerdictFacts ==
  ASSUME NEW r \in Request
  PROVE  /\ r.raw # "fits" => VerdictOf(r) # Proceeds /\ VerdictOf(r).status = 413
         /\ r.raw = "fits" /\ r.json = "bad" => VerdictOf(r) # Proceeds /\ VerdictOf(r).status = 400
         /\ r.raw = "fits" /\ r.json # "bad" /\ Normalized(r).error # "none" =>
               /\ VerdictOf(r) # Proceeds
               /\ VerdictOf(r).status = IF Normalized(r).error = "input_too_large" THEN 413 ELSE 400
         /\ r.raw = "fits" /\ r.json # "bad" /\ Normalized(r).error = "none" =>
               VerdictOf(r) = ClassifyModel(r)
<1> DEFINE e == Normalized(r).error
<1>1. e \in NormalizeError
  BY NormalizedType
<1>2. e # "none" => /\ PublicError(e).status = IF e = "input_too_large" THEN 413 ELSE 400
                    /\ PublicError(e) # Proceeds
  BY <1>1, PublicErrorFacts
<1>3. LegacyIngress(r) =
        IF r.raw # "fits" THEN PublicError("request_too_large")
        ELSE IF r.json = "bad" THEN PublicError("invalid_body")
        ELSE IF e = "none" THEN Proceeds ELSE PublicError(e)
  BY DEF LegacyIngress, WithinRawLimit, IsJson
<1>4. /\ PublicError("request_too_large") = Answer(413, "request_too_large")
      /\ PublicError("invalid_body") = Answer(400, "invalid_request")
  BY DEF PublicError
<1> HIDE DEF e
<1>5. CASE r.raw # "fits"
  BY <1>3, <1>4, <1>5 DEF VerdictOf, Answer, Proceeds
<1>6. CASE r.raw = "fits" /\ r.json = "bad"
  BY <1>3, <1>4, <1>6 DEF VerdictOf, Answer, Proceeds
<1>7. CASE r.raw = "fits" /\ r.json # "bad" /\ e # "none"
  BY <1>2, <1>3, <1>7 DEF VerdictOf, e
<1>8. CASE r.raw = "fits" /\ r.json # "bad" /\ e = "none"
  BY <1>3, <1>8 DEF VerdictOf, e
<1> QED BY <1>5, <1>6, <1>7, <1>8 DEF e

\* An answer of /prepare tells the client what the gateway would.
LEMMA PrepareAlike ==
  ASSUME NEW r \in Request, NEW fault,
         NEW told, told = IF ClassifyReply(HandlePrepare(r)) = Proceeds
                          THEN ClassifyModel(r) ELSE ClassifyReply(HandlePrepare(r))
  PROVE  IF told = Proceeds THEN VerdictOf(r) = Proceeds ELSE Alike(r, "prepare", told, fault)
<1> DEFINE e == Normalized(r).error
           h == HandlePrepare(r)
           c == ClassifyReply(h)
<1>1. e \in NormalizeError
  BY NormalizedType
<1>2. CASE r.raw # "fits"
  <2>1. h = Reply(413, "request_too_large")
    BY <1>2 DEF HandlePrepare, WithinRawLimit
  <2>2. c = Answer(413, "request_too_large")
    BY <2>1 DEF ClassifyReply, Reply, IsPrepared, EnvelopeCodes, PublicError
  <2> QED BY <1>2, <2>2, VerdictFacts DEF Alike, Answer, Proceeds
<1>3. CASE r.raw = "fits" /\ r.json = "bad"
  <2>1. h = Reply(400, "invalid_body")
    BY <1>3 DEF HandlePrepare, WithinRawLimit, IsJson
  <2>2. c = Answer(400, "invalid_request")
    BY <2>1 DEF ClassifyReply, Reply, IsPrepared, EnvelopeCodes, PublicError
  <2> QED BY <1>3, <2>2, VerdictFacts DEF Alike, Answer, Proceeds
<1>4. CASE r.raw = "fits" /\ r.json # "bad" /\ e # "none"
  <2>1. h = Reply(IF e = "input_too_large" THEN 413 ELSE 400, e)
    BY <1>4 DEF HandlePrepare, WithinRawLimit, IsJson
  <2> HIDE DEF e, h
  <2>2. c = PublicError(e)
    BY <1>1, <1>4, <2>1
       DEF ClassifyReply, Reply, IsPrepared, EnvelopeCodes, NormalizeError, WalkError
  <2> HIDE DEF c
  <2>3. c # Proceeds /\ c.status = IF e = "input_too_large" THEN 413 ELSE 400
    BY <1>1, <1>4, <2>2, PublicErrorFacts
  <2> QED BY <1>4, <2>3, VerdictFacts DEF Alike, e, h, c
<1>5. CASE r.raw = "fits" /\ r.json # "bad" /\ e = "none"
  <2>1. h = IF MarkerComesFirst(r) /\ MetadataFit(r) THEN Reply(200, "metadata") ELSE Reply(500, "none")
    BY <1>5 DEF HandlePrepare, WithinRawLimit, IsJson
  <2>2. c = IF MarkerComesFirst(r) /\ MetadataFit(r) THEN Proceeds ELSE Internal
    BY <2>1 DEF ClassifyReply, Reply, IsPrepared, EnvelopeCodes
  <2>3. VerdictOf(r) = ClassifyModel(r)
    BY <1>5, VerdictFacts
  <2>4. CASE MarkerComesFirst(r) /\ MetadataFit(r)
    BY <2>2, <2>3, <2>4 DEF Alike, ClassifyModel, Answer, Proceeds
  <2>5. CASE ~(MarkerComesFirst(r) /\ MetadataFit(r))
    BY <2>2, <2>5 DEF Alike, MarkerComesFirst, MetadataFit, Internal, Answer, Proceeds
  <2> QED BY <2>4, <2>5
<1> QED BY <1>2, <1>3, <1>4, <1>5

\* Whatever else answers in its place is an internal error.
LEMMA ForeignIsInternal ==
  ASSUME NEW f \in ForeignReplies
  PROVE  ClassifyReply(f) = Internal
BY DEF ForeignReplies, ClassifyReply, Reply, IsPrepared, EnvelopeCodes

\* So does the relay, but for its strict parser.
LEMMA RelayAlike ==
  ASSUME NEW r \in Request, NEW fault,
         NEW told, told = RelayPublic(IF HandleRelayIngress(r).status = 200
                                      THEN RelayDecision(r) ELSE HandleRelayIngress(r))
  PROVE  IF told = Proceeds THEN VerdictOf(r) = Proceeds ELSE Alike(r, "relay", told, fault)
<1> DEFINE e == Normalized(r).error
           h == HandleRelayIngress(r)
<1>1. e \in NormalizeError /\ r.model \in {"known", "unknown", "long"} /\ r.json \in {"object", "lax", "bad"}
  BY NormalizedType DEF Request
<1>2. CASE r.raw # "fits"
  <2>1. h = Reply(413, "request_too_large")
    BY <1>2 DEF HandleRelayIngress, WithinRawLimit
  <2>2. told = Answer(413, "request_too_large")
    BY <2>1 DEF RelayPublic, Reply, CodeStatus
  <2> QED BY <1>2, <2>2, VerdictFacts DEF Alike, Answer, Proceeds
<1>3. CASE r.raw = "fits" /\ r.json # "object"
  <2>1. h = Reply(400, "invalid_request")
    BY <1>3 DEF HandleRelayIngress, WithinRawLimit, IsStrictJson
  <2>2. told = Answer(400, "invalid_request")
    BY <2>1 DEF RelayPublic, Reply, CodeStatus
  <2> QED BY <1>1, <1>3, <2>2, VerdictFacts DEF Alike, Answer, Proceeds
<1>4. CASE r.raw = "fits" /\ r.json = "object" /\ e # "none"
  <2>1. h = IF e = "input_too_large" THEN Reply(413, "request_too_large") ELSE Reply(400, "invalid_request")
    BY <1>4 DEF HandleRelayIngress, WithinRawLimit, IsStrictJson
  <2>2. told = IF e = "input_too_large" THEN Answer(413, "request_too_large") ELSE Answer(400, "invalid_request")
    BY <2>1 DEF RelayPublic, Reply, CodeStatus
  <2> QED BY <1>4, <2>2, VerdictFacts DEF Alike, Answer, Proceeds
<1>5. CASE r.raw = "fits" /\ r.json = "object" /\ e = "none"
  <2>1. h = Reply(200, "none")
    BY <1>5 DEF HandleRelayIngress, WithinRawLimit, IsStrictJson
  <2>2. VerdictOf(r) = ClassifyModel(r)
    BY <1>5, VerdictFacts
  <2>3. told = RelayPublic(RelayDecision(r))
    BY <2>1 DEF Reply
  <2>4. CASE r.model = "known"
    BY <2>2, <2>3, <2>4 DEF RelayDecision, RelayPublic, ClassifyModel, Reply
  <2>5. CASE r.model = "unknown"
    <3>1. told = Answer(403, "model_requires_paid")
      BY <2>3, <2>5 DEF RelayDecision, RelayPublic, Reply, CodeStatus
    <3> QED BY <2>2, <2>5, <3>1 DEF Alike, ClassifyModel, Answer, Proceeds
  <2>6. CASE r.model = "long"
    <3>1. told = Internal
      BY <2>3, <2>6 DEF RelayDecision, RelayPublic, Reply, CodeStatus
    <3> QED BY <2>6, <3>1 DEF Alike, Internal, Answer, Proceeds
  <2> QED BY <1>1, <2>4, <2>5, <2>6
<1> QED BY <1>1, <1>2, <1>3, <1>4, <1>5

-----------------------------------------------------------------------------
(***************************************************************************)
(* What a request is estimated at.                                         *)
(***************************************************************************)

\* The encoder counts no more tokens than there are bytes.
LEMMA TokensWithinBytes ==
  ASSUME NEW texts \in Seq(Texts)
  PROVE  TokensOf(texts) \in Nat /\ BytesOf(texts) \in Nat /\ TokensOf(texts) =< BytesOf(texts)
<1> DEFINE tokens == [i \in DOMAIN texts |-> texts[i].tokens]
           bytes == [i \in DOMAIN texts |-> texts[i].bytes]
<1>1. /\ Len(texts) \in Nat /\ DOMAIN texts = 1..Len(texts)
      /\ \A i \in 1..Len(texts) : texts[i] \in Texts
  BY LenProperties, ElementOfSeq
<1>2. \A i \in 1..Len(texts) : /\ texts[i].tokens \in Nat /\ texts[i].bytes \in Nat
                               /\ texts[i].tokens =< texts[i].bytes
  BY <1>1, TextsAssumption, EncoderBounded DEF EncoderAssumption
<1>3. tokens \in [1..Len(texts) -> Nat] /\ bytes \in [1..Len(texts) -> Nat]
  BY <1>1, <1>2
<1>4. \A i \in 1..Len(texts) : tokens[i] =< bytes[i]
  BY <1>1, <1>2
<1> HIDE DEF tokens, bytes
<1>5. /\ tokens \in Seq(Nat) /\ bytes \in Seq(Nat)
      /\ Len(tokens) = Len(texts) /\ Len(bytes) = Len(texts)
  BY <1>1, <1>3, FunctionIsSeq
<1>6. Total(tokens) \in Nat /\ Total(bytes) \in Nat /\ Total(tokens) =< Total(bytes)
  BY <1>4, <1>5, TotalMonotone
<1> QED BY <1>6 DEF TokensOf, BytesOf, tokens, bytes

\* The overhead is the same for every estimate of a request.
LEMMA EstimateFacts ==
  ASSUME NEW q \in Counted
  PROVE  /\ Exact(q) \in Nat /\ ConservativeEstimate(q) \in Nat
         /\ Exact(q) =< ConservativeEstimate(q)
<1>1. q.texts \in Seq(Texts) /\ q.opaque \in Nat /\ q.count \in Nat
  BY DEF Counted
<1>2. /\ TokensOf(q.texts) \in Nat /\ BytesOf(q.texts) \in Nat
      /\ TokensOf(q.texts) =< BytesOf(q.texts)
  BY <1>1, TokensWithinBytes
<1>3. ASSUME NEW t \in Nat, NEW b \in Nat, NEW o \in Nat, NEW c \in Nat, t =< b
      PROVE  t + o + c * 4 + 3 \in Nat /\ b + o + c * 4 + 3 \in Nat /\ t + o + c * 4 + 3 =< b + o + c * 4 + 3
  BY <1>3
<1> QED BY <1>1, <1>2, <1>3 DEF Exact, ConservativeEstimate, EstimatedInputTokens

\* Whoever tokenizes, the result is at least the exact count, and a refusal is
\* one for the work it would take.
LEMMA TokenizationFacts ==
  ASSUME NEW q \in Counted, NEW deno, NEW rdy,
         NEW o \in RouteTokenization(deno, rdy, q)
  PROVE  /\ o[2].kind \in {"resolved", "request_too_large", "unavailable"}
         /\ o[2].kind = "request_too_large" => ~WithinWorkLimit(q)
         /\ o[2].kind = "resolved" => o[2].tokens \in Nat /\ Exact(q) =< o[2].tokens
<1>1. /\ Exact(q) \in Nat /\ ConservativeEstimate(q) \in Nat
      /\ Exact(q) =< ConservativeEstimate(q)
  BY EstimateFacts
<1>2. BytesOf(q.texts) \in Nat /\ TokensOf(q.texts) \in Nat /\ Threshold \in Nat
  BY TokensWithinBytes, TokenizationAssumption DEF Counted
<1>3. CASE deno /\ BytesOf(q.texts) >= Threshold
  <2>1. PICK p \in TokenizeWithDeno(q) : o = <<rdy, p>>
    BY <1>3 DEF RouteTokenization
  <2>2. p = Unresolved("unavailable") \/ p = Resolved(Exact(q))
    BY <1>2, <2>1 DEF TokenizeWithDeno, HandleTokenize, NoCount, Exact
  <2> QED BY <1>1, <2>1, <2>2 DEF Unresolved, Resolved
<1>4. CASE ~(deno /\ BytesOf(q.texts) >= Threshold)
  <2>1. o \in TokenizeInput(rdy, q)
    BY <1>4 DEF RouteTokenization
  <2>2. \/ o[2] = Unresolved("unavailable")
        \/ o[2] = Unresolved("request_too_large") /\ ~WithinWorkLimit(q)
        \/ o[2] = Resolved(Exact(q)) \/ o[2] = Resolved(ConservativeEstimate(q))
    <3>1. CASE o = <<rdy, Unresolved("unavailable")>>
      BY <3>1
    <3>2. CASE \E p \in EncodeWithFallback(q) : o = <<TRUE, p>>
      BY <3>2 DEF EncodeWithFallback
    <3>3. CASE o = <<FALSE, Resolved(ConservativeEstimate(q))>>
      BY <3>3
    <3> QED BY <2>1, <3>1, <3>2, <3>3 DEF TokenizeInput, Estimate
  <2> QED BY <1>1, <1>2, <1>4, <2>2 DEF Unresolved, Resolved
<1> QED BY <1>3, <1>4

\* A request that proceeds was counted.
LEMMA ProceedsCounted ==
  ASSUME NEW r \in Request, VerdictOf(r) = Proceeds
  PROVE  Normalized(r) \in Counted /\ Normalized(r).error = "none"
BY VerdictFacts, NormalizedType

-----------------------------------------------------------------------------
(***************************************************************************)
(* The budget of a decision, for every request and pool.                   *)
(***************************************************************************)

\* The margin is at least 256 tokens and never more than the upper bound adds,
\* in either regime of safetyMargin.
LEMMA MarginBounds ==
  ASSUME NEW input \in Nat, NEW remaining \in Int, NEW limit \in Int
  PROVE  /\ SafetyMargin(input, remaining, limit) \in Nat
         /\ SafetyMargin(input, remaining, limit) >= 256
         /\ \A asked \in Nat :
               /\ UpperBoundOf(input, asked) \in Nat
               /\ input + asked + SafetyMargin(input, remaining, limit) =< UpperBoundOf(input, asked)
<1>1. /\ CeilDiv(input, 20) \in Nat /\ CeilDiv(input, 50) \in Nat
      /\ CeilDiv(input, 50) =< CeilDiv(input, 20)
  BY DEF CeilDiv
<1> QED BY <1>1 DEF SafetyMargin, UpperBoundOf, Larger

\* The output that decideOutput grants fits, together with the input and the
\* margin, and is not more than was asked for; only CLAMP shortens it.
LEMMA OutputFits ==
  ASSUME NEW input \in Nat, NEW asked \in Nat, NEW margin \in Nat, NEW remaining \in Int,
         NEW mode \in OutputLimitMode,
         NEW out, out = DecideOutput(input, asked, margin, remaining, mode), out # -1
  PROVE  /\ out \in Nat /\ out =< asked
         /\ input + out + margin =< remaining
         /\ mode = "REJECT" => out = asked
         /\ asked > 0 => out > 0
BY DEF DecideOutput, OutputLimitMode

\* A budget that resolveTokenBudget resolves reserves input, granted output and
\* margin, which the pool has left and which the upper bound covers, and grants
\* at least one token when one was asked for; so an admission with it fails only
\* for quota that others took in between, or because the pool is in its STRICT
\* tier.
THEOREM BudgetCovered ==
  ASSUME NEW input \in Nat, NEW asked \in Nat, NEW remaining \in Int, NEW limit \in Int,
         NEW mode \in OutputLimitMode,
         NEW b, b = ResolveTokenBudget(input, asked, remaining, limit, mode), b.kind = "resolved"
  PROVE  /\ b.out \in 0..asked
         /\ asked > 0 => b.out > 0
         /\ b.tokens \in Nat /\ b.tokens >= input + b.out + 256
         /\ b.tokens =< remaining
         /\ b.tokens =< b.upper /\ b.upper =< limit
         /\ mode = "REJECT" => b.out = asked
<1> DEFINE margin == SafetyMargin(input, remaining, limit)
           upper == UpperBoundOf(input, asked)
           out == DecideOutput(input, asked, margin, remaining, mode)
<1>1. /\ margin \in Nat /\ margin >= 256 /\ upper \in Nat
      /\ input + asked + margin =< upper
  BY MarginBounds
<1>2. /\ upper =< limit /\ out >= 0
      /\ b = [kind |-> "resolved", tokens |-> input + out + margin, upper |-> upper, out |-> out]
  <2>1. out \in Int
    BY <1>1 DEF DecideOutput
  <2> HIDE DEF margin, upper, out
  <2>2. /\ ValidArguments(remaining, limit) /\ ~(upper > limit) /\ ~(out < 0)
        /\ b = [kind |-> "resolved", tokens |-> input + out + margin, upper |-> upper, out |-> out]
    BY DEF ResolveTokenBudget, NoBudget, margin, upper, out
  <2> QED BY <1>1, <2>1, <2>2
<1>3. /\ out \in Nat /\ out =< asked /\ input + out + margin =< remaining
      /\ mode = "REJECT" => out = asked
      /\ asked > 0 => out > 0
  <2>1. out # -1
    BY <1>2
  <2> HIDE DEF margin
  <2> QED BY <1>1, <2>1, OutputFits
<1> HIDE DEF margin, upper, out
<1> QED BY <1>1, <1>2, <1>3

-----------------------------------------------------------------------------
(***************************************************************************)
(* From the request to its grant.                                          *)
(***************************************************************************)

\* Where the request is still known, and what holds of it there: it passed the
\* gateway's own checks whichever route judged it, its estimate is no less than
\* its exact count, and its grant fits.
IngressInv ==
    /\ stage \in {"arrived", "tokenize", "replied", "budget", "granted"} => request \in Requested
    /\ stage \in {"preflight", "pulled"} => request = Nothing
    /\ stage = "tokenize" => route = "legacy"
    /\ stage = "replied" => \/ reply = HandlePrepare(request)
                            \/ disturbed /\ reply \in ForeignReplies
    /\ stage \in {"tokenize", "budget", "granted"} => VerdictOf(request) = Proceeds
    /\ stage = "refused" =>
          request = Nothing \/ (request \in Requested /\ Alike(request, route, answer, disturbed))
    /\ stage = "budget" => estimate \in Nat /\ Exact(Normalized(request)) =< estimate
    /\ stage = "granted" => /\ grant.out \in 1..Normalized(request).max
                            /\ Exact(Normalized(request)) + grant.out + 256 =< grant.left

\* The legacy path tells the gateway's own verdict.
LEMMA ReadBodyIngress ==
  ASSUME IngressInv, ReadBody
  PROVE  IngressInv'
<1>1. request \in Requested /\ request' = request /\ route' = route /\ route = "legacy" /\ disturbed' = disturbed
  BY DEF IngressInv, ReadBody, At
<1>2. answer' = VerdictOf(request) /\ stage' = IF VerdictOf(request) = Proceeds THEN "tokenize" ELSE "refused"
  BY DEF ReadBody, Goes, VerdictOf
<1>3. VerdictOf(request) # Proceeds => Alike(request, route, answer', disturbed)
  BY <1>2 DEF Alike
<1> QED BY <1>1, <1>2, <1>3 DEF IngressInv

\* The tokenization adds the work limit and the failures of its services.
LEMMA TokenizeIngress ==
  ASSUME IngressInv, Tokenize
  PROVE  IngressInv'
<1>1. /\ request \in Requested /\ request \in Request /\ VerdictOf(request) = Proceeds
      /\ request' = request /\ route' = route /\ route = "legacy"
  BY DataPathAssumption DEF IngressInv, Tokenize, At
<1>0. PICK deno \in BOOLEAN : \E o \in RouteTokenization(deno, ready, Normalized(request)) :
        /\ estimate' = o[2].tokens
        /\ disturbed' = (disturbed \/ o[2].kind = "unavailable")
        /\ Goes("budget", CASE o[2].kind = "resolved" -> Proceeds
                            [] o[2].kind = "request_too_large" -> PublicError("request_too_large")
                            [] o[2].kind = "unavailable" -> Internal)
  BY DEF Tokenize
<1>2. PICK o \in RouteTokenization(deno, ready, Normalized(request)) :
        /\ estimate' = o[2].tokens
        /\ disturbed' = (disturbed \/ o[2].kind = "unavailable")
        /\ Goes("budget", CASE o[2].kind = "resolved" -> Proceeds
                            [] o[2].kind = "request_too_large" -> PublicError("request_too_large")
                            [] o[2].kind = "unavailable" -> Internal)
  BY <1>0
<1>3. /\ o[2].kind \in {"resolved", "request_too_large", "unavailable"}
      /\ o[2].kind = "request_too_large" => ~WithinWorkLimit(Normalized(request))
      /\ o[2].kind = "resolved" => o[2].tokens \in Nat /\ Exact(Normalized(request)) =< o[2].tokens
  BY <1>1, <1>2, ProceedsCounted, TokenizationFacts
<1>4. CASE o[2].kind = "resolved"
  <2>1. stage' = "budget"
    BY <1>2, <1>4 DEF Goes
  <2> QED BY <1>1, <1>2, <1>3, <1>4, <2>1 DEF IngressInv
<1>5. CASE o[2].kind = "request_too_large"
  <2>1. stage' = "refused" /\ answer' = Answer(413, "request_too_large")
    BY <1>2, <1>5 DEF Goes, PublicError, Proceeds, Answer
  <2>2. Alike(request, route, answer', disturbed')
    BY <1>1, <1>3, <1>5, <2>1 DEF Alike, Answer
  <2> QED BY <1>1, <2>1, <2>2 DEF IngressInv
<1>6. CASE o[2].kind = "unavailable"
  <2>1. stage' = "refused" /\ answer' = Internal /\ disturbed'
    BY <1>2, <1>6 DEF Goes, Internal, Proceeds, Answer
  <2>2. Alike(request, route, answer', disturbed')
    BY <2>1 DEF Alike
  <2> QED BY <1>1, <2>1, <2>2 DEF IngressInv
<1> QED BY <1>3, <1>4, <1>5, <1>6

\* The prepare route, whoever answered.
LEMMA PrepareIngress ==
  ASSUME IngressInv, Prepare \/ PrepareAnswered
  PROVE  IngressInv'
<1>1. CASE Prepare
  <2>1. stage' = "replied" /\ request \in Requested /\ request' = request
    BY <1>1 DEF IngressInv, Prepare, At
  <2>2. reply' = HandlePrepare(request') \/ (disturbed' /\ reply' \in ForeignReplies)
    BY <1>1, <2>1 DEF Prepare
  <2> QED BY <2>1, <2>2 DEF IngressInv
<1>2. CASE PrepareAnswered
  <2>1. /\ request \in Requested /\ request \in Request /\ request' = request
        /\ route' = route /\ route = "prepare" /\ disturbed' = disturbed
        /\ reply = HandlePrepare(request) \/ (disturbed /\ reply \in ForeignReplies)
        /\ estimate' = Exact(Normalized(request))
    BY <1>2, DataPathAssumption DEF IngressInv, PrepareAnswered, At
  <2> DEFINE told == IF ClassifyReply(reply) = Proceeds THEN ClassifyModel(request) ELSE ClassifyReply(reply)
  <2>2. stage' = (IF told = Proceeds THEN "budget" ELSE "refused") /\ answer' = told
    BY <1>2 DEF PrepareAnswered, Goes
  <2>3. IF told = Proceeds THEN VerdictOf(request) = Proceeds ELSE Alike(request, "prepare", told, disturbed)
    <3>1. CASE reply = HandlePrepare(request)
      BY <2>1, <3>1, PrepareAlike
    <3>2. CASE disturbed /\ reply \in ForeignReplies
      <4>1. told = Internal /\ told # Proceeds
        BY <3>2, ForeignIsInternal DEF Internal, Proceeds, Answer
      <4> HIDE DEF told
      <4> QED BY <3>2, <4>1 DEF Alike
    <3> QED BY <2>1, <3>1, <3>2
  <2> HIDE DEF told
  <2>4. CASE told = Proceeds
    <3>1. Exact(Normalized(request)) \in Nat
      BY <2>1, <2>3, <2>4, ProceedsCounted, EstimateFacts
    <3> QED BY <2>1, <2>2, <2>3, <2>4, <3>1 DEF IngressInv
  <2>5. CASE told # Proceeds
    BY <2>1, <2>2, <2>3, <2>5 DEF IngressInv
  <2> QED BY <2>4, <2>5
<1> QED BY <1>1, <1>2

\* The relay route.
LEMMA RelayIngress ==
  ASSUME IngressInv, Relay
  PROVE  IngressInv'
<1>1. /\ request \in Requested /\ request \in Request /\ request' = request
      /\ route' = route /\ route = "relay" /\ disturbed' = disturbed
      /\ estimate' = Exact(Normalized(request))
  BY DataPathAssumption DEF IngressInv, Relay, At
<1> DEFINE told == RelayPublic(IF HandleRelayIngress(request).status = 200
                               THEN RelayDecision(request) ELSE HandleRelayIngress(request))
<1>2. stage' = (IF told = Proceeds THEN "budget" ELSE "refused") /\ answer' = told
  BY DEF Relay, Goes
<1>3. IF told = Proceeds THEN VerdictOf(request) = Proceeds ELSE Alike(request, "relay", told, disturbed)
  BY <1>1, RelayAlike
<1> HIDE DEF told
<1>4. CASE told = Proceeds
  <2>1. Exact(Normalized(request)) \in Nat
    BY <1>1, <1>3, <1>4, ProceedsCounted, EstimateFacts
  <2> QED BY <1>1, <1>2, <1>3, <1>4, <2>1 DEF IngressInv
<1>5. CASE told # Proceeds
  BY <1>1, <1>2, <1>3, <1>5 DEF IngressInv
<1> QED BY <1>4, <1>5

\* The grant fits because the estimate is no less than the exact count.
LEMMA BudgetIngress ==
  ASSUME IngressInv, ResolveBudget
  PROVE  IngressInv'
<1>1. /\ request \in Requested /\ request \in Request /\ request' = request
      /\ VerdictOf(request) = Proceeds
      /\ estimate \in Nat /\ Exact(Normalized(request)) =< estimate
  BY DataPathAssumption DEF IngressInv, ResolveBudget, At
<1>2. Normalized(request) \in Counted /\ Exact(Normalized(request)) \in Nat
  BY <1>1, ProceedsCounted, EstimateFacts
<1>3. Normalized(request).max \in Nat \ {0}
  BY <1>2 DEF Counted
<1>4. PICK left \in Remaining, mode \in OutputLimitMode :
        /\ grant' = [kind |-> ResolveTokenBudget(estimate, Normalized(request).max, left, PoolLimit, mode).kind,
                     out |-> ResolveTokenBudget(estimate, Normalized(request).max, left, PoolLimit, mode).out,
                     left |-> left]
        /\ stage' = IF ResolveTokenBudget(estimate, Normalized(request).max, left, PoolLimit, mode).kind = "resolved"
                    THEN "granted" ELSE "answered"
  BY DEF ResolveBudget
<1> DEFINE max == Normalized(request).max
           b == ResolveTokenBudget(estimate, max, left, PoolLimit, mode)
<1>5. left \in Int /\ PoolLimit \in Int
  BY DataPathAssumption
<1>6. CASE b.kind = "resolved"
  <2>1. /\ b.out \in 0..max /\ b.tokens >= estimate + b.out + 256 /\ b.tokens =< left
        /\ b.out > 0 /\ b.tokens \in Nat
    <3>1. max \in Nat /\ max > 0
      BY <1>3
    <3> HIDE DEF max
    <3> QED BY <1>1, <3>1, <1>5, <1>6, BudgetCovered
  <2>3. grant'.out = b.out /\ grant'.left = left /\ stage' = "granted"
    BY <1>4, <1>6
  <2> HIDE DEF b, max
  <2>4. b.out \in 1..max /\ Exact(Normalized(request)) + b.out + 256 =< left
    BY <1>1, <1>2, <1>3, <1>5, <2>1 DEF max
  <2> QED BY <1>1, <2>3, <2>4 DEF IngressInv, max
<1>7. CASE b.kind # "resolved"
  <2>1. stage' = "answered"
    BY <1>4, <1>7
  <2> QED BY <2>1 DEF IngressInv
<1> QED BY <1>6, <1>7

\* Every other step forgets the request, or leaves it where it was.
LEMMA OthersIngress ==
  ASSUME IngressInv,
         \/ Send \/ ReceivePrepared \/ Preflight \/ PullBody \/ BodyBreaks \/ BodySent
         \/ UpstreamRefuses \/ UpstreamStreams \/ ReadChunk \/ EndOfStream \/ UNCHANGED allVars
  PROVE  IngressInv'
<1>1. CASE Send \/ BodySent \/ UpstreamRefuses \/ UpstreamStreams \/ EndOfStream \/ BodyBreaks
  <2>1. stage' \in {"sent", "answered", "streaming", "read"}
    BY <1>1 DEF Send, BodySent, UpstreamRefuses, UpstreamStreams, EndOfStream, BodyBreaks
  <2> QED BY <2>1 DEF IngressInv
<1>2. CASE ReceivePrepared
  BY <1>2 DEF IngressInv, ReceivePrepared
<1>3. CASE Preflight
  <2>1. stage' \in {"pulled", "preflight", "refused"} /\ request' = request /\ request = Nothing
    BY <1>3 DEF IngressInv, Preflight, Goes, At
  <2> QED BY <2>1 DEF IngressInv
<1>4. CASE PullBody \/ ReadChunk \/ UNCHANGED allVars
  <2>1. UNCHANGED pathVars
    BY <1>4 DEF PullBody, ReadChunk, allVars
  <2> QED BY <2>1 DEF IngressInv, pathVars
<1> QED BY <1>1, <1>2, <1>3, <1>4

\* It is an invariant.
THEOREM IngressInvariant == DataPathSpec => []IngressInv
<1>1. DataPathInit => IngressInv
  BY DEF DataPathInit, IngressInv
<1>2. IngressInv /\ [DataPathNext]_allVars => IngressInv'
  BY ReadBodyIngress, TokenizeIngress, PrepareIngress, RelayIngress, BudgetIngress, OthersIngress
     DEF DataPathNext
<1> QED BY <1>1, <1>2, PTL DEF DataPathSpec

\* No request is what is kept of one that was forgotten.
LEMMA NothingIsNoRequest ==
  ASSUME NEW r \in Request
  PROVE  r # Nothing
<1>1. DOMAIN r = {"endpoint", "raw", "json", "indexKey", "model", "body"}
  BY DEF Request
<1>2. DOMAIN Nothing = {"kind"}
  BY DEF Nothing
<1> QED BY <1>1, <1>2

\* A client is told the same about its request on every route.
THEOREM RoutesAgreeAlways == DataPathSpec => []RoutesAgree
<1>1. IngressInv => RoutesAgree
  BY DEF IngressInv, RoutesAgree, Alike, VerdictOf, Verdict, Unhandled
<1> QED BY <1>1, IngressInvariant, PTL

\* Whichever tokenizer answered, the exact input and the granted output fit.
THEOREM GrantAlwaysCovered == DataPathSpec => []GrantCovered
<1>1. IngressInv => GrantCovered
  BY DEF IngressInv, GrantCovered
<1> QED BY <1>1, IngressInvariant, PTL

-----------------------------------------------------------------------------
(***************************************************************************)
(* The upstream form.                                                      *)
(***************************************************************************)

\* Renaming the text parts of a content leaves its shape, and no text part.
LEMMA RenamedParts ==
  ASSUME NEW content \in Content, NEW type \in {"input_text", "output_text"},
         NEW renamed, renamed = NormalizeTextParts(content, type)
  PROVE  /\ renamed \in Content /\ renamed.shape = content.shape
         /\ content.shape # "parts" => renamed = content
         /\ content.shape = "parts" =>
               /\ DOMAIN renamed.parts = DOMAIN content.parts
               /\ \A i \in DOMAIN content.parts :
                     renamed.parts[i] = IF content.parts[i].type = "text"
                                        THEN [content.parts[i] EXCEPT !.type = type] ELSE content.parts[i]
<1>1. content.parts \in Seq(Part)
  BY DEF Content
<1>2. CASE content.shape # "parts"
  BY <1>2 DEF NormalizeTextParts
<1>3. CASE content.shape = "parts"
  <2> DEFINE p == content.parts
             q == [i \in DOMAIN p |-> IF p[i].type = "text" THEN [p[i] EXCEPT !.type = type] ELSE p[i]]
  <2>1. renamed = [content EXCEPT !.parts = q]
    BY <1>3 DEF NormalizeTextParts
  <2>2. DOMAIN p = 1..Len(p) /\ Len(p) \in Nat /\ \A i \in DOMAIN p : p[i] \in Part
    BY <1>1, LenProperties, ElementOfSeq
  <2>3. q \in [1..Len(p) -> Part]
    BY <2>2 DEF Part
  <2>4. q \in Seq(Part)
    <3> HIDE DEF q
    <3> QED BY <2>2, <2>3, FunctionIsSeq
  <2>5. renamed \in Content /\ renamed.shape = content.shape /\ renamed.parts = q
    <3> HIDE DEF q
    <3> QED BY <2>1, <2>4 DEF Content
  <2> QED BY <1>3, <2>5
<1> QED BY <1>2, <1>3

\* The same texts are found in it.
LEMMA RenamedWalk ==
  ASSUME NEW content \in Content, NEW type \in {"input_text", "output_text"},
         NEW allowed, {"text", type} \subseteq allowed, NEW error
  PROVE  WalkContent(NormalizeTextParts(content, type), allowed, error) = WalkContent(content, allowed, error)
<1> DEFINE renamed == NormalizeTextParts(content, type)
           p == content.parts
           q == renamed.parts
<1>1. /\ renamed.shape = content.shape
      /\ content.shape # "parts" => renamed = content
      /\ content.shape = "parts" =>
               /\ DOMAIN q = DOMAIN p
               /\ \A i \in DOMAIN p :
                     q[i] = IF p[i].type = "text" THEN [p[i] EXCEPT !.type = type] ELSE p[i]
  BY RenamedParts
<1>2. \A i \in DOMAIN p : p[i] \in Part
  <2>1. p \in Seq(Part)
    BY DEF Content
  <2> QED BY <2>1, LenProperties, ElementOfSeq
<1>3. CASE content.shape = "parts"
  <2>1. \A i \in DOMAIN p : WalkPart(q[i], allowed, error) = WalkPart(p[i], allowed, error)
    <3> HIDE DEF p, q
    <3> TAKE i \in DOMAIN p
    <3>1. CASE p[i].type = "text"
      <4>1. q[i].type = type /\ q[i].text = p[i].text
        BY <1>1, <1>2, <1>3, <3>1 DEF Part
      <4> QED BY <3>1, <4>1 DEF WalkPart
    <3>2. CASE p[i].type # "text"
      BY <1>1, <1>3, <3>2
    <3> QED BY <3>1, <3>2
  <2>2. [i \in DOMAIN q |-> WalkPart(q[i], allowed, error)] = [i \in DOMAIN p |-> WalkPart(p[i], allowed, error)]
    <3> HIDE DEF p, q
    <3> QED BY <1>1, <1>3, <2>1
  <2> QED BY <1>1, <1>3, <2>2 DEF WalkContent
<1>4. CASE content.shape # "parts"
  BY <1>1, <1>4
<1> QED BY <1>3, <1>4

\* An item in its upstream form is walked as before, and keeps what else counts.
LEMMA RenamedItem ==
  ASSUME NEW item \in Item
  PROVE  LET form == NormalizeInputItem(item)
         IN  /\ form \in Item /\ WalkItem(form) = WalkItem(item)
             /\ form.type = item.type /\ form.opaque = item.opaque
<1> DEFINE as(type) == [item EXCEPT !.content = NormalizeTextParts(@, type)]
<1>1. item.content \in Content
  BY DEF Item
<1>2. ASSUME NEW type \in {"input_text", "output_text"}
      PROVE  /\ as(type) \in Item /\ as(type).content = NormalizeTextParts(item.content, type)
             /\ as(type).type = item.type /\ as(type).role = item.role /\ as(type).whole = item.whole
             /\ as(type).opaque = item.opaque /\ as(type).extras = item.extras
  <2>1. NormalizeTextParts(item.content, type) \in Content
    BY <1>1, <1>2, RenamedParts
  <2> QED BY <2>1 DEF Item
<1> HIDE DEF as
<1>3. CASE item.type = "message" /\ ValidRole(item.role)
  <2> DEFINE type == IF item.role = "assistant" THEN "output_text" ELSE "input_text"
  <2>1. NormalizeInputItem(item) = as(type)
    BY <1>3 DEF NormalizeInputItem, as
  <2>2. WalkContent(NormalizeTextParts(item.content, type), AllowedTypes(item.role), "invalid_body") =
        WalkContent(item.content, AllowedTypes(item.role), "invalid_body")
    BY <1>1, RenamedWalk DEF AllowedTypes
  <2>3. /\ as(type) \in Item /\ as(type).content = NormalizeTextParts(item.content, type)
        /\ as(type).type = item.type /\ as(type).role = item.role
        /\ as(type).opaque = item.opaque
    BY <1>2
  <2>4. WalkItem(as(type)) = WalkItem(item)
    <3> HIDE DEF type
    <3> QED BY <1>3, <2>2, <2>3 DEF WalkItem, WalkResponseMessage
  <2> HIDE DEF type
  <2> QED BY <2>1, <2>3, <2>4
<1>4. CASE item.type = "function_call_output"
  <2>1. NormalizeInputItem(item) = as("input_text")
    BY <1>4 DEF NormalizeInputItem, as
  <2>2. WalkContent(NormalizeTextParts(item.content, "input_text"), {"input_text", "text"}, "invalid_body") =
        WalkContent(item.content, {"input_text", "text"}, "invalid_body")
    BY <1>1, RenamedWalk
  <2>3. /\ as("input_text") \in Item /\ as("input_text").content = NormalizeTextParts(item.content, "input_text")
        /\ as("input_text").type = item.type /\ as("input_text").role = item.role
        /\ as("input_text").whole = item.whole
        /\ as("input_text").opaque = item.opaque /\ as("input_text").extras = item.extras
    BY <1>2
  <2>4. WalkItem(as("input_text")) = WalkItem(item)
    BY <1>4, <2>2, <2>3 DEF WalkItem
  <2> QED BY <2>1, <2>3, <2>4
<1>5. CASE ~(item.type = "message" /\ ValidRole(item.role)) /\ item.type # "function_call_output"
  <2>1. NormalizeInputItem(item) = item
    BY <1>5 DEF NormalizeInputItem
  <2> QED BY <2>1
<1> QED BY <1>3, <1>4, <1>5

\* An accepted item has no text part in its upstream form.
LEMMA NoTextPart ==
  ASSUME NEW item \in Item, WalkItem(item).error = "none", item.type # "function_call",
         NEW form, form = NormalizeInputItem(item), form.content.shape = "parts"
  PROVE  \A j \in DOMAIN form.content.parts : form.content.parts[j].type # "text"
<1>1. item.content \in Content
  BY DEF Item
<1>2. ASSUME NEW type \in {"input_text", "output_text"},
             form = [item EXCEPT !.content = NormalizeTextParts(@, type)]
      PROVE  \A j \in DOMAIN form.content.parts : form.content.parts[j].type # "text"
  <2> DEFINE c == item.content
             renamed == NormalizeTextParts(c, type)
  <2>1. form.content = renamed
    BY <1>2 DEF Item
  <2>2. /\ renamed.shape = c.shape
        /\ c.shape = "parts" =>
               /\ DOMAIN renamed.parts = DOMAIN c.parts
               /\ \A i \in DOMAIN c.parts :
                     renamed.parts[i] = IF c.parts[i].type = "text"
                                        THEN [c.parts[i] EXCEPT !.type = type] ELSE c.parts[i]
    BY <1>1, <1>2, RenamedParts
  <2>3. \A i \in DOMAIN c.parts : c.parts[i] \in Part
    <3>1. c.parts \in Seq(Part)
      BY <1>1 DEF Content
    <3> QED BY <3>1, LenProperties, ElementOfSeq
  <2> HIDE DEF c, renamed
  <2> QED BY <1>2, <2>1, <2>2, <2>3 DEF Part
<1>3. CASE item.type = "message"
  <2>1. ValidRole(item.role)
    BY <1>3 DEF WalkItem, WalkResponseMessage, Refused
  <2> QED BY <1>2, <1>3, <2>1 DEF NormalizeInputItem
<1>4. CASE item.type = "function_call_output"
  BY <1>2, <1>4 DEF NormalizeInputItem
<1>5. CASE item.type = "reasoning"
  <2>1. form = item
    BY <1>5 DEF NormalizeInputItem
  <2> DEFINE p == item.content.parts
             walks == [i \in DOMAIN p |-> WalkPart(p[i], {"summary_text"}, "invalid_body")]
  <2>2. p \in Seq(Part) /\ Len(p) \in Nat /\ DOMAIN p = 1..Len(p) /\ \A i \in DOMAIN p : p[i] \in Part
    <3>1. p \in Seq(Part)
      BY <1>1 DEF Content
    <3> QED BY <3>1, LenProperties, ElementOfSeq
  <2>3. WalkItem(item) = FirstError(walks)
    BY <1>5, <2>1 DEF WalkItem, WalkContent, Refused
  <2>4. \A i \in DOMAIN p : WalkPart(p[i], {"summary_text"}, "invalid_body") \in Walk
    <3> HIDE DEF p
    <3> QED BY <2>2, EmptySeq DEF WalkPart, Part, Walk, WalkError, Refused, Accepted
  <2>5. walks \in [1..Len(p) -> Walk]
    <3> HIDE DEF p
    <3> QED BY <2>2, <2>4
  <2>6. walks \in Seq(Walk) /\ Len(walks) = Len(p)
    <3> HIDE DEF p, walks
    <3> QED BY <2>2, <2>5, FunctionIsSeq
  <2>7. \A i \in 1..Len(p) : walks[i].error = "none"
    <3> HIDE DEF p, walks
    <3> QED BY <2>3, <2>6, FirstErrorFacts
  <2>8. \A i \in DOMAIN p : p[i].type # "text"
    <3> HIDE DEF p
    <3> QED BY <2>2, <2>7 DEF WalkPart, Refused
  <2> QED BY <2>1, <2>8
<1>6. CASE item.type = "odd"
  BY <1>6 DEF WalkItem, Refused
<1> QED BY <1>3, <1>4, <1>5, <1>6 DEF Item

\* Another limit in the count of a request.
LEMMA OtherLimit ==
  ASSUME NEW texts, NEW opaque, NEW count, NEW max, NEW toolUse, NEW out
  PROVE  NormalizedRequest("none", texts, opaque, count, out, toolUse) =
         [NormalizedRequest("none", texts, opaque, count, max, toolUse) EXCEPT !.max = out]
BY DEF NormalizedRequest

\* The chat body with the granted limit counts as before.
LEMMA ChatForm ==
  ASSUME NEW body \in Body, NEW maxInputBytes, NEW out \in Nat \ {0},
         NormalizeChatCompletions(body, maxInputBytes).error = "none"
  PROVE  NormalizeChatCompletions(BuildUpstreamBody("chat", body, out), maxInputBytes) =
         [NormalizeChatCompletions(body, maxInputBytes) EXCEPT !.max = out]
<1> DEFINE form == [body EXCEPT !.max = out, !.legacyMax = NoLimit]
           walk == FirstError([i \in DOMAIN body.items |-> WalkChatMessage(body.items[i])])
           texts == walk.texts \o body.extras
           calls == \E i \in DOMAIN body.items : body.items[i].type # "message"
<1>1. /\ form.hasModel = body.hasModel /\ form.input = body.input /\ form.items = body.items
      /\ form.extras = body.extras /\ form.tools = body.tools
      /\ form.max = out /\ form.legacyMax = NoLimit
  BY DEF Body
<1>2. BuildUpstreamBody("chat", body, out) = form
  BY DEF BuildUpstreamBody
<1> HIDE DEF form
<1>3. /\ body.hasModel /\ body.input = "items" /\ walk.error = "none"
      /\ ~(BytesOf(texts) > maxInputBytes)
      /\ NormalizeChatCompletions(body, maxInputBytes) =
            NormalizedRequest("none", texts, 0, Len(body.items),
                LimitOr(body.max, LimitOr(body.legacyMax, DefaultMaxOutput)), body.tools \/ calls)
  <2> HIDE DEF walk, calls
  <2> QED BY DEF NormalizeChatCompletions, NotNormalized, NormalizedRequest, walk, calls
<1>4. BadLimit \notin {form.max, form.legacyMax} /\ ~(NoLimit \notin {form.max, form.legacyMax})
  BY <1>1 DEF BadLimit, NoLimit
<1>5. LimitOr(form.max, LimitOr(form.legacyMax, DefaultMaxOutput)) = out
  BY <1>1 DEF LimitOr, NoLimit
<1>6. NormalizeChatCompletions(form, maxInputBytes) =
        NormalizedRequest("none", texts, 0, Len(body.items), out, body.tools \/ calls)
  <2> HIDE DEF walk, calls
  <2> QED BY <1>1, <1>3, <1>4, <1>5 DEF NormalizeChatCompletions, walk, calls
<1> HIDE DEF walk, texts, calls
<1> QED BY <1>2, <1>3, <1>6, OtherLimit

\* The form of a /responses body has the same items to be walked.
LEMMA ResponsesForm ==
  ASSUME NEW body \in Body, NEW maxInputBytes, NEW out \in Nat \ {0},
         NormalizeResponses(body, maxInputBytes).error = "none"
  PROVE  NormalizeResponses(BuildUpstreamBody("responses", body, out), maxInputBytes) =
         [NormalizeResponses(body, maxInputBytes) EXCEPT !.max = out]
<1> DEFINE upstream == NormalizeUpstreamBody(body)
           form == [upstream EXCEPT !.max = out]
           WalkOf(b) == IF b.input = "string" THEN Accepted(TextsOf(b.items[1].content.parts))
                        ELSE FirstError([i \in DOMAIN b.items |-> WalkItem(b.items[i])])
           OpaqueOf(b) == Total([i \in DOMAIN b.items |-> b.items[i].opaque])
           Calls(b) == \E i \in DOMAIN b.items :
                          b.items[i].type \in {"function_call", "function_call_output"}
<1>1. body.items \in Seq(Item) /\ DOMAIN body.items = 1..Len(body.items) /\ Len(body.items) \in Nat
      /\ \A i \in DOMAIN body.items : body.items[i] \in Item
  <2>1. body.items \in Seq(Item)
    BY DEF Body
  <2> QED BY <2>1, LenProperties, ElementOfSeq
<1>2. BuildUpstreamBody("responses", body, out) = form
  BY DEF BuildUpstreamBody
<1>3. /\ upstream.hasModel = body.hasModel /\ upstream.input = body.input
      /\ upstream.foreign = body.foreign /\ upstream.extras = body.extras /\ upstream.tools = body.tools
      /\ body.input # "items" => upstream.items = body.items
      /\ body.input = "items" => upstream.items = [i \in DOMAIN body.items |-> NormalizeInputItem(body.items[i])]
      /\ form = [upstream EXCEPT !.max = out]
      /\ DOMAIN upstream = DOMAIN body
  BY DEF NormalizeUpstreamBody, Body
<1>4. /\ form.hasModel = body.hasModel /\ form.input = body.input
      /\ form.foreign = body.foreign /\ form.extras = body.extras /\ form.tools = body.tools
      /\ form.items = upstream.items /\ form.max = out
  <2> HIDE DEF upstream, form
  <2>1. DOMAIN body = {"hasModel", "input", "items", "foreign", "extras", "tools", "max", "legacyMax"}
    BY DEF Body
  <2> QED BY <1>3, <2>1
<1> HIDE DEF form, upstream
<1>5. /\ DOMAIN form.items = DOMAIN body.items /\ Len(form.items) = Len(body.items)
      /\ \A i \in DOMAIN body.items : /\ body.input # "items" => form.items[i] = body.items[i]
                                      /\ WalkItem(form.items[i]) = WalkItem(body.items[i])
                                      /\ form.items[i].type = body.items[i].type
                                      /\ form.items[i].opaque = body.items[i].opaque
  <2>1. CASE body.input # "items"
    BY <1>3, <1>4, <2>1
  <2>2. CASE body.input = "items"
    <3>1. form.items = [i \in DOMAIN body.items |-> NormalizeInputItem(body.items[i])]
      BY <1>3, <1>4, <2>2
    <3>2. form.items \in [1..Len(body.items) -> Item]
      BY <1>1, <3>1, RenamedItem
    <3>3. Len(form.items) = Len(body.items)
      BY <1>1, <3>2, FunctionIsSeq
    <3>4. \A i \in DOMAIN body.items : form.items[i] = NormalizeInputItem(body.items[i])
      BY <3>1
    <3> QED BY <1>1, <2>2, <3>1, <3>3, <3>4, RenamedItem
  <2> QED BY <2>1, <2>2
<1>6. [i \in DOMAIN form.items |-> WalkItem(form.items[i])] = [i \in DOMAIN body.items |-> WalkItem(body.items[i])]
  BY <1>5
<1>7. [i \in DOMAIN form.items |-> form.items[i].opaque] = [i \in DOMAIN body.items |-> body.items[i].opaque]
  BY <1>5
<1>8. body.input = "string" => form.items = body.items
  BY <1>3, <1>4
<1>9. WalkOf(form) = WalkOf(body) /\ OpaqueOf(form) = OpaqueOf(body) /\ Calls(form) = Calls(body)
  BY <1>4, <1>5, <1>6, <1>7, <1>8
<1> DEFINE texts == WalkOf(body).texts \o body.extras
<1>10. \A b : NormalizeResponses(b, maxInputBytes) =
          CASE ~b.hasModel \/ b.input = "other" \/ b.foreign -> NotNormalized("invalid_body")
            [] WalkOf(b).error # "none" -> NotNormalized(WalkOf(b).error)
            [] b.max = BadLimit -> NotNormalized("invalid_body")
            [] BytesOf(WalkOf(b).texts \o b.extras) + OpaqueOf(b) > maxInputBytes -> NotNormalized("input_too_large")
            [] OTHER -> NormalizedRequest("none", WalkOf(b).texts \o b.extras, OpaqueOf(b), Len(b.items),
                                          LimitOr(b.max, DefaultMaxOutput), b.tools \/ Calls(b))
  BY DEF NormalizeResponses
<1> HIDE DEF WalkOf, OpaqueOf, Calls
<1>11. /\ body.hasModel /\ body.input # "other" /\ ~body.foreign /\ WalkOf(body).error = "none"
       /\ ~(BytesOf(texts) + OpaqueOf(body) > maxInputBytes)
       /\ NormalizeResponses(body, maxInputBytes) =
             NormalizedRequest("none", texts, OpaqueOf(body), Len(body.items),
                               LimitOr(body.max, DefaultMaxOutput), body.tools \/ Calls(body))
  <2> DEFINE counted == NormalizedRequest("none", texts, OpaqueOf(body), Len(body.items),
                                          LimitOr(body.max, DefaultMaxOutput), body.tools \/ Calls(body))
  <2>1. NormalizeResponses(body, maxInputBytes) =
          CASE ~body.hasModel \/ body.input = "other" \/ body.foreign -> NotNormalized("invalid_body")
            [] WalkOf(body).error # "none" -> NotNormalized(WalkOf(body).error)
            [] body.max = BadLimit -> NotNormalized("invalid_body")
            [] BytesOf(texts) + OpaqueOf(body) > maxInputBytes -> NotNormalized("input_too_large")
            [] OTHER -> counted
    BY <1>10
  <2>2. \A e : NotNormalized(e).error = e
    BY DEF NotNormalized, NormalizedRequest
  <2> HIDE DEF counted, texts
  <2>3. /\ NormalizeResponses(body, maxInputBytes) # NotNormalized("invalid_body")
        /\ NormalizeResponses(body, maxInputBytes) # NotNormalized("input_too_large")
        /\ WalkOf(body).error # "none" => NormalizeResponses(body, maxInputBytes) # NotNormalized(WalkOf(body).error)
    BY <2>2
  <2>4. /\ body.hasModel /\ body.input # "other" /\ ~body.foreign /\ WalkOf(body).error = "none"
        /\ ~(BytesOf(texts) + OpaqueOf(body) > maxInputBytes)
        /\ NormalizeResponses(body, maxInputBytes) = counted
    BY <2>1, <2>3
  <2> QED BY <2>4 DEF counted
<1>12. form.max # BadLimit /\ LimitOr(form.max, DefaultMaxOutput) = out
  BY <1>4 DEF LimitOr, NoLimit, BadLimit
<1>13. NormalizeResponses(form, maxInputBytes) =
        NormalizedRequest("none", texts, OpaqueOf(body), Len(body.items), out, body.tools \/ Calls(body))
  BY <1>4, <1>5, <1>9, <1>10, <1>11, <1>12, ZenonT(60)
<1> HIDE DEF texts
<1> QED BY <1>2, <1>11, <1>13, OtherLimit

\* Each item of an accepted body was accepted.
LEMMA AcceptedItems ==
  ASSUME NEW body \in Body, NEW maxInputBytes, body.input = "items",
         NormalizeResponses(body, maxInputBytes).error = "none"
  PROVE  /\ DOMAIN body.items = 1..Len(body.items)
         /\ \A i \in DOMAIN body.items : body.items[i] \in Item /\ WalkItem(body.items[i]).error = "none"
<1> DEFINE walks == [i \in DOMAIN body.items |-> WalkItem(body.items[i])]
<1>1. body.items \in Seq(Item)
  BY DEF Body
<1>2. /\ DOMAIN body.items = 1..Len(body.items) /\ walks \in Seq(Walk)
      /\ \A i \in DOMAIN body.items : body.items[i] \in Item
  BY <1>1, ItemsFacts, LenProperties, ElementOfSeq
<1>3. FirstError(walks).error = "none"
  <2> HIDE DEF walks
  <2> QED BY DEF NormalizeResponses, NotNormalized, NormalizedRequest, walks
<1>4. \A i \in 1..Len(walks) : walks[i].error = "none"
  <2> HIDE DEF walks
  <2> QED BY <1>2, <1>3, FirstErrorFacts
<1>5. Len(walks) = Len(body.items)
  <2>1. DOMAIN walks = DOMAIN body.items
    OBVIOUS
  <2> HIDE DEF walks
  <2>2. DOMAIN walks = 1..Len(walks) /\ Len(walks) \in Nat /\ Len(body.items) \in Nat
    BY <1>1, <1>2, LenProperties
  <2> QED BY <1>2, <2>1, <2>2
<1> QED BY <1>2, <1>4, <1>5

\* The body that goes upstream is accepted with the same count, and no text part.
THEOREM UpstreamFormAlwaysCounted == DataPathSpec => []UpstreamFormCounted
<1>1. ASSUME IngressInv, stage = "granted"
      PROVE  UpstreamFormCounted
  <2> DEFINE body == request.body
             form == UpstreamForm
             sent == [request EXCEPT !.body = form]
  <2>1. /\ request \in Request /\ body \in Body /\ request.endpoint \in {"chat", "responses"}
        /\ Normalized(request).error = "none" /\ Normalized(request).max \in Nat
    <3>1. request \in Request /\ VerdictOf(request) = Proceeds
      BY <1>1, DataPathAssumption DEF IngressInv
    <3> QED BY <3>1, ProceedsCounted DEF Request, Counted
  <2>2. grant.out \in Nat \ {0}
    BY <1>1, <2>1 DEF IngressInv
  <2>3. sent.endpoint = request.endpoint /\ sent.body = form
    BY <2>1 DEF Request
  <2>4. Normalized(sent) = [Normalized(request) EXCEPT !.max = grant.out]
    <3>1. CASE request.endpoint = "chat"
      <4>1. form = BuildUpstreamBody("chat", body, grant.out)
        BY <3>1 DEF UpstreamForm
      <4>2. NormalizeChatCompletions(body, MaxInputBytes).error = "none"
        BY <2>1, <3>1 DEF Normalized
      <4> HIDE DEF sent, form, body
      <4> QED BY <2>1, <2>2, <2>3, <3>1, <4>1, <4>2, ChatForm DEF Normalized, body
    <3>2. CASE request.endpoint = "responses"
      <4>1. form = BuildUpstreamBody("responses", body, grant.out)
        BY <3>2 DEF UpstreamForm
      <4>2. NormalizeResponses(body, MaxInputBytes).error = "none"
        BY <2>1, <3>2 DEF Normalized
      <4> HIDE DEF sent, form, body
      <4> QED BY <2>1, <2>2, <2>3, <3>2, <4>1, <4>2, ResponsesForm DEF Normalized, body
    <3> QED BY <2>1, <3>1, <3>2
  <2>5. ASSUME request.endpoint = "responses", body.input = "items", NEW i \in DOMAIN form.items,
               form.items[i].type # "function_call", form.items[i].content.shape = "parts"
        PROVE  \A j \in DOMAIN form.items[i].content.parts : form.items[i].content.parts[j].type # "text"
    <3>1. form.items = [k \in DOMAIN body.items |-> NormalizeInputItem(body.items[k])]
      <4>1. form = [NormalizeUpstreamBody(body) EXCEPT !.max = grant.out]
        BY <2>5 DEF UpstreamForm, BuildUpstreamBody
      <4>2. NormalizeUpstreamBody(body) = [body EXCEPT !.items = [k \in DOMAIN @ |-> NormalizeInputItem(@[k])]]
        BY <2>5 DEF NormalizeUpstreamBody
      <4> HIDE DEF form, body
      <4> QED BY <2>1, <4>1, <4>2 DEF Body
    <3>2. NormalizeResponses(body, MaxInputBytes).error = "none"
      BY <2>1, <2>5 DEF Normalized
    <3> HIDE DEF form, body
    <3>3. i \in DOMAIN body.items /\ form.items[i] = NormalizeInputItem(body.items[i])
      BY <2>5, <3>1
    <3>4. body.items[i] \in Item /\ WalkItem(body.items[i]).error = "none"
      BY <2>1, <2>5, <3>2, <3>3, AcceptedItems
    <3>5. body.items[i].type # "function_call"
      BY <2>5, <3>3, <3>4, RenamedItem
    <3> QED BY <2>5, <3>3, <3>4, <3>5, NoTextPart
  <2> HIDE DEF form
  <2> QED BY <2>4, <2>5 DEF UpstreamFormCounted, form
<1>2. IngressInv => UpstreamFormCounted
  BY <1>1 DEF UpstreamFormCounted
<1> QED BY <1>2, IngressInvariant, PTL

-----------------------------------------------------------------------------
(***************************************************************************)
(* The prepared body.                                                      *)
(***************************************************************************)

Byte == {"o1", "o2", "m1", "m2", "comma", "x", "granted"}

\* A part of a sequence.
LEMMA Cut ==
  ASSUME NEW S, NEW s \in Seq(S), NEW m \in Int, NEW n \in Int, 1 =< m, m =< n + 1, n =< Len(s)
  PROVE  /\ SubSeq(s, m, n) \in Seq(S) /\ Len(SubSeq(s, m, n)) = n - m + 1
         /\ \A i \in 1..(n - m + 1) : SubSeq(s, m, n)[i] = s[m + i - 1]
<1>1. Len(s) \in Nat
  BY LenProperties
<1>2. \A i \in m..n : s[i] \in S
  BY <1>1, ElementOfSeq
<1>3. /\ SubSeq(s, m, n) \in Seq(S) /\ Len(SubSeq(s, m, n)) = IF m =< n THEN n - m + 1 ELSE 0
      /\ \A i \in 1..(n - m + 1) : SubSeq(s, m, n)[i] = s[m + i - 1]
  BY <1>2, SubSeqProperties
<1> QED BY <1>3

\* The body begins as agreed.
IsOpened(b) ==
    Len(b) >= 5 /\ b[1] = "o1" /\ b[2] = "o2" /\ b[3] = "m1" /\ b[4] = "m2" /\ b[5] = "comma"

\* The opening, byte by byte.
LEMMA OpeningBytes ==
  /\ Opening \in Seq(Byte) /\ Len(Opening) = 5 /\ IsOpened(Opening)
  /\ Marker \in Seq(Byte) /\ Len(Marker) = 2 /\ Limit \in Seq(Byte) /\ Len(Limit) = 1
<1> DEFINE first == <<"o1", "o2">>
           comma == <<"comma">>
<1>1. /\ first \in Seq(Byte) /\ Len(first) = 2 /\ first[1] = "o1" /\ first[2] = "o2"
      /\ comma \in Seq(Byte) /\ Len(comma) = 1 /\ comma[1] = "comma"
      /\ Marker \in Seq(Byte) /\ Len(Marker) = 2 /\ Marker[1] = "m1" /\ Marker[2] = "m2"
      /\ Limit \in Seq(Byte) /\ Len(Limit) = 1
  BY DEF Marker, Limit, Byte
<1>2. Opening = (first \o Marker) \o comma
  BY DEF Opening
<1> HIDE DEF first, comma
<1>3. /\ first \o Marker \in Seq(Byte) /\ Len(first \o Marker) = Len(first) + Len(Marker)
      /\ \A i \in 1..(Len(first) + Len(Marker)) :
            (first \o Marker)[i] = IF i =< Len(first) THEN first[i] ELSE Marker[i - Len(first)]
  BY <1>1, ConcatProperties
<1> DEFINE four == first \o Marker
<1> HIDE DEF four
<1>4. /\ four \in Seq(Byte) /\ Len(four) = 4
      /\ four[1] = "o1" /\ four[2] = "o2" /\ four[3] = "m1" /\ four[4] = "m2"
  <2>1. /\ Len(first) + Len(Marker) = 4 /\ 1 \in 1..4 /\ 2 \in 1..4 /\ 3 \in 1..4 /\ 4 \in 1..4
        /\ 1 =< 2 /\ 2 =< 2 /\ ~(3 =< 2) /\ ~(4 =< 2) /\ 3 - 2 = 1 /\ 4 - 2 = 2
    BY <1>1
  <2> QED BY <1>1, <1>3, <2>1 DEF four
<1>5. /\ four \o comma \in Seq(Byte) /\ Len(four \o comma) = Len(four) + Len(comma)
      /\ \A i \in 1..(Len(four) + Len(comma)) :
            (four \o comma)[i] = IF i =< Len(four) THEN four[i] ELSE comma[i - Len(four)]
  BY <1>1, <1>4, ConcatProperties
<1>6. Opening = four \o comma
  BY <1>2 DEF four
<1>7. /\ Len(Opening) = 5 /\ Opening[1] = four[1] /\ Opening[2] = four[2] /\ Opening[3] = four[3]
      /\ Opening[4] = four[4] /\ Opening[5] = comma[1]
  <2>1. /\ Len(four) + Len(comma) = 5 /\ \A i \in {1, 2, 3, 4} : i \in 1..5 /\ i =< 4
        /\ 5 \in 1..5 /\ ~(5 =< 4) /\ 5 - 4 = 1
    BY <1>1, <1>4
  <2> QED BY <1>4, <1>5, <1>6, <2>1
<1> QED BY <1>1, <1>4, <1>5, <1>6, <1>7 DEF IsOpened

\* Where the marker stands in a body.
LEMMA MarkerAt ==
  ASSUME NEW b \in Seq(Byte)
  PROVE  Occurrences(b, Marker) = {i \in 1..(Len(b) - 1) : b[i] = "m1" /\ b[i + 1] = "m2"}
<1>1. Len(b) \in Nat /\ Len(Marker) = 2
  BY LenProperties, OpeningBytes
<1>2. Occurrences(b, Marker) = {i \in 1..(Len(b) - 1) : SubSeq(b, i, i + 1) = Marker}
  BY <1>1 DEF Occurrences
<1>3. ASSUME NEW i \in 1..(Len(b) - 1)
      PROVE  SubSeq(b, i, i + 1) = Marker <=> b[i] = "m1" /\ b[i + 1] = "m2"
  <2> DEFINE p == SubSeq(b, i, i + 1)
  <2>1. p \in Seq(Byte) /\ Len(p) = 2 /\ p[1] = b[i] /\ p[2] = b[i + 1]
    <3>1. /\ i \in Int /\ i + 1 \in Int /\ 1 =< i /\ i =< (i + 1) + 1 /\ i + 1 =< Len(b)
          /\ (i + 1) - i + 1 = 2 /\ i + 1 - 1 = i /\ i + 2 - 1 = i + 1
      BY <1>1
    <3>2. /\ p \in Seq(Byte) /\ Len(p) = (i + 1) - i + 1
          /\ \A j \in 1..((i + 1) - i + 1) : p[j] = b[i + j - 1]
      BY <3>1, Cut
    <3> HIDE DEF p
    <3>3. 1 \in 1..((i + 1) - i + 1) /\ 2 \in 1..((i + 1) - i + 1)
      BY <3>1
    <3> QED BY <3>1, <3>2, <3>3
  <2> HIDE DEF p
  <2>2. Marker \in Seq(Byte) /\ Len(Marker) = 2 /\ Marker[1] = "m1" /\ Marker[2] = "m2"
    BY OpeningBytes DEF Marker
  <2>3. ASSUME p[1] = "m1", p[2] = "m2"
        PROVE  p = Marker
    <3>1. \A j \in 1..Len(p) : p[j] = Marker[j]
      BY <2>1, <2>2, <2>3
    <3> QED BY <2>1, <2>2, <3>1, SeqEqual
  <2> QED BY <2>1, <2>2, <2>3 DEF p
<1> QED BY <1>2, <1>3

\* In an opened body the first marker is the one of the opening.
LEMMA ReplaceOpened ==
  ASSUME NEW b \in Seq(Byte), IsOpened(b)
  PROVE  /\ Replace(b) \in Seq(Byte) /\ Len(Replace(b)) = Len(b) - 1
         /\ \A i \in 1..(Len(b) - 1) :
               Replace(b)[i] = IF i < 3 THEN b[i] ELSE IF i = 3 THEN "granted" ELSE b[i + 1]
<1> DEFINE occ == Occurrences(b, Marker)
<1>1. Len(b) \in Nat /\ Len(b) >= 5
  BY LenProperties DEF IsOpened
<1>2. occ \subseteq Nat /\ 3 \in occ /\ 1 \notin occ /\ 2 \notin occ /\ 0 \notin occ
  <2>1. occ = {i \in 1..(Len(b) - 1) : b[i] = "m1" /\ b[i + 1] = "m2"}
    BY MarkerAt
  <2> HIDE DEF occ
  <2>2. /\ b[1] = "o1" /\ b[2] = "o2" /\ b[3] = "m1" /\ b[4] = "m2" /\ 3 \in 1..(Len(b) - 1)
        /\ "o1" # "m1" /\ "o2" # "m1"
    BY <1>1 DEF IsOpened
  <2>3. 3 + 1 = 4
    OBVIOUS
  <2> QED BY <2>1, <2>2, <2>3
<1>3. Min(occ) = 3
  <2> HIDE DEF occ
  <2> DEFINE m == Min(occ)
  <2>1. m \in occ /\ m =< 3
    BY <1>2, MinIsLeast
  <2> HIDE DEF m
  <2>2. m \in Nat /\ m # 0 /\ m # 1 /\ m # 2
    BY <1>2, <2>1
  <2>3. m = 3
    BY <2>1, <2>2
  <2> QED BY <2>3 DEF m
<1> DEFINE head == SubSeq(b, 1, 2)
           rest == SubSeq(b, 5, Len(b))
<1>4. Replace(b) = head \o Limit \o rest
  <2>1. 3 - 1 = 2 /\ 3 + Len(Marker) = 5
    BY OpeningBytes
  <2> QED BY <1>3, <2>1 DEF Replace
<1>5. /\ head \in Seq(Byte) /\ Len(head) = 2 /\ \A i \in 1..2 : head[i] = b[1 + i - 1]
  <2>1. 2 - 1 + 1 = 2
    OBVIOUS
  <2> QED BY <1>1, <2>1, Cut
<1>6. /\ rest \in Seq(Byte) /\ Len(rest) = Len(b) - 4 /\ \A i \in 1..(Len(b) - 4) : rest[i] = b[5 + i - 1]
  <2>1. Len(b) - 5 + 1 = Len(b) - 4
    BY <1>1
  <2> QED BY <1>1, <2>1, Cut
<1>7. Limit \in Seq(Byte) /\ Len(Limit) = 1 /\ Limit[1] = "granted"
  BY OpeningBytes DEF Limit
<1> HIDE DEF head, rest, occ
<1>8. /\ head \o Limit \in Seq(Byte) /\ Len(head \o Limit) = 3
      /\ \A i \in 1..3 : (head \o Limit)[i] = IF i =< 2 THEN head[i] ELSE Limit[i - 2]
  <2>1. /\ head \o Limit \in Seq(Byte) /\ Len(head \o Limit) = Len(head) + Len(Limit)
        /\ \A i \in 1..(Len(head) + Len(Limit)) :
              (head \o Limit)[i] = IF i =< Len(head) THEN head[i] ELSE Limit[i - Len(head)]
    BY <1>5, <1>7, ConcatProperties
  <2>2. Len(head) + Len(Limit) = 3
    BY <1>5, <1>7
  <2> QED BY <1>5, <2>1, <2>2
<1>9. /\ Replace(b) \in Seq(Byte) /\ Len(Replace(b)) = 3 + (Len(b) - 4)
      /\ \A i \in 1..(3 + (Len(b) - 4)) :
            Replace(b)[i] = IF i =< 3 THEN (head \o Limit)[i] ELSE rest[i - 3]
  BY <1>4, <1>6, <1>8, ConcatProperties, SMTT(40)
<1>10. ASSUME NEW i \in 1..(Len(b) - 1)
       PROVE  Replace(b)[i] = IF i < 3 THEN b[i] ELSE IF i = 3 THEN "granted" ELSE b[i + 1]
  <2>1. CASE i < 3
    <3>1. i \in 1..2 /\ i \in 1..3 /\ i \in 1..(3 + (Len(b) - 4)) /\ 1 + i - 1 = i /\ i =< 2 /\ i =< 3
      BY <1>1, <2>1
    <3>2. Replace(b)[i] = (head \o Limit)[i]
      BY ONLY <1>9, <3>1, ZenonT(60)
    <3>3. (head \o Limit)[i] = head[i]
      BY ONLY <1>8, <3>1, ZenonT(60)
    <3>4. head[i] = b[i]
      BY <1>5, <3>1
    <3> QED BY <2>1, <3>2, <3>3, <3>4
  <2>2. CASE i = 3
    BY <1>1, <1>7, <1>8, <1>9, <2>2
  <2>3. CASE i > 3
    <3>1. i - 3 \in 1..(Len(b) - 4) /\ 5 + (i - 3) - 1 = i + 1 /\ i \in 1..(3 + (Len(b) - 4)) /\ ~(i =< 3)
      BY <1>1, <2>3
    <3>2. Replace(b)[i] = rest[i - 3] /\ rest[i - 3] = b[5 + (i - 3) - 1]
      BY <1>6, <1>9, <3>1
    <3> QED BY <2>3, <3>1, <3>2
  <2> QED BY <2>1, <2>2, <2>3
<1> QED BY <1>1, <1>9, <1>10

\* A prepared body is opened, and its marker stands nowhere else.
LEMMA PreparedFacts ==
  ASSUME NEW b \in Prepared
  PROVE  /\ b \in Seq(Byte) /\ IsOpened(b)
         /\ \A i \in 1..(Len(b) - 1) : b[i] = "m1" /\ b[i + 1] = "m2" => i = 3
<1>1. PICK rest \in BoundedSeq({"x", "m1", "m2"}, MaxRest) :
        b = Opening \o rest /\ Occurrences(rest, Marker) = {}
  BY DEF Prepared
<1>2. rest \in Seq(Byte)
  <2>1. PICK n \in 0..MaxRest : rest \in [1..n -> {"x", "m1", "m2"}]
    BY <1>1 DEF BoundedSeq, SeqOf
  <2>3. MaxRest \in Nat /\ {"x", "m1", "m2"} \subseteq Byte
    BY PreparedAssumption DEF Byte
  <2>2. n \in Nat /\ rest \in [1..n -> Byte]
    BY <2>1, <2>3
  <2> QED BY <2>2, FunctionIsSeq
<1>3. Len(rest) \in Nat
  BY <1>2, LenProperties
<1>4. /\ b \in Seq(Byte) /\ Len(b) = 5 + Len(rest)
      /\ \A i \in 1..(5 + Len(rest)) : b[i] = IF i =< 5 THEN Opening[i] ELSE rest[i - 5]
  <2>1. Opening \in Seq(Byte) /\ Len(Opening) = 5
    BY OpeningBytes
  <2>2. /\ Opening \o rest \in Seq(Byte) /\ Len(Opening \o rest) = Len(Opening) + Len(rest)
        /\ \A i \in 1..(Len(Opening) + Len(rest)) :
              (Opening \o rest)[i] = IF i =< Len(Opening) THEN Opening[i] ELSE rest[i - Len(Opening)]
    BY <1>2, <2>1, ConcatProperties
  <2> QED BY <1>1, <2>1, <2>2
<1>5. IsOpened(b)
  <2>1. \A i \in 1..5 : b[i] = Opening[i]
    BY <1>3, <1>4
  <2>2. Len(b) >= 5
    BY <1>3, <1>4
  <2>3. 1 \in 1..5 /\ 2 \in 1..5 /\ 3 \in 1..5 /\ 4 \in 1..5 /\ 5 \in 1..5
    OBVIOUS
  <2> QED BY <2>1, <2>2, <2>3, OpeningBytes DEF IsOpened
<1>6. ASSUME NEW i \in 1..(Len(b) - 1), b[i] = "m1", b[i + 1] = "m2"
      PROVE  i = 3
  <2>1. CASE i =< 5
    <3>1. i \in {1, 2, 3, 4, 5}
      BY <2>1
    <3>2. b[1] # "m1" /\ b[2] # "m1" /\ b[4] # "m1" /\ b[5] # "m1"
      BY <1>5 DEF IsOpened
    <3> QED BY <1>6, <3>1, <3>2
  <2>2. CASE i > 5
    <3>1. i - 5 \in 1..(Len(rest) - 1) /\ i \in 1..(5 + Len(rest)) /\ i + 1 \in 1..(5 + Len(rest))
      BY <1>3, <1>4, <2>2
    <3>2. rest[i - 5] = "m1" /\ rest[(i - 5) + 1] = "m2"
      <4>1. (i + 1) - 5 = (i - 5) + 1 /\ ~(i =< 5) /\ ~(i + 1 =< 5)
        BY <2>2
      <4> QED BY <1>4, <1>6, <3>1, <4>1
    <3>3. i - 5 \in Occurrences(rest, Marker)
      BY <1>2, <3>1, <3>2, MarkerAt
    <3> QED BY <1>1, <3>3
  <2> QED BY <2>1, <2>2
<1> QED BY <1>4, <1>5, <1>6

\* What the gateway has of a prepared body: until its opening is complete, the
\* beginning of what it received; afterwards the output with the limit in place.
BodyInv ==
    /\ stage = "preflight" =>
          /\ prefix \in Seq(Byte) /\ source \in Seq(Byte) /\ output = <<>>
          /\ Len(prefix) < 5 /\ Matches(prefix)
          /\ ~disturbed => prefix \o source \in Prepared
    /\ stage = "pulled" =>
          /\ output \in Seq(Byte) /\ source \in Seq(Byte) /\ Len(output) >= 4
          /\ output[1] = "o1" /\ output[2] = "o2" /\ output[3] = "granted" /\ output[4] = "comma"
          /\ ~disturbed => \E bytes \in Prepared : output \o source = Replace(bytes)
    /\ stage = "refused" /\ request = Nothing => disturbed

\* One chunk during the preflight: what is retained is the beginning of the body,
\* and nothing of the chunk is lost.
LEMMA PreflightChunk ==
  ASSUME prefix \in Seq(Byte), source \in Seq(Byte), output = <<>>, Len(prefix) < 5,
         NEW n \in 1..Len(source), PreflightRead(n),
         NEW whole, whole = prefix \o source
  PROVE  /\ whole \in Seq(Byte) /\ source' \in Seq(Byte) /\ prefix' \in Seq(Byte)
         /\ Len(prefix') =< Len(whole) /\ \A i \in 1..Len(prefix') : prefix'[i] = whole[i]
         /\ output' = <<>> /\ Len(prefix') < 5 => prefix' \o source' = whole
         /\ output' # <<>> =>
               /\ IsOpened(prefix') /\ output' \in Seq(Byte)
               /\ Len(prefix') >= 5 /\ Len(output') >= 4
               /\ Len(output') + Len(source') = Len(whole) - 1
               /\ \A i \in 1..Len(output') :
                     output'[i] = IF i < 3 THEN whole[i] ELSE IF i = 3 THEN "granted" ELSE whole[i + 1]
               /\ \A i \in 1..Len(source') : source'[i] = whole[Len(output') + i + 1]
         /\ IsOpened(whole) /\ (\A i \in 1..(Len(whole) - 1) : whole[i] = "m1" /\ whole[i + 1] = "m2" => i = 3) =>
               \/ output' # <<>>
               \/ Len(prefix') < 5 /\ Matches(prefix')
<1> DEFINE l == Len(prefix)
           t == IF n < 5 - l THEN n ELSE 5 - l
           chunk == SubSeq(source, 1, n)
           taken == SubSeq(chunk, 1, t)
           parsed == prefix \o taken
           upper == IF n < t + PrefixBytes - (l + t) THEN n ELSE t + PrefixBytes - (l + t)
           more == SubSeq(chunk, t + 1, upper)
           m == IF t + 1 =< upper THEN upper - t ELSE 0
           kept == parsed \o more
           tail == SubSeq(chunk, t + m + 1, n)
<1>1. /\ l \in Nat /\ Len(source) \in Nat /\ n \in Nat /\ PrefixBytes \in Nat
      /\ t \in Nat /\ t >= 1 /\ t =< n /\ l + t =< 5 /\ (l + t < 5 => t = n)
      /\ m \in Nat /\ t + m =< n /\ upper \in Int /\ upper =< n
  <2>1. l \in Nat /\ Len(source) \in Nat /\ n \in Nat /\ PrefixBytes \in Nat /\ l < 5 /\ n >= 1
    BY LenProperties, PreparedAssumption
  <2> HIDE DEF l
  <2>2. t \in Nat /\ t >= 1 /\ t =< n /\ l + t =< 5 /\ (l + t < 5 => t = n)
    BY <2>1
  <2> HIDE DEF t
  <2>3. upper \in Int /\ upper =< n
    BY <2>1, <2>2
  <2> HIDE DEF upper
  <2>4. m \in Nat /\ t + m =< n
    BY <2>1, <2>2, <2>3
  <2> QED BY <2>1, <2>2, <2>3, <2>4
<1>2. /\ chunk \in Seq(Byte) /\ Len(chunk) = n /\ \A i \in 1..n : chunk[i] = source[i]
  <2>1. n - 1 + 1 = n /\ \A i \in 1..n : 1 + i - 1 = i
    BY <1>1
  <2> QED BY <1>1, <2>1, Cut
<1> HIDE DEF chunk, l, t, upper, m
<1>3. /\ taken \in Seq(Byte) /\ Len(taken) = t /\ \A i \in 1..t : taken[i] = source[i]
  <2>1. t - 1 + 1 = t /\ \A i \in 1..t : 1 + i - 1 = i /\ i \in 1..n
    BY <1>1
  <2> QED BY <1>1, <1>2, <2>1, Cut
<1> HIDE DEF taken
<1>4. /\ whole \in Seq(Byte) /\ Len(whole) = l + Len(source)
      /\ \A i \in 1..(l + Len(source)) : whole[i] = IF i =< l THEN prefix[i] ELSE source[i - l]
  BY ConcatProperties DEF l
<1>5. /\ parsed \in Seq(Byte) /\ Len(parsed) = l + t /\ \A i \in 1..(l + t) : parsed[i] = whole[i]
  <2>1. /\ parsed \in Seq(Byte) /\ Len(parsed) = l + t
        /\ \A i \in 1..(l + t) : parsed[i] = IF i =< l THEN prefix[i] ELSE taken[i - l]
    BY <1>3, ConcatProperties DEF l
  <2> HIDE DEF parsed
  <2>2. \A i \in 1..(l + t) : /\ i \in 1..(l + Len(source))
                              /\ ~(i =< l) => i - l \in 1..t
    BY <1>1
  <2> QED BY <1>3, <1>4, <2>1, <2>2
<1> HIDE DEF parsed
<1>6. /\ more \in Seq(Byte) /\ Len(more) = m /\ \A i \in 1..m : more[i] = source[t + i]
  <2>1. CASE t + 1 =< upper
    <3>1. /\ upper =< n /\ m = upper - (t + 1) + 1 /\ t + 1 \in Int /\ 1 =< t + 1 /\ t + 1 =< upper + 1
          /\ \A i \in 1..m : t + 1 + i - 1 = t + i /\ t + i \in 1..n
      BY <1>1, <2>1 DEF upper, m
    <3>2. /\ more \in Seq(Byte) /\ Len(more) = upper - (t + 1) + 1
          /\ \A i \in 1..(upper - (t + 1) + 1) : more[i] = chunk[t + 1 + i - 1]
      <4>1. upper =< Len(chunk) /\ upper \in Int /\ chunk \in Seq(Byte)
        BY <1>1, <1>2, <3>1
      <4> QED BY <3>1, <4>1, Cut, ZenonT(60) DEF more
    <3> QED BY <1>2, <3>1, <3>2
  <2>2. CASE ~(t + 1 =< upper)
    <3>1. more = <<>>
      BY <1>1, <2>2, SubSeqEmpty
    <3>2. m = 0
      BY <2>2 DEF m
    <3>3. 1..m = {}
      BY <3>2
    <3>4. <<>> \in Seq(Byte) /\ Len(<<>>) = 0
      BY EmptySeq
    <3> QED BY ONLY <3>1, <3>2, <3>3, <3>4
  <2> QED BY <2>1, <2>2
<1> HIDE DEF more
<1>7. /\ kept \in Seq(Byte) /\ Len(kept) = l + t + m /\ \A i \in 1..(l + t + m) : kept[i] = whole[i]
  <2>1. /\ kept \in Seq(Byte) /\ Len(kept) = (l + t) + m
        /\ \A i \in 1..((l + t) + m) : kept[i] = IF i =< l + t THEN parsed[i] ELSE more[i - (l + t)]
    <3>1. /\ kept \in Seq(Byte) /\ Len(kept) = Len(parsed) + Len(more)
          /\ \A i \in 1..(Len(parsed) + Len(more)) :
                kept[i] = IF i =< Len(parsed) THEN parsed[i] ELSE more[i - Len(parsed)]
      BY <1>5, <1>6, ConcatProperties
    <3> HIDE DEF kept
    <3> QED BY <1>5, <1>6, <3>1
  <2> HIDE DEF kept
  <2>2. \A i \in 1..((l + t) + m) : /\ i \in 1..(l + Len(source))
                                    /\ i =< l + t => i \in 1..(l + t)
                                    /\ ~(i =< l + t) => /\ i - (l + t) \in 1..m /\ t + (i - (l + t)) = i - l
                                                        /\ ~(i =< l)
    BY <1>1
  <2> QED BY <1>4, <1>5, <1>6, <2>1, <2>2, ZenonT(60)
<1>8. /\ tail \in Seq(Byte) /\ Len(tail) = n - (t + m) /\ \A i \in 1..(n - (t + m)) : tail[i] = source[t + m + i]
  <2>1. /\ n - (t + m + 1) + 1 = n - (t + m) /\ t + m + 1 \in Int /\ 1 =< t + m + 1 /\ t + m + 1 =< n + 1
        /\ \A i \in 1..(n - (t + m)) : t + m + 1 + i - 1 = t + m + i /\ t + m + i \in 1..n
    BY <1>1
  <2>2. /\ tail \in Seq(Byte) /\ Len(tail) = n - (t + m + 1) + 1
        /\ \A i \in 1..(n - (t + m + 1) + 1) : tail[i] = chunk[t + m + 1 + i - 1]
    BY <1>1, <1>2, <2>1, Cut
  <2> QED BY <1>2, <2>1, <2>2
<1> HIDE DEF kept, tail
<1> DEFINE valid == Matches(parsed) /\ Cardinality(Occurrences(kept, Marker)) = 1
<1>9. /\ source' = SubSeq(source, n + 1, Len(source)) /\ prefix' = kept
      /\ output' = IF l + t < 5 \/ ~valid THEN <<>> ELSE Replace(kept) \o tail
  <2>1. Len(Opening) = 5
    BY OpeningBytes
  <2>2. Taken(chunk) = taken
    BY <1>2, <2>1 DEF Taken, Smaller, taken, t, l
  <2>3. Smaller(n, Len(Taken(chunk)) + PrefixBytes - Len(prefix \o Taken(chunk))) = upper
    BY <1>3, <1>5, <2>2 DEF Smaller, upper, parsed
  <2>4. TailOf(chunk, Len(taken) + Len(more)) = tail
    BY <1>2, <1>3, <1>6 DEF TailOf, tail
  <2> QED BY <1>3, <1>5, <2>1, <2>2, <2>3, <2>4 DEF PreflightRead, chunk, parsed, more, kept
<1>10. /\ source' \in Seq(Byte) /\ Len(source') = Len(source) - n
       /\ \A i \in 1..(Len(source) - n) : source'[i] = source[n + i]
  <2>1. /\ Len(source) - (n + 1) + 1 = Len(source) - n /\ n + 1 \in Int /\ 1 =< n + 1 /\ n + 1 =< Len(source) + 1
        /\ \A i \in 1..(Len(source) - n) : n + 1 + i - 1 = n + i
    BY <1>1
  <2>2. Len(source) \in Int /\ Len(source) =< Len(source) /\ source \in Seq(Byte)
    BY <1>1
  <2>3. /\ SubSeq(source, n + 1, Len(source)) \in Seq(Byte)
        /\ Len(SubSeq(source, n + 1, Len(source))) = Len(source) - (n + 1) + 1
        /\ \A i \in 1..(Len(source) - (n + 1) + 1) :
              SubSeq(source, n + 1, Len(source))[i] = source[n + 1 + i - 1]
    BY ONLY <2>1, <2>2, Cut, ZenonT(60)
  <2> QED BY <1>9, <2>1, <2>3
<1> HIDE DEF valid
<1>11. Len(kept) =< Len(whole) /\ \A i \in 1..Len(kept) : kept[i] = whole[i]
  BY <1>1, <1>4, <1>7
<1>12. ASSUME output' = <<>>, Len(kept) < 5
       PROVE  kept \o source' = whole
  <2>1. t = n /\ m = 0 /\ Len(kept) = l + n
    BY <1>1, <1>7, <1>12
  <2>2. /\ kept \o source' \in Seq(Byte) /\ Len(kept \o source') = (l + n) + (Len(source) - n)
        /\ \A i \in 1..((l + n) + (Len(source) - n)) :
              (kept \o source')[i] = IF i =< l + n THEN kept[i] ELSE source'[i - (l + n)]
    BY <1>7, <1>10, <2>1, ConcatProperties
  <2>3. (l + n) + (Len(source) - n) = l + Len(source)
    BY <1>1
  <2>4. \A i \in 1..(l + Len(source)) :
           /\ i =< l + n => i \in 1..(l + t + m)
           /\ ~(i =< l + n) => i - (l + n) \in 1..(Len(source) - n) /\ n + (i - (l + n)) = i - l /\ ~(i =< l)
    BY <1>1, <2>1
  <2>5. \A i \in 1..(l + Len(source)) : (kept \o source')[i] = whole[i]
    BY <1>4, <1>7, <1>10, <2>2, <2>3, <2>4
  <2> QED BY <1>4, <2>2, <2>3, <2>5, SeqEqual
<1>13. IsOpened(whole) => Matches(parsed)
  <2> SUFFICES ASSUME IsOpened(whole)
               PROVE  Matches(parsed)
    OBVIOUS
  <2>1. DOMAIN parsed = 1..(l + t)
    BY <1>5, LenProperties
  <2>2. \A i \in 1..5 : whole[i] = Opening[i]
    <3>1. \A i \in 1..5 : i \in {1, 2, 3, 4, 5}
      OBVIOUS
    <3>2. IsOpened(whole) /\ IsOpened(Opening)
      BY OpeningBytes
    <3> QED BY <3>1, <3>2 DEF IsOpened
  <2>3. \A i \in 1..(l + t) : i \in 1..5
    BY <1>1
  <2> QED BY <1>5, <2>1, <2>2, <2>3 DEF Matches
<1>14. ASSUME l + t = 5, Matches(parsed)
       PROVE  IsOpened(kept)
  <2>1. DOMAIN parsed = 1..5
    BY <1>5, <1>14, LenProperties
  <2>2. \A i \in 1..5 : kept[i] = Opening[i]
    <3>1. \A i \in 1..5 : i \in 1..(l + t) /\ i \in 1..(l + t + m)
      BY <1>1, <1>14
    <3> QED BY <1>5, <1>7, <1>14, <2>1, <3>1 DEF Matches
  <2>3. Len(kept) >= 5
    BY <1>1, <1>7, <1>14
  <2>4. 1 \in 1..5 /\ 2 \in 1..5 /\ 3 \in 1..5 /\ 4 \in 1..5 /\ 5 \in 1..5
    OBVIOUS
  <2> QED BY <2>2, <2>3, <2>4, OpeningBytes DEF IsOpened
<1>15. ASSUME output' # <<>>
       PROVE  /\ IsOpened(prefix') /\ output' \in Seq(Byte)
              /\ Len(prefix') >= 5 /\ Len(output') >= 4
              /\ Len(output') + Len(source') = Len(whole) - 1
              /\ \A i \in 1..Len(output') :
                    output'[i] = IF i < 3 THEN whole[i] ELSE IF i = 3 THEN "granted" ELSE whole[i + 1]
              /\ \A i \in 1..Len(source') : source'[i] = whole[Len(output') + i + 1]
  <2>1. l + t = 5 /\ Matches(parsed) /\ output' = Replace(kept) \o tail
    BY <1>1, <1>9, <1>15 DEF valid
  <2>2. IsOpened(kept) /\ Len(kept) = 5 + m
    BY <1>7, <1>14, <2>1
  <2> DEFINE r == Replace(kept)
  <2>3. /\ r \in Seq(Byte) /\ Len(r) = 4 + m
        /\ \A i \in 1..(4 + m) : r[i] = IF i < 3 THEN kept[i] ELSE IF i = 3 THEN "granted" ELSE kept[i + 1]
    <3>1. (5 + m) - 1 = 4 + m
      BY <1>1
    <3> QED BY <1>7, <2>2, <3>1, ReplaceOpened
  <2> HIDE DEF r
  <2>4. /\ output' \in Seq(Byte) /\ Len(output') = (4 + m) + (n - (t + m))
        /\ \A i \in 1..((4 + m) + (n - (t + m))) :
              output'[i] = IF i =< 4 + m THEN r[i] ELSE tail[i - (4 + m)]
    <3>1. /\ r \o tail \in Seq(Byte) /\ Len(r \o tail) = Len(r) + Len(tail)
          /\ \A i \in 1..(Len(r) + Len(tail)) :
                (r \o tail)[i] = IF i =< Len(r) THEN r[i] ELSE tail[i - Len(r)]
      BY <1>8, <2>3, ConcatProperties, ZenonT(60)
    <3>2. output' = r \o tail
      BY <2>1 DEF r
    <3> QED BY <1>8, <2>3, <3>1, <3>2
  <2>5. (4 + m) + (n - (t + m)) = l + n - 1 /\ l + n - 1 >= 4 /\ l + n - 1 \in Nat
    BY <1>1, <2>1
  <2>6. ASSUME NEW i \in 1..(l + n - 1)
        PROVE  output'[i] = IF i < 3 THEN whole[i] ELSE IF i = 3 THEN "granted" ELSE whole[i + 1]
    <3>1. CASE i =< 4 + m
      <4>1. i \in 1..(4 + m) /\ i \in 1..(l + t + m) /\ i + 1 \in 1..(l + t + m)
        BY <1>1, <2>1, <3>1
      <4> QED BY <1>7, <2>3, <2>4, <2>5, <3>1, <4>1
    <3>2. CASE ~(i =< 4 + m)
      <4>1. /\ i - (4 + m) \in 1..(n - (t + m)) /\ t + m + (i - (4 + m)) = (i + 1) - l
            /\ i + 1 \in 1..(l + Len(source)) /\ ~(i + 1 =< l) /\ ~(i < 3) /\ i # 3
        BY <1>1, <2>1, <2>5, <3>2
      <4>2. output'[i] = tail[i - (4 + m)] /\ tail[i - (4 + m)] = source[(i + 1) - l]
        BY <1>8, <2>4, <2>5, <3>2, <4>1
      <4>3. whole[i + 1] = source[(i + 1) - l]
        BY <1>4, <4>1
      <4> QED BY <4>1, <4>2, <4>3
    <3> QED BY <3>1, <3>2
  <2>7. ASSUME NEW i \in 1..(Len(source) - n)
        PROVE  source'[i] = whole[(l + n - 1) + i + 1]
    <3>1. /\ (l + n - 1) + i + 1 \in 1..(l + Len(source)) /\ ((l + n - 1) + i + 1) - l = n + i
          /\ ~((l + n - 1) + i + 1 =< l)
      BY <1>1
    <3> QED BY <1>4, <1>10, <3>1
  <2>8. (l + n - 1) + (Len(source) - n) = Len(whole) - 1 /\ 5 + m >= 5
    BY <1>1, <1>4
  <2>9. Len(output') = l + n - 1
    BY <2>4, <2>5
  <2>10. Len(output') >= 4 /\ Len(output') + Len(source') = Len(whole) - 1
    BY <1>10, <2>5, <2>8, <2>9
  <2>11. IsOpened(prefix') /\ Len(prefix') >= 5
    BY <1>9, <2>2, <2>8
  <2>12. \A i \in 1..Len(output') :
            output'[i] = IF i < 3 THEN whole[i] ELSE IF i = 3 THEN "granted" ELSE whole[i + 1]
    BY <2>6, <2>9
  <2>13. \A i \in 1..Len(source') : source'[i] = whole[Len(output') + i + 1]
    BY <1>10, <2>7, <2>9
  <2> QED BY <2>4, <2>10, <2>11, <2>12, <2>13
<1>16. ASSUME IsOpened(whole), \A i \in 1..(Len(whole) - 1) : whole[i] = "m1" /\ whole[i + 1] = "m2" => i = 3
       PROVE  output' # <<>> \/ (Len(prefix') < 5 /\ Matches(prefix'))
  <2>1. CASE l + t < 5
    <3>1. m = 0
      BY <1>1, <2>1
    <3>2. kept \in Seq(Byte) /\ Len(kept) = l + t /\ \A i \in 1..(l + t) : kept[i] = parsed[i]
      <4>1. l + t + m = l + t
        BY <1>1, <3>1
      <4> QED BY <1>5, <1>7, <4>1
    <3>3. kept = parsed
      BY <1>5, <3>2, SeqEqual
    <3> QED BY <1>9, <1>13, <1>16, <2>1, <3>2, <3>3
  <2>2. CASE l + t = 5
    <3>1. Matches(parsed) /\ IsOpened(kept)
      BY <1>13, <1>14, <1>16, <2>2
    <3>2. Occurrences(kept, Marker) = {3}
      <4>1. Occurrences(kept, Marker) = {i \in 1..(Len(kept) - 1) : kept[i] = "m1" /\ kept[i + 1] = "m2"}
        BY <1>7, MarkerAt
      <4>2. \A i \in 1..(Len(kept) - 1) : /\ i \in 1..Len(kept) /\ i + 1 \in 1..Len(kept)
                                          /\ i \in 1..(Len(whole) - 1)
        BY <1>1, <1>4, <1>7
      <4>3. 3 \in 1..(Len(kept) - 1) /\ kept[3] = "m1" /\ kept[3 + 1] = "m2"
        <5>1. 3 + 1 = 4
          OBVIOUS
        <5> QED BY <1>1, <1>7, <2>2, <3>1, <5>1 DEF IsOpened
      <4>4. \A i \in Occurrences(kept, Marker) : i = 3
        BY <1>11, <1>16, <4>1, <4>2
      <4> QED BY <4>1, <4>3, <4>4
    <3>3. valid
      BY <3>1, <3>2, FS_Singleton DEF valid
    <3>4. output' = Replace(kept) \o tail
      BY <1>9, <2>2, <3>3
    <3>5. Replace(kept) \in Seq(Byte) /\ Len(Replace(kept)) = Len(kept) - 1
      BY <1>7, <3>1, ReplaceOpened
    <3>6. Len(output') = (Len(kept) - 1) + (n - (t + m))
      BY <1>8, <3>4, <3>5, ConcatProperties
    <3>7. Len(output') # 0
      BY <1>1, <1>7, <2>2, <3>6
    <3> QED BY <3>7, EmptySeq
  <2> QED BY <1>1, <2>1, <2>2
<1> QED BY <1>4, <1>7, <1>9, <1>10, <1>11, <1>12, <1>15, <1>16

\* What is received is a sequence of bytes, and begins at its beginning.
LEMMA ReceivePreparedBody ==
  ASSUME IngressInv, BodyInv, ReceivePrepared
  PROVE  BodyInv'
<1>1. PICK bytes \in Prepared \cup AlteredBodies :
        /\ source' = bytes /\ prefix' = <<>> /\ output' = <<>> /\ stage' = "preflight"
        /\ ~disturbed' => bytes \in Prepared
  <2>1. CASE (\E bytes \in Prepared : Receives(bytes)) /\ disturbed' = disturbed
    BY <2>1 DEF Receives, ReceivePrepared
  <2>2. CASE (\E bytes \in AlteredBodies : Receives(bytes)) /\ disturbed' = TRUE
    BY <2>2 DEF Receives, ReceivePrepared
  <2> QED BY <2>1, <2>2 DEF ReceivePrepared
<1>2. bytes \in Seq(Byte)
  <2>1. CASE bytes \in Prepared
    BY <2>1, PreparedFacts
  <2>2. CASE bytes \in AlteredBodies
    <3>1. /\ <<"o1", "o2", "x", "comma">> \in Seq(Byte) /\ <<"o1", "o2">> \in Seq(Byte)
          /\ <<"x", "x">> \in Seq(Byte) /\ <<"o1", "o2", "m1">> \in Seq(Byte) /\ <<"x">> \in Seq(Byte)
      BY DEF Byte
    <3>2. Opening \in Seq(Byte) /\ Marker \in Seq(Byte)
      BY OpeningBytes
    <3>3. \A s, t \in Seq(Byte) : s \o t \in Seq(Byte)
      BY ConcatProperties
    <3>4. /\ Opening \o Marker \in Seq(Byte) /\ <<"x">> \o Opening \in Seq(Byte)
          /\ <<"o1", "o2">> \o Marker \o <<"x", "x">> \in Seq(Byte)
      <4>1. <<"o1", "o2">> \o Marker \in Seq(Byte)
        BY <3>1, <3>2, <3>3
      <4> QED BY <3>1, <3>2, <3>3, <4>1
    <3> QED BY <2>2, <3>1, <3>4 DEF AlteredBodies
  <2> QED BY <1>1, <2>1, <2>2
<1>3. <<>> \in Seq(Byte) /\ Len(<<>>) = 0 /\ <<>> \o bytes = bytes
  BY <1>2, EmptySeq, ConcatEmptySeq
<1>4. Matches(<<>>)
  BY DEF Matches
<1>5. Matches(prefix)'
  BY <1>1, <1>4 DEF Matches
<1> QED BY <1>1, <1>2, <1>3, <1>5 DEF BodyInv

\* The opening is awaited, found, or missed only in a body that was altered.
LEMMA PreflightBody ==
  ASSUME IngressInv, BodyInv, Preflight
  PROVE  BodyInv'
<1>1. /\ prefix \in Seq(Byte) /\ source \in Seq(Byte) /\ output = <<>>
      /\ Len(prefix) < 5 /\ (~disturbed => prefix \o source \in Prepared)
      /\ disturbed' = disturbed
  BY DEF BodyInv, Preflight, At
<1>2. PICK n \in 1..Len(source) : PreflightRead(n)
  BY DEF Preflight
<1> DEFINE whole == prefix \o source
<1>3. /\ whole \in Seq(Byte) /\ source' \in Seq(Byte) /\ prefix' \in Seq(Byte)
      /\ Len(prefix') =< Len(whole) /\ \A i \in 1..Len(prefix') : prefix'[i] = whole[i]
      /\ output' = <<>> /\ Len(prefix') < 5 => prefix' \o source' = whole
      /\ output' # <<>> =>
            /\ IsOpened(prefix') /\ output' \in Seq(Byte)
            /\ Len(prefix') >= 5 /\ Len(output') >= 4
            /\ Len(output') + Len(source') = Len(whole) - 1
            /\ \A i \in 1..Len(output') :
                  output'[i] = IF i < 3 THEN whole[i] ELSE IF i = 3 THEN "granted" ELSE whole[i + 1]
            /\ \A i \in 1..Len(source') : source'[i] = whole[Len(output') + i + 1]
      /\ IsOpened(whole) /\ (\A i \in 1..(Len(whole) - 1) : whole[i] = "m1" /\ whole[i + 1] = "m2" => i = 3) =>
            \/ output' # <<>>
            \/ Len(prefix') < 5 /\ Matches(prefix')
  BY <1>1, <1>2, PreflightChunk
<1> HIDE DEF whole
<1>4. CASE output' # <<>>
  <2>1. stage' = "pulled"
    <3>1. Len(Opening) = 5
      BY OpeningBytes
    <3> QED BY <1>4 DEF Preflight, Goes
  <2>2. Len(output') \in Nat /\ Len(source') \in Nat /\ Len(prefix') \in Nat /\ Len(whole) \in Nat
    BY <1>3, <1>4, LenProperties
  <2>3. IsOpened(whole)
    <3>1. \A i \in {1, 2, 3, 4, 5} : i \in 1..Len(prefix')
      BY <1>3, <1>4, <2>2
    <3>2. Len(whole) >= 5
      BY <1>3, <1>4, <2>2
    <3> QED BY <1>3, <1>4, <3>1, <3>2 DEF IsOpened
  <2>4. output'[1] = "o1" /\ output'[2] = "o2" /\ output'[3] = "granted" /\ output'[4] = "comma"
    <3>1. 1 \in 1..Len(output') /\ 2 \in 1..Len(output') /\ 3 \in 1..Len(output') /\ 4 \in 1..Len(output')
      BY <1>3, <1>4, <2>2
    <3>2. 4 + 1 = 5
      OBVIOUS
    <3> QED BY <1>3, <1>4, <2>3, <3>1, <3>2 DEF IsOpened
  <2>5. output' \o source' = Replace(whole)
    <3>1. /\ Replace(whole) \in Seq(Byte) /\ Len(Replace(whole)) = Len(whole) - 1
          /\ \A i \in 1..(Len(whole) - 1) :
                Replace(whole)[i] = IF i < 3 THEN whole[i] ELSE IF i = 3 THEN "granted" ELSE whole[i + 1]
      BY <1>3, <2>3, ReplaceOpened
    <3>2. /\ output' \o source' \in Seq(Byte) /\ Len(output' \o source') = Len(output') + Len(source')
          /\ \A i \in 1..(Len(output') + Len(source')) :
                (output' \o source')[i] = IF i =< Len(output') THEN output'[i] ELSE source'[i - Len(output')]
      BY <1>3, <1>4, ConcatProperties
    <3>3. Len(output') + Len(source') = Len(whole) - 1 /\ Len(output') >= 4
      BY <1>3, <1>4
    <3>4. ASSUME NEW i \in 1..(Len(whole) - 1)
          PROVE  (output' \o source')[i] = Replace(whole)[i]
      <4>1. CASE i =< Len(output')
        <5>1. i \in 1..Len(output')
          BY <2>2, <4>1
        <5> QED BY <1>3, <1>4, <3>1, <3>2, <3>3, <4>1, <5>1
      <4>2. CASE ~(i =< Len(output'))
        <5>1. /\ i - Len(output') \in 1..Len(source') /\ Len(output') + (i - Len(output')) + 1 = i + 1
              /\ ~(i < 3) /\ i # 3
          BY <2>2, <3>3, <4>2
        <5>2. source'[i - Len(output')] = whole[i + 1]
          BY <1>3, <1>4, <5>1
        <5> QED BY <3>1, <3>2, <3>3, <4>2, <5>1, <5>2
      <4> QED BY <4>1, <4>2
    <3> DEFINE joined == output' \o source'
    <3>5. joined \in Seq(Byte) /\ Len(joined) = Len(whole) - 1
      BY <3>2, <3>3
    <3>6. \A i \in 1..Len(joined) : joined[i] = Replace(whole)[i]
      BY <3>4, <3>5
    <3> HIDE DEF joined
    <3>7. joined = Replace(whole)
      BY ONLY <3>1, <3>5, <3>6, SeqEqual
    <3> QED BY <3>7 DEF joined
  <2>6. ~disturbed' => \E bytes \in Prepared : output' \o source' = Replace(bytes)
    BY <1>1, <2>5 DEF whole
  <2> QED BY <1>3, <1>4, <2>1, <2>4, <2>6 DEF BodyInv
<1>5. CASE output' = <<>> /\ Len(prefix') < 5 /\ Matches(prefix')
  <2>1. stage' = "preflight"
    <3>1. Len(Opening) = 5
      BY OpeningBytes
    <3> QED BY <1>5, <3>1 DEF Preflight, Goes
  <2>2. ~disturbed' => prefix' \o source' \in Prepared
    BY <1>1, <1>3, <1>5 DEF whole
  <2>3. Matches(prefix)'
    BY <1>5 DEF Matches
  <2> QED BY <1>3, <1>5, <2>1, <2>2, <2>3 DEF BodyInv
<1>6. CASE output' = <<>> /\ ~(Len(prefix') < 5 /\ Matches(prefix'))
  <2>1. stage' = "refused"
    <3>1. Len(Opening) = 5 /\ Internal # Proceeds
      BY OpeningBytes DEF Internal, Proceeds, Answer
    <3> QED BY <1>6, <3>1 DEF Preflight, Goes
  <2>2. disturbed
    <3> SUFFICES ASSUME ~disturbed
                 PROVE  FALSE
      OBVIOUS
    <3>1. whole \in Prepared
      BY <1>1 DEF whole
    <3> QED BY <1>3, <1>6, <3>1, PreparedFacts
  <2> QED BY <1>1, <2>1, <2>2 DEF BodyInv
<1> QED BY <1>4, <1>5, <1>6

\* A pull passes on the next bytes.
LEMMA PullBodyBody ==
  ASSUME IngressInv, BodyInv, PullBody
  PROVE  BodyInv'
<1>1. /\ stage = "pulled" /\ stage' = stage /\ disturbed' = disturbed
      /\ output \in Seq(Byte) /\ source \in Seq(Byte) /\ Len(output) >= 4
      /\ output[1] = "o1" /\ output[2] = "o2" /\ output[3] = "granted" /\ output[4] = "comma"
      /\ ~disturbed => \E bytes \in Prepared : output \o source = Replace(bytes)
  BY DEF BodyInv, PullBody, At, pathVars
<1>2. PICK n \in 1..Len(source) : Pull(n)
  BY DEF PullBody
<1> DEFINE chunk == SubSeq(source, 1, n)
           rest == SubSeq(source, n + 1, Len(source))
<1>3. output' = output \o chunk /\ source' = rest
  BY <1>2 DEF Pull
<1>4. Len(source) \in Nat /\ Len(output) \in Nat /\ n \in Nat /\ n =< Len(source) /\ 1 =< n
  BY <1>1, LenProperties
<1>5. chunk \in Seq(Byte) /\ rest \in Seq(Byte) /\ chunk \o rest = source
  <2>1. /\ 1 \in Int /\ n \in Int /\ n + 1 \in Int /\ Len(source) \in Int /\ 1 =< 1 /\ 1 =< n + 1 /\ n =< Len(source)
        /\ n + 1 =< Len(source) + 1 /\ Len(source) =< Len(source)
    BY <1>4
  <2>2. chunk \in Seq(Byte) /\ rest \in Seq(Byte)
    BY ONLY <1>1, <2>1, Cut
  <2>3. 1 \in 1..(Len(source) + 1) /\ n \in (1 - 1)..Len(source) /\ Len(source) \in n..Len(source)
    BY <1>4
  <2>4. chunk \o rest = SubSeq(source, 1, Len(source))
    BY ONLY <1>1, <2>3, ConcatAdjacentSubSeq
  <2> QED BY <1>1, <2>2, <2>4, SubSeqFull
<1> HIDE DEF chunk, rest
<1>6. /\ output' \in Seq(Byte) /\ Len(output') = Len(output) + Len(chunk) /\ Len(chunk) \in Nat
      /\ \A i \in 1..(Len(output) + Len(chunk)) :
            output'[i] = IF i =< Len(output) THEN output[i] ELSE chunk[i - Len(output)]
  BY <1>1, <1>3, <1>5, ConcatProperties, LenProperties
<1>7. /\ Len(output') >= 4 /\ output'[1] = output[1] /\ output'[2] = output[2]
      /\ output'[3] = output[3] /\ output'[4] = output[4]
  <2>1. \A i \in {1, 2, 3, 4} : i \in 1..(Len(output) + Len(chunk)) /\ i =< Len(output)
    BY <1>1, <1>4, <1>6
  <2>2. Len(output') >= 4
    BY <1>1, <1>4, <1>6
  <2> QED BY <1>6, <2>1, <2>2
<1>8. output' \o source' = output \o source
  <2>1. (output \o chunk) \o rest = output \o (chunk \o rest)
    <3>1. output \in Seq(Byte) /\ chunk \in Seq(Byte) /\ rest \in Seq(Byte)
      BY <1>1, <1>5
    <3> QED BY ONLY <3>1, ConcatAssociative
  <2> QED BY <1>3, <1>5, <2>1
<1> QED BY <1>1, <1>3, <1>5, <1>6, <1>7, <1>8 DEF BodyInv

\* A refusal before the body is sent is one of a request that is still known.
LEMMA OthersBody ==
  ASSUME IngressInv, BodyInv, IngressInv',
         \/ ReadBody \/ Tokenize \/ Prepare \/ PrepareAnswered \/ Relay \/ ResolveBudget
         \/ Send \/ BodyBreaks \/ BodySent
         \/ UpstreamRefuses \/ UpstreamStreams \/ ReadChunk \/ EndOfStream \/ UNCHANGED allVars
  PROVE  BodyInv'
<1>1. CASE ReadBody \/ Tokenize \/ Prepare \/ PrepareAnswered \/ Relay \/ ResolveBudget
  <2>1. /\ stage \in {"arrived", "tokenize", "replied", "budget"} /\ request' = request
        /\ stage' \in {"tokenize", "budget", "replied", "granted", "answered", "refused"}
    BY <1>1 DEF ReadBody, Tokenize, Prepare, PrepareAnswered, Relay, ResolveBudget, At, Goes
  <2>2. request' # Nothing
    BY <2>1, DataPathAssumption, NothingIsNoRequest DEF IngressInv
  <2> QED BY <2>1, <2>2 DEF BodyInv
<1>2. CASE Send \/ BodyBreaks \/ BodySent \/ UpstreamRefuses \/ UpstreamStreams \/ EndOfStream
  <2>1. stage' \in {"sent", "answered", "streaming", "read"}
    BY <1>2 DEF Send, BodyBreaks, BodySent, UpstreamRefuses, UpstreamStreams, EndOfStream
  <2> QED BY <2>1 DEF BodyInv
<1>3. CASE ReadChunk \/ UNCHANGED allVars
  <2>1. UNCHANGED <<pathVars, bodyVars>>
    BY <1>3 DEF ReadChunk, allVars
  <2> QED BY <2>1 DEF BodyInv, pathVars, bodyVars, Matches
<1> QED BY <1>1, <1>2, <1>3

\* However it is cut, upstream receives the prepared body with the limit in place.
THEOREM PreparedBytesAlwaysExact == DataPathSpec => []PreparedBytesExact
<1>1. DataPathInit => BodyInv
  BY DEF DataPathInit, BodyInv
<1>2. IngressInv /\ IngressInv' /\ BodyInv /\ [DataPathNext]_allVars => BodyInv'
  BY ReceivePreparedBody, PreflightBody, PullBodyBody, OthersBody DEF DataPathNext
<1>3. BodyInv => PreparedBytesExact
  <2> SUFFICES ASSUME BodyInv
               PROVE  PreparedBytesExact
    OBVIOUS
  <2>1. ASSUME stage = "pulled"
        PROVE  SubSeq(output, 1, 4) = <<"o1", "o2">> \o Limit \o <<"comma">>
    <3> DEFINE begins == SubSeq(output, 1, 4)
               first == <<"o1", "o2">>
               comma == <<"comma">>
    <3>1. /\ output \in Seq(Byte) /\ Len(output) >= 4
          /\ output[1] = "o1" /\ output[2] = "o2" /\ output[3] = "granted" /\ output[4] = "comma"
      BY <2>1 DEF BodyInv
    <3>2. begins \in Seq(Byte) /\ Len(begins) = 4 /\ \A i \in 1..4 : begins[i] = output[i]
      <4>1. Len(output) \in Nat
        BY <3>1, LenProperties
      <4>2. 4 - 1 + 1 = 4 /\ \A i \in 1..4 : 1 + i - 1 = i
        OBVIOUS
      <4> QED BY <3>1, <4>1, <4>2, Cut
    <3>3. /\ first \in Seq(Byte) /\ Len(first) = 2 /\ first[1] = "o1" /\ first[2] = "o2"
          /\ comma \in Seq(Byte) /\ Len(comma) = 1 /\ comma[1] = "comma"
          /\ Limit \in Seq(Byte) /\ Len(Limit) = 1 /\ Limit[1] = "granted"
      BY DEF Byte, Limit
    <3> HIDE DEF begins, first, comma
    <3> DEFINE three == first \o Limit
    <3>4. /\ three \in Seq(Byte) /\ Len(three) = Len(first) + Len(Limit)
          /\ \A i \in 1..(Len(first) + Len(Limit)) :
                three[i] = IF i =< Len(first) THEN first[i] ELSE Limit[i - Len(first)]
      BY <3>3, ConcatProperties
    <3> HIDE DEF three
    <3>5. three \in Seq(Byte) /\ Len(three) = 3 /\ three[1] = "o1" /\ three[2] = "o2" /\ three[3] = "granted"
      <4>1. 1 \in 1..3 /\ 2 \in 1..3 /\ 3 \in 1..3 /\ 3 - 2 = 1
        OBVIOUS
      <4> QED BY <3>3, <3>4, <4>1
    <3>6. /\ three \o comma \in Seq(Byte) /\ Len(three \o comma) = Len(three) + Len(comma)
          /\ \A i \in 1..(Len(three) + Len(comma)) :
                (three \o comma)[i] = IF i =< Len(three) THEN three[i] ELSE comma[i - Len(three)]
      BY <3>3, <3>5, ConcatProperties
    <3>7. /\ Len(three \o comma) = 4 /\ (three \o comma)[1] = "o1" /\ (three \o comma)[2] = "o2"
          /\ (three \o comma)[3] = "granted" /\ (three \o comma)[4] = "comma"
      <4>1. 1 \in 1..4 /\ 2 \in 1..4 /\ 3 \in 1..4 /\ 4 \in 1..4 /\ 4 - 3 = 1
        OBVIOUS
      <4> QED BY <3>3, <3>5, <3>6, <4>1
    <3>8. \A i \in 1..4 : begins[i] = (three \o comma)[i]
      <4>1. \A i \in 1..4 : i \in {1, 2, 3, 4}
        OBVIOUS
      <4> QED BY <3>1, <3>2, <3>7, <4>1
    <3> QED BY <3>2, <3>6, <3>7, <3>8, SeqEqual DEF begins, three, first, comma
  <2> QED BY <2>1 DEF BodyInv, PreparedBytesExact
<1> QED BY <1>1, <1>2, <1>3, IngressInvariant, PTL DEF DataPathSpec

-----------------------------------------------------------------------------
(***************************************************************************)
(* Usage in a text. An event has usage at a place that can be told from    *)
(* the whole text: the string usage and its object stand there, and the    *)
(* quotes since the last blank line are paired.                            *)
(***************************************************************************)

Char == {"q", "u", "n", "v1", "v2", "x", "b"}

Quotes(text, s, k) == {j \in s..(k - 1) : text[j] = "q"}

\* The event of place k begins at s.
BeginsAt(text, s, k) == (s = 1 \/ text[s - 1] = "b") /\ \A j \in s..k : text[j] # "b"

Spelled(text, k) ==
    /\ text[k] = "q" /\ text[k + 1] = "u" /\ text[k + 2] = "q"
    /\ text[k + 3] = "v1" /\ text[k + 4] = "v2"

UsageAt(text, k) ==
    /\ k \in 1..(Len(text) - 4) /\ Spelled(text, k)
    /\ \E s \in 1..k : BeginsAt(text, s, k) /\ Cardinality(Quotes(text, s, k)) % 2 = 0

\* As many quotes stand in two equal stretches of text.
LEMMA QuotesShift ==
  ASSUME NEW a, NEW b, NEW d \in Int, NEW s \in Int, NEW k \in Int,
         \A j \in s..(k - 1) : a[j] = b[j + d]
  PROVE  Cardinality(Quotes(a, s, k)) = Cardinality(Quotes(b, s + d, k + d))
<1> DEFINE A == Quotes(a, s, k)
           B == Quotes(b, s + d, k + d)
           f == [j \in A |-> j + d]
<1>1. IsFiniteSet(A)
  <2>1. A \in SUBSET (s..(k - 1)) /\ k - 1 \in Int
    BY DEF Quotes
  <2>2. IsFiniteSet(s..(k - 1))
    BY <2>1, FS_Interval
  <2> QED BY <2>1, <2>2, FS_Subset
<1>2. \A j \in A : j \in Int /\ j + d \in B
  BY DEF Quotes
<1>3. \A i \in B : i - d \in A /\ (i - d) + d = i
  <2> TAKE i \in B
  <2>1. i \in (s + d)..((k + d) - 1) /\ b[i] = "q"
    BY DEF Quotes
  <2>2. i - d \in s..(k - 1) /\ (i - d) + d = i
    BY <2>1
  <2> QED BY <2>1, <2>2 DEF Quotes
<1> HIDE DEF A, B
<1>4. f \in [A -> B] /\ \A x, y \in A : f[x] = f[y] => x = y
  BY <1>2
<1>5. \A i \in B : \E j \in A : f[j] = i
  <2> TAKE i \in B
  <2>1. i - d \in A /\ f[i - d] = i
    BY <1>3
  <2> HIDE DEF f
  <2> QED BY <2>1
<1>6. f \in Bijection(A, B)
  <2> HIDE DEF f
  <2> QED BY <1>4, <1>5, Fun_IsBij
<1>7. ExistsBijection(A, B)
  <2> HIDE DEF f
  <2> QED BY <1>6 DEF ExistsBijection
<1> QED BY <1>1, <1>7, FS_Bijection DEF A, B

\* A place in a part of a text that begins where an event does, or whose event
\* begins within the part, is a place in the text.
LEMMA UsageShift ==
  ASSUME NEW text \in Seq(Char), NEW part \in Seq(Char), NEW d \in Nat, Len(part) + d =< Len(text),
         \A j \in 1..Len(part) : part[j] = text[j + d],
         d = 0 \/ text[d] = "b", NEW k \in Int
  PROVE  UsageAt(part, k) <=> k >= 1 /\ k + 4 =< Len(part) /\ UsageAt(text, k + d)
<1>1. Len(text) \in Nat /\ Len(part) \in Nat
  BY LenProperties
<1>2. ASSUME k \in 1..(Len(part) - 4)
      PROVE  Spelled(part, k) <=> Spelled(text, k + d)
  <2>1. /\ k \in 1..Len(part) /\ k + 1 \in 1..Len(part) /\ k + 2 \in 1..Len(part)
        /\ k + 3 \in 1..Len(part) /\ k + 4 \in 1..Len(part)
        /\ (k + 1) + d = (k + d) + 1 /\ (k + 2) + d = (k + d) + 2
        /\ (k + 3) + d = (k + d) + 3 /\ (k + 4) + d = (k + d) + 4
    BY <1>1, <1>2
  <2> QED BY <2>1 DEF Spelled
<1>3. ASSUME NEW s \in 1..k, k \in 1..(Len(part) - 4)
      PROVE  /\ BeginsAt(part, s, k) <=> BeginsAt(text, s + d, k + d)
             /\ Cardinality(Quotes(part, s, k)) = Cardinality(Quotes(text, s + d, k + d))
  <2>1. \A j \in s..k : j \in 1..Len(part)
    BY <1>1, <1>3
  <2>2. (\A j \in s..k : part[j] # "b") <=> \A j \in (s + d)..(k + d) : text[j] # "b"
    <3>1. \A j \in s..k : j + d \in (s + d)..(k + d) /\ part[j] = text[j + d]
      BY <1>1, <1>3, <2>1
    <3>2. \A i \in (s + d)..(k + d) : i - d \in s..k /\ (i - d) + d = i
      BY <1>1, <1>3
    <3>3. ASSUME \A j \in s..k : part[j] # "b", NEW i \in (s + d)..(k + d)
          PROVE  text[i] # "b"
      <4>1. i - d \in s..k /\ (i - d) + d = i
        BY ONLY <3>2, <3>3, Zenon
      <4>2. part[i - d] = text[(i - d) + d] /\ part[i - d] # "b"
        BY ONLY <3>1, <3>3, <4>1, Zenon
      <4> QED BY ONLY <4>1, <4>2, Zenon
    <3>4. ASSUME \A j \in (s + d)..(k + d) : text[j] # "b", NEW j \in s..k
          PROVE  part[j] # "b"
      BY ONLY <3>1, <3>4, Zenon
    <3> QED BY ONLY <3>3, <3>4, Zenon
  <2>3. (s = 1 \/ part[s - 1] = "b") <=> (s + d = 1 \/ text[(s + d) - 1] = "b")
    <3>1. CASE s = 1
      <4>1. (s + d) - 1 = d /\ (d = 0 => s + d = 1)
        BY <3>1
      <4> QED BY <3>1, <4>1
    <3>2. CASE s # 1
      <4>1. s - 1 \in 1..Len(part) /\ (s - 1) + d = (s + d) - 1 /\ s + d # 1
        BY <1>1, <1>3, <3>2
      <4> QED BY <3>2, <4>1
    <3> QED BY <3>1, <3>2
  <2>4. \A j \in s..(k - 1) : part[j] = text[j + d]
    BY <1>1, <1>3, <2>1
  <2>5. Cardinality(Quotes(part, s, k)) = Cardinality(Quotes(text, s + d, k + d))
    <3>1. s \in Int /\ k \in Int /\ d \in Int
      OBVIOUS
    <3> QED BY <2>4, <3>1, QuotesShift
  <2> QED BY <2>2, <2>3, <2>5 DEF BeginsAt
<1>4. ASSUME UsageAt(part, k)
      PROVE  k >= 1 /\ k + 4 =< Len(part) /\ UsageAt(text, k + d)
  <2>1. k \in 1..(Len(part) - 4) /\ Spelled(part, k)
    BY <1>4 DEF UsageAt
  <2>2. PICK s \in 1..k : BeginsAt(part, s, k) /\ Cardinality(Quotes(part, s, k)) % 2 = 0
    BY <1>4 DEF UsageAt
  <2>3. BeginsAt(text, s + d, k + d) /\ Cardinality(Quotes(text, s + d, k + d)) % 2 = 0
    BY <1>3, <2>1, <2>2
  <2>4. /\ k + d \in 1..(Len(text) - 4) /\ s + d \in 1..(k + d)
        /\ k >= 1 /\ k + 4 =< Len(part)
    BY <1>1, <2>1, <2>2
  <2> QED BY <1>2, <2>1, <2>3, <2>4 DEF UsageAt
<1>5. ASSUME k >= 1, k + 4 =< Len(part), UsageAt(text, k + d)
      PROVE  UsageAt(part, k)
  <2>1. k \in 1..(Len(part) - 4)
    BY <1>1, <1>5
  <2>2. PICK u \in 1..(k + d) : BeginsAt(text, u, k + d) /\ Cardinality(Quotes(text, u, k + d)) % 2 = 0
    BY <1>5 DEF UsageAt
  <2>3. u > d
    <3> SUFFICES ASSUME u =< d
                 PROVE  FALSE
      BY <2>2
    <3>1. d \in u..(k + d) /\ d # 0
      BY <2>1, <2>2
    <3> QED BY <2>2, <3>1 DEF BeginsAt
  <2>4. u - d \in 1..k /\ (u - d) + d = u
    BY <2>1, <2>2, <2>3
  <2>5. BeginsAt(part, u - d, k) /\ Cardinality(Quotes(part, u - d, k)) % 2 = 0
    BY <1>3, <2>1, <2>2, <2>4
  <2>6. Spelled(part, k)
    BY <1>2, <1>5, <2>1 DEF UsageAt
  <2> QED BY <2>1, <2>4, <2>5, <2>6 DEF UsageAt
<1> QED BY <1>4, <1>5

\* An event looked at alone has usage where the text has it.
LEMMA EventUsage ==
  ASSUME NEW text \in Seq(Char), NEW s \in Int, NEW e \in Int, 1 =< s, s =< e + 1, e =< Len(text),
         s = 1 \/ text[s - 1] = "b", \A j \in s..e : text[j] # "b"
  PROVE  EventHasUsage(SubSeq(text, s, e)) <=> \E k \in s..(e - 4) : UsageAt(text, k)
<1> DEFINE part == SubSeq(text, s, e)
           d == s - 1
<1>1. /\ part \in Seq(Char) /\ Len(part) = e - s + 1
      /\ \A i \in 1..(e - s + 1) : part[i] = text[s + i - 1]
  BY Cut
<1> HIDE DEF part
<1>2. /\ Len(text) \in Nat /\ d \in Nat /\ Len(part) + d =< Len(text) /\ (d = 0 \/ text[d] = "b")
      /\ \A j \in 1..Len(part) : part[j] = text[j + d]
  <2>1. Len(text) \in Nat
    BY LenProperties
  <2>2. \A j \in 1..Len(part) : s + j - 1 = j + d /\ j \in 1..(e - s + 1)
    BY <1>1
  <2>3. d \in Nat /\ Len(part) + d =< Len(text) /\ (s = 1 => d = 0)
    BY <1>1, <2>1
  <2> QED BY <1>1, <2>1, <2>2, <2>3
<1>3. ASSUME NEW k \in 1..(Len(part) - 4)
      PROVE  SubSeq(part, k, k + 4) = Needle \o UsageValue <=> Spelled(part, k)
  <2> DEFINE p == SubSeq(part, k, k + 4)
             w == Needle \o UsageValue
  <2>1. /\ p \in Seq(Char) /\ Len(p) = 5 /\ p[1] = part[k] /\ p[2] = part[k + 1] /\ p[3] = part[k + 2]
        /\ p[4] = part[k + 3] /\ p[5] = part[k + 4]
    <3>1. /\ Len(part) \in Nat /\ k \in Int /\ k + 4 \in Int /\ 1 =< k /\ k =< (k + 4) + 1
          /\ k + 4 =< Len(part) /\ (k + 4) - k + 1 = 5
      BY <1>1, LenProperties
    <3>2. /\ p \in Seq(Char) /\ Len(p) = (k + 4) - k + 1
          /\ \A i \in 1..((k + 4) - k + 1) : p[i] = part[k + i - 1]
      BY <1>1, <3>1, Cut
    <3> HIDE DEF p
    <3>3. /\ 1 \in 1..5 /\ 2 \in 1..5 /\ 3 \in 1..5 /\ 4 \in 1..5 /\ 5 \in 1..5
          /\ k + 1 - 1 = k /\ k + 2 - 1 = k + 1 /\ k + 3 - 1 = k + 2 /\ k + 4 - 1 = k + 3 /\ k + 5 - 1 = k + 4
      OBVIOUS
    <3> QED BY <3>1, <3>2, <3>3
  <2>2. /\ w \in Seq(Char) /\ Len(w) = 5 /\ w[1] = "q" /\ w[2] = "u" /\ w[3] = "q" /\ w[4] = "v1" /\ w[5] = "v2"
    <3>1. /\ Needle \in Seq(Char) /\ Len(Needle) = 3 /\ Needle[1] = "q" /\ Needle[2] = "u" /\ Needle[3] = "q"
          /\ UsageValue \in Seq(Char) /\ Len(UsageValue) = 2 /\ UsageValue[1] = "v1" /\ UsageValue[2] = "v2"
      BY DEF Needle, UsageValue, Char
    <3>2. /\ w \in Seq(Char) /\ Len(w) = Len(Needle) + Len(UsageValue)
          /\ \A i \in 1..(Len(Needle) + Len(UsageValue)) :
                w[i] = IF i =< Len(Needle) THEN Needle[i] ELSE UsageValue[i - Len(Needle)]
      <4>1. Needle \in Seq(Char) /\ UsageValue \in Seq(Char)
        BY <3>1
      <4> QED BY ONLY <4>1, ConcatProperties
    <3> HIDE DEF w
    <3>3. /\ 1 \in 1..5 /\ 2 \in 1..5 /\ 3 \in 1..5 /\ 4 \in 1..5 /\ 5 \in 1..5 /\ 3 + 2 = 5 /\ 4 - 3 = 1 /\ 5 - 3 = 2
      OBVIOUS
    <3> QED BY <3>1, <3>2, <3>3
  <2> HIDE DEF p, w
  <2>3. ASSUME Spelled(part, k)
        PROVE  p = w
    <3>1. \A i \in 1..5 : i \in {1, 2, 3, 4, 5}
      OBVIOUS
    <3>2. \A i \in 1..Len(p) : p[i] = w[i]
      BY <2>1, <2>2, <2>3, <3>1, SMTT(40) DEF Spelled
    <3> QED BY <2>1, <2>2, <3>2, SeqEqual
  <2>4. p = w => Spelled(part, k)
    BY <2>1, <2>2 DEF Spelled
  <2> QED BY <2>3, <2>4 DEF p, w
<1>4. ASSUME NEW k \in 1..(Len(part) - 4), Spelled(part, k)
      PROVE  Opens(part, k) <=> UsageAt(part, k)
  <2>0. Len(part) \in Nat
    BY <1>1, LenProperties
  <2>1. BeginsAt(part, 1, k)
    <3>1. \A j \in 1..k : j \in 1..Len(part) /\ j + d \in s..e
      BY <1>1, <2>0
    <3> QED BY <1>2, <3>1 DEF BeginsAt
  <2>2. Opens(part, k) <=> Cardinality(Quotes(part, 1, k)) % 2 = 0
    BY <1>4 DEF Opens, Quotes, Spelled
  <2>3. ASSUME NEW u \in 1..k, BeginsAt(part, u, k)
        PROVE  u = 1
    <3> SUFFICES ASSUME u # 1
                 PROVE  FALSE
      OBVIOUS
    <3>1. u - 1 \in 1..k /\ part[u - 1] = "b"
      BY <2>3 DEF BeginsAt
    <3> QED BY <2>1, <3>1 DEF BeginsAt
  <2>4. 1 \in 1..k
    OBVIOUS
  <2> QED BY <1>4, <2>1, <2>2, <2>3, <2>4 DEF UsageAt
<1>5. HasUsage(part) <=> \E k \in 1..(Len(part) - 4) : UsageAt(part, k)
  <2>1. \A k : UsageAt(part, k) => Spelled(part, k)
    BY DEF UsageAt
  <2> QED BY <1>3, <1>4, <2>1 DEF HasUsage
<1>6. HasUsage(part) => Within(part, Needle)
  <2> SUFFICES ASSUME NEW k \in 1..(Len(part) - 4), Spelled(part, k)
               PROVE  Within(part, Needle)
    BY <1>3 DEF HasUsage
  <2> DEFINE p == SubSeq(part, k, k + 2)
  <2>1. /\ Needle \in Seq(Char) /\ Len(Needle) = 3 /\ Needle[1] = "q" /\ Needle[2] = "u" /\ Needle[3] = "q"
    BY DEF Needle, Char
  <2>2. /\ p \in Seq(Char) /\ Len(p) = 3 /\ p[1] = part[k] /\ p[2] = part[k + 1] /\ p[3] = part[k + 2]
    <3>1. /\ Len(part) \in Nat /\ k \in Int /\ k + 2 \in Int /\ 1 =< k /\ k =< (k + 2) + 1
          /\ k + 2 =< Len(part) /\ (k + 2) - k + 1 = 3
      BY <1>1, LenProperties
    <3>2. /\ p \in Seq(Char) /\ Len(p) = (k + 2) - k + 1
          /\ \A i \in 1..((k + 2) - k + 1) : p[i] = part[k + i - 1]
      BY <1>1, <3>1, Cut
    <3> HIDE DEF p
    <3>3. 1 \in 1..3 /\ 2 \in 1..3 /\ 3 \in 1..3 /\ k + 1 - 1 = k /\ k + 2 - 1 = k + 1 /\ k + 3 - 1 = k + 2
      OBVIOUS
    <3> QED BY <3>1, <3>2, <3>3
  <2> HIDE DEF p
  <2>3. p = Needle
    <3>1. \A i \in 1..3 : i \in {1, 2, 3}
      OBVIOUS
    <3>2. \A i \in 1..Len(p) : p[i] = Needle[i]
      BY <2>1, <2>2, <3>1 DEF Spelled
    <3> QED BY <2>1, <2>2, <3>2, SeqEqual
  <2>4. k \in 1..(Len(part) - Len(Needle) + 1) /\ k + Len(Needle) - 1 = k + 2
    <3>1. Len(part) \in Nat
      BY <1>1, LenProperties
    <3> QED BY <2>1, <3>1
  <2> QED BY <2>3, <2>4 DEF Within, p
<1>7. ASSUME NEW k \in Int
      PROVE  UsageAt(part, k) <=> k >= 1 /\ k + 4 =< Len(part) /\ UsageAt(text, k + d)
  <2> HIDE DEF d
  <2> QED BY <1>1, <1>2, UsageShift
<1>8. (\E k \in 1..(Len(part) - 4) : UsageAt(part, k)) <=> \E k \in s..(e - 4) : UsageAt(text, k)
  <2>1. \A k \in 1..(Len(part) - 4) : k \in Int /\ k + d \in s..(e - 4)
    BY <1>1
  <2>2. \A k \in s..(e - 4) : /\ k - d \in Int /\ (k - d) + d = k /\ k - d >= 1 /\ (k - d) + 4 =< Len(part)
                              /\ k - d \in 1..(Len(part) - 4)
    BY <1>1
  <2> HIDE DEF d
  <2>3. ASSUME NEW k \in 1..(Len(part) - 4), UsageAt(part, k)
        PROVE  \E i \in s..(e - 4) : UsageAt(text, i)
    BY <1>7, <2>1, <2>3
  <2>4. ASSUME NEW k \in s..(e - 4), UsageAt(text, k)
        PROVE  \E i \in 1..(Len(part) - 4) : UsageAt(part, i)
    <3>1. UsageAt(part, k - d)
      BY <1>7, <2>2, <2>4
    <3> QED BY <2>2, <3>1
  <2> QED BY <2>3, <2>4
<1> QED BY <1>5, <1>6, <1>8 DEF EventHasUsage, part

\* The last boundary before a place, or the beginning.
LEMMA LastBoundary ==
  ASSUME NEW text \in Seq(Char), NEW i \in Int, 1 =< i, i =< Len(text) + 1,
         NEW at, at = Max({j \in Boundaries(text) : j < i} \cup {0})
  PROVE  /\ at \in 0..(i - 1) /\ (at = 0 \/ text[at] = "b")
         /\ \A j \in (at + 1)..(i - 1) : text[j] # "b"
<1> DEFINE T == {j \in Boundaries(text) : j < i} \cup {0}
<1>1. Len(text) \in Nat /\ DOMAIN text = 1..Len(text)
  BY LenProperties
<1>2. T \subseteq 0..(i - 1) /\ T # {} /\ i - 1 \in Nat
  BY <1>1 DEF Boundaries
<1>3. \A j \in T : j = 0 \/ text[j] = "b"
  BY DEF Boundaries
<1>4. \A j \in 1..(i - 1) : text[j] = "b" => j \in T
  BY <1>1 DEF Boundaries
<1> HIDE DEF T
<1>5. at \in T /\ \A y \in T : at >= y
  BY <1>2, MaxIsGreatest DEF T
<1>6. at \in 0..(i - 1)
  BY <1>2, <1>5
<1>7. ASSUME NEW j \in (at + 1)..(i - 1), text[j] = "b"
      PROVE  FALSE
  <2>1. j \in 1..(i - 1) /\ j > at
    BY <1>6, <1>7
  <2>2. j \in T
    BY <1>4, <1>7, <2>1
  <2>3. at >= j
    BY <1>5, <2>2
  <2> QED BY <1>6, <2>1, <2>3
<1> QED BY <1>3, <1>5, <1>6, <1>7

\* What is left of a text behind its last blank line.
LEMMA LastEventFacts ==
  ASSUME NEW text \in Seq(Char)
  PROVE  \E s \in 1..(Len(text) + 1) :
            /\ LastEvent(text) = SubSeq(text, s, Len(text)) /\ (s = 1 \/ text[s - 1] = "b")
            /\ \A j \in s..Len(text) : text[j] # "b"
<1> DEFINE i == Len(text) + 1
           at == Max({j \in Boundaries(text) : j < i} \cup {0})
<1>1. Len(text) \in Nat /\ DOMAIN text = 1..Len(text) /\ i \in Int /\ 1 =< i /\ i =< Len(text) + 1
  BY LenProperties
<1>2. {j \in Boundaries(text) : j < i} = Boundaries(text)
  BY <1>1 DEF Boundaries
<1>3. /\ at \in 0..(i - 1) /\ (at = 0 \/ text[at] = "b")
      /\ \A j \in (at + 1)..(i - 1) : text[j] # "b"
  <2> HIDE DEF i
  <2> QED BY <1>1, LastBoundary
<1>4. LastEvent(text) = SubSeq(text, at + 1, Len(text))
  BY <1>2 DEF LastEvent
<1> HIDE DEF at
<1>5. at + 1 \in 1..(Len(text) + 1) /\ (at + 1) - 1 = at /\ i - 1 = Len(text) /\ (at = 0 => at + 1 = 1)
  BY <1>1, <1>3
<1> QED BY <1>3, <1>4, <1>5

\* Nothing in a spelled usage is a blank line.
LEMMA SpelledWhole ==
  ASSUME NEW text, NEW k \in Int, Spelled(text, k)
  PROVE  \A j \in k..(k + 4) : text[j] # "b"
<1>1. \A j \in k..(k + 4) : j = k \/ j = k + 1 \/ j = k + 2 \/ j = k + 3 \/ j = k + 4
  OBVIOUS
<1> QED BY <1>1 DEF Spelled

\* The closed events have usage where a blank line follows it.
LEMMA ClosedUsage ==
  ASSUME NEW text \in Seq(Char)
  PROVE  (\E event \in ClosedEvents(text) : EventHasUsage(event)) <=>
         \E k \in 1..Len(text) : UsageAt(text, k) /\ \E j \in k..Len(text) : text[j] = "b"
<1>1. Len(text) \in Nat /\ DOMAIN text = 1..Len(text)
  BY LenProperties
<1> DEFINE Before(i) == Max({j \in Boundaries(text) : j < i} \cup {0})
<1>2. ASSUME NEW i \in Boundaries(text)
      PROVE  /\ i \in 1..Len(text) /\ text[i] = "b"
             /\ Before(i) \in 0..(i - 1) /\ (Before(i) = 0 \/ text[Before(i)] = "b")
             /\ \A j \in (Before(i) + 1)..(i - 1) : text[j] # "b"
             /\ EventHasUsage(SubSeq(text, Before(i) + 1, i - 1)) <=>
                   \E k \in (Before(i) + 1)..(i - 5) : UsageAt(text, k)
  <2>1. i \in 1..Len(text) /\ text[i] = "b" /\ i \in Int /\ 1 =< i /\ i =< Len(text) + 1
    BY <1>1, <1>2 DEF Boundaries
  <2>2. /\ Before(i) \in 0..(i - 1) /\ (Before(i) = 0 \/ text[Before(i)] = "b")
        /\ \A j \in (Before(i) + 1)..(i - 1) : text[j] # "b"
    BY <2>1, LastBoundary
  <2> HIDE DEF Before
  <2> DEFINE s == Before(i) + 1
             e == i - 1
  <2>3. /\ s \in Int /\ e \in Int /\ 1 =< s /\ s =< e + 1 /\ e =< Len(text) /\ s - 1 = Before(i) /\ e - 4 = i - 5
        /\ Before(i) = 0 => s = 1
    BY <1>1, <2>1, <2>2
  <2>4. s = 1 \/ text[s - 1] = "b"
    BY <2>2, <2>3
  <2>5. \A j \in s..e : text[j] # "b"
    BY <2>2
  <2> HIDE DEF s, e
  <2>6. EventHasUsage(SubSeq(text, s, e)) <=> \E k \in s..(e - 4) : UsageAt(text, k)
    BY <2>3, <2>4, <2>5, EventUsage
  <2> QED BY <2>1, <2>2, <2>3, <2>6 DEF s, e
<1>3. ClosedEvents(text) = {SubSeq(text, Before(i) + 1, i - 1) : i \in Boundaries(text)}
  BY DEF ClosedEvents
<1> HIDE DEF Before
<1>4. ASSUME NEW i \in Boundaries(text), EventHasUsage(SubSeq(text, Before(i) + 1, i - 1))
      PROVE  \E k \in 1..Len(text) : UsageAt(text, k) /\ \E j \in k..Len(text) : text[j] = "b"
  <2>1. PICK k \in (Before(i) + 1)..(i - 5) : UsageAt(text, k)
    BY <1>2, <1>4
  <2>2. i \in 1..Len(text) /\ text[i] = "b" /\ Before(i) \in 0..(i - 1)
    BY <1>2
  <2>3. k \in 1..Len(text) /\ i \in k..Len(text)
    BY <1>1, <2>1, <2>2
  <2> QED BY <2>1, <2>2, <2>3
<1>5. ASSUME NEW k \in 1..Len(text), UsageAt(text, k), NEW e \in k..Len(text), text[e] = "b"
      PROVE  \E event \in ClosedEvents(text) : EventHasUsage(event)
  <2> DEFINE T == {j \in k..Len(text) : text[j] = "b"}
  <2>1. PICK i \in T : \A y \in T : i =< y
    <3>1. T \subseteq Nat /\ T # {}
      BY <1>1, <1>5
    <3> HIDE DEF T
    <3> QED BY <3>1, LeastNumber
  <2>2. i \in k..Len(text) /\ text[i] = "b" /\ i \in Boundaries(text)
    BY <1>1, <2>1 DEF Boundaries
  <2>3. /\ Before(i) \in 0..(i - 1) /\ (Before(i) = 0 \/ text[Before(i)] = "b")
        /\ EventHasUsage(SubSeq(text, Before(i) + 1, i - 1)) <=>
              \E n \in (Before(i) + 1)..(i - 5) : UsageAt(text, n)
    BY <1>2, <2>2
  <2>4. \A j \in k..(k + 4) : text[j] # "b"
    BY <1>5, SpelledWhole DEF UsageAt
  <2>5. i > k + 4
    <3>1. i \in Int /\ k \in Int /\ i >= k
      BY <1>1, <2>2
    <3>2. ~(i \in k..(k + 4))
      BY <2>2, <2>4
    <3> QED BY <3>1, <3>2
  <2>6. Before(i) < k
    <3> SUFFICES ASSUME Before(i) >= k
                 PROVE  FALSE
      BY <1>1, <2>3
    <3>1. Before(i) \in k..Len(text) /\ Before(i) # 0 /\ Before(i) < i
      BY <1>1, <2>2, <2>3
    <3>2. Before(i) \in T
      BY <2>3, <3>1
    <3> QED BY <1>1, <2>1, <2>2, <3>1, <3>2
  <2>7. k \in (Before(i) + 1)..(i - 5)
    BY <1>1, <2>2, <2>3, <2>5, <2>6
  <2> QED BY <1>3, <1>5, <2>2, <2>3, <2>7
<1> QED BY <1>3, <1>4, <1>5

\* A tail has usage where its text has it.
LEMMA TailUsage ==
  ASSUME NEW text \in Seq(Char)
  PROVE  TailHasUsage(text) <=> \E k \in 1..Len(text) : UsageAt(text, k)
<1>1. Len(text) \in Nat
  BY LenProperties
<1>2. PICK s \in 1..(Len(text) + 1) :
            /\ LastEvent(text) = SubSeq(text, s, Len(text)) /\ (s = 1 \/ text[s - 1] = "b")
            /\ \A j \in s..Len(text) : text[j] # "b"
  BY LastEventFacts
<1>3. EventHasUsage(LastEvent(text)) <=> \E k \in s..(Len(text) - 4) : UsageAt(text, k)
  <2>1. s \in Int /\ Len(text) \in Int /\ 1 =< s /\ s =< Len(text) + 1 /\ Len(text) =< Len(text)
    BY <1>1, <1>2
  <2> QED BY <1>2, <2>1, EventUsage
<1>4. TailHasUsage(text) <=> \/ EventHasUsage(LastEvent(text))
                             \/ \E event \in ClosedEvents(text) : EventHasUsage(event)
  BY DEF TailHasUsage
<1>5. \A k \in s..(Len(text) - 4) : k \in 1..Len(text)
  BY <1>1, <1>2
<1>6. ASSUME NEW k \in 1..Len(text), UsageAt(text, k),
             ~ \E event \in ClosedEvents(text) : EventHasUsage(event)
      PROVE  k \in s..(Len(text) - 4)
  <2>1. k =< Len(text) - 4
    BY <1>1, <1>6 DEF UsageAt
  <2>2. \A j \in k..Len(text) : text[j] # "b"
    BY <1>6, ClosedUsage
  <2>3. s =< k
    <3> SUFFICES ASSUME s > k
                 PROVE  FALSE
      BY <1>1, <1>2
    <3>1. s - 1 \in k..Len(text) /\ s # 1
      BY <1>1, <1>2
    <3> QED BY <1>2, <2>2, <3>1
  <2> QED BY <1>1, <1>2, <2>1, <2>3
<1> QED BY <1>3, <1>4, <1>5, <1>6, ClosedUsage

-----------------------------------------------------------------------------
(***************************************************************************)
(* What upstream sends.                                                    *)
(***************************************************************************)

\* What is put together keeps both of its halves.
LEMMA Joined ==
  ASSUME NEW S, NEW a \in Seq(S), NEW b \in Seq(S)
  PROVE  /\ a \o b \in Seq(S) /\ Len(a \o b) = Len(a) + Len(b)
         /\ \A i \in 1..Len(a) : (a \o b)[i] = a[i]
         /\ \A i \in 1..Len(b) : (a \o b)[Len(a) + i] = b[i]
<1>1. Len(a) \in Nat /\ Len(b) \in Nat
  BY LenProperties
<1>2. /\ a \o b \in Seq(S) /\ Len(a \o b) = Len(a) + Len(b)
      /\ \A i \in 1..(Len(a) + Len(b)) :
            (a \o b)[i] = IF i =< Len(a) THEN a[i] ELSE b[i - Len(a)]
  BY ONLY ConcatProperties, a \in Seq(S), b \in Seq(S)
<1>3. \A i \in 1..Len(a) : i \in 1..(Len(a) + Len(b)) /\ i =< Len(a)
  BY <1>1
<1>4. \A i \in 1..Len(b) : /\ Len(a) + i \in 1..(Len(a) + Len(b)) /\ ~(Len(a) + i =< Len(a))
                           /\ (Len(a) + i) - Len(a) = i
  BY <1>1
<1> QED BY <1>2, <1>3, <1>4

Quiet == Char \ {"v1", "v2"}

\* Other events hold no usage and are not empty.
LEMMA OtherEventFacts ==
  ASSUME NEW e \in OtherEvents
  PROVE  e \in Seq(Quiet) /\ e \o <<"b">> \in Seq(Quiet) /\ <<"b">> \o e \in Seq(Quiet)
         /\ e \o <<"b">> # <<>> /\ (e \o <<"b">>)[Len(e \o <<"b">>)] = "b"
<1>1. e \in Seq(Quiet)
  <2>1. Text \in Seq(Quiet)
    BY DEF Text, Quiet, Char
  <2>2. Needle \in Seq(Quiet) /\ <<"n">> \in Seq(Quiet)
    BY DEF Needle, Quiet, Char
  <2>3. Needle \o <<"n">> \in Seq(Quiet)
    BY ONLY <2>2, ConcatProperties
  <2> QED BY <2>1, <2>3 DEF OtherEvents
<1> DEFINE b == <<"b">>
<1>2. b \in Seq(Quiet) /\ Len(b) = 1 /\ b[1] = "b"
  BY DEF Quiet, Char
<1> HIDE DEF b
<1>3. Len(e) \in Nat /\ 1 \in 1..1
  BY <1>1, LenProperties
<1>4. /\ e \o b \in Seq(Quiet) /\ Len(e \o b) = Len(e) + Len(b) /\ \A i \in 1..Len(b) : (e \o b)[Len(e) + i] = b[i]
      /\ b \o e \in Seq(Quiet)
  <2>1. e \in Seq(Quiet) /\ b \in Seq(Quiet)
    BY <1>1, <1>2
  <2> QED BY ONLY <2>1, Joined
<1>5. (e \o b)[Len(e \o b)] = "b" /\ Len(e \o b) # 0
  BY <1>2, <1>3, <1>4
<1>6. e \o b # <<>>
  BY <1>5
<1> QED BY <1>1, <1>4, <1>5, <1>6 DEF b

\* What stands before the event with usage ends in a blank line; nothing around it
\* has usage.
LEMMA AroundFacts ==
  ASSUME NEW parts \in BoundedSeq(OtherEvents, MaxEvents - 1)
  PROVE  /\ Ended(parts) \in Seq(Quiet) /\ Following(parts) \in Seq(Quiet)
         /\ Ended(parts) = <<>> \/ Ended(parts)[Len(Ended(parts))] = "b"
<1>1. PICK m \in Nat : parts \in [1..m -> OtherEvents]
  BY UsageAssumption DEF BoundedSeq, SeqOf
<1> DEFINE before == [i \in DOMAIN parts |-> parts[i] \o <<"b">>]
           after == [i \in DOMAIN parts |-> <<"b">> \o parts[i]]
<1>2. DOMAIN parts = 1..m /\ \A i \in 1..m : parts[i] \in OtherEvents
  BY <1>1
<1>3. before \in [1..m -> Seq(Quiet)] /\ after \in [1..m -> Seq(Quiet)]
  BY <1>2, OtherEventFacts
<1>4. \A i \in 1..m : LET e == before[i] IN e # <<>> /\ e[Len(e)] = "b"
  BY <1>2, OtherEventFacts
<1> HIDE DEF before, after
<1>5. before \in Seq(Seq(Quiet)) /\ Len(before) = m /\ after \in Seq(Seq(Quiet))
  BY <1>1, <1>3, FunctionIsSeq
<1> DEFINE flat == FlattenSeq(before)
<1>6. /\ flat \in Seq(Quiet) /\ FlattenSeq(after) \in Seq(Quiet)
      /\ before = <<>> => flat = <<>>
      /\ before # <<>> /\ (\A i \in 1..Len(before) : before[i] # <<>>) =>
            LET last == before[Len(before)] IN flat[Len(flat)] = last[Len(last)]
  BY <1>5, FlattenFacts
<1>7. before # <<>> => m \in 1..m
  BY <1>1, <1>5
<1> HIDE DEF flat
<1>8. flat = <<>> \/ flat[Len(flat)] = "b"
  BY <1>4, <1>5, <1>6, <1>7
<1> QED BY <1>6, <1>8 DEF flat, before, after, Ended, Following

\* A stream that holds the beginning of usage holds all of it.
LEMMA WholeUsage ==
  ASSUME NEW w \in Seq(Char), NEW p \in Nat, p = 0 \/ w[p] = "b", NEW e \in UsageEvents,
         p + Len(e) =< Len(w), \A i \in 1..Len(e) : w[p + i] = e[i]
  PROVE  \E k \in 1..Len(w) : UsageAt(w, k)
<1>1. Len(w) \in Nat
  BY LenProperties
<1>2. /\ Needle \in Seq(Char) /\ Len(Needle) = 3 /\ Needle[1] = "q" /\ Needle[2] = "u" /\ Needle[3] = "q"
      /\ UsageValue \in Seq(Char) /\ Len(UsageValue) = 2 /\ UsageValue[1] = "v1" /\ UsageValue[2] = "v2"
  BY DEF Needle, UsageValue, Char
<1>3. Text \in Seq(Char) /\ Len(Text) = 3 /\ Text[1] = "q" /\ Text[2] = "x" /\ Text[3] = "q"
  BY DEF Text, Char
<1>4. CASE e = Needle \o UsageValue
  <2>1. /\ Len(e) = Len(Needle) + Len(UsageValue)
        /\ \A i \in 1..Len(Needle) : e[i] = Needle[i]
        /\ \A i \in 1..Len(UsageValue) : e[Len(Needle) + i] = UsageValue[i]
    <3>1. Needle \in Seq(Char) /\ UsageValue \in Seq(Char)
      BY <1>2
    <3>2. /\ Len(Needle \o UsageValue) = Len(Needle) + Len(UsageValue)
          /\ \A i \in 1..Len(Needle) : (Needle \o UsageValue)[i] = Needle[i]
          /\ \A i \in 1..Len(UsageValue) : (Needle \o UsageValue)[Len(Needle) + i] = UsageValue[i]
      BY ONLY <3>1, Joined
    <3> QED BY ONLY <1>4, <3>2, Zenon
  <2>2. /\ 1 \in 1..3 /\ 2 \in 1..3 /\ 3 \in 1..3 /\ 1 \in 1..2 /\ 2 \in 1..2 /\ 3 + 1 = 4 /\ 3 + 2 = 5
        /\ 1 \in 1..5 /\ 2 \in 1..5 /\ 3 \in 1..5 /\ 4 \in 1..5 /\ 5 \in 1..5
    OBVIOUS
  <2>3. Len(e) = 5 /\ e[1] = "q" /\ e[2] = "u" /\ e[3] = "q" /\ e[4] = "v1" /\ e[5] = "v2"
    BY <1>2, <2>1, <2>2
  <2>4. /\ (p + 1) + 1 = p + 2 /\ (p + 1) + 2 = p + 3 /\ (p + 1) + 3 = p + 4 /\ (p + 1) + 4 = p + 5
        /\ (p + 1) - 1 = p /\ (p = 0 => p + 1 = 1) /\ p + 1 \in 1..(Len(w) - 4) /\ p + 1 \in 1..(p + 1)
        /\ p + 1 \in 1..Len(w) /\ \A j \in (p + 1)..(p + 1) : j = p + 1
    BY <1>1, <2>3
  <2>5. Spelled(w, p + 1)
    BY <2>2, <2>3, <2>4 DEF Spelled
  <2>6. Quotes(w, p + 1, p + 1) = {}
    BY DEF Quotes
  <2>7. Cardinality(Quotes(w, p + 1, p + 1)) % 2 = 0
    <3>1. Cardinality(Quotes(w, p + 1, p + 1)) = 0
      BY <2>6, FS_EmptySet
    <3>2. 0 % 2 = 0
      OBVIOUS
    <3> QED BY ONLY <3>1, <3>2, Zenon
  <2>8. BeginsAt(w, p + 1, p + 1)
    BY <2>4, <2>5 DEF BeginsAt, Spelled
  <2> QED BY <2>4, <2>5, <2>7, <2>8 DEF UsageAt
<1>5. CASE e = Text \o Needle \o UsageValue
  <2> DEFINE t == Text \o Needle
  <2>1. /\ t \in Seq(Char) /\ Len(t) = Len(Text) + Len(Needle)
        /\ \A i \in 1..Len(Text) : t[i] = Text[i]
        /\ \A i \in 1..Len(Needle) : t[Len(Text) + i] = Needle[i]
    <3>1. Needle \in Seq(Char) /\ Text \in Seq(Char)
      BY <1>2, <1>3
    <3> QED BY ONLY <3>1, Joined
  <2>2. e = t \o UsageValue
    BY <1>5
  <2> HIDE DEF t
  <2>3. /\ 1 \in 1..3 /\ 2 \in 1..3 /\ 3 \in 1..3 /\ 1 \in 1..2 /\ 2 \in 1..2 /\ 3 + 1 = 4 /\ 3 + 2 = 5 /\ 3 + 3 = 6
        /\ 1 \in 1..6 /\ 2 \in 1..6 /\ 3 \in 1..6 /\ 4 \in 1..6 /\ 5 \in 1..6 /\ 6 \in 1..6 /\ 6 + 1 = 7 /\ 6 + 2 = 8
        /\ 1 \in 1..8 /\ 2 \in 1..8 /\ 3 \in 1..8 /\ 4 \in 1..8 /\ 5 \in 1..8 /\ 6 \in 1..8 /\ 7 \in 1..8 /\ 8 \in 1..8
    OBVIOUS
  <2>4. t \in Seq(Char) /\ Len(t) = 6 /\ t[1] = "q" /\ t[2] = "x" /\ t[3] = "q" /\ t[4] = "q" /\ t[5] = "u" /\ t[6] = "q"
    BY <1>2, <1>3, <2>1, <2>3
  <2>5. /\ Len(e) = Len(t) + Len(UsageValue)
        /\ \A i \in 1..Len(t) : e[i] = t[i]
        /\ \A i \in 1..Len(UsageValue) : e[Len(t) + i] = UsageValue[i]
    <3>1. t \in Seq(Char) /\ UsageValue \in Seq(Char)
      BY <1>2, <2>4
    <3>2. /\ Len(t \o UsageValue) = Len(t) + Len(UsageValue)
          /\ \A i \in 1..Len(t) : (t \o UsageValue)[i] = t[i]
          /\ \A i \in 1..Len(UsageValue) : (t \o UsageValue)[Len(t) + i] = UsageValue[i]
      BY ONLY <3>1, Joined
    <3> QED BY ONLY <2>2, <3>2, Zenon
  <2>6. /\ Len(e) = 8 /\ e[1] = "q" /\ e[2] = "x" /\ e[3] = "q" /\ e[4] = "q" /\ e[5] = "u" /\ e[6] = "q"
        /\ e[7] = "v1" /\ e[8] = "v2"
    BY <1>2, <2>3, <2>4, <2>5
  <2>7. /\ w[p + 1] = "q" /\ w[p + 2] = "x" /\ w[p + 3] = "q" /\ w[p + 4] = "q" /\ w[p + 5] = "u" /\ w[p + 6] = "q"
        /\ w[p + 7] = "v1" /\ w[p + 8] = "v2"
    BY <2>3, <2>6
  <2>8. /\ (p + 4) + 1 = p + 5 /\ (p + 4) + 2 = p + 6 /\ (p + 4) + 3 = p + 7 /\ (p + 4) + 4 = p + 8
        /\ (p + 1) - 1 = p /\ (p = 0 => p + 1 = 1) /\ p + 4 \in 1..(Len(w) - 4) /\ p + 1 \in 1..(p + 4)
        /\ p + 4 \in 1..Len(w)
    BY <1>1, <2>6
  <2>9. \A j \in (p + 1)..(p + 4) : j \in {p + 1, p + 2, p + 3, p + 4}
    OBVIOUS
  <2>10. Spelled(w, p + 4)
    BY <2>7, <2>8 DEF Spelled
  <2>11. BeginsAt(w, p + 1, p + 4)
    BY <2>7, <2>8, <2>9 DEF BeginsAt
  <2>12. Quotes(w, p + 1, p + 4) = {p + 1, p + 3}
    <3>1. \A j : j \in (p + 1)..((p + 4) - 1) <=> j \in {p + 1, p + 2, p + 3}
      OBVIOUS
    <3> QED BY <2>7, <3>1 DEF Quotes
  <2>13. Cardinality({p + 1, p + 3}) = 2
    <3>1. p + 1 # p + 3
      OBVIOUS
    <3>2. IsFiniteSet({p + 1}) /\ Cardinality({p + 1}) = 1
      BY FS_Singleton
    <3>3. {p + 1, p + 3} = {p + 1} \cup {p + 3} /\ p + 3 \notin {p + 1}
      BY <3>1
    <3>4. Cardinality({p + 1} \cup {p + 3}) = Cardinality({p + 1}) + 1
      BY <3>2, <3>3, FS_AddElement
    <3> QED BY <3>2, <3>3, <3>4
  <2>14. Cardinality(Quotes(w, p + 1, p + 4)) % 2 = 0
    <3>1. Cardinality(Quotes(w, p + 1, p + 4)) = 2
      BY <2>12, <2>13
    <3>2. 2 % 2 = 0
      OBVIOUS
    <3> QED BY ONLY <3>1, <3>2, Zenon
  <2> QED BY <2>8, <2>10, <2>11, <2>14 DEF UsageAt
<1> QED BY <1>4, <1>5 DEF UsageEvents

\* A stream in which an object with usage begins has usage.
LEMMA StreamFacts ==
  ASSUME NEW s \in Streams
  PROVE  s \in Seq(Char) /\ ((\E j \in 1..Len(s) : s[j] = "v1") => \E k \in 1..Len(s) : UsageAt(s, k))
<1> DEFINE parts == BoundedSeq(OtherEvents, MaxEvents - 1)
<1>1. \/ \E a \in parts : s = Ended(a)
      \/ \E a \in parts, e \in UsageEvents, t \in parts, end \in {<<>>, <<"b">>} :
            s = Ended(a) \o e \o Following(t) \o end
  <2>1. s \in {Ended(a) : a \in parts} \cup
              {Ended(a) \o e \o Following(t) \o end :
                  a \in parts, e \in UsageEvents, t \in parts, end \in {<<>>, <<"b">>}}
    BY SMTT(40) DEF Streams
  <2> HIDE DEF parts
  <2> QED BY ONLY <2>1
<1>2. \A a \in parts : /\ Ended(a) \in Seq(Quiet) /\ Following(a) \in Seq(Quiet)
                       /\ Ended(a) = <<>> \/ Ended(a)[Len(Ended(a))] = "b"
  BY AroundFacts
<1> HIDE DEF parts
<1>3. \A q \in Seq(Quiet) : q \in Seq(Char) /\ \A j \in 1..Len(q) : q[j] # "v1"
  <2> TAKE q \in Seq(Quiet)
  <2>1. \A j \in 1..Len(q) : q[j] \in Quiet
    BY ElementOfSeq
  <2>2. Quiet \subseteq Char
    BY DEF Quiet
  <2>3. q \in Seq(Char)
    BY <2>2, Seq(Quiet) \subseteq Seq(Char)
  <2> QED BY <2>1, <2>3 DEF Quiet
<1>4. CASE \E a \in parts : s = Ended(a)
  BY <1>2, <1>3, <1>4
<1>5. ASSUME NEW a \in parts, NEW e \in UsageEvents, NEW t \in parts, NEW end \in {<<>>, <<"b">>},
             s = Ended(a) \o e \o Following(t) \o end
      PROVE  s \in Seq(Char) /\ \E k \in 1..Len(s) : UsageAt(s, k)
  <2> DEFINE b == Ended(a)
             r == Following(t)
             x == b \o e
             y == x \o r
  <2>1. b \in Seq(Char) /\ r \in Seq(Char) /\ (b = <<>> \/ b[Len(b)] = "b")
    BY <1>2, <1>3
  <2>2. end \in Seq(Char)
    <3>1. <<>> \in Seq(Char) /\ <<"b">> \in Seq(Char)
      BY DEF Char
    <3> QED BY ONLY <3>1, end \in {<<>>, <<"b">>}, Zenon
  <2>3. e \in Seq(Char)
    <3>1. Needle \in Seq(Char) /\ UsageValue \in Seq(Char) /\ Text \in Seq(Char)
      BY DEF Needle, UsageValue, Text, Char
    <3>2. Needle \o UsageValue \in Seq(Char) /\ Text \o Needle \in Seq(Char)
      BY ONLY <3>1, ConcatProperties
    <3>3. Text \o Needle \o UsageValue \in Seq(Char)
      BY ONLY <3>1, <3>2, ConcatProperties
    <3> QED BY <3>2, <3>3 DEF UsageEvents
  <2>4. s = y \o end
    BY <1>5
  <2> HIDE DEF b, r
  <2>5. /\ x \in Seq(Char) /\ Len(x) = Len(b) + Len(e)
        /\ \A i \in 1..Len(b) : x[i] = b[i]
        /\ \A i \in 1..Len(e) : x[Len(b) + i] = e[i]
    BY ONLY <2>1, <2>3, Joined
  <2> HIDE DEF x
  <2>6. /\ y \in Seq(Char) /\ Len(y) = Len(x) + Len(r)
        /\ \A i \in 1..Len(x) : y[i] = x[i]
    <3>1. x \in Seq(Char) /\ r \in Seq(Char)
      BY <2>1, <2>5
    <3> QED BY ONLY <3>1, Joined
  <2> HIDE DEF y
  <2>7. /\ s \in Seq(Char) /\ Len(s) = Len(y) + Len(end)
        /\ \A i \in 1..Len(y) : s[i] = y[i]
    BY ONLY <2>2, <2>4, <2>6, Joined
  <2>8. /\ Len(b) \in Nat /\ Len(e) \in Nat /\ Len(r) \in Nat /\ Len(end) \in Nat
        /\ Len(x) \in Nat /\ Len(y) \in Nat /\ Len(s) \in Nat
    BY <2>1, <2>2, <2>3, <2>5, <2>6, <2>7, LenProperties
  <2>9. Len(b) + Len(e) =< Len(s) /\ Len(x) =< Len(y)
    BY <2>5, <2>6, <2>7, <2>8
  <2>10. \A i \in 1..Len(x) : i \in 1..Len(y) /\ s[i] = x[i]
    BY <2>6, <2>7, <2>8, <2>9
  <2>11. \A i \in 1..Len(e) : Len(b) + i \in 1..Len(x)
    BY <2>5, <2>8
  <2>12. \A i \in 1..Len(e) : s[Len(b) + i] = e[i]
    BY <2>5, <2>10, <2>11
  <2>13. Len(b) = 0 \/ s[Len(b)] = "b"
    <3>1. CASE b = <<>>
      BY <3>1
    <3>2. CASE b # <<>> /\ b[Len(b)] = "b"
      <4>1. Len(b) # 0
        BY <2>1, <3>2, EmptySeq
      <4>2. Len(b) \in 1..Len(b) /\ Len(b) \in 1..Len(x)
        BY <2>5, <2>8, <4>1
      <4> QED BY <2>5, <2>10, <3>2, <4>2
    <3> QED BY <2>1, <3>1, <3>2
  <2> QED BY <2>7, <2>8, <2>9, <2>12, <2>13, WholeUsage
<1> QED BY <1>1, <1>4, <1>5

-----------------------------------------------------------------------------
(***************************************************************************)
(* The reader of the direct route. It has found usage exactly when a closed*)
(* event of what it has read has usage; before, it keeps what was read of  *)
(* the last event.                                                         *)
(***************************************************************************)

PendingFrom(text, n, pending, p) ==
    /\ p = 1 \/ text[p - 1] = "b"
    /\ \A j \in p..n : text[j] # "b"
    /\ pending = SubSeq(text, p, n)

DirectSees(text, n, reader) ==
    /\ reader.found \in BOOLEAN
    /\ reader.found <=> \E k \in 1..n : UsageAt(text, k) /\ \E j \in k..n : text[j] = "b"
    /\ ~reader.found => \E p \in 1..(n + 1) : PendingFrom(text, n, reader.pending, p)

\* A blank line behind a place with usage stands behind the usage.
LEMMA BoundaryBehind ==
  ASSUME NEW text, NEW k \in Int, UsageAt(text, k), NEW j \in Int, k =< j, text[j] = "b"
  PROVE  k + 4 < j
<1> SUFFICES ASSUME j =< k + 4
             PROVE  FALSE
  OBVIOUS
<1>1. j \in k..(k + 4)
  OBVIOUS
<1> QED BY <1>1, SpelledWhole DEF UsageAt

\* As long as usage was not found, none stands before the event that is kept.
LEMMA NoneBefore ==
  ASSUME NEW text \in Seq(Char), NEW n \in 0..Len(text), NEW reader, DirectSees(text, n, reader), ~reader.found,
         NEW p \in 1..(n + 1), PendingFrom(text, n, reader.pending, p),
         NEW k \in 1..Len(text), UsageAt(text, k)
  PROVE  p =< k
<1> SUFFICES ASSUME k < p
             PROVE  FALSE
  BY LenProperties
<1>1. Len(text) \in Nat
  BY LenProperties
<1>2. p - 1 \in k..n /\ k \in 1..n /\ p # 1
  BY <1>1
<1>3. text[p - 1] = "b"
  BY <1>2 DEF PendingFrom
<1> QED BY <1>2, <1>3 DEF DirectSees

\* A chunk takes the direct reader from what it had read to what it has read.
LEMMA DirectStep ==
  ASSUME NEW text \in Seq(Char), NEW n \in 0..Len(text), NEW m \in n..Len(text),
         NEW reader, DirectSees(text, n, reader), NEW next,
         LET part == reader.pending \o SubSeq(text, n + 1, m)
         IN  next = IF reader.found THEN reader
                    ELSE [pending |-> LastEvent(part),
                          found |-> \E event \in ClosedEvents(part) : EventHasUsage(event)]
  PROVE  DirectSees(text, m, next)
<1>1. Len(text) \in Nat
  BY LenProperties
<1>2. CASE reader.found
  <2>1. next = reader
    BY <1>2, Zenon
  <2>2. PICK k \in 1..n : UsageAt(text, k) /\ \E j \in k..n : text[j] = "b"
    BY <1>2 DEF DirectSees
  <2>3. PICK j \in k..n : text[j] = "b"
    BY <2>2
  <2>4. k \in 1..m /\ j \in k..m
    BY <1>1, <2>2, <2>3
  <2> QED BY <1>2, <2>1, <2>2, <2>3, <2>4 DEF DirectSees
<1>3. CASE ~reader.found
  <2>1. PICK p \in 1..(n + 1) : PendingFrom(text, n, reader.pending, p)
    BY <1>3 DEF DirectSees
  <2> DEFINE part == SubSeq(text, p, m)
             d == p - 1
  <2>2. part = reader.pending \o SubSeq(text, n + 1, m)
    <3>1. p \in 1..(Len(text) + 1) /\ n \in (p - 1)..Len(text) /\ m \in n..Len(text)
      BY <1>1, <2>1
    <3>2. SubSeq(text, p, n) \o SubSeq(text, n + 1, m) = SubSeq(text, p, m)
      BY ONLY <3>1, text \in Seq(Char), ConcatAdjacentSubSeq
    <3> QED BY <2>1, <3>2 DEF PendingFrom
  <2>3. next = [pending |-> LastEvent(part),
                found |-> \E event \in ClosedEvents(part) : EventHasUsage(event)]
    BY <1>3, <2>2, Zenon
  <2>4. /\ part \in Seq(Char) /\ Len(part) = m - p + 1
        /\ \A i \in 1..(m - p + 1) : part[i] = text[p + i - 1]
    <3>1. p \in Int /\ m \in Int /\ 1 =< p /\ p =< m + 1 /\ m =< Len(text)
      BY <1>1, <2>1
    <3> QED BY ONLY <3>1, text \in Seq(Char), Cut
  <2> HIDE DEF part
  <2>5. /\ d \in Nat /\ Len(part) + d = m /\ Len(part) \in Nat /\ (d = 0 \/ text[d] = "b")
        /\ \A i \in 1..Len(part) : part[i] = text[i + d]
    <3>1. d \in Nat /\ Len(part) + d = m /\ Len(part) \in Nat /\ (p = 1 => d = 0)
      BY <1>1, <2>1, <2>4
    <3>2. \A i \in 1..Len(part) : i \in 1..(m - p + 1) /\ p + i - 1 = i + d
      BY <1>1, <2>4
    <3> QED BY <2>1, <2>4, <3>1, <3>2 DEF PendingFrom
  <2> HIDE DEF d
  <2>6. \A k \in Int : UsageAt(part, k) <=> k >= 1 /\ k + 4 =< Len(part) /\ UsageAt(text, k + d)
    <3>1. Len(part) + d =< Len(text)
      BY <1>1, <2>5
    <3> QED BY <2>4, <2>5, <3>1, UsageShift
  <2> DEFINE closed == \E event \in ClosedEvents(part) : EventHasUsage(event)
             there == \E k \in 1..m : UsageAt(text, k) /\ \E j \in k..m : text[j] = "b"
  <2>7. closed <=> \E k \in 1..Len(part) : UsageAt(part, k) /\ \E j \in k..Len(part) : part[j] = "b"
    BY <2>4, ClosedUsage
  <2> HIDE DEF closed
  <2>8. ASSUME closed
        PROVE  there
    <3>1. PICK k \in 1..Len(part) : UsageAt(part, k) /\ \E j \in k..Len(part) : part[j] = "b"
      BY <2>7, <2>8
    <3>2. PICK j \in k..Len(part) : part[j] = "b"
      BY <3>1
    <3>3. UsageAt(text, k + d)
      BY <2>6, <3>1
    <3>4. k + d \in 1..m /\ j + d \in (k + d)..m /\ j \in 1..Len(part)
      BY <2>5, <3>1, <3>2
    <3>5. text[j + d] = "b"
      BY <2>5, <3>2, <3>4
    <3> QED BY <3>3, <3>4, <3>5
  <2>9. ASSUME there
        PROVE  closed
    <3>1. PICK k \in 1..m : UsageAt(text, k) /\ \E j \in k..m : text[j] = "b"
      BY <2>9
    <3>2. PICK j \in k..m : text[j] = "b"
      BY <3>1
    <3>3. k + 4 < j
      BY <1>1, <3>1, <3>2, BoundaryBehind
    <3>4. p =< k
      <4>1. k \in 1..Len(text)
        BY <1>1, <3>1
      <4> QED BY <1>3, <2>1, <3>1, <4>1, NoneBefore
    <3>5. /\ k - d \in 1..Len(part) /\ (k - d) + d = k /\ (k - d) + 4 =< Len(part) /\ k - d >= 1
          /\ j - d \in (k - d)..Len(part) /\ (j - d) + d = j /\ j - d \in 1..Len(part)
      BY <1>1, <2>5, <3>1, <3>2, <3>3, <3>4 DEF d
    <3>6. UsageAt(part, k - d)
      BY <2>6, <3>1, <3>5
    <3>7. part[j - d] = "b"
      BY <2>5, <3>2, <3>5
    <3> QED BY <2>7, <3>5, <3>6, <3>7
  <2>10. PICK s \in 1..(Len(part) + 1) :
            /\ LastEvent(part) = SubSeq(part, s, Len(part)) /\ (s = 1 \/ part[s - 1] = "b")
            /\ \A j \in s..Len(part) : part[j] # "b"
    BY <2>4, LastEventFacts
  <2>11. PendingFrom(text, m, LastEvent(part), s + d)
    <3>1. s + d = 1 \/ text[(s + d) - 1] = "b"
      <4>1. CASE s = 1
        <5>1. (s + d) - 1 = d /\ (d = 0 => s + d = 1)
          BY <2>5, <4>1
        <5> QED BY <2>5, <5>1
      <4>2. CASE s # 1 /\ part[s - 1] = "b"
        <5>1. s - 1 \in 1..Len(part) /\ (s - 1) + d = (s + d) - 1
          BY <2>5, <2>10, <4>2
        <5> QED BY <2>5, <4>2, <5>1
      <4> QED BY <2>10, <4>1, <4>2
    <3>2. \A j \in (s + d)..m : text[j] # "b"
      <4> TAKE j \in (s + d)..m
      <4>1. j - d \in s..Len(part) /\ j - d \in 1..Len(part) /\ (j - d) + d = j
        BY <1>1, <2>5, <2>10
      <4> QED BY <2>5, <2>10, <4>1
    <3>3. SubSeq(part, s, Len(part)) = SubSeq(text, s + d, m)
      <4> DEFINE a == SubSeq(part, s, Len(part))
                 b == SubSeq(text, s + d, m)
      <4>1. s \in Int /\ Len(part) \in Int /\ 1 =< s /\ s =< Len(part) + 1 /\ Len(part) =< Len(part)
        BY <2>5, <2>10
      <4>2. /\ a \in Seq(Char) /\ Len(a) = Len(part) - s + 1
            /\ \A i \in 1..(Len(part) - s + 1) : a[i] = part[s + i - 1]
        BY ONLY <2>4, <4>1, Cut
      <4>3. s + d \in Int /\ m \in Int /\ 1 =< s + d /\ s + d =< m + 1 /\ m =< Len(text)
        BY <1>1, <2>5, <2>10
      <4>4. /\ b \in Seq(Char) /\ Len(b) = m - (s + d) + 1
            /\ \A i \in 1..(m - (s + d) + 1) : b[i] = text[(s + d) + i - 1]
        BY ONLY <4>3, text \in Seq(Char), Cut
      <4> HIDE DEF a, b
      <4>5. Len(a) = Len(b)
        <5>1. m - (s + d) + 1 = Len(part) - s + 1
          <6>1. Len(part) + d = m /\ d \in Int /\ Len(part) \in Int /\ s \in Int
            BY <2>5, <4>1
          <6> QED BY ONLY <6>1
        <5> QED BY ONLY <4>2, <4>4, <5>1
      <4>6. \A i \in 1..Len(a) : a[i] = b[i]
        <5> TAKE i \in 1..Len(a)
        <5>1. /\ i \in 1..(Len(part) - s + 1) /\ i \in 1..(m - (s + d) + 1)
              /\ s + i - 1 \in 1..Len(part) /\ (s + i - 1) + d = (s + d) + i - 1
          BY <1>1, <2>5, <2>10, <4>2, <4>5, <4>4
        <5> QED BY <2>5, <4>2, <4>4, <5>1
      <4>7. a = b
        BY ONLY <4>2, <4>4, <4>5, <4>6, SeqEqual
      <4> QED BY <4>7 DEF a, b
    <3> QED BY <2>10, <3>1, <3>2, <3>3 DEF PendingFrom
  <2>12. s + d \in 1..(m + 1)
    BY <1>1, <2>5, <2>10
  <2>13. next.pending = LastEvent(part) /\ next.found = closed
    <3>1. next = [pending |-> LastEvent(part), found |-> closed]
      BY <2>3 DEF closed
    <3> QED BY ONLY <3>1
  <2>14. closed \in BOOLEAN
    BY Zenon DEF closed
  <2> QED BY <2>8, <2>9, <2>11, <2>12, <2>13, <2>14 DEF DirectSees
<1> QED BY <1>2, <1>3

\* At the end of the stream what is kept completes what was found.
LEMMA DirectEnd ==
  ASSUME NEW text \in Seq(Char), NEW reader, DirectSees(text, Len(text), reader)
  PROVE  reader.found \/ EventHasUsage(reader.pending) <=> \E k \in 1..Len(text) : UsageAt(text, k)
<1>1. Len(text) \in Nat /\ Len(text) \in 0..Len(text)
  BY LenProperties
<1>2. CASE reader.found
  BY <1>2 DEF DirectSees
<1>3. CASE ~reader.found
  <2>1. PICK p \in 1..(Len(text) + 1) : PendingFrom(text, Len(text), reader.pending, p)
    BY <1>3 DEF DirectSees
  <2>2. EventHasUsage(reader.pending) <=> \E k \in p..(Len(text) - 4) : UsageAt(text, k)
    <3>1. p \in Int /\ Len(text) \in Int /\ 1 =< p /\ p =< Len(text) + 1 /\ Len(text) =< Len(text)
      BY <1>1, <2>1
    <3>2. EventHasUsage(SubSeq(text, p, Len(text))) <=> \E k \in p..(Len(text) - 4) : UsageAt(text, k)
      BY <2>1, <3>1, EventUsage DEF PendingFrom
    <3> QED BY <2>1, <3>2 DEF PendingFrom
  <2>3. \A k \in p..(Len(text) - 4) : k \in 1..Len(text)
    BY <1>1, <2>1
  <2>4. \A k \in 1..Len(text) : UsageAt(text, k) => k \in p..(Len(text) - 4)
    <3> SUFFICES ASSUME NEW k \in 1..Len(text), UsageAt(text, k)
                 PROVE  k \in p..(Len(text) - 4)
      OBVIOUS
    <3>1. p =< k
      BY <1>1, <1>3, <2>1, NoneBefore
    <3>2. k \in 1..(Len(text) - 4)
      BY DEF UsageAt
    <3> QED BY <1>1, <2>1, <3>1, <3>2
  <2> QED BY <1>3, <2>2, <2>3, <2>4
<1> QED BY <1>2, <1>3

-----------------------------------------------------------------------------
(***************************************************************************)
(* The ring of the relay. A place of the buffer is known by how far it lies*)
(* before or behind the one written next.                                  *)
(***************************************************************************)

Before(at, k) == IF k =< at THEN at - k ELSE at - k + RingCapacity
Ahead(at, i) == IF at =< i THEN i - at ELSE i - at + RingCapacity

\* The ring holds the most recent of the first n bytes.
RingHolds(text, n, ring) ==
    /\ ring.total = n /\ ring.at \in 0..(RingCapacity - 1)
    /\ ring.buffer \in [0..(RingCapacity - 1) -> Char]
    /\ n < RingCapacity => ring.at = n
    /\ \A k \in 1..RingCapacity : k =< n => ring.buffer[Before(ring.at, k)] = text[n + 1 - k]

\* The ring has room for at least one byte.
LEMMA Capacity == RingCapacity \in Nat /\ RingCapacity # 0
BY UsageAssumption

\* The write index wraps at most once, as a chunk is shorter than the ring.
LEMMA Remainder ==
  ASSUME NEW x \in Nat
  PROVE  /\ x < RingCapacity => x % RingCapacity = x
         /\ RingCapacity =< x /\ x < RingCapacity + RingCapacity => x % RingCapacity = x - RingCapacity
<1> DEFINE c == RingCapacity
<1>1. c \in Nat \ {0}
  BY UsageAssumption
<1> HIDE DEF c
<1>2. x < c => x % c = x
  BY <1>1
<1>3. c =< x /\ x < c + c => x % c = x - c
  BY <1>1
<1> QED BY <1>2, <1>3 DEF c

\* What a chunk is laid over.
LEMMA LaidFacts ==
  ASSUME NEW buffer \in [0..(RingCapacity - 1) -> Char], NEW from \in Nat, NEW bytes \in Seq(Char)
  PROVE  /\ Laid(buffer, from, bytes) \in [0..(RingCapacity - 1) -> Char]
         /\ \A i \in 0..(RingCapacity - 1) :
               Laid(buffer, from, bytes)[i] =
                  IF from =< i /\ i - from < Len(bytes) THEN bytes[i - from + 1] ELSE buffer[i]
<1>1. Len(bytes) \in Nat /\ RingCapacity \in Nat
  BY LenProperties, Capacity
<1>2. DOMAIN buffer = 0..(RingCapacity - 1)
  OBVIOUS
<1>3. \A i \in 0..(RingCapacity - 1) : i \in from..(from + Len(bytes) - 1) <=> from =< i /\ i - from < Len(bytes)
  BY <1>1
<1>4. \A i \in 0..(RingCapacity - 1) : from =< i /\ i - from < Len(bytes) => bytes[i - from + 1] \in Char
  <2> SUFFICES ASSUME NEW i \in 0..(RingCapacity - 1), from =< i, i - from < Len(bytes)
               PROVE  bytes[i - from + 1] \in Char
    OBVIOUS
  <2>1. i - from + 1 \in 1..Len(bytes)
    BY <1>1
  <2> QED BY <2>1, ElementOfSeq
<1> QED BY <1>2, <1>3, <1>4 DEF Laid

\* A chunk smaller than the ring is laid in from the place written next, and from
\* the beginning again.
LEMMA RingLaid ==
  ASSUME NEW buffer \in [0..(RingCapacity - 1) -> Char], NEW at \in 0..(RingCapacity - 1),
         NEW chunk \in Seq(Char), Len(chunk) < RingCapacity
  PROVE  LET len == Len(chunk)
             first == Min({len, RingCapacity - at})
             wrapped == Laid(Laid(buffer, at, SubSeq(chunk, 1, first)), 0, SubSeq(chunk, first + 1, len))
         IN  /\ wrapped \in [0..(RingCapacity - 1) -> Char]
             /\ \A i \in 0..(RingCapacity - 1) :
                   wrapped[i] = IF Ahead(at, i) < len THEN chunk[Ahead(at, i) + 1] ELSE buffer[i]
<1> DEFINE len == Len(chunk)
           first == Min({len, RingCapacity - at})
           one == SubSeq(chunk, 1, first)
           two == SubSeq(chunk, first + 1, len)
           once == Laid(buffer, at, one)
           wrapped == Laid(once, 0, two)
<1>1. len \in Nat /\ RingCapacity \in Nat /\ RingCapacity # 0 /\ at \in Nat
  BY LenProperties, Capacity
<1>2. first \in {len, RingCapacity - at} /\ first =< len /\ first =< RingCapacity - at
  <2> DEFINE T == {len, RingCapacity - at}
  <2>1. T \subseteq Nat /\ T # {}
    BY <1>1
  <2>2. Min(T) \in T /\ \A y \in T : Min(T) =< y
    BY ONLY <2>1, MinIsLeast
  <2> QED BY <2>2
<1>3. first \in Nat
  BY <1>1, <1>2
<1> HIDE DEF first
<1>4. /\ one \in Seq(Char) /\ Len(one) = first - 1 + 1 /\ \A i \in 1..(first - 1 + 1) : one[i] = chunk[1 + i - 1]
      /\ two \in Seq(Char) /\ Len(two) = len - (first + 1) + 1
      /\ \A i \in 1..(len - (first + 1) + 1) : two[i] = chunk[(first + 1) + i - 1]
  <2>1. /\ 1 \in Int /\ first \in Int /\ first + 1 \in Int /\ len \in Int /\ 1 =< 1 /\ 1 =< first + 1 /\ first =< Len(chunk)
        /\ first + 1 =< len + 1 /\ len =< Len(chunk)
    BY <1>1, <1>2, <1>3
  <2>2. /\ one \in Seq(Char) /\ Len(one) = first - 1 + 1 /\ \A i \in 1..(first - 1 + 1) : one[i] = chunk[1 + i - 1]
    BY ONLY <2>1, chunk \in Seq(Char), Cut
  <2>3. /\ two \in Seq(Char) /\ Len(two) = len - (first + 1) + 1
        /\ \A i \in 1..(len - (first + 1) + 1) : two[i] = chunk[(first + 1) + i - 1]
    BY ONLY <2>1, chunk \in Seq(Char), Cut
  <2> QED BY <2>2, <2>3
<1> HIDE DEF one, two, len
<1>5. Len(one) = first /\ Len(two) = len - first
  BY <1>1, <1>3, <1>4
<1>6. \A i \in 1..first : one[i] = chunk[i]
  <2>1. \A i \in 1..first : i \in 1..(first - 1 + 1) /\ 1 + i - 1 = i
    BY <1>3
  <2> QED BY <1>4, <2>1
<1>7. \A i \in 1..(len - first) : two[i] = chunk[first + i]
  <2>1. \A i \in 1..(len - first) : i \in 1..(len - (first + 1) + 1) /\ (first + 1) + i - 1 = first + i
    BY <1>1, <1>3
  <2> QED BY <1>4, <2>1
<1>8. /\ once \in [0..(RingCapacity - 1) -> Char]
      /\ \A i \in 0..(RingCapacity - 1) :
            once[i] = IF at =< i /\ i - at < Len(one) THEN one[i - at + 1] ELSE buffer[i]
  BY <1>1, <1>4, LaidFacts
<1> HIDE DEF once
<1>9. /\ wrapped \in [0..(RingCapacity - 1) -> Char]
      /\ \A i \in 0..(RingCapacity - 1) :
            wrapped[i] = IF 0 =< i /\ i - 0 < Len(two) THEN two[i - 0 + 1] ELSE once[i]
  <2>1. 0 \in Nat
    OBVIOUS
  <2> QED BY <1>4, <1>8, <2>1, LaidFacts
<1> HIDE DEF wrapped
<1>10. ASSUME NEW i \in 0..(RingCapacity - 1)
       PROVE  wrapped[i] = IF Ahead(at, i) < len THEN chunk[Ahead(at, i) + 1] ELSE buffer[i]
  <2>1. i \in Nat /\ i - 0 = i /\ i =< RingCapacity - 1 /\ len < RingCapacity
    BY <1>1 DEF len
  <2>2. CASE at =< i
    <3>1. Ahead(at, i) = i - at /\ i - at \in Nat
      BY <1>1, <2>1, <2>2 DEF Ahead
    <3>2. ~(i < len - first)
      BY <1>1, <1>2, <1>3, <2>1, <2>2
    <3>3. wrapped[i] = once[i]
      BY <1>5, <1>9, <2>1, <3>2
    <3>4. i - at < first <=> i - at < len
      BY <1>1, <1>2, <1>3, <2>1, <2>2
    <3>5. i - at < first => i - at + 1 \in 1..first
      BY <1>1, <1>3, <3>1
    <3> QED BY <1>5, <1>6, <1>8, <2>2, <3>1, <3>3, <3>4, <3>5
  <2>3. CASE i < at
    <3>1. Ahead(at, i) = i - at + RingCapacity /\ Ahead(at, i) \in Nat
      BY <1>1, <2>1, <2>3 DEF Ahead
    <3>2. once[i] = buffer[i]
      BY <1>1, <1>8, <2>1, <2>3
    <3>3. i < len - first <=> i - at + RingCapacity < len
      BY <1>1, <1>2, <1>3, <2>1, <2>3
    <3>4. i < len - first => /\ first = RingCapacity - at
                             /\ i + 1 \in 1..(len - first) /\ first + (i + 1) = (i - at + RingCapacity) + 1
      BY <1>1, <1>2, <1>3, <2>1, <2>3
    <3>5. i < len - first => wrapped[i] = chunk[Ahead(at, i) + 1]
      BY <1>5, <1>7, <1>9, <2>1, <3>1, <3>4
    <3> QED BY <1>5, <1>9, <2>1, <3>1, <3>2, <3>3, <3>5
  <2> QED BY <1>1, <2>1, <2>2, <2>3
<1> QED BY <1>9, <1>10 DEF wrapped, once, one, two, first, len

\* Written to, the ring still holds the most recent bytes, at their places.
LEMMA RingStep ==
  ASSUME NEW text \in Seq(Char), NEW n \in 0..Len(text), NEW m \in n..Len(text),
         NEW ring, RingHolds(text, n, ring), NEW chunk, chunk = SubSeq(text, n + 1, m)
  PROVE  RingHolds(text, m, RingWrite(ring, chunk))
<1> DEFINE len == Len(chunk)
           next == RingWrite(ring, chunk)
           at == ring.at
           buffer == ring.buffer
<1>1. Len(text) \in Nat /\ RingCapacity \in Nat /\ RingCapacity # 0
  BY LenProperties, Capacity
<1>2. n \in Nat /\ m \in Nat /\ n =< m /\ m =< Len(text)
  BY <1>1
<1>3. /\ chunk \in Seq(Char) /\ len = m - (n + 1) + 1
      /\ \A i \in 1..(m - (n + 1) + 1) : chunk[i] = text[(n + 1) + i - 1]
  <2>1. n + 1 \in Int /\ m \in Int /\ 1 =< n + 1 /\ n + 1 =< m + 1 /\ m =< Len(text)
    BY <1>2
  <2> QED BY ONLY <2>1, text \in Seq(Char), chunk = SubSeq(text, n + 1, m), Cut
<1>4. len \in Nat /\ len = m - n
  BY <1>2, <1>3
<1> HIDE DEF len
<1>5. \A i \in 1..len : chunk[i] = text[n + i]
  <2>1. \A i \in 1..len : i \in 1..(m - (n + 1) + 1) /\ (n + 1) + i - 1 = n + i
    BY <1>2, <1>4
  <2> QED BY <1>3, <2>1
<1>6. /\ ring.total = n /\ at \in 0..(RingCapacity - 1) /\ at \in Nat /\ at < RingCapacity
      /\ buffer \in [0..(RingCapacity - 1) -> Char] /\ (n < RingCapacity => at = n)
      /\ \A k \in 1..RingCapacity : k =< n => buffer[Before(at, k)] = text[n + 1 - k]
  BY <1>1 DEF RingHolds
<1> HIDE DEF at, buffer
<1>7. CASE len >= RingCapacity
  <2> DEFINE c == SubSeq(chunk, len - RingCapacity + 1, len)
             laid == Laid(buffer, 0, c)
  <2>1. next.buffer = laid /\ next.at = 0 /\ next.total = ring.total + len
    BY <1>7 DEF RingWrite, len, buffer
  <2>2. /\ c \in Seq(Char) /\ Len(c) = len - (len - RingCapacity + 1) + 1
        /\ \A i \in 1..(len - (len - RingCapacity + 1) + 1) : c[i] = chunk[(len - RingCapacity + 1) + i - 1]
    <3>1. /\ len - RingCapacity + 1 \in Int /\ len \in Int /\ 1 =< len - RingCapacity + 1
          /\ len - RingCapacity + 1 =< len + 1 /\ len =< Len(chunk)
      BY <1>1, <1>4, <1>7 DEF len
    <3> QED BY ONLY <1>3, <3>1, Cut, SMTT(40)
  <2> HIDE DEF c
  <2>3. Len(c) = RingCapacity
    BY <1>1, <1>4, <2>2
  <2>4. /\ laid \in [0..(RingCapacity - 1) -> Char]
        /\ \A i \in 0..(RingCapacity - 1) : laid[i] = IF 0 =< i /\ i - 0 < Len(c) THEN c[i - 0 + 1] ELSE buffer[i]
    <3>1. 0 \in Nat
      OBVIOUS
    <3> QED BY <1>6, <2>2, <3>1, LaidFacts
  <2> HIDE DEF laid
  <2>5. ASSUME NEW k \in 1..RingCapacity
        PROVE  laid[Before(0, k)] = text[m + 1 - k]
    <3>1. /\ Before(0, k) = RingCapacity - k /\ RingCapacity - k \in 0..(RingCapacity - 1)
          /\ RingCapacity - k - 0 = RingCapacity - k /\ 0 =< RingCapacity - k /\ RingCapacity - k < RingCapacity
      BY <1>1 DEF Before
    <3>2. laid[Before(0, k)] = c[RingCapacity - k + 1]
      BY <2>3, <2>4, <3>1
    <3>3. /\ RingCapacity - k + 1 \in 1..(len - (len - RingCapacity + 1) + 1)
          /\ (len - RingCapacity + 1) + (RingCapacity - k + 1) - 1 = len - k + 1
          /\ len - k + 1 \in 1..len /\ n + (len - k + 1) = m + 1 - k
      BY <1>1, <1>2, <1>4, <1>7
    <3>4. c[RingCapacity - k + 1] = chunk[len - k + 1]
      BY <2>2, <3>3
    <3>5. chunk[len - k + 1] = text[m + 1 - k]
      BY <1>5, <3>3
    <3> QED BY <3>2, <3>4, <3>5
  <2>6. next.total = m /\ 0 \in 0..(RingCapacity - 1) /\ ~(m < RingCapacity)
    BY <1>1, <1>2, <1>4, <1>6, <1>7, <2>1
  <2> HIDE DEF next
  <2>7. RingHolds(text, m, next)
    BY <2>1, <2>4, <2>5, <2>6 DEF RingHolds
  <2> QED BY <2>7 DEF next
<1>8. CASE ~(len >= RingCapacity)
  <2> DEFINE first == Min({len, RingCapacity - at})
             wrapped == Laid(Laid(buffer, at, SubSeq(chunk, 1, first)), 0, SubSeq(chunk, first + 1, len))
             to == (at + len) % RingCapacity
  <2>1. next.buffer = wrapped /\ next.at = to /\ next.total = ring.total + len
    BY <1>8 DEF RingWrite, len, buffer, at
  <2>2. /\ wrapped \in [0..(RingCapacity - 1) -> Char]
        /\ \A i \in 0..(RingCapacity - 1) :
              wrapped[i] = IF Ahead(at, i) < len THEN chunk[Ahead(at, i) + 1] ELSE buffer[i]
    <3>1. Len(chunk) < RingCapacity
      BY <1>1, <1>4, <1>8 DEF len
    <3> QED BY <1>3, <1>6, <3>1, RingLaid DEF len
  <2> HIDE DEF wrapped
  <2>3. to = IF at + len < RingCapacity THEN at + len ELSE at + len - RingCapacity
    <3>1. at + len \in Nat /\ at + len < RingCapacity + RingCapacity
      BY <1>1, <1>4, <1>6, <1>8
    <3>2. ~(at + len < RingCapacity) => RingCapacity =< at + len
      BY <1>1, <1>4, <1>6
    <3>3. PICK x \in Nat : x = at + len /\ x < RingCapacity + RingCapacity /\ (~(x < RingCapacity) => RingCapacity =< x)
      BY <3>1, <3>2
    <3>4. x % RingCapacity = IF x < RingCapacity THEN x ELSE x - RingCapacity
      BY ONLY <3>3, Remainder
    <3>5. at \in Nat /\ len \in Nat /\ RingCapacity \in Nat /\ RingCapacity # 0
      BY <1>1, <1>4, <1>6
    <3> QED BY ONLY <3>3, <3>4, <3>5 DEF to
  <2> HIDE DEF to
  <2>4. to \in 0..(RingCapacity - 1) /\ to \in Nat
    BY <1>1, <1>4, <1>6, <1>8, <2>3
  <2>5. m < RingCapacity => to = m
    BY <1>1, <1>2, <1>4, <1>6, <2>3
  <2>6. ASSUME NEW k \in 1..RingCapacity, k =< m
        PROVE  wrapped[Before(to, k)] = text[m + 1 - k]
    <3> DEFINE i == Before(to, k)
    <3>1. i \in 0..(RingCapacity - 1) /\ i = IF k =< to THEN to - k ELSE to - k + RingCapacity
      BY <1>1, <2>4 DEF Before
    <3> HIDE DEF i
    <3>2. CASE k =< len
      <4>1. Ahead(at, i) = len - k
        BY <1>1, <1>4, <1>6, <1>8, <2>3, <2>4, <3>1, <3>2 DEF Ahead
      <4>2. len - k < len /\ len - k + 1 \in 1..len /\ n + (len - k + 1) = m + 1 - k
        BY <1>1, <1>2, <1>4, <3>2
      <4>3. wrapped[i] = chunk[len - k + 1]
        BY <2>2, <3>1, <4>1, <4>2
      <4> QED BY <1>5, <4>2, <4>3 DEF i
    <3>3. CASE k > len
      <4>1. k - len \in 1..RingCapacity /\ k - len =< n /\ n + 1 - (k - len) = m + 1 - k
        BY <1>1, <1>2, <1>4, <2>6, <3>3
      <4>2. i = Before(at, k - len)
        BY <1>1, <1>4, <1>6, <1>8, <2>3, <2>4, <3>1, <3>3, <4>1 DEF Before
      <4>3. ~(Ahead(at, i) < len)
        BY <1>1, <1>4, <1>6, <1>8, <2>3, <2>4, <3>1, <3>3 DEF Ahead
      <4>4. wrapped[i] = buffer[i]
        BY <2>2, <3>1, <4>3
      <4> QED BY <1>6, <4>1, <4>2, <4>4 DEF i
    <3> QED BY <1>4, <3>2, <3>3
  <2>7. next.total = m
    BY <1>2, <1>4, <1>6, <2>1
  <2> HIDE DEF next
  <2>8. RingHolds(text, m, next)
    BY <2>1, <2>2, <2>4, <2>5, <2>6, <2>7 DEF RingHolds
  <2> QED BY <2>8 DEF next
<1> QED BY <1>7, <1>8

\* The tail is the end of what was read, as much of it as the ring holds.
LEMMA TailFacts ==
  ASSUME NEW text \in Seq(Char), NEW n \in 0..Len(text), NEW ring, RingHolds(text, n, ring)
  PROVE  LET d == IF n < RingCapacity THEN 0 ELSE n - RingCapacity
         IN  /\ d \in Nat /\ RingTail(ring) \in Seq(Char) /\ Len(RingTail(ring)) = n - d
             /\ \A i \in 1..(n - d) : RingTail(ring)[i] = text[i + d]
<1> DEFINE at == ring.at
           buffer == ring.buffer
<1>1. Len(text) \in Nat /\ RingCapacity \in Nat /\ RingCapacity # 0 /\ n \in Nat
  BY LenProperties, Capacity
<1>2. /\ ring.total = n /\ at \in 0..(RingCapacity - 1) /\ at \in Nat /\ at < RingCapacity
      /\ buffer \in [0..(RingCapacity - 1) -> Char] /\ (n < RingCapacity => at = n)
      /\ \A k \in 1..RingCapacity : k =< n => buffer[Before(at, k)] = text[n + 1 - k]
  BY <1>1 DEF RingHolds
<1>3. CASE n < RingCapacity
  <2> DEFINE tail == [i \in 1..n |-> buffer[i - 1]]
  <2>1. RingTail(ring) = tail
    BY <1>2, <1>3 DEF RingTail
  <2>2. \A i \in 1..n : i - 1 \in 0..(RingCapacity - 1)
    BY <1>1, <1>3
  <2>3. tail \in [1..n -> Char]
    BY <1>2, <2>2
  <2>4. tail \in Seq(Char) /\ Len(tail) = n
    BY <1>1, <2>3, FunctionIsSeq
  <2>5. \A i \in 1..n : tail[i] = text[i]
    <3> TAKE i \in 1..n
    <3>1. /\ n + 1 - i \in 1..RingCapacity /\ n + 1 - i =< n /\ Before(at, n + 1 - i) = i - 1
          /\ n + 1 - (n + 1 - i) = i
      <4> HIDE DEF at, buffer
      <4> QED BY <1>1, <1>2, <1>3 DEF Before
    <3>2. buffer[i - 1] = text[i]
      <4> HIDE DEF at, buffer
      <4> QED BY <1>2, <3>1
    <3> QED BY <3>2
  <2> HIDE DEF tail
  <2>6. n - 0 = n /\ \A i \in 1..n : i + 0 = i
    BY <1>1
  <2> QED BY <1>3, <2>1, <2>4, <2>5, <2>6
<1>4. CASE ~(n < RingCapacity)
  <2> DEFINE tail == [i \in 1..RingCapacity |-> buffer[(at + i - 1) % RingCapacity]]
             d == n - RingCapacity
  <2>1. RingTail(ring) = tail
    BY <1>2, <1>4 DEF RingTail
  <2>2. \A i \in 1..RingCapacity :
           (at + i - 1) % RingCapacity = Before(at, RingCapacity + 1 - i)
    <3> TAKE i \in 1..RingCapacity
    <3> HIDE DEF at, buffer
    <3>1. at + i - 1 \in Nat /\ at + i - 1 < RingCapacity + RingCapacity
      BY <1>1, <1>2
    <3>2. /\ at + i - 1 < RingCapacity => (at + i - 1) % RingCapacity = at + i - 1
          /\ RingCapacity =< at + i - 1 => (at + i - 1) % RingCapacity = at + i - 1 - RingCapacity
      <4>1. PICK x \in Nat : x = at + i - 1 /\ x < RingCapacity + RingCapacity
        BY <3>1
      <4>2. /\ x < RingCapacity => x % RingCapacity = x
            /\ RingCapacity =< x => x % RingCapacity = x - RingCapacity
        BY ONLY <4>1, Remainder
      <4>3. at \in Nat /\ i \in Nat /\ RingCapacity \in Nat /\ RingCapacity # 0
        BY <1>1, <1>2
      <4> QED BY ONLY <4>1, <4>2, <4>3
    <3>3. CASE at + i - 1 < RingCapacity
      BY <1>1, <1>2, <3>2, <3>3 DEF Before
    <3>4. CASE RingCapacity =< at + i - 1
      BY <1>1, <1>2, <3>2, <3>4 DEF Before
    <3> QED BY <1>1, <1>2, <3>1, <3>3, <3>4
  <2>3. \A i \in 1..RingCapacity : /\ RingCapacity + 1 - i \in 1..RingCapacity /\ RingCapacity + 1 - i =< n
                                   /\ n + 1 - (RingCapacity + 1 - i) = i + d
                                   /\ Before(at, RingCapacity + 1 - i) \in 0..(RingCapacity - 1)
    <3> HIDE DEF at, buffer
    <3> QED BY <1>1, <1>2, <1>4 DEF Before
  <2>4. tail \in [1..RingCapacity -> Char]
    BY <1>2, <2>2, <2>3
  <2>5. tail \in Seq(Char) /\ Len(tail) = RingCapacity
    BY <1>1, <2>4, FunctionIsSeq
  <2>6. \A i \in 1..RingCapacity : tail[i] = text[i + d]
    <3> TAKE i \in 1..RingCapacity
    <3>1. tail[i] = buffer[Before(at, RingCapacity + 1 - i)]
      BY <2>2
    <3> HIDE DEF at, buffer, tail
    <3> QED BY <1>2, <2>3, <3>1, SMTT(40)
  <2> HIDE DEF tail
  <2>7. n - d = RingCapacity /\ d \in Nat
    BY <1>1, <1>4
  <2> QED BY <1>4, <2>1, <2>5, <2>6, <2>7
<1> QED BY <1>3, <1>4

-----------------------------------------------------------------------------
(***************************************************************************)
(* Both readers together.                                                  *)
(***************************************************************************)

\* What the relay finds in its tail came with the stream.
LEMMA TailSeen ==
  ASSUME NEW text \in Seq(Char), NEW n \in 0..Len(text), NEW ring, RingHolds(text, n, ring),
         TailHasUsage(RingTail(ring))
  PROVE  \E j \in 1..Len(text) : text[j] = "v1"
<1> DEFINE d == IF n < RingCapacity THEN 0 ELSE n - RingCapacity
           tail == RingTail(ring)
<1>1. /\ d \in Nat /\ tail \in Seq(Char) /\ Len(tail) = n - d
      /\ \A i \in 1..(n - d) : tail[i] = text[i + d]
  BY TailFacts
<1> HIDE DEF d, tail
<1>2. PICK k \in 1..Len(tail) : UsageAt(tail, k)
  BY <1>1, TailUsage DEF tail
<1>3. tail[k + 3] = "v1" /\ k \in 1..(Len(tail) - 4)
  BY <1>2 DEF UsageAt, Spelled
<1>4. Len(text) \in Nat /\ Len(tail) \in Nat
  BY <1>1, LenProperties
<1>5. k + 3 \in 1..(n - d) /\ (k + 3) + d \in 1..Len(text)
  BY <1>1, <1>3, <1>4
<1> QED BY <1>1, <1>3, <1>5

\* Usage in an event that fits into the tail, with all that follows, is found there.
LEMMA TailFits ==
  ASSUME NEW text \in Seq(Char), NEW ring, RingHolds(text, Len(text), ring),
         NEW i \in 1..Len(text), i = 1 \/ text[i - 1] = "b", Len(text) - i + 1 =< RingCapacity,
         TailHasUsage(SubSeq(text, i, Len(text)))
  PROVE  TailHasUsage(RingTail(ring))
<1> DEFINE n == Len(text)
           d == IF n < RingCapacity THEN 0 ELSE n - RingCapacity
           tail == RingTail(ring)
           part == SubSeq(text, i, n)
           e == i - 1 - d
<1>1. n \in Nat /\ n \in 0..Len(text) /\ RingCapacity \in Nat
  BY LenProperties, Capacity
<1>2. /\ d \in Nat /\ tail \in Seq(Char) /\ Len(tail) = n - d
      /\ \A j \in 1..(n - d) : tail[j] = text[j + d]
  BY <1>1, TailFacts
<1>3. /\ part \in Seq(Char) /\ Len(part) = n - i + 1
      /\ \A j \in 1..(n - i + 1) : part[j] = text[i + j - 1]
  <2>1. i \in Int /\ n \in Int /\ 1 =< i /\ i =< n + 1 /\ n =< Len(text)
    BY <1>1
  <2> QED BY ONLY <2>1, text \in Seq(Char), Cut
<1>4. e \in Nat /\ d =< i - 1
  BY <1>1, <1>2
<1> HIDE DEF tail, part, d
<1>5. Len(part) + e = Len(tail) /\ Len(part) \in Nat /\ Len(tail) \in Nat /\ i \in Nat
  BY <1>1, <1>2, <1>3, <1>4
<1>6. \A j \in 1..Len(part) : part[j] = tail[j + e]
  <2> TAKE j \in 1..Len(part)
  <2>1. j \in 1..(n - i + 1) /\ j + e \in 1..(n - d) /\ (j + e) + d = i + j - 1
    BY <1>1, <1>2, <1>3, <1>4, <1>5
  <2> HIDE DEF n, e
  <2> QED BY <1>2, <1>3, <2>1
<1>7. e = 0 \/ tail[e] = "b"
  <2> SUFFICES ASSUME e # 0
               PROVE  tail[e] = "b"
    OBVIOUS
  <2>1. e \in 1..(n - d) /\ e + d = i - 1 /\ i # 1
    BY <1>1, <1>2, <1>4
  <2> HIDE DEF n, e
  <2> QED BY <1>2, <2>1
<1> HIDE DEF e
<1>8. PICK k \in 1..Len(part) : UsageAt(part, k)
  BY <1>3, TailUsage DEF part
<1>9. k \in Int /\ Len(part) + e =< Len(tail)
  BY <1>5, <1>8
<1>10. k + 4 =< Len(part) /\ UsageAt(tail, k + e)
  BY <1>2, <1>3, <1>4, <1>6, <1>7, <1>8, <1>9, UsageShift
<1>11. k + e \in 1..Len(tail)
  BY <1>4, <1>5, <1>8, <1>10
<1> QED BY <1>2, <1>10, <1>11, TailUsage DEF tail

\* Whatever was read so far, both readers stand as their text says.
ReaderInv ==
    /\ stage = "streaming" =>
          /\ stream \in Streams /\ seen \in 0..Len(stream)
          /\ direct = [pending |-> direct.pending, found |-> direct.found]
          /\ DirectSees(stream, seen, direct)
          /\ relayed = [ring |-> relayed.ring, found |-> relayed.found]
          /\ RingHolds(stream, seen, relayed.ring)
          /\ relayed.found \in BOOLEAN
          /\ relayed.found => \E j \in 1..Len(stream) : stream[j] = "v1"
    /\ SameUsage

\* A new stream finds both readers empty.
LEMMA StreamBegins ==
  ASSUME UpstreamStreams
  PROVE  ReaderInv'
<1>1. PICK s \in Streams : ReadersStart(s)
  BY DEF UpstreamStreams
<1>2. /\ stage' = "streaming" /\ stream' = s /\ seen' = 0
      /\ direct' = [pending |-> <<>>, found |-> FALSE] /\ relayed' = [ring |-> EmptyRing, found |-> FALSE]
  BY <1>1 DEF UpstreamStreams, ReadersStart
<1>3. s \in Seq(Char) /\ Len(s) \in Nat /\ 0 \in 0..Len(s)
  BY <1>1, StreamFacts, LenProperties
<1>4. direct'.pending = <<>> /\ direct'.found = FALSE /\ direct' = [pending |-> direct'.pending, found |-> direct'.found]
  BY <1>2
<1>5. DirectSees(s, 0, direct')
  <2>1. SubSeq(s, 1, 0) = <<>>
    BY <1>3, Cut, EmptySeq
  <2>2. PendingFrom(s, 0, <<>>, 1)
    BY <2>1 DEF PendingFrom
  <2>3. 1 \in 1..(0 + 1) /\ 1..0 = {}
    OBVIOUS
  <2> QED BY <1>4, <2>2, <2>3 DEF DirectSees
<1>6. relayed'.ring = EmptyRing /\ relayed'.found = FALSE /\ relayed' = [ring |-> relayed'.ring, found |-> relayed'.found]
  BY <1>2
<1>7. RingHolds(s, 0, EmptyRing)
  <2>1. RingCapacity \in Nat /\ RingCapacity # 0 /\ 0 \in 0..(RingCapacity - 1)
    BY Capacity
  <2>2. /\ EmptyRing.total = 0 /\ EmptyRing.at = 0
        /\ EmptyRing.buffer = [i \in 0..(RingCapacity - 1) |-> "x"]
    BY DEF EmptyRing
  <2>3. EmptyRing.buffer \in [0..(RingCapacity - 1) -> Char]
    BY <2>2 DEF Char
  <2>4. \A k \in 1..RingCapacity : ~(k =< 0)
    BY <2>1
  <2> QED BY <2>1, <2>2, <2>3, <2>4 DEF RingHolds
<1> QED BY <1>1, <1>2, <1>3, <1>4, <1>5, <1>6, <1>7 DEF ReaderInv, SameUsage

\* A chunk of any length keeps both readers true to the stream.
LEMMA ChunkRead ==
  ASSUME ReaderInv, ReadChunk
  PROVE  ReaderInv'
<1>1. PICK n \in 1..(Len(stream) - seen) : ChunkArrives(n)
  BY DEF ReadChunk
<1> DEFINE chunk == SubSeq(stream, seen + 1, seen + n)
           ring == RingWrite(relayed.ring, chunk)
           found == relayed.found \/ (Within(chunk, Needle) /\ TailHasUsage(RingTail(ring)))
<1>2. /\ stage = "streaming" /\ stage' = "streaming" /\ stream' = stream /\ seen' = seen + n
      /\ direct' = DirectReads(chunk) /\ relayed' = [ring |-> ring, found |-> found]
  BY <1>1 DEF ReadChunk, ChunkArrives, RelayReads, At, pathVars
<1>3. /\ stream \in Streams /\ seen \in 0..Len(stream) /\ DirectSees(stream, seen, direct)
      /\ direct = [pending |-> direct.pending, found |-> direct.found]
      /\ RingHolds(stream, seen, relayed.ring) /\ relayed.found \in BOOLEAN
      /\ relayed.found => \E j \in 1..Len(stream) : stream[j] = "v1"
  BY <1>2 DEF ReaderInv
<1>4. stream \in Seq(Char) /\ Len(stream) \in Nat
  BY <1>3, StreamFacts, LenProperties
<1>5. seen + n \in seen..Len(stream) /\ seen + n \in 0..Len(stream)
  BY <1>1, <1>3, <1>4
<1>6. DirectSees(stream, seen + n, direct')
  <2>1. LET part == direct.pending \o SubSeq(stream, seen + 1, seen + n)
        IN  direct' = IF direct.found THEN direct
                      ELSE [pending |-> LastEvent(part),
                            found |-> \E event \in ClosedEvents(part) : EventHasUsage(event)]
    BY <1>2, Zenon DEF DirectReads
  <2> QED BY <1>3, <1>4, <1>5, <2>1, DirectStep
<1>7. direct' = [pending |-> direct'.pending, found |-> direct'.found]
  <2>1. CASE direct.found
    <3>1. direct' = direct
      BY <1>2, <2>1, Zenon DEF DirectReads
    <3> QED BY <1>3, <3>1
  <2>2. CASE ~direct.found
    <3>1. PICK p, f : direct' = [pending |-> p, found |-> f]
      BY <1>2, <2>2, Zenon DEF DirectReads
    <3> QED BY <3>1
  <2> QED BY <2>1, <2>2
<1>8. RingHolds(stream, seen + n, ring)
  BY <1>3, <1>4, <1>5, RingStep
<1> HIDE DEF ring, chunk
<1>9. relayed'.ring = ring /\ relayed'.found = found /\ relayed' = [ring |-> relayed'.ring, found |-> relayed'.found]
  <2> HIDE DEF found
  <2> QED BY <1>2
<1>10. found \in BOOLEAN
  BY <1>3, Zenon
<1>11. found => \E j \in 1..Len(stream) : stream[j] = "v1"
  BY <1>3, <1>4, <1>5, <1>8, TailSeen
<1> HIDE DEF found
<1> QED BY <1>2, <1>3, <1>5, <1>6, <1>7, <1>8, <1>9, <1>10, <1>11 DEF ReaderInv, SameUsage

\* At the end of the stream both come to their conclusion.
LEMMA StreamEnds ==
  ASSUME ReaderInv, EndOfStream
  PROVE  ReaderInv'
<1> DEFINE pending == direct.found \/ EventHasUsage(direct.pending)
           ended == relayed.found \/ TailHasUsage(RingTail(relayed.ring))
<1>1. /\ stage = "streaming" /\ stage' = "read" /\ stream' = stream /\ seen = Len(stream)
      /\ direct' = [direct EXCEPT !.found = @ \/ EventHasUsage(direct.pending)]
      /\ relayed' = [relayed EXCEPT !.found = @ \/ TailHasUsage(RingTail(relayed.ring))]
  BY DEF EndOfStream, StreamCloses, At
<1>2. /\ stream \in Streams /\ DirectSees(stream, Len(stream), direct) /\ direct.found \in BOOLEAN
      /\ direct = [pending |-> direct.pending, found |-> direct.found]
      /\ relayed = [ring |-> relayed.ring, found |-> relayed.found]
      /\ RingHolds(stream, Len(stream), relayed.ring) /\ relayed.found \in BOOLEAN
      /\ relayed.found => \E j \in 1..Len(stream) : stream[j] = "v1"
  BY <1>1 DEF ReaderInv, DirectSees
<1>3. direct'.found = pending /\ relayed'.found = ended
  <2>1. "found" \in DOMAIN direct /\ "found" \in DOMAIN relayed
    BY <1>2
  <2>2. direct'.found = pending
    BY ONLY <1>1, <2>1, Zenon
  <2>3. relayed'.found = ended
    BY ONLY <1>1, <2>1, Zenon
  <2> QED BY <2>2, <2>3
<1>4. stream \in Seq(Char) /\ Len(stream) \in Nat /\ Len(stream) \in 0..Len(stream)
  BY <1>2, StreamFacts, LenProperties
<1> DEFINE sent == TailHasUsage(stream)
<1>5. sent <=> \E k \in 1..Len(stream) : UsageAt(stream, k)
  BY <1>4, TailUsage
<1>6. pending <=> sent
  BY <1>2, <1>4, <1>5, DirectEnd
<1>7. ended => sent
  <2>1. ended => \E j \in 1..Len(stream) : stream[j] = "v1"
    BY <1>2, <1>4, TailSeen
  <2> QED BY <1>2, <1>5, <2>1, StreamFacts
<1>8. ASSUME NEW i \in {i \in DOMAIN stream : i = 1 \/ stream[i - 1] = "b"},
             Len(stream) - i + 1 =< RingCapacity, TailHasUsage(SubSeq(stream, i, Len(stream)))
      PROVE  ended
  <2>1. i \in 1..Len(stream) /\ (i = 1 \/ stream[i - 1] = "b")
    BY <1>4, LenProperties
  <2> QED BY <1>2, <1>4, <1>8, <2>1, TailFits
<1>9. pending = sent
  <2>1. pending \in BOOLEAN /\ sent \in BOOLEAN
    BY Zenon DEF TailHasUsage
  <2> HIDE DEF pending, sent
  <2> QED BY <1>6, <2>1
<1> HIDE DEF pending, ended
<1>10. SameUsage'
  BY <1>1, <1>3, <1>7, <1>8, <1>9, Zenon DEF SameUsage
<1> QED BY <1>1, <1>10 DEF ReaderInv

\* No other step touches a stream that is being read, or has been.
LEMMA OthersRead ==
  ASSUME ReaderInv,
         \/ ReadBody \/ Tokenize \/ Prepare \/ PrepareAnswered \/ Relay \/ ResolveBudget
         \/ Send \/ ReceivePrepared \/ Preflight \/ PullBody \/ BodyBreaks \/ BodySent
         \/ UpstreamRefuses \/ UNCHANGED allVars
  PROVE  ReaderInv'
<1>1. CASE UNCHANGED allVars
  BY <1>1 DEF allVars, pathVars, readerVars, ReaderInv, SameUsage
<1>2. CASE ~UNCHANGED allVars
  <2>1. stage' \notin {"streaming", "read"}
    BY <1>2 DEF ReadBody, Tokenize, Prepare, PrepareAnswered, Relay, ResolveBudget, Send, ReceivePrepared,
       Preflight, PullBody, BodyBreaks, BodySent, UpstreamRefuses, At, Goes, pathVars
  <2> QED BY <2>1 DEF ReaderInv, SameUsage
<1> QED BY <1>1, <1>2

\* Both readers come to the same conclusion, for every ring, stream and cut.
THEOREM SameUsageAlways == DataPathSpec => []SameUsage
<1>1. DataPathInit => ReaderInv
  BY DEF DataPathInit, ReaderInv, SameUsage
<1>2. ReaderInv /\ [DataPathNext]_allVars => ReaderInv'
  BY StreamBegins, ChunkRead, StreamEnds, OthersRead DEF DataPathNext
<1>3. ReaderInv => SameUsage
  BY DEF ReaderInv
<1> QED BY <1>1, <1>2, <1>3, PTL DEF DataPathSpec
=============================================================================
