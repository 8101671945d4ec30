----------------------------- MODULE MeshProofs -----------------------------
(***************************************************************************)
(* Facts about the transport that the proofs of both drivers use: what a   *)
(* sequence carries, and what sending, reading and closing do to the       *)
(* frames underway.                                                        *)
(***************************************************************************)
EXTENDS Mesh, TotalsProofs, SequenceTheorems

----------------------------------------------------------------------------
(* What a sequence carries.                                                *)

Carries(s) == {s[n] : n \in 1..Len(s)}

LEMMA CarriesAppend ==
    ASSUME NEW S, NEW s \in Seq(S), NEW e
    PROVE  Carries(Append(s, e)) = Carries(s) \cup {e}
<1>1. /\ Len(Append(s, e)) = Len(s) + 1
      /\ \A n \in 1..Len(s) : Append(s, e)[n] = s[n]
      /\ Append(s, e)[Len(s) + 1] = e
      /\ Len(s) \in Nat
    OBVIOUS
<1>2. 1..(Len(s) + 1) = (1..Len(s)) \cup {Len(s) + 1}
    BY <1>1
<1>3. QED
    BY <1>1, <1>2 DEF Carries

LEMMA CarriesTail ==
    ASSUME NEW S, NEW s \in Seq(S), s # <<>>
    PROVE  /\ Carries(Tail(s)) \subseteq Carries(s)
           /\ Head(s) \in Carries(s)
<1>1. /\ Len(Tail(s)) = Len(s) - 1
      /\ \A n \in 1..Len(Tail(s)) : Tail(s)[n] = s[n + 1]
      /\ Len(s) \in Nat \ {0}
      /\ Head(s) = s[1]
    BY HeadTailProperties, EmptySeq
<1>2. QED
    BY <1>1 DEF Carries

LEMMA CarriesHeadTail ==
    ASSUME NEW S, NEW s \in Seq(S), s # <<>>
    PROVE  Carries(s) = {Head(s)} \cup Carries(Tail(s))
<1>1. /\ Len(Tail(s)) = Len(s) - 1
      /\ \A n \in 1..Len(Tail(s)) : Tail(s)[n] = s[n + 1]
      /\ Len(s) \in Nat \ {0}
      /\ Head(s) = s[1]
    BY HeadTailProperties, EmptySeq
<1>2. \A n \in 2..Len(s) : s[n] = Tail(s)[n - 1] /\ n - 1 \in 1..Len(Tail(s))
    BY <1>1
<1>3. Carries(s) \subseteq {Head(s)} \cup Carries(Tail(s))
    BY <1>1, <1>2 DEF Carries
<1>4. QED
    BY <1>3, CarriesTail

LEMMA CarriesCut ==
    ASSUME NEW S, NEW s \in Seq(S), NEW m \in 0..Len(s)
    PROVE  /\ SubSeq(s, 1, m) \in Seq(S)
           /\ Carries(SubSeq(s, 1, m)) \subseteq Carries(s)
<1>1. Len(s) \in Nat /\ m \in Int /\ \A n \in 1..m : s[n] \in S
    BY LenProperties, ElementOfSeq
<1>2. /\ SubSeq(s, 1, m) \in Seq(S)
      /\ Len(SubSeq(s, 1, m)) = m
      /\ \A n \in 1..m : SubSeq(s, 1, m)[n] = s[n]
    BY <1>1, SubSeqProperties
<1>3. QED
    BY <1>1, <1>2 DEF Carries

LEMMA CarriesConcat ==
    ASSUME NEW S, NEW s \in Seq(S), NEW t \in Seq(S)
    PROVE  /\ s \o t \in Seq(S)
           /\ Carries(s \o t) = Carries(s) \cup Carries(t)
<1>1. /\ Len(s) \in Nat /\ Len(t) \in Nat
      /\ s \o t \in Seq(S)
      /\ Len(s \o t) = Len(s) + Len(t)
      /\ \A n \in 1..Len(s) : (s \o t)[n] = s[n]
      /\ \A n \in 1..Len(t) : (s \o t)[Len(s) + n] = t[n]
    BY ConcatProperties, LenProperties
<1>2. ASSUME NEW a \in Nat, NEW b \in Nat, NEW n \in 1..(a + b), n \notin 1..a
      PROVE  \E m \in 1..b : n = a + m
    <2>1. n - a \in 1..b /\ n = a + (n - a)
        BY <1>2
    <2>2. QED
        BY <2>1
<1>3. \A n \in 1..(Len(s) + Len(t)) :
         n \in 1..Len(s) \/ \E m \in 1..Len(t) : n = Len(s) + m
    BY <1>1, <1>2
<1>4. \A n \in 1..Len(s) : n \in 1..(Len(s) + Len(t))
    BY <1>1
<1>5. \A n \in 1..Len(t) : Len(s) + n \in 1..(Len(s) + Len(t))
    BY <1>1
<1>6. Carries(s \o t) \subseteq Carries(s) \cup Carries(t)
    BY <1>1, <1>3 DEF Carries
<1>7. Carries(s) \cup Carries(t) \subseteq Carries(s \o t)
    BY <1>1, <1>4, <1>5 DEF Carries
<1>8. QED
    BY <1>1, <1>6, <1>7

LEMMA CarriesNothing ==
    ASSUME NEW S
    PROVE  <<>> \in Seq(S) /\ Carries(<<>>) = {}
BY EmptySeq DEF Carries

LEMMA CarriesSome ==
    ASSUME NEW S, NEW s \in Seq(S), Carries(s) = {}
    PROVE  s = <<>>
<1>1. Len(s) \in Nat
    OBVIOUS
<1>2. ~(1 \in 1..Len(s))
    BY DEF Carries
<1>3. QED
    BY <1>1, <1>2, EmptySeq

LEMMA CarriesType ==
    ASSUME NEW S, NEW s \in Seq(S)
    PROVE  Carries(s) \subseteq S
BY ElementOfSeq DEF Carries

----------------------------------------------------------------------------
(* Sequences that carry nothing twice.                                     *)

Once(s) == \A m, n \in 1..Len(s) : s[m] = s[n] => m = n

LEMMA OnceNothing == Once(<<>>)
BY DEF Once

LEMMA OnceAppend ==
    ASSUME NEW S, NEW s \in Seq(S), NEW e, Once(s), e \notin Carries(s)
    PROVE  Once(Append(s, e))
<1>1. /\ Len(Append(s, e)) = Len(s) + 1
      /\ \A n \in 1..Len(s) : Append(s, e)[n] = s[n]
      /\ Append(s, e)[Len(s) + 1] = e
      /\ Len(s) \in Nat
    OBVIOUS
<1>2. 1..(Len(s) + 1) = (1..Len(s)) \cup {Len(s) + 1}
    BY <1>1
<1>3. \A n \in 1..Len(s) : s[n] # e
    BY DEF Carries
<1>4. QED
    BY <1>1, <1>2, <1>3 DEF Once

LEMMA OnceTail ==
    ASSUME NEW S, NEW s \in Seq(S), s # <<>>, Once(s)
    PROVE  /\ Once(Tail(s))
           /\ Head(s) \notin Carries(Tail(s))
<1>1. /\ Len(Tail(s)) = Len(s) - 1
      /\ \A n \in 1..Len(Tail(s)) : Tail(s)[n] = s[n + 1]
      /\ Len(s) \in Nat \ {0}
      /\ Head(s) = s[1]
    BY HeadTailProperties, EmptySeq
<1>2. QED
    BY <1>1 DEF Once, Carries

LEMMA OnceCut ==
    ASSUME NEW S, NEW s \in Seq(S), NEW m \in 0..Len(s), Once(s)
    PROVE  Once(SubSeq(s, 1, m))
<1>1. Len(s) \in Nat /\ m \in Int /\ \A n \in 1..m : s[n] \in S
    BY LenProperties, ElementOfSeq
<1>2. /\ Len(SubSeq(s, 1, m)) = m
      /\ \A n \in 1..m : SubSeq(s, 1, m)[n] = s[n]
    BY <1>1, SubSeqProperties
<1>3. QED
    BY <1>1, <1>2 DEF Once

\* A sequence that carries nothing twice is no longer than what it carries.
LEMMA OnceLength ==
    ASSUME NEW S, NEW s \in Seq(S), Once(s), NEW T, IsFiniteSet(T), Carries(s) \subseteq T
    PROVE  Len(s) <= Cardinality(T)
<1> DEFINE f == [n \in 1..Len(s) |-> s[n]]
<1>1. Len(s) \in Nat
    OBVIOUS
<1>2. f \in [1..Len(s) -> T]
    BY DEF Carries
<1>3. f \in Injection(1..Len(s), T)
    BY <1>2 DEF Injection, IsInjective, Once
<1>4. Cardinality(1..Len(s)) <= Cardinality(T)
    BY <1>3, FS_Injection
<1>5. Cardinality(1..Len(s)) = Len(s)
    <2>1. ASSUME NEW n \in Nat PROVE Cardinality(1..n) = n
        <3>1. 1 \in Int /\ n \in Int
            OBVIOUS
        <3>2. Cardinality(1..n) = IF 1 > n THEN 0 ELSE n - 1 + 1
            BY <3>1, FS_Interval, Zenon
        <3>3. QED
            BY <3>2
    <2>2. QED
        BY <1>1, <2>1
<1>6. QED
    BY <1>4, <1>5

----------------------------------------------------------------------------
(* Frames underway.                                                        *)

LEMMA LinkTypes ==
    /\ \A i \in Operators : \A j \in Peers(i) :
          /\ j \in Operators
          /\ <<i, j>> \in Links /\ <<j, i>> \in Links
          /\ <<i, j>>[1] = i /\ <<i, j>>[2] = j
    /\ \A link \in Links :
          /\ link[1] \in Operators /\ link[2] \in Operators
          /\ link[2] \in Peers(link[1])
          /\ link = <<link[1], link[2]>>
<1>1. ASSUME NEW i \in Operators, NEW j \in Peers(i)
      PROVE  /\ j \in Operators
             /\ <<i, j>> \in Links /\ <<j, i>> \in Links
             /\ <<i, j>>[1] = i /\ <<i, j>>[2] = j
    BY DEF Links, Peers
<1>2. ASSUME NEW link \in Links
      PROVE  /\ link[1] \in Operators /\ link[2] \in Operators
             /\ link[2] \in Peers(link[1])
             /\ link = <<link[1], link[2]>>
    BY DEF Links, Peers
<1>3. QED
    BY <1>1, <1>2

\* What happens to the frames underway when a process ends.
LEMMA TeardownCuts ==
    ASSUME NEW F, wire \in [Links -> Seq(F)], NEW i \in Operators, Teardown(i)
    PROVE  /\ wire' \in [Links -> Seq(F)]
           /\ \A link \in Links : Carries(wire'[link]) \subseteq Carries(wire[link])
<1>1. PICK kept \in [Peers(i) -> UNION {Surviving(i, j) : j \in Peers(i)}] :
          /\ \A j \in Peers(i) : kept[j] \in Surviving(i, j)
          /\ wire' = [link \in Links |->
                        IF link[2] = i THEN <<>>
                        ELSE IF link[1] = i THEN SubSeq(wire[link], 1, kept[link[2]])
                        ELSE wire[link]]
    BY DEF Teardown
<1>2. wire \in [Links -> Seq(F)]
    OBVIOUS
<1>3. ASSUME NEW link \in Links
      PROVE  /\ wire'[link] \in Seq(F)
             /\ Carries(wire'[link]) \subseteq Carries(wire[link])
    <2>1. wire[link] \in Seq(F)
        BY <1>2
    <2>2. CASE link[2] = i
        <3>1. wire'[link] = <<>>
            BY <1>1, <2>2
        <3>2. QED
            BY <3>1, CarriesNothing
    <2>3. CASE link[2] # i /\ link[1] = i
        <3>1. wire'[link] = SubSeq(wire[link], 1, kept[link[2]])
            BY <1>1, <2>3
        <3>2. link[2] \in Peers(i) /\ link = <<i, link[2]>>
            BY <2>3, LinkTypes
        <3>3. kept[link[2]] \in Surviving(i, link[2])
            BY <1>1, <3>2
        <3>4. Len(wire[link]) \in Nat
            BY <2>1
        <3>5. kept[link[2]] \in 0..Len(wire[link])
            <4>1. link = <<i, link[2]>>
                BY <3>2
            <4>2. \/ kept[link[2]] = Len(wire[link])
                  \/ kept[link[2]] \in 0..Len(wire[link])
                BY <3>3, <4>1, Zenon DEF Surviving
            <4>3. QED
                BY <3>4, <4>2
        <3>6. QED
            BY <2>1, <3>1, <3>5, CarriesCut
    <2>4. CASE link[2] # i /\ link[1] # i
        <3>1. wire'[link] = wire[link]
            BY <1>1, <2>4
        <3>2. QED
            BY <2>1, <3>1
    <2>5. QED
        BY <2>2, <2>3, <2>4
<1>4. wire' = [link \in Links |-> wire'[link]]
    BY <1>1
<1>5. QED
    BY <1>3, <1>4

\* What a teardown makes of a connection: the sequence, nothing, or a part.
LEMMA TeardownOn ==
    ASSUME NEW F, wire \in [Links -> Seq(F)], NEW i \in Operators, Teardown(i),
           NEW link \in Links
    PROVE  \/ wire'[link] = wire[link]
           \/ wire'[link] = <<>>
           \/ \E m \in 0..Len(wire[link]) : wire'[link] = SubSeq(wire[link], 1, m)
<1>1. PICK kept \in [Peers(i) -> UNION {Surviving(i, j) : j \in Peers(i)}] :
          /\ \A j \in Peers(i) : kept[j] \in Surviving(i, j)
          /\ wire' = [l \in Links |->
                        IF l[2] = i THEN <<>>
                        ELSE IF l[1] = i THEN SubSeq(wire[l], 1, kept[l[2]])
                        ELSE wire[l]]
    BY DEF Teardown
<1>2. CASE link[2] # i /\ link[1] = i
    <2>1. link[2] \in Peers(i) /\ link = <<i, link[2]>>
        BY <1>2, LinkTypes
    <2>2. kept[link[2]] \in Surviving(i, link[2])
        BY <1>1, <2>1
    <2>3. \/ kept[link[2]] = Len(wire[link])
          \/ kept[link[2]] \in 0..Len(wire[link])
        BY <2>1, <2>2, Zenon DEF Surviving
    <2>4. Len(wire[link]) \in Nat
        OBVIOUS
    <2>5. kept[link[2]] \in 0..Len(wire[link])
        BY <2>3, <2>4
    <2>6. wire'[link] = SubSeq(wire[link], 1, kept[link[2]])
        BY <1>1, <1>2
    <2>7. QED
        BY <2>5, <2>6
<1>3. CASE link[2] = i \/ link[1] # i
    BY <1>1, <1>3
<1>4. QED
    BY <1>2, <1>3

\* A teardown leaves the connections of others alone, and what is on its way
\* to a peer nothing of which is unread.
LEMMA TeardownSpares ==
    ASSUME NEW F, wire \in [Links -> Seq(F)], NEW i \in Operators, Teardown(i),
           NEW link \in Links, link[2] # i,
           link[1] = i => wire[<<link[2], i>>] = <<>>
    PROVE  wire'[link] = wire[link]
<1>1. PICK kept \in [Peers(i) -> UNION {Surviving(i, j) : j \in Peers(i)}] :
          /\ \A j \in Peers(i) : kept[j] \in Surviving(i, j)
          /\ wire' = [l \in Links |->
                        IF l[2] = i THEN <<>>
                        ELSE IF l[1] = i THEN SubSeq(wire[l], 1, kept[l[2]])
                        ELSE wire[l]]
    BY DEF Teardown
<1>2. CASE link[1] # i
    BY <1>1, <1>2
<1>3. CASE link[1] = i
    <2>1. link[2] \in Peers(i) /\ link = <<i, link[2]>>
        BY <1>3, LinkTypes
    <2>2. kept[link[2]] \in Surviving(i, link[2])
        BY <1>1, <2>1
    <2>3. kept[link[2]] = Len(wire[link])
        BY <1>3, <2>1, <2>2, Zenon DEF Surviving
    <2>4. wire'[link] = SubSeq(wire[link], 1, Len(wire[link]))
        BY <1>1, <1>3, <2>3
    <2>5. wire[link] \in Seq(F)
        OBVIOUS
    <2>6. QED
        BY <2>4, <2>5
<1>4. QED
    BY <1>2, <1>3

\* A teardown repeats no frame.
LEMMA TeardownRepeatsNothing ==
    ASSUME NEW F, wire \in [Links -> Seq(F)], NEW i \in Operators, Teardown(i),
           NEW link \in Links, Once(wire[link])
    PROVE  Once(wire'[link])
<1>1. PICK kept \in [Peers(i) -> UNION {Surviving(i, j) : j \in Peers(i)}] :
          /\ \A j \in Peers(i) : kept[j] \in Surviving(i, j)
          /\ wire' = [l \in Links |->
                        IF l[2] = i THEN <<>>
                        ELSE IF l[1] = i THEN SubSeq(wire[l], 1, kept[l[2]])
                        ELSE wire[l]]
    BY DEF Teardown
<1>2. wire[link] \in Seq(F) /\ Len(wire[link]) \in Nat
    OBVIOUS
<1>3. CASE link[2] = i
    <2>1. wire'[link] = <<>>
        BY <1>1, <1>3
    <2>2. QED
        BY <2>1, OnceNothing
<1>4. CASE link[2] # i /\ link[1] = i
    <2>1. wire'[link] = SubSeq(wire[link], 1, kept[link[2]])
        BY <1>1, <1>4
    <2>2. link[2] \in Peers(i) /\ link = <<i, link[2]>>
        BY <1>4, LinkTypes
    <2>3. kept[link[2]] \in Surviving(i, link[2])
        BY <1>1, <2>2
    <2>4. \/ kept[link[2]] = Len(wire[link])
          \/ kept[link[2]] \in 0..Len(wire[link])
        BY <2>2, <2>3, Zenon DEF Surviving
    <2>5. kept[link[2]] \in 0..Len(wire[link])
        BY <1>2, <2>4
    <2>6. QED
        BY <1>2, <2>1, <2>5, OnceCut
<1>5. CASE link[2] # i /\ link[1] # i
    BY <1>1, <1>5
<1>6. QED
    BY <1>3, <1>4, <1>5

LEMMA PushType ==
    ASSUME NEW F, wire \in [Links -> Seq(F)], NEW i \in Operators, NEW j \in Peers(i), NEW f \in F, Push(i, j, f)
    PROVE  /\ wire' \in [Links -> Seq(F)]
           /\ \A link \in Links :
                 Carries(wire'[link]) \subseteq Carries(wire[link]) \cup
                                        (IF link = <<i, j>> THEN {f} ELSE {})
<1>1. wire \in [Links -> Seq(F)] /\ <<i, j>> \in Links
    BY LinkTypes
<1>2. CASE closed[j]
    BY <1>1, <1>2 DEF Push
<1>3. CASE ~closed[j]
    <2>1. wire' = [wire EXCEPT ![<<i, j>>] = Append(@, f)]
        BY <1>3 DEF Push
    <2>2. Append(wire[<<i, j>>], f) \in Seq(F)
        BY <1>1
    <2>3. Carries(Append(wire[<<i, j>>], f)) = Carries(wire[<<i, j>>]) \cup {f}
        BY <1>1, CarriesAppend
    <2>4. QED
        BY <1>1, <2>1, <2>2, <2>3
<1>4. QED
    BY <1>2, <1>3

\* Reading the head of a connection.
LEMMA ReadType ==
    ASSUME NEW F, wire \in [Links -> Seq(F)], NEW i \in Operators, NEW j \in Peers(i), wire[<<j, i>>] # <<>>,
           wire' = [wire EXCEPT ![<<j, i>>] = Tail(@)]
    PROVE  /\ wire' \in [Links -> Seq(F)]
           /\ \A link \in Links : Carries(wire'[link]) \subseteq Carries(wire[link])
           /\ Head(wire[<<j, i>>]) \in Carries(wire[<<j, i>>])
           /\ Head(wire[<<j, i>>]) \in F
<1>1. wire \in [Links -> Seq(F)] /\ <<j, i>> \in Links
    BY LinkTypes
<1>2. wire[<<j, i>>] \in Seq(F)
    BY <1>1
<1>3. Tail(wire[<<j, i>>]) \in Seq(F) /\ Head(wire[<<j, i>>]) \in F
    BY <1>2, HeadTailProperties
<1>4. /\ Carries(Tail(wire[<<j, i>>])) \subseteq Carries(wire[<<j, i>>])
      /\ Head(wire[<<j, i>>]) \in Carries(wire[<<j, i>>])
    BY <1>2, CarriesTail
<1>5. QED
    BY <1>1, <1>3, <1>4

----------------------------------------------------------------------------
(* Weights: what is left to do, counted by connection and by operator.     *)

Ones(b) == IF b THEN 1 ELSE 0

LEMMA LinksFinite == ASSUME IsFiniteSet(Operators) PROVE IsFiniteSet(Links)
<1>1. IsFiniteSet(Operators \X Operators)
    BY FS_Product
<1>2. QED
    BY <1>1, FS_Subset DEF Links

LEMMA SumsFall ==
    ASSUME NEW a \in Nat, NEW b \in Nat, NEW c \in Nat,
           NEW x \in Nat, NEW y \in Nat, NEW z \in Nat,
           x <= a, y <= b, z <= c
    PROVE  /\ x + y + z <= a + b + c
           /\ x < a \/ y < b \/ z < c => x + y + z < a + b + c
OBVIOUS

\* No weight grows and one falls.
LEMMA WeightsFall ==
    ASSUME IsFiniteSet(Operators),
           NEW f \in [Links -> Nat], NEW f1 \in [Links -> Nat],
           NEW g \in [Operators -> Nat], NEW g1 \in [Operators -> Nat],
           \A link \in Links : f1[link] <= f[link],
           \A i \in Operators : g1[i] <= g[i],
           (\E link \in Links : f1[link] < f[link]) \/ (\E i \in Operators : g1[i] < g[i])
    PROVE  Total(f1) + Total(g1) < Total(f) + Total(g)
<1>1. IsFiniteSet(Links)
    BY LinksFinite
<1>2. /\ Total(f) \in Nat /\ Total(f1) \in Nat /\ Total(g) \in Nat /\ Total(g1) \in Nat
      /\ Total(f1) <= Total(f) /\ Total(g1) <= Total(g)
    BY <1>1, TotalType, TotalMonotone
<1>3. CASE \E link \in Links : f1[link] < f[link]
    <2>1. Total(f1) < Total(f)
        BY <1>1, <1>3, TotalFalls
    <2>2. QED
        BY <1>2, <2>1
<1>4. CASE \E i \in Operators : g1[i] < g[i]
    <2>1. Total(g1) < Total(g)
        BY <1>4, TotalFalls
    <2>2. QED
        BY <1>2, <2>1
<1>5. QED
    BY <1>3, <1>4

\* One connection loses more than one operator gains, and nothing else grows.
LEMMA WeightShifts ==
    ASSUME IsFiniteSet(Operators),
           NEW f \in [Links -> Nat], NEW f1 \in [Links -> Nat],
           NEW g \in [Operators -> Nat], NEW g1 \in [Operators -> Nat],
           NEW link \in Links, NEW k \in Operators,
           \A l \in Links \ {link} : f1[l] <= f[l],
           \A i \in Operators \ {k} : g1[i] <= g[i],
           f1[link] + g1[k] < f[link] + g[k]
    PROVE  Total(f1) + Total(g1) < Total(f) + Total(g)
<1> DEFINE h == [f1 EXCEPT ![link] = f[link]]
           e == [g1 EXCEPT ![k] = g[k]]
<1>1. IsFiniteSet(Links)
    BY LinksFinite
<1>2. /\ h \in [Links -> Nat] /\ h[link] = f[link]
      /\ \A l \in Links \ {link} : f1[l] = h[l]
      /\ \A l \in Links : h[l] <= f[l]
    OBVIOUS
<1>3. /\ e \in [Operators -> Nat] /\ e[k] = g[k]
      /\ \A i \in Operators \ {k} : g1[i] = e[i]
      /\ \A i \in Operators : e[i] <= g[i]
    OBVIOUS
<1> HIDE DEF h, e
<1>4. Total(f1) = Total(h) + f1[link] - h[link]
    BY <1>1, <1>2, TotalChange
<1>5. Total(g1) = Total(e) + g1[k] - e[k]
    BY <1>3, TotalChange
<1>6. /\ Total(f) \in Nat /\ Total(h) \in Nat /\ Total(g) \in Nat /\ Total(e) \in Nat
      /\ Total(h) <= Total(f) /\ Total(e) <= Total(g)
    BY <1>1, <1>2, <1>3, TotalType, TotalMonotone
<1>7. f1[link] \in Nat /\ f[link] \in Nat /\ g1[k] \in Nat /\ g[k] \in Nat
    OBVIOUS
<1>8. Total(f1) = Total(h) + f1[link] - f[link] /\ Total(g1) = Total(e) + g1[k] - g[k]
    BY <1>2, <1>3, <1>4, <1>5
<1>9. QED
    BY <1>6, <1>7, <1>8
=============================================================================
