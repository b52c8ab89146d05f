------------------------- MODULE EventQueues_proofs -------------------------
(***************************************************************************)
(* Lemmas about the operators of EventDelivery on queues of events: how    *)
(* many elements they have, how many of them are wake-up events, what      *)
(* ProcessEvents returns, what is left to write of the pending batches,    *)
(* and when the events of a queue and those that wait for it are in order. *)
(* They are about values, not about states: a step of EventDelivery cites  *)
(* them for the old and the new value of a queue.                          *)
(***************************************************************************)
EXTENDS EventDeliveryProperties, FiniteSetTheorems, NaturalsInduction,
        SequenceTheorems, TLAPS

Event == [id : Nat, wake : BOOLEAN]

Pairs(sets) == UNION {{i} \X sets[i] : i \in DOMAIN sets}
-----------------------------------------------------------------------------
(* Induction over the naturals, for a set. *)
LEMMA SetInduction ==
  ASSUME NEW S, 0 \in S, \A n \in S \cap Nat : n + 1 \in S
  PROVE  Nat \subseteq S
<1> DEFINE R == {ss \in Nat \X Nat : ss[1] < ss[2]}
<1>1. IsWellFoundedOn(R, Nat)
  BY NatLessThanWellFounded, Zenon DEF OpToRel
<1>2. SUFFICES ASSUME Nat \ S # {} PROVE FALSE
  OBVIOUS
<1> HIDE DEF R
<1>3. PICK n \in Nat \ S : \A m \in Nat \ S : <<m, n>> \notin R
  BY <1>1, <1>2, WFMin
<1>4. n # 0 /\ n - 1 \in Nat
  BY <1>3
<1>5. <<n - 1, n>> \in R
  BY <1>4 DEF R
<1>6. n - 1 \in S
  BY <1>3, <1>4, <1>5
<1>7. (n - 1) + 1 = n
  BY <1>3
<1>8. QED
  BY <1>3, <1>4, <1>6, <1>7
-----------------------------------------------------------------------------
(* Total counts: it is a natural number, ... *)
LEMMA PairsFinite ==
  ASSUME NEW n \in Nat, NEW f, DOMAIN f = 1 .. n, \A i \in 1 .. n : IsFiniteSet(f[i])
  PROVE  IsFiniteSet(Pairs(f)) /\ Total(f) \in Nat
<1> DEFINE F == {{i} \X f[i] : i \in 1 .. n}
<1>1. IsFiniteSet(F)
  <2> DEFINE m == [i \in 1 .. n |-> {i} \X f[i]]
  <2>1. IsFiniteSet(1 .. n)
    BY FS_Interval
  <2>2. m \in Surjection(1 .. n, F)
    BY DEF Surjection
  <2> HIDE DEF m, F
  <2>3. QED
    BY <2>1, <2>2, FS_Surjection
<1>2. \A T \in F : IsFiniteSet(T)
  <2>1. SUFFICES ASSUME NEW i \in 1 .. n PROVE IsFiniteSet({i} \X f[i])
    OBVIOUS
  <2>2. IsFiniteSet({i}) /\ IsFiniteSet(f[i])
    BY FS_Singleton
  <2>3. QED
    BY <2>2, FS_Product
<1>3. Pairs(f) = UNION F
  BY DEF Pairs
<1> HIDE DEF F
<1>4. IsFiniteSet(Pairs(f))
  BY <1>1, <1>2, <1>3, FS_UNION
<1>5. QED
  BY <1>4, FS_CardinalityType DEF Total, Pairs

(* ... no sets have no elements, ... *)
LEMMA TotalEmpty ==
  ASSUME NEW f, DOMAIN f = {}
  PROVE  Total(f) = 0
<1>1. UNION {{i} \X f[i] : i \in DOMAIN f} = {}
  OBVIOUS
<1>2. QED
  BY <1>1, FS_EmptySet DEF Total

(* ... one more set adds its elements ... *)
LEMMA TotalAppend ==
  ASSUME NEW n \in Nat, NEW f, NEW g,
         DOMAIN f = 1 .. n, DOMAIN g = 1 .. n + 1,
         \A i \in 1 .. n : g[i] = f[i],
         \A i \in 1 .. n + 1 : IsFiniteSet(g[i])
  PROVE  Total(g) = Total(f) + Cardinality(g[n + 1])
<1> DEFINE L == {n + 1} \X g[n + 1]
<1>1. Pairs(g) = Pairs(f) \cup L /\ Pairs(f) \cap L = {}
  <2>1. 1 .. n + 1 = (1 .. n) \cup {n + 1} /\ n + 1 \notin 1 .. n
    OBVIOUS
  <2>2. Pairs(f) = UNION {{i} \X g[i] : i \in 1 .. n}
    BY DEF Pairs
  <2>3. QED
    BY <2>1, <2>2 DEF Pairs
<1>2. IsFiniteSet(Pairs(f)) /\ Total(f) \in Nat
  BY PairsFinite
<1>3. IsFiniteSet(L) /\ Cardinality(L) = Cardinality(g[n + 1]) /\ Cardinality(L) \in Nat
  <2>1. IsFiniteSet({n + 1}) /\ Cardinality({n + 1}) = 1 /\ IsFiniteSet(g[n + 1])
    <3>1. n + 1 \in 1 .. n + 1
      OBVIOUS
    <3>2. QED
      BY <3>1, FS_Singleton
  <2>2. IsFiniteSet(L) /\ Cardinality(L) = 1 * Cardinality(g[n + 1])
    BY <2>1, FS_Product
  <2>3. Cardinality(g[n + 1]) \in Nat
    BY <2>1, FS_CardinalityType
  <2> HIDE DEF L
  <2>4. QED
    BY <2>2, <2>3
<1> HIDE DEF L
<1>4. Cardinality(Pairs(g)) = Cardinality(Pairs(f)) + Cardinality(L) - Cardinality({})
  BY <1>1, <1>2, <1>3, FS_Union
<1>5. QED
  BY <1>2, <1>3, <1>4, FS_EmptySet DEF Total, Pairs

(* ... and it is the elements of the first set and those of the others. *)
LEMMA TotalTail ==
  ASSUME NEW n \in Nat, NEW f, NEW g,
         DOMAIN f = 1 .. n, DOMAIN g = 1 .. n + 1,
         \A i \in 1 .. n : g[i + 1] = f[i],
         \A i \in 1 .. n + 1 : IsFiniteSet(g[i])
  PROVE  Total(g) = Cardinality(g[1]) + Total(f)
<1> DEFINE H == {1} \X g[1]
           T == UNION {{i} \X g[i] : i \in 2 .. n + 1}
           m == [x \in Pairs(f) |-> <<x[1] + 1, x[2]>>]
<1>1. Pairs(g) = T \cup H /\ T \cap H = {}
  <2>1. 1 .. n + 1 = (2 .. n + 1) \cup {1} /\ 1 \notin 2 .. n + 1
    OBVIOUS
  <2>2. QED
    BY <2>1 DEF Pairs
<1>2. \A i \in 1 .. n : IsFiniteSet(f[i])
  <2>1. SUFFICES ASSUME NEW i \in 1 .. n PROVE IsFiniteSet(f[i])
    OBVIOUS
  <2>2. i + 1 \in 1 .. n + 1 /\ g[i + 1] = f[i]
    OBVIOUS
  <2>3. QED
    BY <2>2
<1>3. IsFiniteSet(Pairs(f)) /\ Total(f) \in Nat
  BY <1>2, PairsFinite
<1>4. \A x \in Pairs(f) : x = <<x[1], x[2]>> /\ x[1] \in 1 .. n /\ x[2] \in f[x[1]]
  BY DEF Pairs
<1>5. \A i \in 1 .. n : \A y \in f[i] : <<i, y>> \in Pairs(f)
  BY DEF Pairs
<1>6. \A i \in 2 .. n + 1 : i - 1 \in 1 .. n /\ g[i] = f[i - 1] /\ (i - 1) + 1 = i
  OBVIOUS
<1>7. m \in [Pairs(f) -> T]
  <2>1. SUFFICES ASSUME NEW x \in Pairs(f) PROVE <<x[1] + 1, x[2]>> \in T
    OBVIOUS
  <2>2. x[1] + 1 \in 2 .. n + 1 /\ x[2] \in g[x[1] + 1]
    BY <1>4
  <2>3. QED
    BY <2>2
<1>8. \A x, y \in Pairs(f) : m[x] = m[y] => x = y
  <2>1. SUFFICES ASSUME NEW x \in Pairs(f), NEW y \in Pairs(f), m[x] = m[y] PROVE x = y
    OBVIOUS
  <2>2. x[1] + 1 = y[1] + 1 /\ x[2] = y[2]
    BY <2>1
  <2>3. x[1] = y[1]
    BY <2>2, <1>4
  <2>4. QED
    BY <2>2, <2>3, <1>4
<1>9. \A t \in T : \E x \in Pairs(f) : m[x] = t
  <2>1. SUFFICES ASSUME NEW t \in T PROVE \E x \in Pairs(f) : m[x] = t
    OBVIOUS
  <2>0. PICK i \in 2 .. n + 1 : t \in {i} \X g[i]
    OBVIOUS
  <2>1a. PICK y \in g[i] : t = <<i, y>>
    BY <2>0
  <2>2. <<i - 1, y>> \in Pairs(f)
    BY <1>5, <1>6
  <2>3. m[<<i - 1, y>>] = <<i, y>>
    BY <2>2, <1>6
  <2>4. QED
    BY <2>1a, <2>2, <2>3
<1> HIDE DEF H, T, m
<1>10. ExistsBijection(Pairs(f), T)
  BY <1>7, <1>8, <1>9 DEF ExistsBijection, Bijection, Injection, Surjection, IsInjective
<1>11. IsFiniteSet(T) /\ Cardinality(T) = Total(f)
  BY <1>3, <1>10, FS_Bijection DEF Total, Pairs
<1>12. IsFiniteSet(H) /\ Cardinality(H) = Cardinality(g[1]) /\ Cardinality(H) \in Nat
  <2>1. IsFiniteSet({1}) /\ Cardinality({1}) = 1
    BY FS_Singleton
  <2>2. IsFiniteSet(g[1])
    OBVIOUS
  <2>3. IsFiniteSet(H) /\ Cardinality(H) = 1 * Cardinality(g[1])
    BY <2>1, <2>2, FS_Product DEF H
  <2>4. Cardinality(g[1]) \in Nat
    BY <2>2, FS_CardinalityType
  <2>5. QED
    BY <2>3, <2>4
<1>13. Cardinality(Pairs(g)) = Cardinality(T) + Cardinality(H) - Cardinality({})
  BY <1>1, <1>11, <1>12, FS_Union
<1>14. QED
  BY <1>3, <1>11, <1>12, <1>13, FS_EmptySet DEF Total, Pairs
-----------------------------------------------------------------------------
(* Drop and SubSeq split a sequence in two. *)
LEMMA Split ==
  ASSUME NEW S, NEW s \in Seq(S), NEW n \in 0 .. Len(s)
  PROVE  /\ SubSeq(s, 1, n) \in Seq(S) /\ Len(SubSeq(s, 1, n)) = n
         /\ \A i \in 1 .. n : SubSeq(s, 1, n)[i] = s[i]
         /\ Drop(s, n) \in Seq(S) /\ Len(Drop(s, n)) = Len(s) - n
         /\ \A i \in 1 .. Len(s) - n : Drop(s, n)[i] = s[n + i]
         /\ s = SubSeq(s, 1, n) \o Drop(s, n)
<1>1. SubSeq(s, 1, n) \in Seq(S) /\ Len(SubSeq(s, 1, n)) = n
      /\ \A i \in 1 .. n : SubSeq(s, 1, n)[i] = s[i]
  BY SubSeqProperties
<1>2. \A i \in n + 1 .. Len(s) : s[i] \in S
  OBVIOUS
<1>3. Drop(s, n) \in Seq(S) /\ Len(Drop(s, n)) = Len(s) - n
      /\ \A i \in 1 .. Len(s) - n : Drop(s, n)[i] = s[n + i]
  <2>1. n + 1 \in Int /\ Len(s) \in Int
    OBVIOUS
  <2>2. /\ SubSeq(s, n + 1, Len(s)) \in Seq(S)
        /\ Len(SubSeq(s, n + 1, Len(s)))
             = IF n + 1 <= Len(s) THEN Len(s) - (n + 1) + 1 ELSE 0
        /\ \A i \in 1 .. Len(s) - (n + 1) + 1 :
             SubSeq(s, n + 1, Len(s))[i] = s[(n + 1) + i - 1]
    BY <1>2, <2>1, SubSeqProperties
  <2>3. \A i \in 1 .. Len(s) - n : (n + 1) + i - 1 = n + i
    OBVIOUS
  <2>4. QED
    BY <2>2, <2>3 DEF Drop
<1>4. s = SubSeq(s, 1, n) \o Drop(s, n)
  <2>1. SubSeq(s, 1, n) \o SubSeq(s, n + 1, Len(s)) = SubSeq(s, 1, Len(s))
    <3>1. 1 \in 1 .. Len(s) + 1 /\ n \in 1 - 1 .. Len(s) /\ Len(s) \in n .. Len(s)
      OBVIOUS
    <3>2. QED
      BY <3>1, ConcatAdjacentSubSeq
  <2>2. QED
    BY <2>1, SubSeqFull DEF Drop
<1>5. QED
  BY <1>1, <1>3, <1>4

(* The wake-up events of a sequence, of one that got one more, of two       *)
(* sequences, and of a part of one.                                         *)
LEMMA WakesType ==
  ASSUME NEW e \in Seq(Event)
  PROVE  IsFiniteSet(WakeIndexes(e)) /\ Wakes(e) \in Nat /\ Wakes(e) <= Len(e)
<1>1. WakeIndexes(e) \subseteq 1 .. Len(e)
  BY DEF WakeIndexes
<1>2. IsFiniteSet(1 .. Len(e)) /\ Cardinality(1 .. Len(e)) = Len(e)
  <2>1. Len(e) \in Nat /\ 1 \in Int
    OBVIOUS
  <2>2. QED
    BY <2>1, FS_Interval, SMTT(60)
<1>3. QED
  BY <1>1, <1>2, FS_Subset, FS_CardinalityType DEF Wakes

(* No event, no wake-up event; ... *)
LEMMA WakesEmpty ==
  Wakes(<<>>) = 0
<1>1. WakeIndexes(<<>>) = {}
  BY DEF WakeIndexes
<1>2. QED
  BY <1>1, FS_EmptySet DEF Wakes

(* ... two queues have together what each has, ... *)
LEMMA WakesConcat ==
  ASSUME NEW s \in Seq(Event), NEW t \in Seq(Event)
  PROVE  Wakes(s \o t) = Wakes(s) + Wakes(t)
<1> DEFINE T == {i \in Len(s) + 1 .. Len(s) + Len(t) : t[i - Len(s)].wake}
           m == [i \in WakeIndexes(t) |-> Len(s) + i]
<1>1. WakeIndexes(s \o t) = WakeIndexes(s) \cup T /\ WakeIndexes(s) \cap T = {}
  BY DEF WakeIndexes
<1>2. IsFiniteSet(WakeIndexes(s)) /\ IsFiniteSet(WakeIndexes(t))
  BY WakesType
<1>3. m \in [WakeIndexes(t) -> T]
  BY DEF WakeIndexes
<1>4. \A i, j \in WakeIndexes(t) : m[i] = m[j] => i = j
  BY DEF WakeIndexes
<1>5. \A i \in T : \E j \in WakeIndexes(t) : m[j] = i
  <2>1. SUFFICES ASSUME NEW i \in T PROVE \E j \in WakeIndexes(t) : m[j] = i
    OBVIOUS
  <2>2. i - Len(s) \in WakeIndexes(t) /\ Len(s) + (i - Len(s)) = i
    BY DEF WakeIndexes
  <2>3. QED
    BY <2>2
<1> HIDE DEF T, m
<1>6. ExistsBijection(WakeIndexes(t), T)
  BY <1>3, <1>4, <1>5 DEF ExistsBijection, Bijection, Injection, Surjection, IsInjective
<1>7. IsFiniteSet(T) /\ Cardinality(T) = Wakes(t)
  BY <1>2, <1>6, FS_Bijection DEF Wakes
<1>8. Wakes(s \o t) = Wakes(s) + Wakes(t) - Cardinality({})
  BY <1>1, <1>2, <1>7, FS_Union DEF Wakes
<1>9. QED
  BY <1>8, WakesType, FS_EmptySet

(* ... and so one event more counts for itself, ... *)
LEMMA WakesOfOne ==
  ASSUME NEW e \in Event
  PROVE  Wakes(<<e>>) = IF e.wake THEN 1 ELSE 0
<1>1. WakeIndexes(<<e>>) = IF e.wake THEN {1} ELSE {}
  BY DEF WakeIndexes
<1>2. QED
  BY <1>1, FS_Singleton, FS_EmptySet DEF Wakes

(* ... at the end of a queue ... *)
LEMMA WakesAppend ==
  ASSUME NEW s \in Seq(Event), NEW e \in Event
  PROVE  Wakes(Append(s, e)) = Wakes(s) + (IF e.wake THEN 1 ELSE 0)
<1>1. Append(s, e) = s \o <<e>> /\ <<e>> \in Seq(Event)
  BY AppendIsConcat
<1>2. QED
  BY <1>1, WakesConcat, WakesOfOne, ZenonT(60)

(* ... or in front of it. *)
LEMMA WakesTail ==
  ASSUME NEW s \in Seq(Event), s # <<>>
  PROVE  Wakes(s) = (IF Head(s).wake THEN 1 ELSE 0) + Wakes(Tail(s))
<1>1. s = <<Head(s)>> \o Tail(s) /\ Head(s) \in Event /\ Tail(s) \in Seq(Event)
      /\ <<Head(s)>> \in Seq(Event)
  OBVIOUS
<1>2. QED
  BY <1>1, WakesConcat, WakesOfOne, ZenonT(60)

(* A queue cut in two loses none. *)
LEMMA WakesSplit ==
  ASSUME NEW s \in Seq(Event), NEW n \in 0 .. Len(s)
  PROVE  /\ Wakes(s) = Wakes(SubSeq(s, 1, n)) + Wakes(Drop(s, n))
         /\ Wakes(SubSeq(s, 1, n)) \in Nat /\ Wakes(Drop(s, n)) \in Nat
BY Split, WakesConcat, WakesType
-----------------------------------------------------------------------------
(* What ProcessEvents has kept of the first n events of a batch. *)
KeptOf(b, n, kept) ==
  /\ kept \in Seq(Event)
  /\ Len(kept) <= n
  /\ Wakes(kept) = Cardinality({i \in 1 .. n : b[i] = "wake"})
  /\ Ascending(kept)
  /\ \A i \in DOMAIN kept : kept[i].id > nextId /\ kept[i].id <= nextId + n

(* ProcessEvents drops or keeps one event. *)
LEMMA KeptStep ==
  ASSUME nextId \in Nat, NEW b \in Seq(Kinds), NEW n \in Nat, n + 1 \in 1 .. Len(b),
         NEW kept, KeptOf(b, n, kept), NEW k,
         k = (IF b[n + 1] = "nopick" THEN kept
              ELSE Append(kept, [id |-> nextId + (n + 1), wake |-> b[n + 1] = "wake"]))
  PROVE  KeptOf(b, n + 1, k)
<1> DEFINE W(m) == {i \in 1 .. m : b[i] = "wake"}
           e == [id |-> nextId + (n + 1), wake |-> b[n + 1] = "wake"]
<1>1. IsFiniteSet(W(n)) /\ Cardinality(W(n)) \in Nat
  <2>1. IsFiniteSet(1 .. n) /\ W(n) \in SUBSET (1 .. n)
    BY FS_Interval
  <2>2. QED
    BY <2>1, FS_Subset, FS_CardinalityType
<1>2. W(n + 1) = IF b[n + 1] = "wake" THEN W(n) \cup {n + 1} ELSE W(n)
  <2>1. 1 .. n + 1 = (1 .. n) \cup {n + 1}
    OBVIOUS
  <2>2. QED
    BY <2>1
<1>3. n + 1 \notin W(n)
  OBVIOUS
<1>4. Cardinality(W(n + 1)) = Cardinality(W(n)) + (IF b[n + 1] = "wake" THEN 1 ELSE 0)
  <2> HIDE DEF W
  <2>1. Cardinality(W(n) \cup {n + 1}) = Cardinality(W(n)) + 1
    BY <1>1, <1>3, FS_AddElement
  <2>2. CASE b[n + 1] = "wake"
    BY <1>2, <2>1, <2>2
  <2>3. CASE b[n + 1] # "wake"
    BY <1>1, <1>2, <2>3
  <2>4. QED
    BY <2>2, <2>3
<1>5. e \in Event /\ e.id = nextId + (n + 1) /\ e.wake = (b[n + 1] = "wake")
  BY DEF Event
<1>9. \A i \in 1 .. Len(kept) : kept[i].id \in Nat /\ kept[i].id > nextId
                              /\ kept[i].id <= nextId + n
  <2>1. SUFFICES ASSUME NEW i \in 1 .. Len(kept)
                 PROVE  kept[i].id \in Nat /\ kept[i].id > nextId /\ kept[i].id <= nextId + n
    OBVIOUS
  <2>2. kept \in Seq(Event) /\ i \in DOMAIN kept
    BY DEF KeptOf
  <2>3. kept[i] \in Event
    BY <2>2, ElementOfSeq
  <2>4. kept[i].id \in Nat
    BY <2>3 DEF Event
  <2>5. QED
    BY <2>2, <2>4 DEF KeptOf
<1>6. CASE b[n + 1] = "nopick"
  <2>1. k = kept /\ Cardinality(W(n + 1)) = Cardinality(W(n))
    BY <1>1, <1>4, <1>6
  <2> HIDE DEF W
  <2>2. \A i \in DOMAIN kept : kept[i].id <= nextId + (n + 1)
    <3>1. SUFFICES ASSUME NEW i \in DOMAIN kept PROVE kept[i].id <= nextId + (n + 1)
      OBVIOUS
    <3>2. kept[i].id \in Nat /\ kept[i].id <= nextId + n
      BY <1>9 DEF KeptOf
    <3>3. QED
      BY <3>2
  <2>3. QED
    BY <2>1, <2>2 DEF KeptOf, W
<1>7. CASE b[n + 1] # "nopick"
  <2> HIDE DEF e
  <2>1. k = Append(kept, e)
    BY <1>7 DEF e
  <2>2. /\ k \in Seq(Event) /\ Len(k) = Len(kept) + 1
        /\ \A i \in 1 .. Len(kept) : k[i] = kept[i]
        /\ k[Len(kept) + 1] = e
    BY <2>1, <1>5, AppendProperties DEF KeptOf
  <2>3. Wakes(k) = Wakes(kept) + (IF e.wake THEN 1 ELSE 0)
    BY <2>1, <1>5, WakesAppend DEF KeptOf
  <2>4. Wakes(k) = Cardinality(W(n + 1))
    <3> HIDE DEF W
    <3>1. QED
      BY <1>4, <1>5, <2>3 DEF KeptOf, W
  <2>6. Ascending(k)
    BY <1>5, <1>9, <2>2, SMTT(60) DEF KeptOf, Ascending
  <2>7. \A i \in DOMAIN k : k[i].id > nextId /\ k[i].id <= nextId + (n + 1)
    BY <1>5, <1>9, <2>2, SMTT(60) DEF KeptOf
  <2>8. Len(k) <= n + 1
    BY <2>2 DEF KeptOf
  <2>9. QED
    BY <2>2, <2>4, <2>6, <2>7, <2>8 DEF KeptOf
<1>8. QED
  BY <1>6, <1>7

(* ProcessEvents keeps the order of a batch, numbers its events from nextId *)
(* on and keeps every wake-up event.                                        *)
LEMMA ProcessEventsKeeps ==
  ASSUME nextId \in Nat, NEW b \in Seq(Kinds)
  PROVE  KeptOf(b, Len(b), ProcessEvents(b))
<1> DEFINE Def(v, n) == IF b[n] = "nopick" THEN v
                        ELSE Append(v, [id |-> nextId + n, wake |-> b[n] = "wake"])
           kept == CHOOSE g : g = [n \in 0 .. Len(b) |->
                                     IF n = 0 THEN <<>>
                                     ELSE IF b[n] = "nopick" THEN g[n - 1]
                                     ELSE Append(g[n - 1], [id |-> nextId + n, wake |-> b[n] = "wake"])]
<1>1. ProcessEvents(b) = kept[Len(b)]
  BY DEF ProcessEvents
<1>2. FiniteNatInductiveDefHypothesis(kept, <<>>, Def, 0, Len(b))
  BY DEF FiniteNatInductiveDefHypothesis
<1> HIDE DEF Def, kept
<1>3. 0 \in Nat /\ Len(b) \in Nat
  OBVIOUS
<1>4. FiniteNatInductiveDefConclusion(kept, <<>>, Def, 0, Len(b))
  BY <1>2, <1>3, FiniteNatInductiveDef
<1>5. kept = [n \in 0 .. Len(b) |-> IF n = 0 THEN <<>> ELSE Def(kept[n - 1], n)]
  BY <1>4 DEF FiniteNatInductiveDefConclusion
<1> DEFINE S == {n \in Nat : n <= Len(b) => KeptOf(b, n, kept[n])}
<1>6. 0 \in S
  <2>1. kept[0] = <<>>
    BY <1>3, <1>5
  <2>2. {i \in 1 .. 0 : b[i] = "wake"} = {}
    OBVIOUS
  <2>3. Wakes(<<>>) = Cardinality({i \in 1 .. 0 : b[i] = "wake"})
    BY <2>2, WakesEmpty, FS_EmptySet
  <2>4. <<>> \in Seq(Event) /\ Len(<<>>) <= 0 /\ DOMAIN <<>> = {}
    OBVIOUS
  <2>5. KeptOf(b, 0, <<>>)
    BY <2>3, <2>4 DEF KeptOf, Ascending
  <2>6. QED
    BY <2>1, <2>5
<1>7. \A n \in S \cap Nat : n + 1 \in S
  <2>1. SUFFICES ASSUME NEW n \in Nat, n \in S, n + 1 <= Len(b)
                 PROVE  KeptOf(b, n + 1, kept[n + 1])
    OBVIOUS
  <2>2. KeptOf(b, n, kept[n])
    BY <1>3, <2>1
  <2>3. n + 1 \in 0 .. Len(b) /\ n + 1 # 0 /\ (n + 1) - 1 = n /\ n + 1 \in 1 .. Len(b)
    BY <1>3, <2>1
  <2>4. kept[n + 1] = Def(kept[n], n + 1)
    BY <1>5, <2>3
  <2>5. QED
    BY <2>2, <2>3, <2>4, KeptStep DEF Def
<1>8. Nat \subseteq S
  <2> HIDE DEF S
  <2>1. QED
    BY <1>6, <1>7, SetInduction
<1>9. QED
  BY <1>1, <1>3, <1>8
-----------------------------------------------------------------------------
(* The wake-up events of a sequence of event sequences, the events of the   *)
(* pending queue and the sum of acknowledged counts, when an element is     *)
(* appended, when the first is removed, and when the first is replaced.     *)
PendingBatch == [events : Seq(Event), wake : Nat]

WakesOf(u)  == Total([i \in DOMAIN u |-> WakeIndexes(u[i])])
EventsOf(q) == Total([i \in DOMAIN q |-> DOMAIN q[i].events])
AcksOf(q)   == Total([i \in DOMAIN q |-> 1 .. q[i]])

(* The sets that are counted are finite. *)
LEMMA IndexesFinite ==
  /\ \A e \in Seq(Event) : IsFiniteSet(WakeIndexes(e))
  /\ \A b \in PendingBatch : /\ IsFiniteSet(DOMAIN b.events)
                             /\ Cardinality(DOMAIN b.events) = Len(b.events)
  /\ \A n \in Nat : IsFiniteSet(1 .. n) /\ Cardinality(1 .. n) = n
<1>1. \A n \in Nat : IsFiniteSet(1 .. n) /\ Cardinality(1 .. n) = n
  BY FS_Interval
<1>2. \A b \in PendingBatch : b.events \in Seq(Event)
  BY DEF PendingBatch
<1>3. \A b \in PendingBatch : Len(b.events) \in Nat /\ DOMAIN b.events = 1 .. Len(b.events)
  BY <1>2, LenProperties
<1>4. QED
  BY <1>1, <1>3, WakesType

(* The wake-up events that wait, the events that wait, and the events that  *)
(* are acknowledged: none in an empty queue, ...                            *)
LEMMA WakesOfEmpty == WakesOf(<<>>) = 0
BY TotalEmpty DEF WakesOf

LEMMA EventsOfEmpty == EventsOf(<<>>) = 0
BY TotalEmpty DEF EventsOf

LEMMA AcksOfEmpty == AcksOf(<<>>) = 0
BY TotalEmpty DEF AcksOf

(* ... always a natural number, ... *)
LEMMA WakesOfType ==
  ASSUME NEW u \in Seq(Seq(Event))
  PROVE  WakesOf(u) \in Nat
<1> DEFINE f == [i \in DOMAIN u |-> WakeIndexes(u[i])]
<1>1. Len(u) \in Nat /\ DOMAIN f = 1 .. Len(u)
  OBVIOUS
<1>2. \A i \in 1 .. Len(u) : IsFiniteSet(f[i])
  BY <1>1, ElementOfSeq, WakesType
<1> HIDE DEF f
<1>3. Total(f) \in Nat
  BY <1>1, <1>2, PairsFinite
<1>4. QED
  BY <1>3 DEF f, WakesOf

(* ... for events ...                                                       *)
LEMMA EventsOfType ==
  ASSUME NEW q \in Seq(PendingBatch)
  PROVE  EventsOf(q) \in Nat
<1> DEFINE f == [i \in DOMAIN q |-> DOMAIN q[i].events]
<1>1. Len(q) \in Nat /\ DOMAIN f = 1 .. Len(q)
  OBVIOUS
<1>2. \A i \in 1 .. Len(q) : IsFiniteSet(f[i])
  BY <1>1, ElementOfSeq, IndexesFinite
<1> HIDE DEF f
<1>3. Total(f) \in Nat
  BY <1>1, <1>2, PairsFinite
<1>4. QED
  BY <1>3 DEF f, EventsOf

(* ... and acknowledgements, ...                                            *)
LEMMA AcksOfType ==
  ASSUME NEW q \in Seq(Nat)
  PROVE  AcksOf(q) \in Nat
<1> DEFINE f == [i \in DOMAIN q |-> 1 .. q[i]]
<1>1. Len(q) \in Nat /\ DOMAIN f = 1 .. Len(q)
  OBVIOUS
<1>2. \A i \in 1 .. Len(q) : IsFiniteSet(f[i])
  BY <1>1, ElementOfSeq, IndexesFinite
<1> HIDE DEF f
<1>3. Total(f) \in Nat
  BY <1>1, <1>2, PairsFinite
<1>4. QED
  BY <1>3 DEF f, AcksOf

(* ... one element more counts for itself at the end of the queue ... *)
LEMMA WakesOfAppend ==
  ASSUME NEW u \in Seq(Seq(Event)), NEW e \in Seq(Event)
  PROVE  WakesOf(Append(u, e)) = WakesOf(u) + Wakes(e)
<1> DEFINE v == Append(u, e)
           f == [i \in DOMAIN u |-> WakeIndexes(u[i])]
           g == [i \in DOMAIN v |-> WakeIndexes(v[i])]
<1>1. /\ v \in Seq(Seq(Event)) /\ Len(v) = Len(u) + 1
      /\ \A i \in 1 .. Len(u) : v[i] = u[i]
      /\ v[Len(u) + 1] = e
  BY AppendProperties
<1> HIDE DEF v
<1>2. /\ Len(u) \in Nat /\ DOMAIN f = 1 .. Len(u) /\ DOMAIN g = 1 .. Len(u) + 1
      /\ \A i \in 1 .. Len(u) : g[i] = f[i]
      /\ g[Len(u) + 1] = WakeIndexes(e)
  BY <1>1
<1>3. \A i \in 1 .. Len(u) + 1 : IsFiniteSet(g[i])
  BY <1>1, <1>2, ElementOfSeq, WakesType
<1> HIDE DEF f, g
<1>4. Total(g) = Total(f) + Cardinality(g[Len(u) + 1])
  BY <1>2, <1>3, TotalAppend
<1>5. QED
  BY <1>2, <1>4 DEF f, g, v, WakesOf, Wakes

LEMMA EventsOfAppend ==
  ASSUME NEW q \in Seq(PendingBatch), NEW b \in PendingBatch
  PROVE  EventsOf(Append(q, b)) = EventsOf(q) + Len(b.events)
<1> DEFINE v == Append(q, b)
           f == [i \in DOMAIN q |-> DOMAIN q[i].events]
           g == [i \in DOMAIN v |-> DOMAIN v[i].events]
<1>1. /\ v \in Seq(PendingBatch) /\ Len(v) = Len(q) + 1
      /\ \A i \in 1 .. Len(q) : v[i] = q[i]
      /\ v[Len(q) + 1] = b
  BY AppendProperties
<1> HIDE DEF v
<1>2. /\ Len(q) \in Nat /\ DOMAIN f = 1 .. Len(q) /\ DOMAIN g = 1 .. Len(q) + 1
      /\ \A i \in 1 .. Len(q) : g[i] = f[i]
      /\ g[Len(q) + 1] = DOMAIN b.events
  BY <1>1
<1>3. \A i \in 1 .. Len(q) + 1 : IsFiniteSet(g[i])
  BY <1>1, <1>2, ElementOfSeq, IndexesFinite
<1> HIDE DEF f, g
<1>4. Total(g) = Total(f) + Cardinality(g[Len(q) + 1])
  BY <1>2, <1>3, TotalAppend
<1>5. QED
  BY <1>2, <1>4, IndexesFinite DEF f, g, v, EventsOf

LEMMA AcksOfAppend ==
  ASSUME NEW q \in Seq(Nat), NEW n \in Nat
  PROVE  AcksOf(Append(q, n)) = AcksOf(q) + n
<1> DEFINE v == Append(q, n)
           f == [i \in DOMAIN q |-> 1 .. q[i]]
           g == [i \in DOMAIN v |-> 1 .. v[i]]
<1>1. /\ v \in Seq(Nat) /\ Len(v) = Len(q) + 1
      /\ \A i \in 1 .. Len(q) : v[i] = q[i]
      /\ v[Len(q) + 1] = n
  BY AppendProperties
<1> HIDE DEF v
<1>2. /\ Len(q) \in Nat /\ DOMAIN f = 1 .. Len(q) /\ DOMAIN g = 1 .. Len(q) + 1
      /\ \A i \in 1 .. Len(q) : g[i] = f[i]
      /\ g[Len(q) + 1] = 1 .. n
  BY <1>1
<1>3. \A i \in 1 .. Len(q) + 1 : IsFiniteSet(g[i])
  BY <1>1, <1>2, ElementOfSeq, IndexesFinite
<1> HIDE DEF f, g
<1>4. Total(g) = Total(f) + Cardinality(g[Len(q) + 1])
  BY <1>2, <1>3, TotalAppend
<1>5. QED
  BY <1>2, <1>4, IndexesFinite DEF f, g, v, AcksOf

(* ... as in front of it, ... *)
LEMMA WakesOfTail ==
  ASSUME NEW u \in Seq(Seq(Event)), u # <<>>
  PROVE  WakesOf(u) = Wakes(u[1]) + WakesOf(Tail(u))
<1> DEFINE v == Tail(u)
           n == Len(v)
           f == [i \in DOMAIN v |-> WakeIndexes(v[i])]
           g == [i \in DOMAIN u |-> WakeIndexes(u[i])]
<1>1. /\ v \in Seq(Seq(Event)) /\ Len(u) = n + 1
      /\ \A i \in 1 .. n : v[i] = u[i + 1]
  OBVIOUS
<1> HIDE DEF v
<1>2. /\ n \in Nat /\ DOMAIN f = 1 .. n /\ DOMAIN g = 1 .. n + 1
      /\ \A i \in 1 .. n : g[i + 1] = f[i]
      /\ g[1] = WakeIndexes(u[1])
  BY <1>1
<1>3. \A i \in 1 .. n + 1 : IsFiniteSet(g[i])
  BY <1>1, <1>2, ElementOfSeq, WakesType
<1> HIDE DEF f, g, n
<1>4. Total(g) = Cardinality(g[1]) + Total(f)
  BY <1>2, <1>3, TotalTail
<1>5. QED
  BY <1>2, <1>4 DEF f, g, v, WakesOf, Wakes

LEMMA EventsOfTail ==
  ASSUME NEW q \in Seq(PendingBatch), q # <<>>
  PROVE  EventsOf(q) = Len(q[1].events) + EventsOf(Tail(q))
<1> DEFINE v == Tail(q)
           n == Len(v)
           f == [i \in DOMAIN v |-> DOMAIN v[i].events]
           g == [i \in DOMAIN q |-> DOMAIN q[i].events]
<1>1. /\ v \in Seq(PendingBatch) /\ Len(q) = n + 1 /\ q[1] \in PendingBatch
      /\ \A i \in 1 .. n : v[i] = q[i + 1]
  OBVIOUS
<1> HIDE DEF v
<1>2. /\ n \in Nat /\ DOMAIN f = 1 .. n /\ DOMAIN g = 1 .. n + 1
      /\ \A i \in 1 .. n : g[i + 1] = f[i]
      /\ g[1] = DOMAIN q[1].events
  BY <1>1
<1>3. \A i \in 1 .. n + 1 : IsFiniteSet(g[i])
  BY <1>1, <1>2, ElementOfSeq, IndexesFinite
<1> HIDE DEF f, g, n
<1>4. Total(g) = Cardinality(g[1]) + Total(f)
  BY <1>2, <1>3, TotalTail
<1>5. QED
  BY <1>1, <1>2, <1>4, IndexesFinite DEF f, g, v, EventsOf

LEMMA AcksOfTail ==
  ASSUME NEW q \in Seq(Nat), q # <<>>
  PROVE  AcksOf(q) = q[1] + AcksOf(Tail(q))
<1> DEFINE v == Tail(q)
           n == Len(v)
           f == [i \in DOMAIN v |-> 1 .. v[i]]
           g == [i \in DOMAIN q |-> 1 .. q[i]]
<1>1. /\ v \in Seq(Nat) /\ Len(q) = n + 1 /\ q[1] \in Nat
      /\ \A i \in 1 .. n : v[i] = q[i + 1]
  OBVIOUS
<1> HIDE DEF v
<1>2. /\ n \in Nat /\ DOMAIN f = 1 .. n /\ DOMAIN g = 1 .. n + 1
      /\ \A i \in 1 .. n : g[i + 1] = f[i]
      /\ g[1] = 1 .. q[1]
  BY <1>1, SMTT(60)
<1>3. \A i \in 1 .. n + 1 : IsFiniteSet(g[i])
  BY <1>1, <1>2, ElementOfSeq, IndexesFinite
<1> HIDE DEF f, g, n
<1>4. Total(g) = Cardinality(g[1]) + Total(f)
  BY <1>2, <1>3, TotalTail
<1>5. QED
  BY <1>1, <1>2, <1>4, IndexesFinite DEF f, g, v, AcksOf

(* ... and the first element is exchanged for what replaces it. *)
LEMMA WakesOfReplace ==
  ASSUME NEW u \in Seq(Seq(Event)), NEW v \in Seq(Seq(Event)), u # <<>>,
         Len(v) = Len(u), \A i \in 2 .. Len(u) : v[i] = u[i]
  PROVE  WakesOf(v) + Wakes(u[1]) = WakesOf(u) + Wakes(v[1])
<1>1. v # <<>> /\ Tail(v) = Tail(u) /\ Tail(u) \in Seq(Seq(Event))
  BY SMTT(60)
<1>2. u[1] \in Seq(Event) /\ v[1] \in Seq(Event)
  OBVIOUS
<1>3. WakesOf(u) = Wakes(u[1]) + WakesOf(Tail(u)) /\ WakesOf(v) = Wakes(v[1]) + WakesOf(Tail(u))
  BY <1>1, WakesOfTail
<1>4. WakesOf(Tail(u)) \in Nat /\ Wakes(u[1]) \in Nat /\ Wakes(v[1]) \in Nat
  BY <1>1, <1>2, WakesOfType, WakesType
<1>5. QED
  BY <1>3, <1>4

LEMMA EventsOfReplace ==
  ASSUME NEW q \in Seq(PendingBatch), NEW v \in Seq(PendingBatch), q # <<>>,
         Len(v) = Len(q), \A i \in 2 .. Len(q) : v[i] = q[i]
  PROVE  EventsOf(v) + Len(q[1].events) = EventsOf(q) + Len(v[1].events)
<1>1. v # <<>> /\ Tail(v) = Tail(q) /\ Tail(q) \in Seq(PendingBatch)
  OBVIOUS
<1>2. q[1] \in PendingBatch /\ v[1] \in PendingBatch
  OBVIOUS
<1>3. Len(q[1].events) \in Nat /\ Len(v[1].events) \in Nat
  BY <1>2, SMTT(60) DEF PendingBatch
<1>4. /\ EventsOf(q) = Len(q[1].events) + EventsOf(Tail(q))
      /\ EventsOf(v) = Len(v[1].events) + EventsOf(Tail(q))
  BY <1>1, EventsOfTail
<1>5. EventsOf(Tail(q)) \in Nat
  BY <1>1, EventsOfType
<1>6. QED
  BY <1>3, <1>4, <1>5
-----------------------------------------------------------------------------
(* What is left to write of the pending batches, ... *)
Chunk(q) == IF Len(q[1].events) < QueueSize THEN Len(q[1].events) ELSE QueueSize

LeftOf(q, w) == [i \in DOMAIN q |-> IF i = 1 /\ w = "written"
                                    THEN Drop(q[1].events, Chunk(q))
                                    ELSE q[i].events]


(* What is left of each pending batch are events. *)
LEMMA LeftType ==
  ASSUME NEW q \in Seq(PendingBatch), NEW w
  PROVE  /\ LeftOf(q, w) \in Seq(Seq(Event)) /\ Len(LeftOf(q, w)) = Len(q)
         /\ LeftOf(q, w) = <<>> <=> q = <<>>
         /\ \A i \in 1 .. Len(q) : (i # 1 \/ w # "written") => LeftOf(q, w)[i] = q[i].events
         /\ q # <<>> =>
              /\ q[1].events \in Seq(Event) /\ Chunk(q) \in 0 .. Len(q[1].events)
              /\ Len(q[1].events) \in Nat
              /\ w = "written" => LeftOf(q, w)[1] = Drop(q[1].events, Chunk(q))
<1>1. Len(q) \in Nat /\ DOMAIN q = 1 .. Len(q) /\ QueueSize \in Nat
  BY SizesArePositive
<1>2. \A i \in 1 .. Len(q) : q[i].events \in Seq(Event)
  <2>1. \A i \in 1 .. Len(q) : q[i] \in PendingBatch
    BY ElementOfSeq
  <2>2. QED
    BY <2>1 DEF PendingBatch
<1>3. q # <<>> <=> 1 \in 1 .. Len(q)
  BY <1>1
<1>4. q # <<>> => /\ q[1].events \in Seq(Event) /\ Chunk(q) \in 0 .. Len(q[1].events)
                  /\ Len(q[1].events) \in Nat
  BY <1>1, <1>2, <1>3 DEF Chunk
<1>5. q # <<>> => Drop(q[1].events, Chunk(q)) \in Seq(Event)
  BY <1>4, Split
<1>6. \A i \in 1 .. Len(q) : LeftOf(q, w)[i] \in Seq(Event)
  BY <1>1, <1>2, <1>3, <1>5 DEF LeftOf
<1>7. LeftOf(q, w) = [i \in 1 .. Len(q) |-> LeftOf(q, w)[i]]
  BY <1>1 DEF LeftOf
<1>8. LeftOf(q, w) \in Seq(Seq(Event)) /\ Len(LeftOf(q, w)) = Len(q)
  BY <1>1, <1>6, <1>7
<1>9. LeftOf(q, w) = <<>> <=> q = <<>>
  BY <1>1, <1>8
<1>10. QED
  BY <1>1, <1>3, <1>4, <1>8, <1>9 DEF LeftOf

(* ... when a batch is appended, ... *)
LEMMA LeftAppend ==
  ASSUME NEW q \in Seq(PendingBatch), NEW b \in PendingBatch, NEW v, NEW w,
         w = "written" => q # <<>>, v = "written" <=> w = "written"
  PROVE  LeftOf(Append(q, b), v) = Append(LeftOf(q, w), b.events)
<1> DEFINE r == Append(q, b)
<1>1. /\ r \in Seq(PendingBatch) /\ Len(q) \in Nat /\ Len(r) = Len(q) + 1
      /\ r[Len(q) + 1] = b
      /\ \A i \in 1 .. Len(q) : r[i] = q[i]
  BY AppendProperties
<1> HIDE DEF r
<1>2. /\ LeftOf(r, v) \in Seq(Seq(Event)) /\ Len(LeftOf(r, v)) = Len(q) + 1
      /\ LeftOf(q, w) \in Seq(Seq(Event)) /\ Len(LeftOf(q, w)) = Len(q)
  BY <1>1, LeftType
<1>3. b.events \in Seq(Event)
  BY DEF PendingBatch
<1>4. /\ Append(LeftOf(q, w), b.events) \in Seq(Seq(Event))
      /\ Len(Append(LeftOf(q, w), b.events)) = Len(q) + 1
      /\ Append(LeftOf(q, w), b.events)[Len(q) + 1] = b.events
      /\ \A i \in 1 .. Len(q) : Append(LeftOf(q, w), b.events)[i] = LeftOf(q, w)[i]
  BY <1>2, <1>3, AppendProperties
<1>5. \A i \in 1 .. Len(q) : LeftOf(r, v)[i] = LeftOf(q, w)[i]
  <2>1. SUFFICES ASSUME NEW i \in 1 .. Len(q) PROVE LeftOf(r, v)[i] = LeftOf(q, w)[i]
    OBVIOUS
  <2>2. r[i] = q[i] /\ r[1] = q[1] /\ i \in DOMAIN r /\ i \in DOMAIN q
    BY <1>1
  <2>3. Chunk(r) = Chunk(q)
    BY <2>2 DEF Chunk
  <2>4. QED
    BY <2>2, <2>3 DEF LeftOf
<1>6. LeftOf(r, v)[Len(q) + 1] = b.events
  <2>1. Len(q) + 1 \in 1 .. Len(r)
    BY <1>1
  <2>2. Len(q) + 1 # 1 \/ v # "written"
    BY <1>1
  <2>3. QED
    BY <1>1, <2>1, <2>2, LeftType
<1>7. \A i \in 1 .. Len(q) + 1 : LeftOf(r, v)[i] = Append(LeftOf(q, w), b.events)[i]
  BY <1>1, <1>4, <1>5, <1>6
<1>8. QED
  BY <1>2, <1>4, <1>7, SeqEqual DEF r

(* ... when the chunk in front was written or given up, ... *)
LEMMA LeftWritten ==
  ASSUME NEW q \in Seq(PendingBatch), q # <<>>, NEW w, w # "written"
  PROVE  /\ LeftOf(q, w)[1] = q[1].events
         /\ LeftOf(q, "written")[1] = Drop(q[1].events, Chunk(q))
         /\ Len(LeftOf(q, "written")) = Len(LeftOf(q, w))
         /\ \A i \in 2 .. Len(LeftOf(q, w)) : LeftOf(q, "written")[i] = LeftOf(q, w)[i]
<1>1. Len(q) \in Nat /\ 1 \in 1 .. Len(q)
  OBVIOUS
<1>2. \A i \in 2 .. Len(q) : i \in 1 .. Len(q) /\ i # 1
  BY <1>1
<1>3. Len(LeftOf(q, w)) = Len(q) /\ Len(LeftOf(q, "written")) = Len(q)
  BY LeftType
<1>4. \A i \in 2 .. Len(q) : LeftOf(q, "written")[i] = LeftOf(q, w)[i]
  BY <1>2, LeftType
<1>5. QED
  BY <1>1, <1>3, <1>4, LeftType

(* ... and when the written chunk is removed: nothing more is lost. *)
LEMMA LeftFinished ==
  ASSUME NEW q \in Seq(PendingBatch), q # <<>>, NEW w, w # "written", NEW r,
         r = IF Len(q[1].events) > QueueSize
             THEN [q EXCEPT ![1].events = Drop(@, QueueSize)]
             ELSE Tail(q),
         r \in Seq(PendingBatch)
  PROVE  \/ LeftOf(r, w) = LeftOf(q, "written")
         \/ /\ LeftOf(q, "written") # <<>> /\ LeftOf(q, "written")[1] = <<>>
            /\ LeftOf(r, w) = Tail(LeftOf(q, "written"))
<1> DEFINE u == LeftOf(q, "written")
           v == LeftOf(r, w)
<1>1. Len(q) \in Nat /\ 1 \in 1 .. Len(q) /\ QueueSize \in Nat /\ Len(q[1].events) \in Nat
      /\ q[1].events \in Seq(Event)
  <2>1. Len(q) \in Nat /\ 1 \in 1 .. Len(q) /\ QueueSize \in Nat
    BY SizesArePositive
  <2>2. q[1] \in PendingBatch
    BY <2>1, ElementOfSeq
  <2>3. q[1].events \in Seq(Event)
    BY <2>2 DEF PendingBatch
  <2>4. QED
    BY <2>1, <2>3
<1>2. /\ u \in Seq(Seq(Event)) /\ Len(u) = Len(q) /\ u # <<>>
      /\ v \in Seq(Seq(Event)) /\ Len(v) = Len(r)
      /\ u[1] = Drop(q[1].events, Chunk(q))
      /\ \A i \in 1 .. Len(r) : v[i] = r[i].events
  BY LeftType, ZenonT(60)
<1>3. \A i \in 2 .. Len(q) : u[i] = q[i].events
  <2>1. \A i \in 2 .. Len(q) : i \in 1 .. Len(q) /\ i # 1
    BY <1>1
  <2>2. QED
    BY <2>1, LeftType
<1> HIDE DEF u, v
<1>4. CASE Len(q[1].events) > QueueSize
  <2>1. /\ Len(r) = Len(q)
        /\ \A i \in 2 .. Len(q) : r[i] = q[i]
        /\ r[1].events = Drop(q[1].events, QueueSize)
    BY <1>1, <1>4, SMTT(60) DEF PendingBatch
  <2>2. Chunk(q) = QueueSize
    BY <1>1, <1>4 DEF Chunk
  <2>3. \A i \in 1 .. Len(q) : v[i] = u[i]
    <3>1. v[1] = u[1]
      BY <1>1, <1>2, <2>1, <2>2
    <3>2. \A i \in 2 .. Len(q) : v[i] = u[i]
      <4>1. SUFFICES ASSUME NEW i \in 2 .. Len(q) PROVE v[i] = u[i]
        OBVIOUS
      <4>2. i \in 1 .. Len(r)
        BY <1>1, <2>1
      <4>3. v[i] = r[i].events
        BY <1>2, <4>2
      <4>4. QED
        BY <1>3, <2>1, <4>3
    <3>3. QED
      BY <1>1, <3>1, <3>2
  <2>4. v = u
    BY <1>2, <2>1, <2>3, SeqEqual
  <2>5. QED
    BY <2>4 DEF u, v
<1>5. CASE ~(Len(q[1].events) > QueueSize)
  <2>1. r = Tail(q) /\ Len(r) = Len(q) - 1 /\ \A i \in 1 .. Len(r) : r[i] = q[i + 1]
    BY <1>1, <1>5, HeadTailProperties
  <2>2. Chunk(q) = Len(q[1].events)
    BY <1>1, <1>5 DEF Chunk
  <2>3. u[1] = <<>>
    <3>1. Len(q[1].events) + 1 \in Int /\ Len(q[1].events) < Len(q[1].events) + 1
      BY <1>1
    <3>2. QED
      BY <1>1, <1>2, <2>2, <3>1, SubSeqEmpty DEF Drop
  <2>4. /\ Tail(u) \in Seq(Seq(Event)) /\ Len(Tail(u)) = Len(q) - 1
        /\ \A i \in 1 .. Len(q) - 1 : Tail(u)[i] = u[i + 1]
    BY <1>1, <1>2, HeadTailProperties
  <2>5. \A i \in 1 .. Len(q) - 1 : i + 1 \in 2 .. Len(q)
    BY <1>1
  <2>6. \A i \in 1 .. Len(q) - 1 : v[i] = Tail(u)[i]
    BY <1>2, <1>3, <2>1, <2>4, <2>5
  <2>7. v = Tail(u)
    BY <1>2, <2>1, <2>4, <2>6, SeqEqual
  <2>8. QED
    BY <1>2, <2>3, <2>7 DEF u, v
<1>6. QED
  BY <1>4, <1>5
-----------------------------------------------------------------------------
(* A queue is in order when its events and, one after the other, those of   *)
(* the sequences that wait behind it have ascending ids up to n.            *)
UpTo(e, n) == \A i \in DOMAIN e : e[i].id <= n

Ordered(q, u, n) ==
  /\ Ascending(q) /\ UpTo(q, n)
  /\ \A i \in DOMAIN u :
       /\ Ascending(u[i]) /\ Before(q, u[i]) /\ UpTo(u[i], n)
       /\ \A j \in DOMAIN u : i < j => Before(u[i], u[j])

(* The events of a queue are numbered by natural numbers. *)
LEMMA IdsAreNat ==
  ASSUME NEW s \in Seq(Event)
  PROVE  DOMAIN s = 1 .. Len(s) /\ Len(s) \in Nat /\ \A i \in 1 .. Len(s) : s[i].id \in Nat
<1>1. DOMAIN s = 1 .. Len(s) /\ Len(s) \in Nat
  OBVIOUS
<1>2. \A i \in 1 .. Len(s) : s[i] \in Event
  BY ElementOfSeq
<1>3. QED
  BY <1>1, <1>2 DEF Event

(* Joining two sequences, and taking one apart, keeps the order. *)
LEMMA ConcatOrdered ==
  ASSUME NEW s \in Seq(Event), NEW t \in Seq(Event), NEW n,
         Ascending(s), Ascending(t), Before(s, t), UpTo(s, n), UpTo(t, n)
  PROVE  /\ Ascending(s \o t) /\ UpTo(s \o t, n)
         /\ \A x \in Seq(Event) : Before(s, x) /\ Before(t, x) => Before(s \o t, x)
<1>1. /\ DOMAIN s = 1 .. Len(s) /\ Len(s) \in Nat /\ DOMAIN t = 1 .. Len(t) /\ Len(t) \in Nat
      /\ DOMAIN (s \o t) = 1 .. Len(s) + Len(t)
      /\ \A i \in 1 .. Len(s) + Len(t) :
           (s \o t)[i] = IF i <= Len(s) THEN s[i] ELSE t[i - Len(s)]
  BY ConcatProperties
<1>2. \A i \in 1 .. Len(s) + Len(t) : (i <= Len(s) => i \in 1 .. Len(s))
                                      /\ (~(i <= Len(s)) => i - Len(s) \in 1 .. Len(t))
  BY <1>1
<1>3. Ascending(s \o t)
  <2>1. SUFFICES ASSUME NEW i \in 1 .. Len(s) + Len(t), NEW j \in 1 .. Len(s) + Len(t), i < j
                 PROVE  (s \o t)[i].id < (s \o t)[j].id
    BY <1>1 DEF Ascending
  <2>2. CASE j <= Len(s)
    <3>1. i \in 1 .. Len(s) /\ j \in 1 .. Len(s) /\ (s \o t)[i] = s[i] /\ (s \o t)[j] = s[j]
      BY <1>1, <2>1, <2>2
    <3>2. QED
      BY <1>1, <2>1, <3>1 DEF Ascending
  <2>3. CASE i <= Len(s) /\ ~(j <= Len(s))
    <3>1. i \in 1 .. Len(s) /\ j - Len(s) \in 1 .. Len(t)
          /\ (s \o t)[i] = s[i] /\ (s \o t)[j] = t[j - Len(s)]
      BY <1>1, <1>2, <2>1, <2>3
    <3>2. QED
      BY <1>1, <3>1 DEF Before
  <2>4. CASE ~(i <= Len(s)) /\ ~(j <= Len(s))
    <3>1. i - Len(s) \in 1 .. Len(t) /\ j - Len(s) \in 1 .. Len(t)
          /\ (s \o t)[i] = t[i - Len(s)] /\ (s \o t)[j] = t[j - Len(s)]
          /\ i - Len(s) < j - Len(s)
      BY <1>1, <1>2, <2>1, <2>4
    <3>2. QED
      BY <1>1, <3>1 DEF Ascending
  <2>5. QED
    BY <1>1, <2>1, <2>2, <2>3, <2>4
<1>4. UpTo(s \o t, n)
  BY <1>1, <1>2 DEF UpTo
<1>5. \A x \in Seq(Event) : Before(s, x) /\ Before(t, x) => Before(s \o t, x)
  BY <1>1, <1>2 DEF Before
<1>6. QED
  BY <1>3, <1>4, <1>5

(* What is newer than n stays newer than n in both parts of a split. *)
LEMMA SplitNewer ==
  ASSUME NEW s \in Seq(Event), NEW k \in 0 .. Len(s), NEW n,
         \A i \in DOMAIN s : s[i].id > n
  PROVE  /\ \A i \in DOMAIN SubSeq(s, 1, k) : SubSeq(s, 1, k)[i].id > n
         /\ \A i \in DOMAIN Drop(s, k) : Drop(s, k)[i].id > n
<1> DEFINE a == SubSeq(s, 1, k)
           b == Drop(s, k)
<1>1. /\ Len(s) \in Nat /\ DOMAIN s = 1 .. Len(s) /\ k \in Nat /\ k <= Len(s)
      /\ DOMAIN a = 1 .. k /\ \A i \in 1 .. k : a[i] = s[i]
      /\ DOMAIN b = 1 .. Len(s) - k
      /\ \A i \in 1 .. Len(s) - k : b[i] = s[k + i]
  BY Split, LenProperties
<1> HIDE DEF a, b
<1>2. /\ \A i \in 1 .. k : i \in 1 .. Len(s)
      /\ \A i \in 1 .. Len(s) - k : k + i \in 1 .. Len(s)
  BY <1>1
<1>3. /\ \A i \in DOMAIN a : a[i].id > n
      /\ \A i \in DOMAIN b : b[i].id > n
  BY <1>1, <1>2
<1>4. QED
  BY <1>3 DEF a, b

(* Events that are newer than n come after events that are not. *)
LEMMA NewerIsBehind ==
  ASSUME NEW q \in Seq(Event), NEW e \in Seq(Event), NEW n \in Nat,
         UpTo(q, n), \A i \in DOMAIN e : e[i].id > n
  PROVE  Before(q, e)
<1>1. SUFFICES ASSUME NEW i \in DOMAIN q, NEW j \in DOMAIN e
               PROVE  q[i].id < e[j].id
  BY DEF Before
<1>2. {q[i].id, e[j].id} \subseteq Nat
  BY IdsAreNat
<1>3. q[i].id <= n /\ e[j].id > n
  BY DEF UpTo
<1>4. QED
  BY <1>2, <1>3

(* An ordered queue cut in two is two ordered ones, the first before the    *)
(* second.                                                                  *)
LEMMA SplitOrdered ==
  ASSUME NEW s \in Seq(Event), NEW k \in 0 .. Len(s), NEW n, Ascending(s), UpTo(s, n)
  PROVE  /\ SubSeq(s, 1, k) \in Seq(Event) /\ Drop(s, k) \in Seq(Event)
         /\ Ascending(SubSeq(s, 1, k)) /\ UpTo(SubSeq(s, 1, k), n)
         /\ Ascending(Drop(s, k)) /\ UpTo(Drop(s, k), n)
         /\ Before(SubSeq(s, 1, k), Drop(s, k))
         /\ \A x \in Seq(Event) :
              /\ Before(x, s) => Before(x, SubSeq(s, 1, k)) /\ Before(x, Drop(s, k))
              /\ Before(s, x) => Before(SubSeq(s, 1, k), x) /\ Before(Drop(s, k), x)
<1> DEFINE a == SubSeq(s, 1, k)
           b == Drop(s, k)
<1>1. /\ Len(s) \in Nat /\ DOMAIN s = 1 .. Len(s) /\ k \in Nat /\ k <= Len(s)
      /\ a \in Seq(Event) /\ DOMAIN a = 1 .. k /\ \A i \in 1 .. k : a[i] = s[i]
      /\ b \in Seq(Event) /\ DOMAIN b = 1 .. Len(s) - k
      /\ \A i \in 1 .. Len(s) - k : b[i] = s[k + i]
  BY Split, LenProperties
<1> HIDE DEF a, b
<1>2. /\ \A i \in 1 .. k : i \in 1 .. Len(s)
      /\ \A i \in 1 .. Len(s) - k : k + i \in 1 .. Len(s)
      /\ \A i \in 1 .. k, j \in 1 .. Len(s) - k : i < k + j
      /\ \A i, j \in 1 .. Len(s) - k : i < j => k + i < k + j
  BY <1>1
<1>3. Ascending(a) /\ UpTo(a, n) /\ Ascending(b) /\ UpTo(b, n)
  BY <1>1, <1>2 DEF Ascending, UpTo
<1>4. Before(a, b)
  BY <1>1, <1>2 DEF Ascending, Before
<1>5. ASSUME NEW x \in Seq(Event)
      PROVE  /\ Before(x, s) => Before(x, a) /\ Before(x, b)
             /\ Before(s, x) => Before(a, x) /\ Before(b, x)
  BY <1>1, <1>2 DEF Before
<1>6. QED
  BY <1>1, <1>3, <1>4, <1>5 DEF a, b

(* The ways in which events move keep a queue in order: an event is read, *)
LEMMA TailOrdered ==
  ASSUME NEW q \in Seq(Event), NEW u \in Seq(Seq(Event)), NEW n, q # <<>>, Ordered(q, u, n)
  PROVE  Ordered(Tail(q), u, n)
<1>1. /\ Len(q) \in Nat /\ DOMAIN q = 1 .. Len(q) /\ DOMAIN Tail(q) = 1 .. Len(q) - 1
      /\ \A i \in 1 .. Len(q) - 1 : Tail(q)[i] = q[i + 1] /\ i + 1 \in 1 .. Len(q)
  BY HeadTailProperties, LenProperties
<1>2. \A i, j \in 1 .. Len(q) - 1 : i < j => i + 1 < j + 1
  BY <1>1
<1>3. Ascending(Tail(q)) /\ UpTo(Tail(q), n)
  BY <1>1, <1>2 DEF Ordered, Ascending, UpTo
<1>4. \A i \in DOMAIN u : Before(Tail(q), u[i])
  BY <1>1 DEF Ordered, Before
<1>5. QED
  BY <1>3, <1>4 DEF Ordered

(* the queue is emptied, *)
LEMMA EmptyOrdered ==
  ASSUME NEW q, NEW u, NEW n, Ordered(q, u, n)
  PROVE  Ordered(<<>>, u, n)
BY DEF Ordered, Ascending, Before, UpTo

(* what waits first turns out to be empty, *)
LEMMA PopOrdered ==
  ASSUME NEW q \in Seq(Event), NEW u \in Seq(Seq(Event)), NEW n, u # <<>>, Ordered(q, u, n)
  PROVE  Ordered(q, Tail(u), n)
<1>1. /\ Len(u) \in Nat /\ DOMAIN u = 1 .. Len(u) /\ DOMAIN Tail(u) = 1 .. Len(u) - 1
      /\ \A i \in 1 .. Len(u) - 1 : Tail(u)[i] = u[i + 1] /\ i + 1 \in 1 .. Len(u)
  BY HeadTailProperties, LenProperties
<1>2. \A i, j \in 1 .. Len(u) - 1 : i < j => i + 1 < j + 1
  BY <1>1
<1>3. QED
  BY <1>1, <1>2 DEF Ordered

(* the first events of what waits first are given up or join the queue, *)
LEMMA WriteOrdered ==
  ASSUME NEW q \in Seq(Event), NEW u \in Seq(Seq(Event)), NEW v \in Seq(Seq(Event)), NEW n,
         u # <<>>, NEW k \in 0 .. Len(u[1]), Len(v) = Len(u), v[1] = Drop(u[1], k),
         \A i \in 2 .. Len(u) : v[i] = u[i], Ordered(q, u, n)
  PROVE  Ordered(q, v, n) /\ Ordered(q \o SubSeq(u[1], 1, k), v, n)
<1> DEFINE a == SubSeq(u[1], 1, k)
<1>1. /\ Len(u) \in Nat /\ DOMAIN u = 1 .. Len(u) /\ DOMAIN v = 1 .. Len(u)
      /\ 1 \in 1 .. Len(u) /\ \A i \in 1 .. Len(u) : u[i] \in Seq(Event)
  BY LenProperties, ElementOfSeq
<1>2. /\ a \in Seq(Event) /\ v[1] \in Seq(Event)
      /\ Ascending(a) /\ UpTo(a, n) /\ Ascending(v[1]) /\ UpTo(v[1], n)
      /\ Before(a, v[1]) /\ Before(q, a) /\ Before(q, v[1])
      /\ \A x \in Seq(Event) : Before(u[1], x) => Before(a, x) /\ Before(v[1], x)
  <2>1. Ascending(u[1]) /\ UpTo(u[1], n) /\ Before(q, u[1]) /\ u[1] \in Seq(Event)
    BY <1>1 DEF Ordered
  <2>2. k \in 0 .. Len(u[1])
    OBVIOUS
  <2>3. /\ SubSeq(u[1], 1, k) \in Seq(Event) /\ Drop(u[1], k) \in Seq(Event)
        /\ Ascending(SubSeq(u[1], 1, k)) /\ UpTo(SubSeq(u[1], 1, k), n)
        /\ Ascending(Drop(u[1], k)) /\ UpTo(Drop(u[1], k), n)
        /\ Before(SubSeq(u[1], 1, k), Drop(u[1], k))
        /\ \A x \in Seq(Event) :
             /\ Before(x, u[1]) => Before(x, SubSeq(u[1], 1, k)) /\ Before(x, Drop(u[1], k))
             /\ Before(u[1], x) => Before(SubSeq(u[1], 1, k), x) /\ Before(Drop(u[1], k), x)
    BY <2>1, <2>2, SplitOrdered
  <2>4. QED
    BY <2>1, <2>3
<1> HIDE DEF a
<1>3. \A i \in 2 .. Len(u) : /\ i \in 1 .. Len(u) /\ 1 < i
                             /\ v[i] = u[i] /\ Ascending(u[i]) /\ UpTo(u[i], n)
                             /\ Before(q, u[i]) /\ Before(u[1], u[i])
                             /\ Before(a, u[i]) /\ Before(v[1], u[i])
  <2>1. SUFFICES ASSUME NEW i \in 2 .. Len(u)
                 PROVE  /\ i \in 1 .. Len(u) /\ 1 < i
                        /\ v[i] = u[i] /\ Ascending(u[i]) /\ UpTo(u[i], n)
                        /\ Before(q, u[i]) /\ Before(u[1], u[i])
                        /\ Before(a, u[i]) /\ Before(v[1], u[i])
    OBVIOUS
  <2>2. i \in 1 .. Len(u) /\ 1 < i /\ v[i] = u[i] /\ u[i] \in Seq(Event)
    BY <1>1
  <2>3. Ascending(u[i]) /\ UpTo(u[i], n) /\ Before(q, u[i]) /\ Before(u[1], u[i])
    BY <1>1, <2>2 DEF Ordered
  <2>4. QED
    BY <1>2, <2>2, <2>3
<1>4. \A i \in 1 .. Len(u) : i = 1 \/ i \in 2 .. Len(u)
  BY <1>1
<1>5. \A i, j \in 2 .. Len(u) : i < j => Before(v[i], v[j])
  BY <1>1, <1>3 DEF Ordered
<1>6. \A i \in 1 .. Len(u) :
        /\ Ascending(v[i]) /\ UpTo(v[i], n) /\ Before(q, v[i]) /\ Before(a, v[i])
        /\ v[i] \in Seq(Event)
        /\ \A j \in 1 .. Len(u) : i < j => Before(v[i], v[j])
  <2>1. SUFFICES ASSUME NEW i \in 1 .. Len(u)
                 PROVE  /\ Ascending(v[i]) /\ UpTo(v[i], n) /\ Before(q, v[i]) /\ Before(a, v[i])
                        /\ v[i] \in Seq(Event)
                        /\ \A j \in 1 .. Len(u) : i < j => Before(v[i], v[j])
    OBVIOUS
  <2>2. \A j \in 1 .. Len(u) : i < j => j \in 2 .. Len(u)
    OBVIOUS
  <2>3. CASE i = 1
    BY <2>2, <2>3, <1>2, <1>3
  <2>4. CASE i \in 2 .. Len(u)
    BY <2>2, <2>4, <1>1, <1>3, <1>5
  <2>5. QED
    BY <1>4, <2>3, <2>4
<1>7. Ordered(q, v, n)
  BY <1>1, <1>6 DEF Ordered
<1>8. /\ Ascending(q \o a) /\ UpTo(q \o a, n)
      /\ \A x \in Seq(Event) : Before(q, x) /\ Before(a, x) => Before(q \o a, x)
  <2>1. Ascending(q) /\ UpTo(q, n)
    BY DEF Ordered
  <2>2. QED
    BY <1>2, <2>1, ConcatOrdered
<1>9. Ordered(q \o a, v, n)
  BY <1>1, <1>6, <1>8 DEF Ordered
<1>10. QED
  BY <1>7, <1>9 DEF a

(* and new events are accepted, directly or behind all that waits. *)
LEMMA NewerOrdered ==
  ASSUME NEW q \in Seq(Event), NEW u \in Seq(Seq(Event)), NEW n \in Nat, NEW m \in Nat,
         n <= m, Ordered(q, u, n)
  PROVE  Ordered(q, u, m)
<1>1. \A s \in Seq(Event) : UpTo(s, n) => UpTo(s, m)
  BY IdsAreNat, SMTT(60) DEF UpTo
<1>2. \A i \in DOMAIN u : u[i] \in Seq(Event)
  BY LenProperties, ElementOfSeq
<1>3. QED
  BY <1>1, <1>2 DEF Ordered

(* New events may follow a queue behind which none wait, ... *)
LEMMA DirectOrdered ==
  ASSUME NEW q \in Seq(Event), NEW n \in Nat, NEW m \in Nat, n <= m, Ordered(q, <<>>, n),
         NEW e \in Seq(Event), Ascending(e), UpTo(e, m), \A i \in DOMAIN e : e[i].id > n
  PROVE  Ordered(q \o e, <<>>, m)
<1>1. Before(q, e)
  BY IdsAreNat, SMTT(60) DEF Before, Ordered, UpTo
<1>2. Ascending(q) /\ UpTo(q, m)
  BY IdsAreNat DEF Ordered, UpTo
<1>3. Ascending(q \o e) /\ UpTo(q \o e, m)
  BY <1>1, <1>2, ConcatOrdered
<1>4. QED
  BY <1>3 DEF Ordered

(* ... or wait behind it. *)
LEMMA BehindOrdered ==
  ASSUME NEW q \in Seq(Event), NEW u \in Seq(Seq(Event)), NEW n \in Nat, NEW m \in Nat,
         n <= m, Ordered(q, u, n),
         NEW e \in Seq(Event), Ascending(e), UpTo(e, m), \A i \in DOMAIN e : e[i].id > n
  PROVE  Ordered(q, Append(u, e), m)
<1> DEFINE v == Append(u, e)
<1>1. /\ Len(u) \in Nat /\ DOMAIN u = 1 .. Len(u) /\ DOMAIN v = 1 .. Len(u) + 1
      /\ \A i \in 1 .. Len(u) : v[i] = u[i] /\ u[i] \in Seq(Event)
      /\ v[Len(u) + 1] = e
  BY AppendProperties, LenProperties, ElementOfSeq
<1> HIDE DEF v
<1>2. \A s \in Seq(Event) : UpTo(s, n) => Before(s, e)
  BY IdsAreNat, SMTT(60) DEF Before, UpTo
<1>3. Ordered(q, u, m)
  BY NewerOrdered
<1>4. Before(q, e) /\ \A i \in 1 .. Len(u) : Before(u[i], e)
  BY <1>1, <1>2 DEF Ordered
<1>5. \A i \in 1 .. Len(u) + 1 : i = Len(u) + 1 \/ i \in 1 .. Len(u)
  BY <1>1
<1>6. \A i \in 1 .. Len(u) :
        /\ Ascending(v[i]) /\ UpTo(v[i], m) /\ Before(q, v[i])
        /\ \A j \in 1 .. Len(u) + 1 : i < j => Before(v[i], v[j])
  BY <1>1, <1>3, <1>4, <1>5 DEF Ordered
<1>7. \A j \in 1 .. Len(u) + 1 : ~(Len(u) + 1 < j)
  BY <1>1
<1>8. Ascending(q) /\ UpTo(q, m)
  BY <1>3 DEF Ordered
<1>9. Ordered(q, v, m)
  BY <1>1, <1>4, <1>5, <1>6, <1>7, <1>8 DEF Ordered
<1>10. QED
  BY <1>9 DEF v

(* A sequence behind both parts is behind the whole. *)
LEMMA BeforeConcat ==
  ASSUME NEW s \in Seq(Event), NEW t \in Seq(Event), NEW x \in Seq(Event),
         Before(s, x), Before(t, x)
  PROVE  Before(s \o t, x)
<1>1. /\ DOMAIN s = 1 .. Len(s) /\ Len(s) \in Nat /\ DOMAIN t = 1 .. Len(t) /\ Len(t) \in Nat
      /\ DOMAIN (s \o t) = 1 .. Len(s) + Len(t)
      /\ \A i \in 1 .. Len(s) + Len(t) :
           (s \o t)[i] = IF i <= Len(s) THEN s[i] ELSE t[i - Len(s)]
  BY ConcatProperties
<1>2. \A i \in 1 .. Len(s) + Len(t) : (i <= Len(s) => i \in 1 .. Len(s))
                                      /\ (~(i <= Len(s)) => i - Len(s) \in 1 .. Len(t))
  BY <1>1
<1>3. QED
  BY <1>1, <1>2 DEF Before
-----------------------------------------------------------------------------
(* The ids of the events that wait: none is lost when a batch is appended,  *)
(* an empty one removed, or a chunk written.                                *)
WaitingIds(u) == UNION {Ids(u[i]) : i \in DOMAIN u}

(* The ids of two queues are those of both together. *)
LEMMA IdsConcat ==
  ASSUME NEW s \in Seq(Event), NEW t \in Seq(Event)
  PROVE  Ids(s \o t) = Ids(s) \cup Ids(t)
<1>1. /\ DOMAIN s = 1 .. Len(s) /\ Len(s) \in Nat /\ DOMAIN t = 1 .. Len(t) /\ Len(t) \in Nat
      /\ DOMAIN (s \o t) = 1 .. Len(s) + Len(t)
      /\ \A i \in 1 .. Len(s) + Len(t) :
           (s \o t)[i] = IF i <= Len(s) THEN s[i] ELSE t[i - Len(s)]
  BY ConcatProperties
<1>2. Ids(s \o t) \subseteq Ids(s) \cup Ids(t)
  BY <1>1 DEF Ids
<1>3. Ids(s) \subseteq Ids(s \o t)
  BY <1>1 DEF Ids
<1>4. Ids(t) \subseteq Ids(s \o t)
  <2>1. SUFFICES ASSUME NEW j \in 1 .. Len(t) PROVE t[j].id \in Ids(s \o t)
    BY <1>1 DEF Ids
  <2>2. Len(s) + j \in 1 .. Len(s) + Len(t) /\ (s \o t)[Len(s) + j] = t[j]
    BY <1>1
  <2>3. QED
    BY <1>1, <2>2 DEF Ids
<1>5. QED
  BY <1>2, <1>3, <1>4

(* What waits is not lost when a batch is appended, ... *)
LEMMA WaitingAppend ==
  ASSUME NEW u \in Seq(Seq(Event)), NEW e \in Seq(Event)
  PROVE  WaitingIds(u) \subseteq WaitingIds(Append(u, e))
<1>1. /\ DOMAIN u = 1 .. Len(u) /\ Len(u) \in Nat
      /\ DOMAIN Append(u, e) = 1 .. Len(u) + 1
      /\ \A i \in 1 .. Len(u) : Append(u, e)[i] = u[i] /\ i \in 1 .. Len(u) + 1
  BY AppendProperties, LenProperties
<1>2. QED
  BY <1>1 DEF WaitingIds

(* ... when an empty one is popped, ... *)
LEMMA WaitingPop ==
  ASSUME NEW u \in Seq(Seq(Event)), u # <<>>, u[1] = <<>>
  PROVE  WaitingIds(u) \subseteq WaitingIds(Tail(u))
<1>1. /\ DOMAIN u = 1 .. Len(u) /\ Len(u) \in Nat
      /\ DOMAIN Tail(u) = 1 .. Len(u) - 1
      /\ \A i \in 1 .. Len(u) - 1 : Tail(u)[i] = u[i + 1]
  BY HeadTailProperties, LenProperties
<1>2. Ids(u[1]) = {}
  BY DEF Ids
<1>3. \A i \in 2 .. Len(u) : i - 1 \in 1 .. Len(u) - 1 /\ Tail(u)[i - 1] = u[i]
  BY <1>1
<1>4. \A i \in 1 .. Len(u) : i = 1 \/ i \in 2 .. Len(u)
  BY <1>1
<1>5. \A i \in 1 .. Len(u) : Ids(u[i]) \subseteq WaitingIds(Tail(u))
  <2>1. SUFFICES ASSUME NEW i \in 1 .. Len(u) PROVE Ids(u[i]) \subseteq WaitingIds(Tail(u))
    OBVIOUS
  <2>2. CASE i = 1
    BY <1>2, <2>2
  <2>3. CASE i \in 2 .. Len(u)
    <3>1. i - 1 \in DOMAIN Tail(u) /\ Tail(u)[i - 1] = u[i]
      BY <1>1, <1>3, <2>3
    <3>2. QED
      BY <3>1 DEF WaitingIds
  <2>4. QED
    BY <1>4, <2>2, <2>3
<1>6. QED
  BY <1>1, <1>5 DEF WaitingIds

(* ... nor when a chunk moves to the FMQ. *)
LEMMA WaitingWrite ==
  ASSUME NEW q \in Seq(Event), NEW u \in Seq(Seq(Event)), NEW v \in Seq(Seq(Event)),
         u # <<>>, NEW k \in 0 .. Len(u[1]), Len(v) = Len(u), v[1] = Drop(u[1], k),
         \A i \in 2 .. Len(u) : v[i] = u[i]
  PROVE  Ids(q) \cup WaitingIds(u) \subseteq Ids(q \o SubSeq(u[1], 1, k)) \cup WaitingIds(v)
<1>1. /\ Len(u) \in Nat /\ DOMAIN u = 1 .. Len(u) /\ DOMAIN v = 1 .. Len(u)
      /\ 1 \in 1 .. Len(u) /\ u[1] \in Seq(Event)
  BY LenProperties, ElementOfSeq
<1>2. /\ SubSeq(u[1], 1, k) \in Seq(Event) /\ Drop(u[1], k) \in Seq(Event)
      /\ u[1] = SubSeq(u[1], 1, k) \o Drop(u[1], k)
  <2>1. u[1] \in Seq(Event) /\ k \in 0 .. Len(u[1])
    BY <1>1
  <2>2. QED
    BY <2>1, Split
<1>3. /\ Ids(u[1]) = Ids(SubSeq(u[1], 1, k)) \cup Ids(v[1])
      /\ Ids(q \o SubSeq(u[1], 1, k)) = Ids(q) \cup Ids(SubSeq(u[1], 1, k))
  <2> DEFINE s == SubSeq(u[1], 1, k)
             t == Drop(u[1], k)
  <2>1. s \in Seq(Event) /\ t \in Seq(Event) /\ u[1] = s \o t /\ v[1] = t
    BY <1>2
  <2> HIDE DEF s, t
  <2>2. Ids(s \o t) = Ids(s) \cup Ids(t) /\ Ids(q \o s) = Ids(q) \cup Ids(s)
    BY <2>1, IdsConcat
  <2>3. Ids(u[1]) = Ids(s) \cup Ids(v[1])
    BY <2>1, <2>2
  <2>4. QED
    BY <2>2, <2>3 DEF s
<1>4. \A i \in 1 .. Len(u) : i = 1 \/ i \in 2 .. Len(u)
  BY <1>1
<1>5. \A i \in 1 .. Len(u) : Ids(u[i]) \subseteq Ids(q \o SubSeq(u[1], 1, k)) \cup WaitingIds(v)
  <2>1. SUFFICES ASSUME NEW i \in 1 .. Len(u)
                 PROVE  Ids(u[i]) \subseteq Ids(q \o SubSeq(u[1], 1, k)) \cup WaitingIds(v)
    OBVIOUS
  <2>2. Ids(v[i]) \subseteq WaitingIds(v)
    BY <1>1 DEF WaitingIds
  <2>3. CASE i = 1
    BY <1>3, <2>2, <2>3
  <2>4. CASE i \in 2 .. Len(u)
    BY <2>2, <2>4
  <2>5. QED
    BY <1>4, <2>3, <2>4
<1>6. WaitingIds(u) \subseteq Ids(q \o SubSeq(u[1], 1, k)) \cup WaitingIds(v)
  BY <1>1, <1>5 DEF WaitingIds
<1>7. QED
  BY <1>3, <1>6
=============================================================================
