---------------------------- MODULE StreamParserProofs ----------------------------
(***************************************************************************)
(* For all streams, cuts and limits: the words keep their order and the    *)
(* limit is final; as long as the parser knows the open tags (TagsKnown),  *)
(* no private word reaches the client, none is lost, the GM warning        *)
(* arrives, and the public part of a stream of whole tags does not depend  *)
(* on the chunks.                                                          *)
(***************************************************************************)
EXTENDS StreamParser, FiniteSetTheorems, SequenceTheorems, WellFoundedInduction, TLAPS

------------------------------------------------------------------------------------
\* Least elements, and the places that are left of a text

LEMMA LeastNat ==
  ASSUME NEW T \in SUBSET Nat, T # {}
  PROVE  \E m \in T : \A n \in T : m <= n
<1> DEFINE R == {z \in Nat \X Nat : z[1] < z[2]}
<1>1. IsWellFoundedOn(R, Nat)
  <2>1. R = OpToRel(<, Nat)
    BY DEF OpToRel
  <2> QED
    BY <2>1, NatLessThanWellFounded
<1>2. \E x \in T : \A y \in T : <<y, x>> \notin R
  <2> HIDE DEF R
  <2> QED
    BY <1>1, WFMin, Zenon
<1>3. PICK x \in T : \A y \in T : <<y, x>> \notin R
  BY <1>2
<1>4. \A y \in T : ~(y < x)
  BY <1>3
<1>5. \A y \in T : x <= y
  <2>1. T \subseteq Nat
    OBVIOUS
  <2> QED
    BY <1>4, <2>1
<1> QED
  BY <1>5

LEMMA LeastIs ==
  ASSUME NEW T \in SUBSET Nat, T # {}
  PROVE  Least(T) \in T /\ \A n \in T : Least(T) <= n
  BY LeastNat DEF Least

\* The rank counts the places one by one.
LEMMA RankIs ==
  ASSUME NEW K \in SUBSET Nat, IsFiniteSet(K)
  PROVE  /\ Cardinality(K) \in Nat
         /\ \A i \in K : Rank(K, i) \in 1 .. Cardinality(K)
         /\ \A i, j \in K : i < j => Rank(K, i) < Rank(K, j)
         /\ \A k \in 1 .. Cardinality(K) : \E i \in K : Rank(K, i) = k
<1> DEFINE below(i) == {j \in K : j <= i}
<1>1. Cardinality(K) \in Nat
  BY FS_CardinalityType
<1>2. ASSUME NEW i \in K
      PROVE  IsFiniteSet(below(i)) /\ Cardinality(below(i)) \in 1 .. Cardinality(K)
  <2>1. IsFiniteSet(below(i)) /\ Cardinality(below(i)) <= Cardinality(K)
    BY FS_Subset
  <2>2. i \in below(i)
    OBVIOUS
  <2>3. Cardinality(below(i)) \in Nat /\ Cardinality(below(i)) # 0
    BY <2>1, <2>2, FS_CardinalityType, FS_EmptySet
  <2> QED
    BY <1>1, <2>1, <2>3
<1>3. ASSUME NEW i \in K, NEW j \in K, i < j
      PROVE  Cardinality(below(i)) < Cardinality(below(j))
  <2>1. below(i) \subseteq below(j) /\ j \in below(j) /\ j \notin below(i)
    <3>1. K \subseteq Nat
      OBVIOUS
    <3>2. i \in Nat /\ j \in Nat
      BY <3>1
    <3>3. \A n \in K : n <= i => n <= j
      BY <1>3, <3>1, <3>2
    <3>4. j <= j /\ ~(j <= i)
      BY <1>3, <3>2
    <3> QED
      BY <3>3, <3>4
  <2>2. /\ Cardinality(below(i)) <= Cardinality(below(j))
        /\ Cardinality(below(i)) # Cardinality(below(j))
    BY <1>2, <2>1, FS_Subset
  <2>3. Cardinality(below(i)) \in Nat /\ Cardinality(below(j)) \in Nat
    BY <1>2
  <2> QED
    BY <2>2, <2>3
<1>4. \A i \in K : Rank(K, i) = Cardinality(below(i))
  BY DEF Rank
<1> HIDE DEF below
<1>5. ASSUME NEW k \in 1 .. Cardinality(K) PROVE \E i \in K : Rank(K, i) = k
  <2> DEFINE f == [i \in K |-> Rank(K, i)]
  <2>1. f \in Injection(K, 1 .. Cardinality(K))
    <3>1. f \in [K -> 1 .. Cardinality(K)]
      BY <1>2, <1>4
    <3>2. \A i, j \in K : f[i] = f[j] => i = j
      <4> SUFFICES ASSUME NEW i \in K, NEW j \in K, i # j PROVE f[i] # f[j]
        OBVIOUS
      <4>1. i < j \/ j < i
        OBVIOUS
      <4>2. f[i] \in Nat /\ f[j] \in Nat
        BY <1>2, <1>4
      <4> QED
        BY <1>3, <1>4, <4>1, <4>2
    <3> HIDE DEF f
    <3> QED
      BY <3>1, <3>2 DEF Injection, IsInjective
  <2>2. IsFiniteSet(1 .. Cardinality(K)) /\ Cardinality(1 .. Cardinality(K)) = Cardinality(K)
    BY <1>1, FS_Interval
  <2>3. f \in Surjection(K, 1 .. Cardinality(K))
    <3> HIDE DEF f
    <3> QED
      BY <2>1, <2>2, FS_Injection
  <2> QED
    BY <2>3 DEF Surjection
<1> QED
  BY <1>1, <1>2, <1>3, <1>4, <1>5

\* The place of t that the k-th element of Only(t, K) comes from.
Place(K, k) == CHOOSE i \in K : Rank(K, i) = k

LEMMA PlaceIs ==
  ASSUME NEW K \in SUBSET Nat, IsFiniteSet(K)
  PROVE  /\ \A k \in 1 .. Cardinality(K) : Place(K, k) \in K
         /\ \A k, l \in 1 .. Cardinality(K) : k < l => Place(K, k) < Place(K, l)
         /\ \A i \in K : \E k \in 1 .. Cardinality(K) : Place(K, k) = i
<1>1. \A k \in 1 .. Cardinality(K) : Place(K, k) \in K /\ Rank(K, Place(K, k)) = k
  BY RankIs DEF Place
<1>2. \A i, j \in K : Rank(K, i) = Rank(K, j) => i = j
  BY RankIs
<1>3. ASSUME NEW k \in 1 .. Cardinality(K), NEW l \in 1 .. Cardinality(K), k < l
      PROVE  Place(K, k) < Place(K, l)
  <2>1. Place(K, k) \in Nat /\ Place(K, l) \in Nat
    BY <1>1
  <2>2. Rank(K, Place(K, k)) = k /\ Rank(K, Place(K, l)) = l
    BY <1>1
  <2>3. Place(K, l) < Place(K, k) => Rank(K, Place(K, l)) < Rank(K, Place(K, k))
    BY <1>1, RankIs
  <2>4. ~(Place(K, l) < Place(K, k)) /\ Place(K, k) # Place(K, l)
    BY <1>3, <2>2, <2>3
  <2> QED
    BY <2>1, <2>4
<1>4. ASSUME NEW i \in K PROVE \E k \in 1 .. Cardinality(K) : Place(K, k) = i
  <2>1. Rank(K, i) \in 1 .. Cardinality(K)
    BY RankIs
  <2>2. Rank(K, Place(K, Rank(K, i))) = Rank(K, i) /\ Place(K, Rank(K, i)) \in K
    BY <1>1, <2>1
  <2> QED
    BY <1>2, <2>1, <2>2
<1> QED
  BY <1>1, <1>3, <1>4

\* What is left of a text is a text, of the elements at these places and in their order.
LEMMA OnlyIs ==
  ASSUME NEW S, NEW t \in Seq(S), NEW K \in SUBSET DOMAIN t
  PROVE  /\ Only(t, K) \in Seq(S)
         /\ DOMAIN Only(t, K) = 1 .. Cardinality(K)
         /\ \A k \in DOMAIN Only(t, K) : Place(K, k) \in K /\ Only(t, K)[k] = t[Place(K, k)]
         /\ \A k, l \in DOMAIN Only(t, K) : k < l => Place(K, k) < Place(K, l)
         /\ \A i \in K : \E k \in DOMAIN Only(t, K) : Only(t, K)[k] = t[i]
<1>1. DOMAIN t = 1 .. Len(t) /\ Len(t) \in Nat
  OBVIOUS
<1>2. IsFiniteSet(K) /\ K \in SUBSET Nat
  <2>1. IsFiniteSet(1 .. Len(t))
    BY <1>1, FS_Interval
  <2> QED
    BY <1>1, <2>1, FS_Subset
<1>3. Only(t, K) = [k \in 1 .. Cardinality(K) |-> t[Place(K, k)]]
  BY DEF Only, Place
<1>4. Cardinality(K) \in Nat
  BY <1>2, RankIs
<1>5. \A k \in 1 .. Cardinality(K) : Place(K, k) \in K /\ t[Place(K, k)] \in S
  BY <1>1, <1>2, PlaceIs
<1>6. Only(t, K) \in Seq(S)
  BY <1>3, <1>4, <1>5
<1>7. \A k, l \in 1 .. Cardinality(K) : k < l => Place(K, k) < Place(K, l)
  BY <1>2, PlaceIs
<1>8. \A i \in K : \E k \in 1 .. Cardinality(K) : Place(K, k) = i
  BY <1>2, PlaceIs
<1> QED
  BY <1>3, <1>5, <1>6, <1>7, <1>8

------------------------------------------------------------------------------------
\* Texts and their tags

LEMMA BeforeIs ==
  ASSUME NEW S, NEW t \in Seq(S), NEW i \in 1 .. Len(t) + 1
  PROVE  /\ Before(t, i) \in Seq(S) /\ Len(Before(t, i)) = i - 1
         /\ DOMAIN Before(t, i) = 1 .. i - 1
         /\ \A j \in 1 .. i - 1 : Before(t, i)[j] = t[j]
<1>1. Len(t) \in Nat /\ \A j \in 1 .. Len(t) : t[j] \in S
  OBVIOUS
<1>2. \A j \in 1 .. i - 1 : t[j] \in S
  BY <1>1
<1>3. /\ SubSeq(t, 1, i - 1) \in Seq(S)
      /\ Len(SubSeq(t, 1, i - 1)) = IF 1 <= i - 1 THEN i - 1 - 1 + 1 ELSE 0
      /\ \A j \in 1 .. i - 1 - 1 + 1 : SubSeq(t, 1, i - 1)[j] = t[1 + j - 1]
  <2>1. i - 1 \in Int /\ 1 \in Int
    BY <1>1
  <2> QED
    BY <1>2, <2>1, SubSeqProperties
<1> QED
  BY <1>1, <1>3 DEF Before

LEMMA AfterIs ==
  ASSUME NEW S, NEW t \in Seq(S), NEW i \in 0 .. Len(t)
  PROVE  /\ After(t, i) \in Seq(S) /\ Len(After(t, i)) = Len(t) - i
         /\ DOMAIN After(t, i) = 1 .. Len(t) - i
         /\ \A j \in 1 .. Len(t) - i : After(t, i)[j] = t[i + j]
<1>1. Len(t) \in Nat /\ \A j \in 1 .. Len(t) : t[j] \in S
  OBVIOUS
<1>2. \A j \in i + 1 .. Len(t) : t[j] \in S
  BY <1>1
<1>3. /\ SubSeq(t, i + 1, Len(t)) \in Seq(S)
      /\ Len(SubSeq(t, i + 1, Len(t))) = IF i + 1 <= Len(t) THEN Len(t) - (i + 1) + 1 ELSE 0
      /\ \A j \in 1 .. Len(t) - (i + 1) + 1 : SubSeq(t, i + 1, Len(t))[j] = t[i + 1 + j - 1]
  <2>1. i + 1 \in Int /\ Len(t) \in Int
    BY <1>1
  <2> QED
    BY <1>2, <2>1, SubSeqProperties
<1> QED
  BY <1>1, <1>3 DEF After

LEMMA ConcatIs ==
  ASSUME NEW S, NEW s \in Seq(S), NEW t \in Seq(S)
  PROVE  /\ s \o t \in Seq(S) /\ Len(s \o t) = Len(s) + Len(t)
         /\ DOMAIN (s \o t) = 1 .. Len(s) + Len(t)
         /\ \A i \in 1 .. Len(s) : (s \o t)[i] = s[i]
         /\ \A i \in 1 .. Len(t) : (s \o t)[Len(s) + i] = t[i]
         /\ \A i \in 1 .. Len(s) + Len(t) :
              i \in 1 .. Len(s) \/ (i - Len(s) \in 1 .. Len(t) /\ (s \o t)[i] = t[i - Len(s)])
  OBVIOUS

\* A tag of a text ends in it.
LEMMA OpenEndIs ==
  ASSUME NEW S, NEW t \in Seq(S), NEW i \in OpenTags(t)
  PROVE  /\ i \in 1 .. Len(t) /\ i + 1 \in 1 .. Len(t)
         /\ OpenEnd(t, i) \in i .. Len(t)
         /\ \A j \in i .. OpenEnd(t, i) : Is(t, j, ">") => j = OpenEnd(t, i)
<1> DEFINE ends == {j \in i .. Len(t) : Is(t, j, ">")}
<1>1. i \in 1 .. Len(t) /\ i + 1 \in 1 .. Len(t) /\ Len(t) \in Nat
  BY DEF OpenTags, Is
<1>2. CASE ends = {}
  BY <1>1, <1>2 DEF OpenEnd
<1>3. CASE ends # {}
  <2>1. ends \in SUBSET Nat
    BY <1>1
  <2>2. Least(ends) \in ends /\ \A n \in ends : Least(ends) <= n
    BY <1>3, <2>1, LeastIs
  <2>3. OpenEnd(t, i) = Least(ends)
    BY <1>3 DEF OpenEnd
  <2> HIDE DEF ends
  <2>4. ASSUME NEW j \in i .. OpenEnd(t, i), Is(t, j, ">") PROVE j = OpenEnd(t, i)
    <3>1. Least(ends) \in i .. Len(t)
      BY <2>2 DEF ends
    <3>2. j \in ends
      BY <1>1, <2>3, <2>4, <3>1 DEF ends
    <3> QED
      BY <1>1, <2>2, <2>3, <3>1, <3>2
  <2> QED
    BY <1>1, <2>2, <2>3, <2>4 DEF ends
<1> QED
  BY <1>2, <1>3

LEMMA CloseEndIs ==
  ASSUME NEW S, NEW t \in Seq(S), NEW i \in CloseTags(t)
  PROVE  /\ i \in 1 .. Len(t) /\ i + 1 \in 1 .. Len(t)
         /\ CloseEnd(t, i) \in i + 1 .. Len(t)
         /\ \A j \in i .. CloseEnd(t, i) : text[t[j]] \in {"</", "think", ">"}
<1>1. /\ i \in 1 .. Len(t) /\ i + 1 \in 1 .. Len(t) /\ Len(t) \in Nat
      /\ text[t[i]] = "</" /\ text[t[i + 1]] = "think"
  BY DEF CloseTags, Is
<1>2. CASE Is(t, i + 2, ">")
  <2>1. CloseEnd(t, i) = i + 2 /\ i + 2 \in 1 .. Len(t) /\ text[t[i + 2]] = ">"
    BY <1>2 DEF CloseEnd, Is
  <2>2. \A j \in i .. i + 2 : j = i \/ j = i + 1 \/ j = i + 2
    BY <1>1
  <2> QED
    BY <1>1, <2>1, <2>2
<1>3. CASE ~Is(t, i + 2, ">")
  <2>1. CloseEnd(t, i) = i + 1
    BY <1>3 DEF CloseEnd
  <2>2. \A j \in i .. i + 1 : j = i \/ j = i + 1
    BY <1>1
  <2> QED
    BY <1>1, <2>1, <2>2
<1> QED
  BY <1>2, <1>3

LEMMA PartialIs ==
  ASSUME NEW S, NEW t \in Seq(S)
  PROVE  /\ Partial(t) \in 1 .. Len(t) + 1
         /\ Is(t, Len(t), "<") => Partial(t) = Len(t)
<1> DEFINE starts == {i \in DOMAIN t : \E tag \in Listed : StartsTag(t, i, tag)}
           n == Len(t)
<1>1. n \in Nat /\ DOMAIN t = 1 .. n
  OBVIOUS
<1>2. /\ Partial(t) = Least(starts \cup {n + 1})
      /\ starts \cup {n + 1} \in SUBSET Nat /\ starts \subseteq 1 .. n
  BY <1>1 DEF Partial
<1>3. Partial(t) \in starts \cup {n + 1} /\ \A k \in starts \cup {n + 1} : Partial(t) <= k
  <2> DEFINE all == starts \cup {n + 1}
  <2>1. all \in SUBSET Nat /\ all # {} /\ Partial(t) = Least(all)
    BY <1>2
  <2> HIDE DEF all
  <2>2. Least(all) \in all /\ \A k \in all : Least(all) <= k
    BY <2>1, LeastIs
  <2> QED
    BY <2>1, <2>2 DEF all
<1>0. ASSUME NEW tag \in Listed, NEW j \in 1 .. Len(tag), tag[j] = "<" PROVE j = 1
  <2>1. CASE tag = <<"<", "think", ">">>
    <3>1. j \in {1, 2, 3}
      BY <2>1
    <3> QED
      BY <1>0, <2>1, <3>1
  <2>2. CASE tag = <<"<", "think", "ing", ">">>
    <3>1. j \in {1, 2, 3, 4}
      BY <2>2
    <3> QED
      BY <1>0, <2>2, <3>1
  <2>3. CASE tag = <<"</", "think", ">">>
    <3>1. j \in {1, 2, 3}
      BY <2>3
    <3> QED
      BY <1>0, <2>3, <3>1
  <2>4. CASE tag = <<"</", "think", "ing", ">">>
    <3>1. j \in {1, 2, 3, 4}
      BY <2>4
    <3> QED
      BY <1>0, <2>4, <3>1
  <2> QED
    BY <2>1, <2>2, <2>3, <2>4 DEF Listed
<1>4. ASSUME Is(t, n, "<") PROVE Partial(t) = n
  <2>1. n \in 1 .. n /\ text[t[n]] = "<"
    BY <1>1, <1>4 DEF Is
  <2>2. StartsTag(t, n, <<"<", "think", ">">>)
    BY <1>1, <1>4, <2>1 DEF StartsTag
  <2>3. n \in starts
    BY <1>1, <2>1, <2>2 DEF Listed
  <2>4. ASSUME NEW k \in starts PROVE k = n
    <3>1. PICK tag \in Listed : StartsTag(t, k, tag)
      BY <2>4
    <3>2. n - k + 1 \in 1 .. Len(tag) /\ text[t[n]] = tag[n - k + 1]
      <4>1. k \in 1 .. n /\ Len(tag) \in Nat
        BY <1>2, <2>4 DEF Listed
      <4>2. n - k + 1 < Len(tag) /\ Is(t, n, tag[n - k + 1])
        BY <1>1, <2>1, <3>1, <4>1 DEF StartsTag
      <4>3. text[t[n]] = tag[n - k + 1]
        BY <4>2 DEF Is
      <4>4. k \in Nat /\ n \in Nat /\ k <= n
        BY <1>1, <4>1
      <4> HIDE DEF n
      <4>5. n - k + 1 \in 1 .. Len(tag)
        BY <4>1, <4>2, <4>4
      <4> QED
        BY <4>3, <4>5
    <3>3. tag[n - k + 1] = "<"
      BY <2>1, <3>2
    <3>4. n - k + 1 = 1
      BY <1>0, <3>2, <3>3
    <3>5. k \in Nat /\ n \in Nat
      BY <1>1, <1>2, <2>4
    <3> QED
      BY <3>4, <3>5
  <2>5. Partial(t) \in starts \/ Partial(t) = n + 1
    BY <1>3
  <2>6. Partial(t) <= n
    BY <1>3, <2>3
  <2>7. n \in Nat
    BY <1>1
  <2> HIDE DEF starts, n
  <2> QED
    BY <2>4, <2>5, <2>6, <2>7
<1> QED
  BY <1>1, <1>2, <1>3, <1>4

\* <thinking> has no private word in it.
LEMMA ListedTagsIs ==
  ASSUME NEW S, NEW t \in Seq(S), NEW l \in ListedTags(t), NEW i \in l .. l + 3
  PROVE  i \in DOMAIN t /\ text[t[i]] \in {"<", "think", "ing", ">"}
<1>1. l \in Nat /\ \A k \in 0 .. 3 : Is(t, l + k, <<"<", "think", "ing", ">">>[k + 1])
  BY DEF ListedTags
<1>2. i - l \in 0 .. 3 /\ l + (i - l) = i
  BY <1>1
<1>3. Is(t, i, <<"<", "think", "ing", ">">>[(i - l) + 1])
  BY <1>1, <1>2
<1>4. <<"<", "think", "ing", ">">>[(i - l) + 1] \in {"<", "think", "ing", ">"}
  BY <1>2
<1> QED
  BY <1>3, <1>4 DEF Is

LEMMA TagPlaces ==
  ASSUME NEW S, NEW t \in Seq(S)
  PROVE  OpenTags(t) \in SUBSET Nat /\ CloseTags(t) \in SUBSET Nat
  BY DEF OpenTags, CloseTags

\* The text without its tags is in the order of the text.
LEMMA UntaggedIs ==
  ASSUME NEW S, NEW t \in Seq(S)
  PROVE  /\ Untagged(t) \in Seq(S)
         /\ \A k \in DOMAIN Untagged(t) : \E i \in DOMAIN t : Untagged(t)[k] = t[i]
         /\ (\A i, j \in DOMAIN t : i < j => t[i] < t[j]) =>
              \A k, l \in DOMAIN Untagged(t) : k < l => Untagged(t)[k] < Untagged(t)[l]
         /\ \A i \in DOMAIN t :
              \/ \E k \in DOMAIN Untagged(t) : Untagged(t)[k] = t[i]
              \/ \E o \in OpenTags(t) : i \in o .. OpenEnd(t, o)
              \/ \E c \in CloseTags(t) : i \in c .. CloseEnd(t, c)
              \/ \E l \in ListedTags(t) : i \in l .. l + 3
<1> DEFINE pieces == (UNION {i .. OpenEnd(t, i) : i \in OpenTags(t)})
                        \cup (UNION {i .. CloseEnd(t, i) : i \in CloseTags(t)})
                        \cup (UNION {i .. i + 3 : i \in ListedTags(t)})
           K == DOMAIN t \ pieces
<1>1. Untagged(t) = Only(t, K)
  BY DEF Untagged
<1>2. K \in SUBSET DOMAIN t
  OBVIOUS
<1>3. ASSUME NEW i \in DOMAIN t, i \notin K
      PROVE  \/ \E o \in OpenTags(t) : i \in o .. OpenEnd(t, o)
             \/ \E c \in CloseTags(t) : i \in c .. CloseEnd(t, c)
             \/ \E l \in ListedTags(t) : i \in l .. l + 3
  BY <1>3
<1> HIDE DEF K
<1>4. /\ Only(t, K) \in Seq(S)
      /\ \A k \in DOMAIN Only(t, K) : Place(K, k) \in K /\ Only(t, K)[k] = t[Place(K, k)]
      /\ \A k, l \in DOMAIN Only(t, K) : k < l => Place(K, k) < Place(K, l)
      /\ \A i \in K : \E k \in DOMAIN Only(t, K) : Only(t, K)[k] = t[i]
  BY <1>2, OnlyIs
<1> QED
  BY <1>1, <1>2, <1>3, <1>4

LEMMA WithoutBleedIs ==
  ASSUME NEW S, NEW t \in Seq(S), \A i, j \in DOMAIN t : i < j => t[i] < t[j]
  PROVE  /\ WithoutBleed(t) \in Seq(S)
         /\ \A k \in DOMAIN WithoutBleed(t) : \E i \in DOMAIN t : WithoutBleed(t)[k] = t[i]
         /\ \A k, l \in DOMAIN WithoutBleed(t) : k < l => WithoutBleed(t)[k] < WithoutBleed(t)[l]
<1> DEFINE u == Untagged(t)
           K == {i \in DOMAIN u : ~IsMeta(u, LineAt(u, i))}
<1>1. /\ u \in Seq(S)
      /\ \A k \in DOMAIN u : \E i \in DOMAIN t : u[k] = t[i]
      /\ \A k, l \in DOMAIN u : k < l => u[k] < u[l]
  BY UntaggedIs
<1>2. WithoutBleed(t) = Only(u, K) /\ K \in SUBSET DOMAIN u
  BY DEF WithoutBleed
<1> HIDE DEF u, K
<1>3. /\ Only(u, K) \in Seq(S)
      /\ \A k \in DOMAIN Only(u, K) : Place(K, k) \in K /\ Only(u, K)[k] = u[Place(K, k)]
      /\ \A k, l \in DOMAIN Only(u, K) : k < l => Place(K, k) < Place(K, l)
  BY <1>1, <1>2, OnlyIs
<1> QED
  BY <1>1, <1>2, <1>3

LEMMA WordsIs ==
  ASSUME NEW S, NEW t \in Seq(S)
  PROVE  Words(t) \in Nat
<1> DEFINE W == {i \in DOMAIN t : ~Is(t, i, "nl")}
<1>1. IsFiniteSet(W)
  <2>1. IsFiniteSet(1 .. Len(t)) /\ W \in SUBSET (1 .. Len(t))
    BY FS_Interval
  <2> QED
    BY <2>1, FS_Subset
<1>2. Cardinality(W) \in Nat
  BY <1>1, FS_CardinalityType
<1> QED
  BY <1>2 DEF Words

------------------------------------------------------------------------------------
\* The public limit

\* The limit is met in public text only, and ends the loops; behind the fail-safe nothing
\* is parsed any more.
StopInv ==
    /\ truncated => pc \in {"final", "done"} /\ state = 1
    /\ pc = "lines" => state = 1
    /\ passthrough =>
        state = 1 /\ (pc \in {"read", "final", "done"} \/ (pc = "lines" /\ next = "final"))

LEMMA InitStopInv == Init => StopInv
BY DEF Init, StopInv

LEMMA NextStopInv == StopInv /\ [Next]_vars => StopInv'
<1> SUFFICES ASSUME StopInv, [Next]_vars PROVE StopInv'
  OBVIOUS
<1> USE DEF StopInv, input, output, modes, tags
<1>1. ASSUME NEW n \in 1 .. Len(text) - fed, Read(n) PROVE StopInv'
  <2>1. CASE passthrough
    BY <1>1, <2>1 DEF Read, Yield
  <2>2. CASE ~passthrough
    BY <1>1, <2>2 DEF Read
  <2> QED
    BY <2>1, <2>2
<1>2. CASE FindOpenTag
  BY <1>2 DEF FindOpenTag
<1>3. CASE NoOpenTag
  BY <1>3 DEF NoOpenTag
<1>4. CASE NextLine
  <2>1. /\ pc = "lines" /\ UNCHANGED <<state, next, passthrough>>
        /\ \/ UNCHANGED <<truncated, pc>>
           \/ pc' = IF truncated' THEN "final" ELSE "lines"
    BY <1>4 DEF NextLine, Yield
  <2> QED
    BY <2>1
<1>5. CASE NoMoreLines
  BY <1>5 DEF NoMoreLines
<1>6. CASE FindCloseTag
  BY <1>6 DEF FindCloseTag
<1>7. CASE NoCloseTag
  BY <1>7 DEF NoCloseTag
<1>8. CASE EndOfStream
  BY <1>8 DEF EndOfStream
<1>9. CASE Finish
  BY <1>9 DEF Finish
<1>10. CASE UNCHANGED vars
  BY <1>10 DEF vars
<1> QED
  BY <1>1, <1>2, <1>3, <1>4, <1>5, <1>6, <1>7, <1>8, <1>9, <1>10 DEF Next

\* Behind the limit only the finally block runs, and with no monologue open it shows none.
LEMMA NothingShown ==
    ASSUME StopInv, [Next]_vars, truncated
    PROVE  shown' = shown
<1>1. pc \in {"final", "done"} /\ state = 1
  BY DEF StopInv
<1>2. CASE Finish
  BY <1>1, <1>2 DEF Finish
<1>3. CASE ~Finish
  BY <1>1, <1>3 DEF Next, vars, output, Read, FindOpenTag, NoOpenTag, NextLine, NoMoreLines,
     FindCloseTag, NoCloseTag, EndOfStream
<1> QED
  BY <1>2, <1>3

THEOREM StopInvariance == Spec => []StopInv
BY InitStopInv, NextStopInv, PTL DEF Spec

------------------------------------------------------------------------------------
\* The inductive invariant

\* How far the stream has been taken out of the buffers.
Parsed == fed - Len(buffer) - Len(monologue)

\* What is not in use is empty.
ModeInv ==
    /\ state = 1 => monologue = <<>>
    /\ state = 0 => line = <<>> /\ pc \in {"read", "scan", "final", "done"}
    /\ passthrough => failsafe /\ buffer = <<>> /\ line = <<>>
    /\ pc = "lines" /\ next = "final" => buffer = <<>>
    /\ pc \in {"final", "done"} /\ ~truncated => buffer = <<>>
    /\ pc = "done" => monologue = <<>> /\ warned = HasWarning(sections)

\* The buffers hold the end of what was received: the monologue, then the buffer.  There a
\* chunk ended.
ContigInv ==
    /\ Parsed >= 0
    /\ fed \in cuts \cup {0}
    /\ \A i \in DOMAIN monologue : monologue[i] = Parsed + i
    /\ \A i \in DOMAIN buffer : buffer[i] = fed - Len(buffer) + i

\* Shown words, then the line buffer, then what is not parsed yet.
OrderInv ==
    /\ InOrder
    /\ \A i, j \in DOMAIN line : i < j => line[i] < line[j]
    /\ \A i \in DOMAIN shown : shown[i] <= Parsed /\ \A j \in DOMAIN line : shown[i] < line[j]
    /\ \A i \in DOMAIN line : line[i] <= Parsed

\* The private words of this turn's stream are those of its scratchpads.
TextInv ==
    \A p \in DOMAIN text : text[p] \in Private =>
        /\ \A c \in 1 .. p : CloseAt(text, c) => \E o \in c .. p : OpenAt(text, o)
        /\ \A o \in 1 .. p : OpenAt(text, o) => \E g \in o .. p : text[g] = ">"

\* The parser is in public text, and will look for an open tag.
Outside == state = 1 /\ ~passthrough /\ (pc \in {"read", "scan"} \/ (pc = "lines" /\ next = "read"))

\* Public text, with an open tag still to come before the next private word.
PrivInv ==
    /\ \A i \in DOMAIN line : text[line[i]] \notin Private
    /\ ~failsafe => \A i \in DOMAIN shown : text[shown[i]] \notin Private
    /\ Outside =>
        \A p \in DOMAIN text : text[p] \in Private /\ p > fed - Len(buffer) =>
            \E o \in fed - Len(buffer) + 1 .. p : OpenAt(text, o)
    /\ Outside /\ pc # "scan" => \A i \in DOMAIN buffer : text[buffer[i]] \notin Private

\* A private word that left the buffers is part of the monologue, or was shown.
KeptInv ==
    \A p \in 1 .. Parsed : text[p] \in Private =>
        p \in Kept \/ \E i \in DOMAIN shown : shown[i] = p

\* What is behind an unknown tag is public text to the parser: the clauses about private
\* words are of the streams without such a tag.
ParserInv ==
    /\ TypeOK
    /\ StopInv
    /\ TextInv
    /\ ModeInv
    /\ ContigInv
    /\ OrderInv
    /\ TagsKnown => PrivInv /\ KeptInv

LEMMA Typed ==
  ASSUME TypeOK
  PROVE  /\ text \in Seq(Atoms) /\ Len(text) \in Nat /\ DOMAIN text = 1 .. Len(text)
         /\ fed \in Nat /\ fed <= Len(text)
         /\ buffer \in Places /\ Len(buffer) \in Nat /\ DOMAIN buffer = 1 .. Len(buffer)
         /\ monologue \in Places /\ Len(monologue) \in Nat
         /\ DOMAIN monologue = 1 .. Len(monologue)
         /\ line \in Places /\ Len(line) \in Nat /\ DOMAIN line = 1 .. Len(line)
         /\ shown \in Places /\ DOMAIN shown = 1 .. Len(shown) /\ Len(shown) \in Nat
         /\ sections \in Places /\ DOMAIN sections = 1 .. Len(sections)
         /\ <<>> \in Places
<1>1. /\ text \in Seq(Atoms) /\ fed \in 0 .. Len(text)
      /\ buffer \in Places /\ line \in Places /\ monologue \in Places
      /\ sections \in Places /\ shown \in Places
  BY DEF TypeOK
<1> QED
  BY <1>1 DEF Places

LEMMA ConcatOrder ==
  ASSUME NEW S, S \subseteq Int, NEW s \in Seq(S), NEW t \in Seq(S),
         \A i, j \in DOMAIN s : i < j => s[i] < s[j],
         \A i, j \in DOMAIN t : i < j => t[i] < t[j],
         \A i \in DOMAIN s, j \in DOMAIN t : s[i] < t[j]
  PROVE  \A i, j \in DOMAIN (s \o t) : i < j => (s \o t)[i] < (s \o t)[j]
<1> SUFFICES ASSUME NEW i \in DOMAIN (s \o t), NEW j \in DOMAIN (s \o t), i < j
             PROVE  (s \o t)[i] < (s \o t)[j]
  OBVIOUS
<1>1. /\ DOMAIN s = 1 .. Len(s) /\ DOMAIN t = 1 .. Len(t) /\ Len(s) \in Nat /\ Len(t) \in Nat
      /\ DOMAIN (s \o t) = 1 .. Len(s) + Len(t)
  OBVIOUS
<1>2. CASE j \in 1 .. Len(s)
  <2>1. i \in 1 .. Len(s)
    BY <1>1, <1>2
  <2> QED
    BY <1>1, <1>2, <2>1, ConcatIs
<1>3. CASE j \notin 1 .. Len(s)
  <2>1. j - Len(s) \in 1 .. Len(t) /\ (s \o t)[j] = t[j - Len(s)]
    BY <1>1, <1>3, ConcatIs
  <2>2. CASE i \in 1 .. Len(s)
    BY <1>1, <2>1, <2>2, ConcatIs
  <2>3. CASE i \notin 1 .. Len(s)
    <3>1. i - Len(s) \in 1 .. Len(t) /\ (s \o t)[i] = t[i - Len(s)]
      BY <1>1, <2>3, ConcatIs
    <3>2. i - Len(s) < j - Len(s)
      BY <1>1
    <3> QED
      BY <1>1, <2>1, <3>1, <3>2
  <2> QED
    BY <2>2, <2>3
<1> QED
  BY <1>2, <1>3

\* A tag has no private word in it.
LEMMA OpenTagsPublic ==
  ASSUME TypeOK, TextInv, NEW t \in Places, NEW b \in Int, \A i \in DOMAIN t : t[i] = b + i,
         NEW o \in OpenTags(t), NEW i \in o .. OpenEnd(t, o)
  PROVE  i \in DOMAIN t /\ text[t[i]] \notin Private
<1>1. /\ o \in 1 .. Len(t) /\ o + 1 \in 1 .. Len(t) /\ OpenEnd(t, o) \in o .. Len(t)
      /\ \A j \in o .. OpenEnd(t, o) : Is(t, j, ">") => j = OpenEnd(t, o)
  BY OpenEndIs DEF Places
<1>2. DOMAIN t = 1 .. Len(t) /\ Len(t) \in Nat /\ Len(text) \in Nat /\ DOMAIN text = 1 .. Len(text)
      /\ \A j \in DOMAIN t : t[j] \in 1 .. Len(text)
  BY Typed DEF Places
<1>3. i \in DOMAIN t
  BY <1>1, <1>2
<1>4. /\ \/ text[b + o] = "<" /\ text[(b + o) + 1] = "think"
         \/ text[b + o] = "<T" /\ text[(b + o) + 1] = "hink"
      /\ b + o \in DOMAIN text /\ (b + o) + 1 \in DOMAIN text
  <2>1. /\ o \in DOMAIN t /\ o + 1 \in DOMAIN t
        /\ \/ text[t[o]] = "<" /\ text[t[o + 1]] = "think"
           \/ text[t[o]] = "<T" /\ text[t[o + 1]] = "hink"
    BY DEF OpenTags, Is
  <2>2. t[o] = b + o /\ t[o + 1] = (b + o) + 1
    BY <1>2, <2>1
  <2> QED
    BY <1>2, <2>1, <2>2
<1>5. OpenAt(text, b + o)
  BY <1>4 DEF OpenAt
<1>6. SUFFICES ASSUME text[t[i]] \in Private PROVE FALSE
  BY <1>3
<1>7. i # o /\ text[b + i] \in Private /\ b + i \in DOMAIN text /\ b + o \in 1 .. b + i
  <2>1. t[i] = b + i /\ b + i \in DOMAIN text
    BY <1>2, <1>3
  <2>2. i # o
    BY <1>4, <1>6, <2>1 DEF Private
  <2> QED
    BY <1>1, <1>2, <1>4, <1>6, <2>1, <2>2
<1>8. PICK g \in b + o .. b + i : text[g] = ">"
  BY <1>5, <1>7 DEF TextInv
<1>9. g # b + i
  BY <1>7, <1>8 DEF Private
<1> DEFINE k == g - b
<1>10. k \in o .. OpenEnd(t, o) /\ k < i /\ k \in DOMAIN t /\ t[k] = g
  BY <1>1, <1>2, <1>8, <1>9
<1>11. Is(t, k, ">")
  BY <1>8, <1>10 DEF Is
<1>12. k = OpenEnd(t, o)
  BY <1>1, <1>10, <1>11
<1> QED
  BY <1>1, <1>10, <1>12

\* Without its tags a piece of the stream has all its private words.
LEMMA UntaggedKeeps ==
  ASSUME TypeOK, TextInv, NEW t \in Places, NEW b \in Int, \A i \in DOMAIN t : t[i] = b + i,
         NEW i \in DOMAIN t, text[t[i]] \in Private
  PROVE  \E k \in DOMAIN Untagged(t) : Untagged(t)[k] = t[i]
<1>1. ~\E o \in OpenTags(t) : i \in o .. OpenEnd(t, o)
  BY OpenTagsPublic
<1>2. ~\E c \in CloseTags(t) : i \in c .. CloseEnd(t, c)
  BY CloseEndIs DEF Places, Private
<1>3. ~\E l \in ListedTags(t) : i \in l .. l + 3
  BY ListedTagsIs DEF Places, Private
<1> QED
  BY <1>1, <1>2, <1>3, UntaggedIs DEF Places

LEMMA InitParserInv == Init => ParserInv
<1> SUFFICES ASSUME Init PROVE ParserInv
  OBVIOUS
<1> USE DEF Init
<1>1. PICK s \in Streams : text = s.text /\ state = s.start
  OBVIOUS
<1>2. text \in Seq(Atoms) /\ state \in {0, 1}
  BY <1>1, StreamAssumption
<1>3. TypeOK
  <2>1. \A S : <<>> \in Seq(S)
    OBVIOUS
  <2>2. \A t \in {buffer, line, monologue, sections, shown} : t \in Places
    BY <2>1 DEF Places
  <2>3. fed \in 0 .. Len(text) /\ cuts \subseteq 1 .. fed
    BY <1>2
  <2> QED
    BY <1>2, <2>2, <2>3 DEF TypeOK
<1>4. TextInv
  BY <1>1, PrivateAssumption DEF TextInv
<1>5. ModeInv /\ ContigInv /\ OrderInv
  BY DEF ModeInv, ContigInv, OrderInv, InOrder, Parsed
<1>6. PrivInv
  <2>1. state = 1 => \A p \in DOMAIN text : text[p] \in Private => \E o \in 1 .. p : OpenAt(text, o)
    BY <1>1, PrivateAssumption
  <2> QED
    BY <2>1 DEF PrivInv, Outside
<1>7. KeptInv
  BY DEF KeptInv, Parsed
<1> QED
  BY <1>3, <1>4, <1>5, <1>6, <1>7, InitStopInv DEF ParserInv

LEMMA YieldIs ==
  ASSUME TypeOK, NEW t \in Places, NEW goOn, Yield(t, goOn)
  PROVE  /\ publicTokens' \in Nat /\ truncated' \in BOOLEAN
         /\ truncated' => pc' = "final"
         /\ ~truncated' => pc' = goOn
         /\ shown' = shown \o t
<1>1. Words(t) \in Nat
  BY WordsIs DEF Places
<1> QED
  BY <1>1, LimitAssumption DEF Yield, TypeOK

\* What every step leaves alone; a tag that is known afterwards was known before.
LEMMA StepIs ==
  ASSUME ParserInv, [Next]_vars
  PROVE  /\ text' = text /\ cuts \subseteq cuts' /\ TextInv' /\ StopInv'
         /\ TagsKnown' => TagsKnown /\ PrivInv /\ KeptInv
<1>1. text' = text /\ cuts \subseteq cuts'
  BY DEF Next, vars, input, Read, FindOpenTag, NoOpenTag, NextLine, NoMoreLines, FindCloseTag,
     NoCloseTag, EndOfStream, Finish
<1>2. TextInv'
  BY <1>1 DEF ParserInv, TextInv
<1>3. TagsKnown' => TagsKnown
  BY <1>1 DEF TagsKnown
<1> QED
  BY <1>1, <1>2, <1>3, NextStopInv DEF ParserInv

LEMMA ReadInv ==
  ASSUME ParserInv, NEW n \in 1 .. Len(text) - fed, Read(n)
  PROVE  ParserInv'
<1> DEFINE chunk == [i \in 1 .. n |-> fed + i]
<1> USE DEF modes, output, tags
<1>1. TypeOK /\ StopInv /\ TextInv /\ ModeInv /\ ContigInv /\ OrderInv
  BY DEF ParserInv
<1>2. n \in Nat /\ n >= 1 /\ fed + n <= Len(text) /\ fed \in Nat /\ Len(text) \in Nat
  BY <1>1, Typed
<1>3. /\ chunk \in Places /\ Len(chunk) = n /\ DOMAIN chunk = 1 .. n
      /\ \A i \in 1 .. n : chunk[i] = fed + i
  <2>1. \A i \in 1 .. n : fed + i \in 1 .. Len(text)
    BY <1>2
  <2> QED
    BY <1>2, <2>1 DEF Places
<1>4. /\ pc = "read" /\ fed' = fed + n /\ cuts' = cuts \cup {fed + n}
      /\ UNCHANGED <<text, state, monologue, sections, monoTokens, line, failsafe, passthrough,
                     warned, next>>
  BY DEF Read
<1>5. StopInv' /\ TextInv'
  <2>1. TextInv'
    BY <1>1, <1>4 DEF TextInv
  <2>2. StopInv'
    BY <1>1, NextStopInv DEF Next
  <2> QED
    BY <2>1, <2>2
<1>6. cuts' \subseteq 1 .. fed' /\ fed' \in 0 .. Len(text')
  BY <1>1, <1>2, <1>4 DEF TypeOK
<1>9. TagsKnown' => PrivInv /\ KeptInv
  BY StepIs DEF Next
<1> HIDE DEF chunk
<1> DEFINE S == 1 .. Len(text)
<1>0. buffer \in Seq(S) /\ shown \in Seq(S) /\ chunk \in Seq(S) /\ S \subseteq Int
  BY <1>1, <1>3, Typed DEF Places
<1> HIDE DEF S
<1>7. CASE passthrough
  <2>1. /\ state = 1 /\ buffer = <<>> /\ line = <<>> /\ monologue = <<>> /\ failsafe
    BY <1>1, <1>7 DEF ModeInv, StopInv
  <2>2. Yield(chunk, "read") /\ buffer' = <<>>
    <3>1. <<>> \o chunk = chunk
      BY <1>3, ConcatEmptySeq DEF Places
    <3> QED
      BY <1>7, <2>1, <3>1 DEF Read, chunk
  <2>3. /\ publicTokens' \in Nat /\ truncated' \in BOOLEAN /\ shown' = shown \o chunk
        /\ (truncated' => pc' = "final") /\ (~truncated' => pc' = "read")
    BY <1>1, <1>3, <2>2, YieldIs
  <2>0. Range(shown') = Range(shown) \cup Range(chunk)
    BY <1>0, <2>3, RangeConcatenation
  <2>4. shown' \in Places
    BY <1>1, <1>3, <2>3, Typed, ConcatIs DEF Places
  <2>5. TypeOK'
    BY <1>1, <1>4, <1>6, <2>2, <2>3, <2>4, Typed DEF TypeOK, Places
  <2>6. ModeInv'
    BY <1>1, <1>4, <1>7, <2>1, <2>2, <2>3 DEF ModeInv
  <2>7. Parsed = fed /\ Parsed' = fed + n
    BY <1>2, <1>4, <2>1, <2>2 DEF Parsed
  <2>8. ContigInv'
    BY <1>2, <1>4, <2>1, <2>2, <2>7 DEF ContigInv
  <2>9. OrderInv'
    <3>1. \A i \in DOMAIN shown, j \in DOMAIN chunk : shown[i] < chunk[j]
      <4>1. \A i \in DOMAIN shown : shown[i] <= fed /\ shown[i] \in Int
        BY <1>1, <2>7, Typed DEF OrderInv, Places
      <4>2. \A j \in DOMAIN chunk : chunk[j] > fed /\ chunk[j] \in Int
        BY <1>2, <1>3
      <4> QED
        BY <1>2, <4>1, <4>2
    <3>2. InOrder'
      <4>1. \A i, j \in DOMAIN chunk : i < j => chunk[i] < chunk[j]
        BY <1>2, <1>3
      <4>2. \A i, j \in DOMAIN shown : i < j => shown[i] < shown[j]
        BY <1>1 DEF OrderInv, InOrder
      <4> QED
        BY <1>0, <2>3, <3>1, <4>1, <4>2, ConcatOrder DEF InOrder
    <3>3. \A k \in DOMAIN shown' : shown'[k] <= fed + n
      <4>1. \A i \in DOMAIN shown : shown[i] <= fed + n
        BY <1>1, <1>2, <2>7, Typed DEF OrderInv, Places
      <4>2. \A j \in DOMAIN chunk : chunk[j] <= fed + n
        BY <1>2, <1>3
      <4> QED
        BY <2>0, <4>1, <4>2 DEF Range
    <3> QED
      BY <1>4, <2>1, <2>7, <3>2, <3>3 DEF OrderInv
  <2>10. TagsKnown' => PrivInv'
    BY <1>4, <1>7, <1>9, <2>1 DEF PrivInv, Outside
  <2>11. ASSUME TagsKnown' PROVE KeptInv'
    <3>1. \A i \in DOMAIN shown : \E k \in DOMAIN shown' : shown'[k] = shown[i]
      BY <2>0, Zenon DEF Range
    <3>2. ASSUME NEW p \in 1 .. fed + n, ~(p \in 1 .. fed)
          PROVE  \E k \in DOMAIN shown' : shown'[k] = p
      <4>1. p - fed \in DOMAIN chunk /\ chunk[p - fed] = p
        BY <1>2, <1>3, <3>2
      <4>2. \A i \in DOMAIN chunk : \E k \in DOMAIN shown' : shown'[k] = chunk[i]
        BY <2>0, Zenon DEF Range
      <4> QED
        BY <4>1, <4>2
    <3>3. \A p \in 1 .. fed + n : text[p] \in Private =>
            p \in Kept \/ \E k \in DOMAIN shown' : shown'[k] = p
      BY <1>9, <2>7, <2>11, <3>1, <3>2 DEF KeptInv
    <3> QED
      BY <1>4, <2>3, <2>7, <3>3 DEF KeptInv, Kept
  <2> QED
    BY <1>5, <2>5, <2>6, <2>8, <2>9, <2>10, <2>11 DEF ParserInv
<1>8. CASE ~passthrough
  <2>1. buffer' = buffer \o chunk /\ pc' = "scan" /\ UNCHANGED <<publicTokens, truncated, shown>>
    BY <1>8 DEF Read, chunk
  <2>2. /\ buffer' \in Places /\ Len(buffer') = Len(buffer) + n
        /\ DOMAIN buffer' = 1 .. Len(buffer) + n
    <3>1. /\ buffer' \in Seq(S) /\ Len(buffer') = Len(buffer) + Len(chunk)
          /\ DOMAIN buffer' = 1 .. Len(buffer) + Len(chunk)
      BY <1>0, <2>1, ConcatIs
    <3> QED
      BY <1>3, <3>1 DEF Places, S
  <2>3. TypeOK'
    BY <1>1, <1>4, <1>6, <2>1, <2>2, Typed DEF TypeOK, Places
  <2>4. Len(buffer) \in Nat /\ Len(monologue) \in Nat
    BY <1>1, Typed
  <2>5. Parsed' = Parsed /\ fed' - Len(buffer') = fed - Len(buffer)
    BY <1>2, <1>4, <2>2, <2>4 DEF Parsed
  <2>6. ModeInv'
    BY <1>1, <1>4, <1>8, <2>1 DEF ModeInv
  <2>7. ContigInv'
    <3>1. ASSUME NEW i \in DOMAIN buffer' PROVE buffer'[i] = fed - Len(buffer) + i
      <4>1. CASE i \in 1 .. Len(buffer)
        <5>1. buffer'[i] = buffer[i] /\ i \in DOMAIN buffer
          BY <1>0, <2>1, <4>1, ConcatIs
        <5> QED
          BY <1>1, <5>1 DEF ContigInv
      <4>2. CASE i \notin 1 .. Len(buffer)
        <5>1. i - Len(buffer) \in 1 .. n /\ buffer'[i] = chunk[i - Len(buffer)]
          BY <1>0, <1>3, <2>1, <2>2, <4>2, ConcatIs
        <5> QED
          BY <1>2, <1>3, <2>2, <2>4, <5>1
      <4> QED
        BY <4>1, <4>2
    <3> QED
      BY <1>1, <1>4, <2>5, <3>1 DEF ContigInv
  <2>8. OrderInv'
    BY <1>1, <1>4, <2>1, <2>5 DEF OrderInv, InOrder
  <2>9. TagsKnown' => PrivInv'
    BY <1>4, <1>9, <2>1, <2>5 DEF PrivInv, Outside
  <2>10. TagsKnown' => KeptInv'
    BY <1>4, <1>9, <2>1, <2>5 DEF KeptInv, Kept
  <2> QED
    BY <1>5, <2>3, <2>6, <2>7, <2>8, <2>9, <2>10 DEF ParserInv
<1> QED
  BY <1>7, <1>8

\* A piece of the stream, and the pieces it is cut into.
Piece(t, b) == t \in Places /\ b \in Int /\ \A i \in DOMAIN t : t[i] = b + i

LEMMA PiecesIs ==
  ASSUME ParserInv
  PROVE  /\ Piece(monologue, Parsed) /\ Piece(buffer, fed - Len(buffer))
         /\ Parsed + Len(monologue) = fed - Len(buffer)
         /\ Parsed \in Nat /\ fed \in Nat /\ fed <= Len(text) /\ Len(text) \in Nat
         /\ Len(buffer) \in Nat /\ Len(monologue) \in Nat
         /\ state = 1 => Parsed = fed - Len(buffer) /\ Len(monologue) = 0
<1>1. TypeOK /\ ContigInv /\ ModeInv
  BY DEF ParserInv
<1>2. Parsed \in Int /\ Parsed >= 0
  BY <1>1, Typed DEF ContigInv, Parsed
<1>3. state = 1 => Len(monologue) = 0
  BY <1>1 DEF ModeInv
<1> QED
  BY <1>1, <1>2, <1>3, Typed DEF ContigInv, Piece, Parsed

LEMMA PieceBefore ==
  ASSUME NEW t, NEW b, Piece(t, b), NEW i \in 1 .. Len(t) + 1
  PROVE  Piece(Before(t, i), b) /\ Len(Before(t, i)) = i - 1 /\ DOMAIN Before(t, i) = 1 .. i - 1
<1>1. t \in Places /\ Len(t) \in Nat /\ DOMAIN t = 1 .. Len(t)
  BY DEF Piece, Places
<1>2. /\ Before(t, i) \in Places /\ Len(Before(t, i)) = i - 1
      /\ DOMAIN Before(t, i) = 1 .. i - 1
      /\ \A j \in 1 .. i - 1 : Before(t, i)[j] = t[j]
  BY <1>1, BeforeIs DEF Places
<1> QED
  BY <1>1, <1>2 DEF Piece

LEMMA PieceAfter ==
  ASSUME NEW t, NEW b, Piece(t, b), NEW i \in 0 .. Len(t)
  PROVE  Piece(After(t, i), b + i) /\ Len(After(t, i)) = Len(t) - i
<1>1. t \in Places /\ Len(t) \in Nat /\ DOMAIN t = 1 .. Len(t) /\ b \in Int
  BY DEF Piece, Places
<1>2. /\ After(t, i) \in Places /\ Len(After(t, i)) = Len(t) - i
      /\ DOMAIN After(t, i) = 1 .. Len(t) - i
      /\ \A j \in 1 .. Len(t) - i : After(t, i)[j] = t[i + j]
  BY <1>1, AfterIs DEF Places
<1>3. \A j \in 1 .. Len(t) - i : i + j \in DOMAIN t
  BY <1>1
<1>4. \A j \in 1 .. Len(t) - i : t[i + j] = b + (i + j)
  BY <1>3 DEF Piece
<1>5. ASSUME NEW j \in 1 .. Len(t) - i PROVE After(t, i)[j] = (b + i) + j
  <2>1. After(t, i)[j] = b + (i + j)
    BY <1>2, <1>4
  <2> QED
    BY <1>1, <2>1
<1> QED
  BY <1>1, <1>2, <1>5 DEF Piece

LEMMA PieceConcat ==
  ASSUME NEW s, NEW t, NEW b, Piece(s, b), Piece(t, b + Len(s))
  PROVE  Piece(s \o t, b) /\ Len(s \o t) = Len(s) + Len(t)
<1>1. /\ s \in Places /\ Len(s) \in Nat /\ DOMAIN s = 1 .. Len(s) /\ b \in Int
      /\ t \in Places /\ Len(t) \in Nat /\ DOMAIN t = 1 .. Len(t)
  BY DEF Piece, Places
<1>2. /\ s \o t \in Places /\ Len(s \o t) = Len(s) + Len(t)
      /\ DOMAIN (s \o t) = 1 .. Len(s) + Len(t)
      /\ \A i \in 1 .. Len(s) : (s \o t)[i] = s[i]
      /\ \A i \in 1 .. Len(t) : (s \o t)[Len(s) + i] = t[i]
      /\ \A i \in 1 .. Len(s) + Len(t) :
           i \in 1 .. Len(s) \/ (i - Len(s) \in 1 .. Len(t) /\ (s \o t)[i] = t[i - Len(s)])
  BY <1>1, ConcatIs DEF Places
<1>3. ASSUME NEW i \in DOMAIN (s \o t) PROVE (s \o t)[i] = b + i
  <2>1. CASE i \in 1 .. Len(s)
    BY <1>1, <1>2, <2>1 DEF Piece
  <2>2. CASE i \notin 1 .. Len(s)
    <3>1. i - Len(s) \in DOMAIN t /\ (s \o t)[i] = t[i - Len(s)]
      BY <1>1, <1>2, <2>2
    <3>2. t[i - Len(s)] = (b + Len(s)) + (i - Len(s))
      BY <3>1 DEF Piece
    <3> QED
      BY <1>1, <1>2, <3>1, <3>2
  <2> QED
    BY <2>1, <2>2
<1> QED
  BY <1>1, <1>2, <1>3 DEF Piece

\* What is left of a piece of the stream without its tags.
LEMMA PieceUntagged ==
  ASSUME ParserInv, NEW t, NEW b, Piece(t, b)
  PROVE  /\ Untagged(t) \in Places
         /\ \A k, l \in DOMAIN Untagged(t) : k < l => Untagged(t)[k] < Untagged(t)[l]
         /\ \A k \in DOMAIN Untagged(t) : Untagged(t)[k] \in b + 1 .. b + Len(t)
         /\ \A p \in b + 1 .. b + Len(t) : text[p] \in Private =>
              \E k \in DOMAIN Untagged(t) : Untagged(t)[k] = p
<1>1. /\ t \in Places /\ Len(t) \in Nat /\ DOMAIN t = 1 .. Len(t) /\ b \in Int
      /\ \A i \in DOMAIN t : t[i] = b + i
  BY DEF Piece, Places
<1>2. /\ Untagged(t) \in Places
      /\ \A k \in DOMAIN Untagged(t) : \E i \in DOMAIN t : Untagged(t)[k] = t[i]
      /\ (\A i, j \in DOMAIN t : i < j => t[i] < t[j]) =>
           \A k, l \in DOMAIN Untagged(t) : k < l => Untagged(t)[k] < Untagged(t)[l]
  BY <1>1, UntaggedIs DEF Places
<1>3. \A i, j \in DOMAIN t : i < j => t[i] < t[j]
  BY <1>1
<1>4. \A k \in DOMAIN Untagged(t) : Untagged(t)[k] \in b + 1 .. b + Len(t)
  BY <1>1, <1>2
<1>5. ASSUME NEW p \in b + 1 .. b + Len(t), text[p] \in Private
      PROVE  \E k \in DOMAIN Untagged(t) : Untagged(t)[k] = p
  <2>1. p - b \in DOMAIN t /\ t[p - b] = p
    BY <1>1
  <2>2. \A i \in DOMAIN t : text[t[i]] \in Private =>
          \E k \in DOMAIN Untagged(t) : Untagged(t)[k] = t[i]
    BY <1>1, UntaggedKeeps DEF ParserInv
  <2> QED
    BY <1>5, <2>1, <2>2
<1> QED
  BY <1>2, <1>3, <1>4, <1>5

\* Public text goes to the line buffer.
LEMMA LineGrows ==
  ASSUME ParserInv, NEW t, Piece(t, Parsed), NEW P \in Int, Parsed' = P, Parsed + Len(t) <= P,
         line' = line \o t, shown' = shown, text' = text
  PROVE  /\ line' \in Places /\ OrderInv'
         /\ PrivInv /\ (\A i \in DOMAIN t : text[t[i]] \notin Private) =>
              \A i \in DOMAIN line' : text[line'[i]] \notin Private
<1> DEFINE S == 1 .. Len(text)
<1>1. OrderInv /\ TypeOK
  BY DEF ParserInv
<1>2. /\ line \in Seq(S) /\ shown \in Seq(S) /\ t \in Seq(S) /\ S \subseteq Int /\ Parsed \in Int
      /\ Len(t) \in Nat /\ DOMAIN t = 1 .. Len(t)
  BY <1>1, Typed, PiecesIs DEF Places, Piece
<1>3. \A i \in DOMAIN t : t[i] = Parsed + i
  BY DEF Piece
<1> HIDE DEF S
<1>4. /\ line' \in Seq(S)
      /\ \A k \in DOMAIN line' :
           (\E i \in DOMAIN line : line'[k] = line[i]) \/ (\E i \in DOMAIN t : line'[k] = t[i])
  <2>1. line' \in Seq(S)
    BY <1>2, ConcatIs
  <2>2. Range(line') = Range(line) \cup Range(t)
    BY <1>2, RangeConcatenation
  <2> QED
    BY <2>1, <2>2, Zenon DEF Range
<1>5. /\ \A i \in DOMAIN line : line[i] \in Int /\ line[i] <= Parsed
      /\ \A i \in DOMAIN shown : shown[i] \in Int /\ shown[i] <= Parsed
  <2>1. \A i \in DOMAIN line : line[i] \in S
    BY <1>2
  <2>2. \A i \in DOMAIN shown : shown[i] \in S
    BY <1>2
  <2> QED
    BY <1>1, <1>2, <2>1, <2>2 DEF OrderInv
<1>6. \A i \in DOMAIN t : t[i] \in Int /\ t[i] > Parsed /\ t[i] <= P
  BY <1>2, <1>3
<1>7. \A i, j \in DOMAIN line' : i < j => line'[i] < line'[j]
  <2>1. \A i, j \in DOMAIN line : i < j => line[i] < line[j]
    BY <1>1 DEF OrderInv
  <2>2. \A i, j \in DOMAIN t : i < j => t[i] < t[j]
    BY <1>2, <1>3
  <2>3. \A i \in DOMAIN line, j \in DOMAIN t : line[i] < t[j]
    BY <1>2, <1>5, <1>6
  <2> QED
    BY <1>2, <2>1, <2>2, <2>3, ConcatOrder
<1>8. \A i \in DOMAIN shown : shown[i] <= P /\ \A j \in DOMAIN line' : shown[i] < line'[j]
  <2>1. \A i \in DOMAIN shown : \A j \in DOMAIN line : shown[i] < line[j]
    BY <1>1 DEF OrderInv
  <2>2. \A i \in DOMAIN shown : \A j \in DOMAIN t : shown[i] < t[j]
    BY <1>2, <1>5, <1>6
  <2>3. \A i \in DOMAIN shown : shown[i] <= P
    BY <1>2, <1>5
  <2> QED
    BY <1>4, <2>1, <2>2, <2>3
<1>9. \A j \in DOMAIN line' : line'[j] <= P
  <2>1. \A i \in DOMAIN line : line[i] <= P
    BY <1>2, <1>5
  <2> QED
    BY <1>4, <1>6, <2>1
<1>10. PrivInv /\ (\A i \in DOMAIN t : text[t[i]] \notin Private) =>
         \A i \in DOMAIN line' : text[line'[i]] \notin Private
  BY <1>4 DEF PrivInv
<1>11. OrderInv'
  BY <1>1, <1>7, <1>8, <1>9 DEF OrderInv, InOrder
<1> QED
  BY <1>4, <1>10, <1>11 DEF S, Places

\* Words are shown behind those that were.
LEMMA ShownGrows ==
  ASSUME ParserInv, NEW u \in Places, shown' = shown \o u,
         \A k, l \in DOMAIN u : k < l => u[k] < u[l],
         \A i \in DOMAIN shown, k \in DOMAIN u : shown[i] < u[k]
  PROVE  /\ shown' \in Places /\ InOrder'
         /\ \A k \in DOMAIN shown' :
              (\E i \in DOMAIN shown : shown'[k] = shown[i]) \/ (\E i \in DOMAIN u : shown'[k] = u[i])
         /\ \A i \in DOMAIN shown : \E k \in DOMAIN shown' : shown'[k] = shown[i]
         /\ \A i \in DOMAIN u : \E k \in DOMAIN shown' : shown'[k] = u[i]
<1> DEFINE S == 1 .. Len(text)
<1>1. shown \in Seq(S) /\ u \in Seq(S) /\ S \subseteq Int
  BY Typed DEF ParserInv, Places
<1> HIDE DEF S
<1>2. \A i, j \in DOMAIN shown : i < j => shown[i] < shown[j]
  BY DEF ParserInv, OrderInv, InOrder
<1>3. /\ shown' \in Seq(S)
      /\ \A k \in DOMAIN shown' :
           (\E i \in DOMAIN shown : shown'[k] = shown[i]) \/ (\E i \in DOMAIN u : shown'[k] = u[i])
      /\ \A i \in DOMAIN shown : \E k \in DOMAIN shown' : shown'[k] = shown[i]
      /\ \A i \in DOMAIN u : \E k \in DOMAIN shown' : shown'[k] = u[i]
  <2>1. shown' \in Seq(S)
    BY <1>1, ConcatIs
  <2>2. Range(shown') = Range(shown) \cup Range(u)
    BY <1>1, RangeConcatenation
  <2> QED
    BY <2>1, <2>2, Zenon DEF Range
<1>4. InOrder'
  BY <1>1, <1>2, ConcatOrder DEF InOrder
<1> QED
  BY <1>3, <1>4 DEF S, Places

\* A piece of the stream without its tags ends the monologue sections.
LEMMA SectionsGrow ==
  ASSUME ParserInv, NEW t, Piece(t, Parsed), sections' = sections \o Untagged(t), text' = text
  PROVE  /\ sections' \in Places
         /\ \A p \in Kept : p \in Kept'
         /\ \A p \in Parsed + 1 .. Parsed + Len(t) : text[p] \in Private => p \in Kept'
<1> DEFINE S == 1 .. Len(text)
<1>1. /\ Untagged(t) \in Places
      /\ \A p \in Parsed + 1 .. Parsed + Len(t) : text[p] \in Private =>
           \E k \in DOMAIN Untagged(t) : Untagged(t)[k] = p
  BY PieceUntagged
<1>2. sections \in Seq(S) /\ Untagged(t) \in Seq(S)
  BY <1>1, Typed DEF ParserInv, Places
<1> HIDE DEF S
<1>3. sections' \in Seq(S)
  BY <1>2, ConcatIs
<1>4. Kept' = Kept \cup Range(Untagged(t))
  <2>1. Range(sections') = Range(sections) \cup Range(Untagged(t))
    BY <1>2, RangeConcatenation
  <2> QED
    BY <2>1 DEF Range, Kept
<1>5. \A p \in Parsed + 1 .. Parsed + Len(t) : text[p] \in Private => p \in Range(Untagged(t))
  BY <1>1 DEF Range
<1> QED
  BY <1>3, <1>4, <1>5 DEF S, Places

\* In a stream whose tags are known there is no "ing".
LEMMA NoIng ==
  ASSUME TagsKnown, NEW t \in Places, NEW i
  PROVE  ~Is(t, i, "ing")
<1>1. i \in DOMAIN t => t[i] \in 1 .. Len(text)
  BY DEF Places
<1> QED
  BY <1>1 DEF Is, TagsKnown

\* A private word of the buffer, in public text, is behind an open tag of the buffer.
LEMMA OpenInBuffer ==
  ASSUME ParserInv, TagsKnown, pc = "scan", state = 1, NEW j \in DOMAIN buffer, text[buffer[j]] \in Private
  PROVE  \E i \in OpenTags(buffer) : i < j
<1> DEFINE b == fed - Len(buffer)
<1>1. PrivInv /\ StopInv /\ TypeOK
  BY DEF ParserInv
<1>2. Piece(buffer, b) /\ b \in Nat /\ DOMAIN buffer = 1 .. Len(buffer) /\ Len(buffer) \in Nat
      /\ Len(text) \in Nat /\ DOMAIN text = 1 .. Len(text) /\ fed <= Len(text) /\ fed \in Nat
  BY <1>1, Typed, PiecesIs
<1>3. buffer[j] = b + j /\ text[b + j] \in Private /\ b + j \in DOMAIN text /\ b + j > b
  BY <1>2 DEF Piece
<1>4. Outside
  BY <1>1 DEF Outside, StopInv
<1>5. PICK o \in b + 1 .. b + j : OpenAt(text, o)
  BY <1>1, <1>3, <1>4 DEF PrivInv
<1>6. \/ text[o] = "<" /\ text[o + 1] = "think"
      \/ text[o] = "<T" /\ text[o + 1] = "hink"
  BY <1>5 DEF OpenAt
<1>7. o # b + j /\ o + 1 # b + j
  BY <1>3, <1>6 DEF Private
<1> DEFINE i == o - b
<1>8. i \in DOMAIN buffer /\ i + 1 \in DOMAIN buffer /\ i < j /\ b + i = o /\ b + (i + 1) = o + 1
  BY <1>2, <1>5, <1>7
<1>9. buffer[i] = o /\ buffer[i + 1] = o + 1
  BY <1>2, <1>8 DEF Piece
<1> HIDE DEF i, b
<1>10. \/ Is(buffer, i, "<") /\ Is(buffer, i + 1, "think")
       \/ Is(buffer, i, "<T") /\ Is(buffer, i + 1, "hink")
  BY <1>6, <1>8, <1>9 DEF Is
<1>11. ~Is(buffer, i + 2, "ing")
  BY <1>2, NoIng DEF Piece
<1> QED
  BY <1>8, <1>10, <1>11 DEF OpenTags

LEMMA FindOpenTagInv ==
  ASSUME ParserInv, FindOpenTag
  PROVE  ParserInv'
<1> DEFINE i == Least(OpenTags(buffer))
           e == OpenEnd(buffer, i)
           b == fed - Len(buffer)
<1> USE DEF input, modes, output
<1>1. TypeOK /\ StopInv /\ ModeInv /\ ContigInv /\ OrderInv
  BY DEF ParserInv
<1>2. /\ pc = "scan" /\ state = 1 /\ OpenTags(buffer) # {}
      /\ line' = line \o Before(buffer, i) /\ buffer' = After(buffer, e)
      /\ pc' = "lines" /\ next' = "enter"
      /\ UNCHANGED <<text, fed, cuts, state, monologue, sections, monoTokens, publicTokens,
                     truncated, shown, failsafe, passthrough, warned>>
  BY DEF FindOpenTag
<1>3. /\ text' = text /\ TextInv' /\ StopInv'
      /\ TagsKnown' => TagsKnown /\ PrivInv /\ KeptInv
  BY StepIs DEF Next
<1>4. /\ Piece(buffer, b) /\ Parsed = b /\ Parsed \in Nat /\ fed \in Nat /\ fed <= Len(text)
      /\ Len(buffer) \in Nat /\ DOMAIN buffer = 1 .. Len(buffer) /\ monologue = <<>>
      /\ Len(monologue) = 0 /\ Len(text) \in Nat
  BY <1>1, <1>2, PiecesIs, Typed DEF ModeInv
<1>5. i \in OpenTags(buffer) /\ \A o \in OpenTags(buffer) : i <= o
  <2>1. OpenTags(buffer) \in SUBSET Nat
    BY <1>4 DEF OpenTags
  <2> QED
    BY <1>2, <2>1, LeastIs
<1>6. i \in 1 .. Len(buffer) /\ e \in i .. Len(buffer)
  BY <1>4, <1>5, OpenEndIs DEF Piece, Places
<1> HIDE DEF i, e
<1>7. /\ Piece(Before(buffer, i), Parsed) /\ Len(Before(buffer, i)) = i - 1
      /\ DOMAIN Before(buffer, i) = 1 .. i - 1
  <2>1. i \in 1 .. Len(buffer) + 1
    BY <1>4, <1>6
  <2> QED
    BY <1>4, <2>1, PieceBefore
<1>8. Piece(buffer', b + e) /\ Len(buffer') = Len(buffer) - e
  <2>1. e \in 0 .. Len(buffer)
    BY <1>4, <1>6
  <2> QED
    BY <1>2, <1>4, <2>1, PieceAfter
<1>9. Parsed' = b + e /\ fed' - Len(buffer') = b + e
  BY <1>2, <1>4, <1>6, <1>8 DEF Parsed
<1>10. TagsKnown => \A j \in DOMAIN buffer : j <= e => text[buffer[j]] \notin Private
  <2> SUFFICES ASSUME TagsKnown, NEW j \in DOMAIN buffer, j <= e, text[buffer[j]] \in Private PROVE FALSE
    OBVIOUS
  <2>1. i < j
    <3>1. PICK o \in OpenTags(buffer) : o < j
      BY <1>1, <1>2, OpenInBuffer
    <3>2. o \in Nat /\ i <= o
      BY <1>4, <1>5 DEF OpenTags
    <3> QED
      BY <1>4, <1>6, <3>1, <3>2
  <2>2. j \in i .. OpenEnd(buffer, i)
    BY <1>4, <1>6, <2>1 DEF e
  <2>3. text[buffer[j]] \notin Private
    BY <1>1, <1>4, <1>5, <2>2, OpenTagsPublic DEF Piece, ParserInv
  <2> QED
    BY <2>3
<1>11. TagsKnown => \A j \in DOMAIN Before(buffer, i) : text[Before(buffer, i)[j]] \notin Private
  <2> SUFFICES ASSUME TagsKnown, NEW j \in DOMAIN Before(buffer, i)
               PROVE  text[Before(buffer, i)[j]] \notin Private
    OBVIOUS
  <2>1. j \in DOMAIN buffer /\ j <= e
    BY <1>4, <1>6, <1>7
  <2>2. Before(buffer, i)[j] = b + j /\ buffer[j] = b + j
    BY <1>4, <1>7, <2>1 DEF Piece
  <2> QED
    BY <1>10, <2>1, <2>2
<1>12. /\ line' \in Places /\ OrderInv'
       /\ TagsKnown /\ PrivInv => \A j \in DOMAIN line' : text[line'[j]] \notin Private
  <2>1. b + e \in Int /\ Parsed + Len(Before(buffer, i)) <= b + e
    BY <1>4, <1>6, <1>7
  <2> HIDE DEF b
  <2> QED
    BY <1>2, <1>7, <1>9, <1>11, <2>1, LineGrows
<1>13. TypeOK'
  <2>1. Places' = Places
    BY <1>2 DEF Places
  <2>2. buffer' \in Places
    BY <1>8 DEF Piece
  <2> QED
    BY <1>1, <1>2, <1>12, <2>1, <2>2 DEF TypeOK
<1>14. ModeInv'
  BY <1>1, <1>2 DEF ModeInv, StopInv
<1>15. ContigInv'
  BY <1>1, <1>2, <1>4, <1>6, <1>8, <1>9 DEF ContigInv, Piece
<1>16. TagsKnown' => PrivInv'
  BY <1>2, <1>3, <1>12 DEF PrivInv, Outside
<1>17. ASSUME TagsKnown' PROVE KeptInv'
  <2>1. ASSUME NEW p \in 1 .. b + e, text[p] \in Private PROVE p \in 1 .. b
    <3>1. CASE p - b \in DOMAIN buffer
      <4>0. b \in Int /\ e \in Int /\ \A j \in DOMAIN buffer : buffer[j] = b + j
        BY <1>4, <1>6 DEF Piece
      <4>1. buffer[p - b] = b + (p - b) /\ b + (p - b) = p /\ p - b <= e
        <5> HIDE DEF b
        <5> QED
          BY <2>1, <3>1, <4>0
      <4>2. text[buffer[p - b]] \in Private
        BY <2>1, <4>1
      <4>3. TagsKnown
        BY <1>3, <1>17
      <4>4. \A j \in DOMAIN buffer : j <= e => text[buffer[j]] \notin Private
        BY <1>10, <4>3
      <4> HIDE DEF b
      <4> QED
        BY <3>1, <4>1, <4>2, <4>4
    <3>2. CASE p - b \notin DOMAIN buffer
      BY <1>4, <1>6, <3>2
    <3> QED
      BY <3>1, <3>2
  <2> QED
    BY <1>2, <1>3, <1>4, <1>9, <1>17, <2>1 DEF KeptInv, Kept
<1> QED
  BY <1>3, <1>12, <1>13, <1>14, <1>15, <1>16, <1>17 DEF ParserInv

LEMMA NoOpenTagInv ==
  ASSUME ParserInv, NoOpenTag
  PROVE  ParserInv'
<1> DEFINE k == Partial(buffer)
           b == fed - Len(buffer)
<1> USE DEF input, modes, output
<1>1. TypeOK /\ StopInv /\ ModeInv /\ ContigInv /\ OrderInv
  BY DEF ParserInv
<1>2. /\ pc = "scan" /\ state = 1 /\ OpenTags(buffer) = {}
      /\ line' = line \o Before(buffer, k) /\ buffer' = After(buffer, k - 1)
      /\ pc' = "lines" /\ next' = "read"
      /\ UNCHANGED <<text, fed, cuts, state, monologue, sections, monoTokens, publicTokens,
                     truncated, shown, failsafe, passthrough, warned>>
  BY DEF NoOpenTag
<1>3. /\ text' = text /\ TextInv' /\ StopInv'
      /\ TagsKnown' => TagsKnown /\ PrivInv /\ KeptInv
  BY StepIs DEF Next
<1>4. /\ Piece(buffer, b) /\ Parsed = b /\ Parsed \in Nat /\ fed \in Nat /\ fed <= Len(text)
      /\ Len(buffer) \in Nat /\ DOMAIN buffer = 1 .. Len(buffer) /\ monologue = <<>>
      /\ Len(monologue) = 0 /\ Len(text) \in Nat /\ DOMAIN text = 1 .. Len(text)
  BY <1>1, <1>2, PiecesIs, Typed DEF ModeInv
<1>5. ~passthrough
  BY <1>1, <1>2 DEF StopInv
<1>6. k \in 1 .. Len(buffer) + 1
  BY <1>4, PartialIs DEF Piece, Places
<1>18. Is(buffer, Len(buffer), "<") => k = Len(buffer)
  BY <1>4, PartialIs DEF Piece, Places
<1> HIDE DEF k
<1>7. /\ Piece(Before(buffer, k), Parsed) /\ Len(Before(buffer, k)) = k - 1
      /\ DOMAIN Before(buffer, k) = 1 .. k - 1
  BY <1>4, <1>6, PieceBefore
<1>8. Piece(buffer', b + (k - 1)) /\ Len(buffer') = Len(buffer) - (k - 1)
  <2>1. k - 1 \in 0 .. Len(buffer)
    BY <1>4, <1>6
  <2> QED
    BY <1>2, <1>4, <2>1, PieceAfter
<1>9. Parsed' = b + (k - 1) /\ fed' - Len(buffer') = b + (k - 1)
  <2>1. fed' = fed /\ Len(monologue') = 0 /\ Len(buffer') = Len(buffer) - (k - 1)
    BY <1>2, <1>4, <1>8
  <2>2. fed \in Nat /\ Len(buffer) \in Nat /\ k \in Int
    BY <1>4, <1>6
  <2> QED
    BY <2>1, <2>2 DEF Parsed
<1>10. TagsKnown => \A j \in DOMAIN buffer : text[buffer[j]] \notin Private
  BY <1>1, <1>2, OpenInBuffer
<1>11. TagsKnown => \A j \in DOMAIN Before(buffer, k) : text[Before(buffer, k)[j]] \notin Private
  <2> SUFFICES ASSUME TagsKnown, NEW j \in DOMAIN Before(buffer, k)
               PROVE  text[Before(buffer, k)[j]] \notin Private
    OBVIOUS
  <2>1. j \in DOMAIN buffer
    BY <1>4, <1>6, <1>7
  <2>2. Before(buffer, k)[j] = b + j /\ buffer[j] = b + j
    BY <1>4, <1>7, <2>1 DEF Piece
  <2> QED
    BY <1>10, <2>1, <2>2
<1>12. /\ line' \in Places /\ OrderInv'
       /\ TagsKnown /\ PrivInv => \A j \in DOMAIN line' : text[line'[j]] \notin Private
  <2>1. b + (k - 1) \in Int /\ Parsed + Len(Before(buffer, k)) <= b + (k - 1)
    BY <1>4, <1>6, <1>7
  <2> HIDE DEF b
  <2> QED
    BY <1>2, <1>7, <1>9, <1>11, <2>1, LineGrows
<1>13. TypeOK'
  <2>1. Places' = Places
    BY <1>2 DEF Places
  <2>2. buffer' \in Places
    BY <1>8 DEF Piece
  <2> QED
    BY <1>1, <1>2, <1>12, <2>1, <2>2 DEF TypeOK
<1>14. ModeInv'
  BY <1>1, <1>2, <1>5 DEF ModeInv, StopInv
<1>15. ContigInv'
  BY <1>1, <1>2, <1>4, <1>6, <1>8, <1>9 DEF ContigInv, Piece
<1>16. ASSUME TagsKnown' PROVE PrivInv'
  <2>0. TagsKnown /\ PrivInv
    BY <1>3, <1>16
  <2>1. ASSUME NEW p \in DOMAIN text, text[p] \in Private, p > b + (k - 1)
        PROVE  \E o \in (b + (k - 1)) + 1 .. p : OpenAt(text, o)
    <3>1. PICK o \in b + 1 .. p : OpenAt(text, o)
      <4>1. Outside /\ p > b
        BY <1>2, <1>4, <1>5, <1>6, <2>1 DEF Outside
      <4> QED
        BY <2>0, <2>1, <4>1 DEF PrivInv
    <3>2. \/ text[o] = "<" /\ text[o + 1] = "think"
          \/ text[o] = "<T" /\ text[o + 1] = "hink"
      BY <3>1 DEF OpenAt
    <3> DEFINE i == o - b
    <3>3. i \in Int /\ i >= 1 /\ o = b + i /\ o + 1 = b + (i + 1)
      BY <1>4
    <3> HIDE DEF i
    <3>4. CASE i < Len(buffer)
      <4>1. i \in DOMAIN buffer /\ i + 1 \in DOMAIN buffer
        BY <1>4, <3>3, <3>4
      <4>2. buffer[i] = o /\ buffer[i + 1] = o + 1
        BY <1>4, <3>3, <4>1 DEF Piece
      <4>3. \/ Is(buffer, i, "<") /\ Is(buffer, i + 1, "think")
            \/ Is(buffer, i, "<T") /\ Is(buffer, i + 1, "hink")
        BY <3>2, <4>1, <4>2 DEF Is
      <4>4. ~Is(buffer, i + 2, "ing")
        BY <1>4, <2>0, NoIng DEF Piece
      <4> QED
        BY <1>2, <4>1, <4>3, <4>4 DEF OpenTags
    <3>5. CASE i = Len(buffer)
      <4>1. i \in DOMAIN buffer
        BY <1>4, <3>3, <3>5
      <4>2. buffer[i] = o
        BY <1>4, <3>3, <4>1 DEF Piece
      <4>5. text[o] # "<T"
        <5>1. o = fed /\ fed \in 1 .. Len(text)
          BY <1>4, <3>3, <3>5, <4>1
        <5>2. fed \in cuts
          BY <1>1, <5>1 DEF ContigInv
        <5> QED
          BY <2>0, <5>1, <5>2 DEF TagsKnown
      <4>3. Is(buffer, Len(buffer), "<")
        BY <3>2, <3>5, <4>1, <4>2, <4>5 DEF Is
      <4>4. k = i
        BY <1>18, <3>5, <4>3
      <4>6. o \in (b + (k - 1)) + 1 .. p
        BY <1>4, <3>3, <4>4
      <4> QED
        BY <3>1, <4>6
    <3>6. CASE i > Len(buffer)
      <4>1. o \in (b + (k - 1)) + 1 .. p
        BY <1>4, <1>6, <3>3, <3>6
      <4> QED
        BY <3>1, <4>1
    <3>7. i < Len(buffer) \/ i = Len(buffer) \/ i > Len(buffer)
      <4>1. i \in Int /\ Len(buffer) \in Int
        BY <1>4, <3>3
      <4> QED
        BY <4>1
    <3> QED
      BY <3>4, <3>5, <3>6, <3>7
  <2>2. ASSUME NEW j \in DOMAIN buffer' PROVE text[buffer'[j]] \notin Private
    <3>1. DOMAIN buffer' = 1 .. Len(buffer')
      BY <1>8 DEF Piece, Places
    <3>2. (k - 1) + j \in DOMAIN buffer /\ b + ((k - 1) + j) = (b + (k - 1)) + j
      <4>1. j \in 1 .. Len(buffer) - (k - 1)
        BY <1>8, <3>1
      <4>2. b \in Int /\ k \in Int /\ j \in Int
        BY <1>4, <1>6, <4>1 DEF Piece
      <4>3. (k - 1) + j \in 1 .. Len(buffer)
        BY <1>4, <1>6, <4>1
      <4> QED
        BY <1>4, <4>2, <4>3
    <3>3. buffer'[j] = buffer[(k - 1) + j]
      BY <1>4, <1>8, <3>2 DEF Piece
    <3> QED
      BY <1>10, <2>0, <3>2, <3>3
  <2> QED
    BY <1>2, <1>9, <1>12, <2>0, <2>1, <2>2 DEF PrivInv, Outside
<1>17. ASSUME TagsKnown' PROVE KeptInv'
  <2>1. ASSUME NEW p \in 1 .. b + (k - 1), text[p] \in Private PROVE p \in 1 .. b
    <3>1. CASE p - b \in DOMAIN buffer
      <4>1. buffer[p - b] = b + (p - b) /\ b + (p - b) = p
        BY <1>4, <1>6, <3>1 DEF Piece
      <4> QED
        BY <1>3, <1>10, <1>17, <2>1, <3>1, <4>1
    <3>2. CASE p - b \notin DOMAIN buffer
      BY <1>4, <1>6, <3>2
    <3> QED
      BY <3>1, <3>2
  <2> QED
    BY <1>2, <1>3, <1>4, <1>9, <1>17, <2>1 DEF KeptInv, Kept
<1> QED
  BY <1>3, <1>12, <1>13, <1>14, <1>15, <1>16, <1>17 DEF ParserInv

\* The words that leave the line buffer were behind what is shown.
LEMMA NextLineInv ==
  ASSUME ParserInv, NextLine
  PROVE  ParserInv'
<1> DEFINE n == IF LineEnds = {} THEN Len(line) ELSE Least(LineEnds)
           clean == Untagged(SubSeq(line, 1, n))
<1> USE DEF input, modes, output, tags
<1>1. TypeOK /\ StopInv /\ ModeInv /\ ContigInv /\ OrderInv
  BY DEF ParserInv
<1>2. /\ pc = "lines" /\ (LineEnds # {} \/ (Flush /\ line # <<>>)) /\ line' = After(line, n)
      /\ \/ UNCHANGED <<publicTokens, truncated, shown, pc>>
         \/ Yield(clean, "lines")
      /\ UNCHANGED <<text, fed, cuts, state, buffer, monologue, sections, monoTokens,
                     failsafe, passthrough, warned, next>>
  BY DEF NextLine
<1>3. /\ text' = text /\ TextInv' /\ StopInv'
      /\ TagsKnown' => TagsKnown /\ PrivInv /\ KeptInv
  BY StepIs DEF Next
<1>4. /\ line \in Places /\ Len(line) \in Nat /\ DOMAIN line = 1 .. Len(line)
      /\ Parsed \in Nat /\ Parsed' = Parsed /\ Places' = Places
  BY <1>1, <1>2, Typed, PiecesIs DEF Parsed, Places
<1>5. n \in 1 .. Len(line)
  <2>1. CASE LineEnds = {}
    BY <1>2, <1>4, <2>1
  <2>2. CASE LineEnds # {}
    <3>1. LineEnds \in SUBSET Nat /\ LineEnds \subseteq 1 .. Len(line)
      BY <1>4 DEF LineEnds
    <3>2. Least(LineEnds) \in LineEnds
      BY <2>2, <3>1, LeastIs
    <3> QED
      BY <2>2, <3>1, <3>2
  <2> QED
    BY <2>1, <2>2
<1> HIDE DEF n
<1>6. /\ Before(line, n + 1) \in Places /\ DOMAIN Before(line, n + 1) = 1 .. n
      /\ \A j \in 1 .. n : Before(line, n + 1)[j] = line[j]
      /\ Before(line, n + 1) = SubSeq(line, 1, n)
  <2>1. n + 1 \in 1 .. Len(line) + 1 /\ (n + 1) - 1 = n
    BY <1>4, <1>5
  <2> QED
    BY <1>4, <2>1, BeforeIs DEF Places, Before
<1>7. /\ line' \in Places /\ DOMAIN line' = 1 .. Len(line) - n
      /\ \A j \in 1 .. Len(line) - n : line'[j] = line[n + j]
  <2>1. n \in 0 .. Len(line) /\ line \in Seq(1 .. Len(text))
    BY <1>4, <1>5 DEF Places
  <2>2. /\ After(line, n) \in Seq(1 .. Len(text)) /\ DOMAIN After(line, n) = 1 .. Len(line) - n
        /\ \A j \in 1 .. Len(line) - n : After(line, n)[j] = line[n + j]
    BY <2>1, AfterIs
  <2>3. line' = After(line, n)
    BY <1>2
  <2> QED
    BY <1>4, <2>2, <2>3 DEF Places
<1>8. \A i, j \in DOMAIN line : i < j => line[i] < line[j]
  BY <1>1 DEF OrderInv
<1>9. /\ clean \in Places
      /\ \A k \in DOMAIN clean : \E i \in 1 .. n : clean[k] = line[i]
      /\ \A k, l \in DOMAIN clean : k < l => clean[k] < clean[l]
  <2> DEFINE t == Before(line, n + 1)
  <2>1. \A i, j \in DOMAIN t : i < j => t[i] < t[j]
    BY <1>4, <1>5, <1>6, <1>8
  <2>2. clean = Untagged(t)
    BY <1>6
  <2> HIDE DEF t
  <2>3. /\ Untagged(t) \in Places
        /\ \A k \in DOMAIN Untagged(t) : \E i \in DOMAIN t : Untagged(t)[k] = t[i]
        /\ \A k, l \in DOMAIN Untagged(t) : k < l => Untagged(t)[k] < Untagged(t)[l]
    BY <1>6, <2>1, UntaggedIs DEF t, Places
  <2> QED
    BY <1>6, <2>2, <2>3 DEF t
<1> HIDE DEF clean
<1>10. \A j \in DOMAIN line' : \E i \in DOMAIN line : n < i /\ line'[j] = line[i]
  <2> SUFFICES ASSUME NEW j \in DOMAIN line'
               PROVE  \E i \in DOMAIN line : n < i /\ line'[j] = line[i]
    OBVIOUS
  <2>1. n + j \in DOMAIN line /\ n < n + j /\ line'[j] = line[n + j]
    BY <1>4, <1>5, <1>7
  <2> QED
    BY <2>1
<1>11. \A i, j \in DOMAIN line' : i < j => line'[i] < line'[j]
  <2> SUFFICES ASSUME NEW i \in DOMAIN line', NEW j \in DOMAIN line', i < j
               PROVE  line'[i] < line'[j]
    OBVIOUS
  <2>1. n + i \in DOMAIN line /\ n + j \in DOMAIN line /\ n + i < n + j
    BY <1>4, <1>5, <1>7
  <2>2. line[n + i] < line[n + j]
    BY <1>8, <2>1
  <2> QED
    BY <1>7, <2>2
<1>12. /\ \A i \in DOMAIN shown : shown[i] <= Parsed /\ \A j \in DOMAIN line' : shown[i] < line'[j]
       /\ \A i \in DOMAIN line' : line'[i] <= Parsed
       /\ PrivInv => \A i \in DOMAIN line' : text[line'[i]] \notin Private
  BY <1>1, <1>10 DEF OrderInv, PrivInv
<1>13. /\ truncated' \in BOOLEAN /\ publicTokens' \in Nat /\ shown' \in Places /\ InOrder'
       /\ \A k \in DOMAIN shown' :
            \/ \E i \in DOMAIN shown : shown'[k] = shown[i]
            \/ \E i \in 1 .. n : shown'[k] = line[i]
       /\ \A i \in DOMAIN shown : \E k \in DOMAIN shown' : shown'[k] = shown[i]
       /\ pc' \in {"lines", "final"} /\ (truncated' \/ (~truncated' /\ pc' = "lines"))
  <2>1. CASE UNCHANGED <<publicTokens, truncated, shown, pc>>
    BY <1>1, <1>2, <2>1 DEF TypeOK, InOrder, OrderInv, StopInv
  <2>2. CASE Yield(clean, "lines")
    <3>1. /\ publicTokens' \in Nat /\ truncated' \in BOOLEAN /\ shown' = shown \o clean
          /\ (truncated' => pc' = "final") /\ (~truncated' => pc' = "lines")
      BY <1>1, <1>9, <2>2, YieldIs
    <3>2. \A i \in DOMAIN shown, k \in DOMAIN clean : shown[i] < clean[k]
      <4>1. \A i \in DOMAIN shown : \A j \in 1 .. n : shown[i] < line[j]
        BY <1>1, <1>4, <1>5 DEF OrderInv
      <4> QED
        BY <1>9, <4>1
    <3>3. /\ shown' \in Places /\ InOrder'
          /\ \A k \in DOMAIN shown' :
               (\E i \in DOMAIN shown : shown'[k] = shown[i]) \/ (\E i \in DOMAIN clean : shown'[k] = clean[i])
          /\ \A i \in DOMAIN shown : \E k \in DOMAIN shown' : shown'[k] = shown[i]
      BY <1>9, <3>1, <3>2, ShownGrows
    <3>4. \A k \in DOMAIN shown' :
            \/ \E i \in DOMAIN shown : shown'[k] = shown[i]
            \/ \E i \in 1 .. n : shown'[k] = line[i]
      BY <1>9, <3>3
    <3> QED
      BY <3>1, <3>3, <3>4
  <2> QED
    BY <1>2, <2>1, <2>2
<1>14. TypeOK'
  BY <1>1, <1>2, <1>4, <1>7, <1>13 DEF TypeOK
<1>15. ModeInv'
  <2>1. ~passthrough
    BY <1>1, <1>2, <1>4, <1>5 DEF ModeInv
  <2> QED
    BY <1>1, <1>2, <1>13, <2>1 DEF ModeInv, StopInv
<1>16. ContigInv'
  BY <1>1, <1>2, <1>4 DEF ContigInv
<1>17. OrderInv'
  <2>1. ASSUME NEW k \in DOMAIN shown'
        PROVE  shown'[k] <= Parsed /\ \A j \in DOMAIN line' : shown'[k] < line'[j]
    <3>1. CASE \E i \in DOMAIN shown : shown'[k] = shown[i]
      BY <1>12, <3>1
    <3>2. CASE \E i \in 1 .. n : shown'[k] = line[i]
      <4>1. PICK i \in 1 .. n : shown'[k] = line[i]
        BY <3>2
      <4>2. i \in DOMAIN line /\ line[i] <= Parsed
        BY <1>1, <1>4, <1>5 DEF OrderInv
      <4>3. \A j \in DOMAIN line : n < j => line[i] < line[j]
        BY <1>4, <1>5, <1>8, <4>2
      <4> QED
        BY <1>10, <4>1, <4>2, <4>3
    <3> QED
      BY <1>13, <3>1, <3>2
  <2> QED
    BY <1>4, <1>11, <1>12, <1>13, <2>1 DEF OrderInv
<1>18. ASSUME TagsKnown' PROVE PrivInv'
  <2>0. PrivInv
    BY <1>3, <1>18
  <2>1. ASSUME ~failsafe', NEW k \in DOMAIN shown' PROVE text[shown'[k]] \notin Private
    <3>1. CASE \E i \in DOMAIN shown : shown'[k] = shown[i]
      BY <1>2, <2>0, <2>1, <3>1 DEF PrivInv
    <3>2. CASE \E i \in 1 .. n : shown'[k] = line[i]
      BY <1>4, <1>5, <2>0, <3>2 DEF PrivInv
    <3> QED
      BY <1>13, <3>1, <3>2
  <2>2. Outside' => Outside
    BY <1>2, <1>13 DEF Outside
  <2> QED
    BY <1>2, <1>12, <2>0, <2>1, <2>2 DEF PrivInv
<1>19. TagsKnown' => KeptInv'
  <2>1. Kept' = Kept /\ pc' # "done"
    BY <1>2, <1>13 DEF Kept
  <2> QED
    BY <1>2, <1>3, <1>4, <1>13, <2>1 DEF KeptInv
<1> QED
  BY <1>3, <1>14, <1>15, <1>16, <1>17, <1>18, <1>19 DEF ParserInv

LEMMA NoMoreLinesInv ==
  ASSUME ParserInv, NoMoreLines
  PROVE  ParserInv'
<1> USE DEF input, modes, output
<1>1. TypeOK /\ StopInv /\ ModeInv /\ ContigInv /\ OrderInv
  BY DEF ParserInv
<1>2. /\ pc = "lines" /\ (Flush => line = <<>>) /\ state = 1
      /\ pc' = (IF next = "enter" THEN "scan" ELSE next)
      /\ state' = (IF next = "enter" THEN 0 ELSE state)
      /\ UNCHANGED <<text, fed, cuts, buffer, monologue, sections, monoTokens, line,
                     publicTokens, truncated, shown, failsafe, passthrough, warned, next>>
  BY <1>1 DEF NoMoreLines, StopInv
<1>3. /\ text' = text /\ TextInv' /\ StopInv'
      /\ TagsKnown' => TagsKnown /\ PrivInv /\ KeptInv
  BY StepIs DEF Next
<1>4. Places' = Places /\ Parsed' = Parsed /\ Kept' = Kept /\ next \in {"read", "enter", "final"}
  BY <1>1, <1>2 DEF Places, Parsed, Kept, TypeOK
<1>5. TypeOK'
  BY <1>1, <1>2, <1>4 DEF TypeOK
<1>6. ModeInv'
  BY <1>1, <1>2, <1>4 DEF ModeInv, Flush
<1>7. ContigInv'
  BY <1>1, <1>2, <1>4 DEF ContigInv
<1>8. OrderInv'
  BY <1>1, <1>2, <1>4 DEF OrderInv, InOrder
<1>9. TagsKnown' => PrivInv'
  <2>1. Outside' => Outside /\ pc' = "read" /\ pc # "scan"
    BY <1>2, <1>4 DEF Outside
  <2> QED
    BY <1>2, <1>3, <2>1 DEF PrivInv
<1>10. TagsKnown' => KeptInv'
  BY <1>2, <1>3, <1>4 DEF KeptInv
<1> QED
  BY <1>3, <1>5, <1>6, <1>7, <1>8, <1>9, <1>10 DEF ParserInv

LEMMA FindCloseTagInv ==
  ASSUME ParserInv, FindCloseTag
  PROVE  ParserInv'
<1> DEFINE i == Least(CloseTags(buffer))
           e == CloseEnd(buffer, i)
           b == fed - Len(buffer)
           t == monologue \o Before(buffer, i)
<1> USE DEF input, modes, output
<1>1. TypeOK /\ StopInv /\ TextInv /\ ModeInv /\ ContigInv /\ OrderInv
  BY DEF ParserInv
<1>2. /\ pc = "scan" /\ state = 0 /\ CloseTags(buffer) # {}
      /\ sections' = sections \o Untagged(t) /\ buffer' = After(buffer, e)
      /\ monologue' = <<>> /\ state' = 1
      /\ UNCHANGED <<text, fed, cuts, monoTokens, line, publicTokens, truncated, shown,
                     failsafe, passthrough, warned, pc, next>>
  BY DEF FindCloseTag, Section
<1>3. /\ text' = text /\ TextInv' /\ StopInv'
      /\ TagsKnown' => TagsKnown /\ PrivInv /\ KeptInv
  BY StepIs DEF Next
<1>4. /\ Piece(buffer, b) /\ Piece(monologue, Parsed)
  BY <1>1, PiecesIs
<1>5. /\ Parsed + Len(monologue) = b /\ Parsed \in Nat /\ Len(monologue) \in Nat /\ fed \in Nat
      /\ Len(buffer) \in Nat /\ DOMAIN buffer = 1 .. Len(buffer) /\ b \in Int
      /\ fed <= Len(text) /\ Len(text) \in Nat /\ DOMAIN text = 1 .. Len(text)
  BY <1>1, PiecesIs, Typed
<1>6. ~passthrough /\ ~truncated /\ line = <<>>
  BY <1>1, <1>2 DEF StopInv, ModeInv
<1>7. i \in CloseTags(buffer)
  <2>1. CloseTags(buffer) \in SUBSET Nat
    BY <1>5 DEF CloseTags
  <2> QED
    BY <1>2, <2>1, LeastIs
<1>8. /\ i \in 1 .. Len(buffer) /\ i + 1 \in 1 .. Len(buffer) /\ e \in i + 1 .. Len(buffer)
      /\ \A j \in i .. e : text[buffer[j]] \in {"</", "think", ">"}
  BY <1>4, <1>7, CloseEndIs DEF Piece, Places
<1>9. text[buffer[i]] = "</" /\ text[buffer[i + 1]] = "think"
  BY <1>7 DEF CloseTags, Is
<1> HIDE DEF i, e
<1>10. Piece(t, Parsed) /\ Len(t) = Len(monologue) + (i - 1)
  <2>1. i \in 1 .. Len(buffer) + 1
    BY <1>5, <1>8
  <2>2. Piece(Before(buffer, i), Parsed + Len(monologue)) /\ Len(Before(buffer, i)) = i - 1
    BY <1>4, <1>5, <2>1, PieceBefore
  <2> QED
    BY <1>4, <2>2, PieceConcat
<1>11. Piece(buffer', b + e) /\ Len(buffer') = Len(buffer) - e
  <2>1. e \in 0 .. Len(buffer)
    BY <1>5, <1>8
  <2> QED
    BY <1>2, <1>4, <2>1, PieceAfter
<1> HIDE DEF t
<1>12. Parsed' = b + e /\ fed' - Len(buffer') = b + e
  <2>1. fed' = fed /\ Len(monologue') = 0 /\ Len(buffer') = Len(buffer) - e
    BY <1>2, <1>11
  <2>2. fed \in Nat /\ Len(buffer) \in Nat /\ e \in Int
    BY <1>5, <1>8
  <2> QED
    BY <2>1, <2>2 DEF Parsed
<1>13. /\ sections' \in Places
       /\ \A p \in Kept : p \in Kept'
       /\ \A p \in Parsed + 1 .. Parsed + Len(t) : text[p] \in Private => p \in Kept'
  BY <1>2, <1>10, SectionsGrow
<1>14. TypeOK'
  <2>1. Places' = Places /\ \A S : <<>> \in Seq(S)
    BY <1>2 DEF Places
  <2>2. buffer' \in Places /\ monologue' \in Places
    BY <1>2, <1>11, <2>1 DEF Piece, Places
  <2> QED
    BY <1>1, <1>2, <1>13, <2>1, <2>2 DEF TypeOK
<1>15. ModeInv'
  BY <1>1, <1>2, <1>6 DEF ModeInv
<1>16. ContigInv'
  BY <1>1, <1>2, <1>5, <1>8, <1>11, <1>12 DEF ContigInv, Piece
<1>17. OrderInv'
  <2>1. \A k \in DOMAIN shown : shown[k] <= b + e
    <3>1. \A k \in DOMAIN shown : shown[k] \in Int /\ shown[k] <= Parsed
      BY <1>1, Typed DEF OrderInv, Places
    <3>2. Parsed <= b + e
      BY <1>5, <1>8
    <3>3. Parsed \in Int /\ b + e \in Int
      BY <1>5, <1>8
    <3> QED
      BY <3>1, <3>2, <3>3
  <2> QED
    BY <1>1, <1>2, <1>6, <1>12, <2>1 DEF OrderInv, InOrder
<1>18. \A j \in 1 .. Len(buffer) : buffer[j] = b + j
  BY <1>4, <1>5 DEF Piece
<1>19. TagsKnown' => PrivInv'
  <2>1. ASSUME NEW p \in DOMAIN text, text[p] \in Private, p > b + e
        PROVE  \E o \in (b + e) + 1 .. p : OpenAt(text, o)
    <3>1. CloseAt(text, b + i) /\ b + i \in 1 .. p
      <4>1. buffer[i] = b + i /\ buffer[i + 1] = (b + i) + 1
        BY <1>5, <1>8, <1>18
      <4>2. (b + i) + 1 \in DOMAIN text /\ b + i \in 1 .. p
        BY <1>5, <1>8, <2>1
      <4> QED
        BY <1>9, <4>1, <4>2 DEF CloseAt
    <3>2. PICK o \in b + i .. p : OpenAt(text, o)
      BY <1>1, <2>1, <3>1 DEF TextInv
    <3>3. text[o] \in {"<", "<T"}
      BY <3>2 DEF OpenAt
    <3>4. ~(o <= b + e)
      <4> SUFFICES ASSUME o <= b + e PROVE FALSE
        OBVIOUS
      <4>1. o - b \in i .. e /\ o - b \in 1 .. Len(buffer) /\ b + (o - b) = o
        BY <1>5, <1>8, <3>2
      <4>2. text[o] \in {"</", "think", ">"}
        BY <1>8, <1>18, <4>1
      <4> QED
        BY <3>3, <4>2
    <3>5. o \in (b + e) + 1 .. p
      BY <1>5, <1>8, <3>2, <3>4
    <3> QED
      BY <3>2, <3>5
  <2> QED
    BY <1>2, <1>3, <1>6, <1>12, <2>1 DEF PrivInv, Outside
<1>20. ASSUME TagsKnown' PROVE KeptInv'
  <2>1. ASSUME NEW p \in 1 .. b + e, text[p] \in Private
        PROVE  p \in Kept' \/ \E k \in DOMAIN shown : shown[k] = p
    <3>1. CASE p \in 1 .. Parsed
      BY <1>3, <1>13, <1>20, <2>1, <3>1 DEF KeptInv
    <3>2. CASE p \in Parsed + 1 .. Parsed + Len(t)
      BY <1>13, <2>1, <3>2
    <3>3. CASE p > Parsed + Len(t)
      <4>0. b + i <= p /\ p <= b + e /\ p \in Int /\ b \in Int
        <5>1. b \in Int /\ e \in Int /\ i \in Int
          BY <1>5, <1>8
        <5>2. Parsed + Len(t) = Parsed + (Len(monologue) + (i - 1))
          BY <1>10
        <5>3. Len(monologue) \in Int /\ Parsed \in Int /\ Parsed + Len(monologue) = b
          BY <1>5
        <5>4. p \in 1 .. b + e
          BY <2>1
        <5> HIDE DEF b, Parsed
        <5> QED
          BY <3>3, <5>1, <5>2, <5>3, <5>4
      <4> HIDE DEF b
      <4>1. p - b \in i .. e /\ p - b \in 1 .. Len(buffer) /\ b + (p - b) = p
        BY <1>5, <1>8, <4>0
      <4>2. buffer[p - b] = p
        BY <1>18, <4>1
      <4>3. text[p] \in {"</", "think", ">"}
        BY <1>8, <4>1, <4>2
      <4> QED
        BY <2>1, <4>3 DEF Private
    <3>4. p \in 1 .. Parsed \/ p \in Parsed + 1 .. Parsed + Len(t) \/ p > Parsed + Len(t)
      <4>1. p \in Int /\ p >= 1 /\ Parsed \in Int /\ Parsed + Len(t) \in Int
        BY <1>5, <1>8, <1>10
      <4> QED
        BY <4>1
    <3> QED
      BY <3>1, <3>2, <3>3, <3>4
  <2> QED
    BY <1>2, <1>12, <2>1 DEF KeptInv
<1> QED
  BY <1>3, <1>14, <1>15, <1>16, <1>17, <1>19, <1>20 DEF ParserInv

\* All of the buffer becomes monologue.
LEMMA MonologueGrows ==
  ASSUME ParserInv, text' = text, fed' = fed, cuts' = cuts,
         monologue' = monologue \o buffer, buffer' = <<>>
  PROVE  monologue' \in Places /\ buffer' \in Places /\ Parsed' = Parsed /\ ContigInv'
<1>1. Piece(buffer, fed - Len(buffer)) /\ Piece(monologue, Parsed)
  BY PiecesIs
<1>2. /\ Parsed + Len(monologue) = fed - Len(buffer) /\ Parsed \in Nat /\ Len(monologue) \in Nat
      /\ fed \in Nat /\ Len(buffer) \in Nat
  BY PiecesIs
<1>3. Piece(monologue', Parsed) /\ Len(monologue') = Len(monologue) + Len(buffer)
  BY <1>1, <1>2, PieceConcat
<1>4. Parsed' = Parsed
  BY <1>2, <1>3 DEF Parsed
<1>5. \A S : <<>> \in Seq(S)
  OBVIOUS
<1>6. fed \in cuts \cup {0}
  BY DEF ParserInv, ContigInv
<1> QED
  BY <1>2, <1>3, <1>4, <1>5, <1>6 DEF ContigInv, Piece, Places

LEMMA NoCloseTagInv ==
  ASSUME ParserInv, NoCloseTag
  PROVE  ParserInv'
<1> DEFINE t == monologue \o buffer
           u == Untagged(t)
<1> USE DEF input, modes, output
<1>1. TypeOK /\ StopInv /\ ModeInv /\ ContigInv /\ OrderInv
  BY DEF ParserInv
<1>2. /\ pc = "scan" /\ state = 0 /\ buffer' = <<>> /\ monoTokens' = monoTokens + Words(buffer)
      /\ pc' = "read"
      /\ UNCHANGED <<text, fed, cuts, line, publicTokens, truncated, warned, next>>
      /\ \/ /\ monologue' = t
            /\ UNCHANGED <<state, sections, shown, failsafe, passthrough>>
         \/ /\ sections' = sections \o u /\ shown' = shown \o u
            /\ monologue' = <<>> /\ state' = 1 /\ failsafe' = TRUE /\ passthrough' = TRUE
  BY DEF NoCloseTag, Section
<1>3. /\ text' = text /\ TextInv' /\ StopInv'
      /\ TagsKnown' => TagsKnown /\ PrivInv /\ KeptInv
  BY StepIs DEF Next
<1>4. ~truncated /\ ~passthrough /\ line = <<>>
  BY <1>1, <1>2 DEF StopInv, ModeInv
<1>5. Places' = Places /\ monoTokens' \in Nat /\ \A S : <<>> \in Seq(S)
  <2>1. Words(buffer) \in Nat
    BY <1>1, Typed, WordsIs DEF Places
  <2> QED
    BY <1>1, <1>2, <2>1 DEF Places, TypeOK
<1>6. CASE monologue' = t /\ UNCHANGED <<state, sections, shown, failsafe, passthrough>>
  <2>1. monologue' \in Places /\ buffer' \in Places /\ Parsed' = Parsed /\ ContigInv'
    BY <1>2, <1>6, MonologueGrows
  <2>2. TypeOK'
    BY <1>1, <1>2, <1>5, <1>6, <2>1 DEF TypeOK
  <2>3. ModeInv'
    BY <1>1, <1>2, <1>4, <1>6 DEF ModeInv
  <2>4. OrderInv'
    BY <1>1, <1>2, <1>6, <2>1 DEF OrderInv, InOrder
  <2>5. TagsKnown' => PrivInv'
    BY <1>2, <1>3, <1>6 DEF PrivInv, Outside
  <2>6. TagsKnown' => KeptInv'
    BY <1>2, <1>3, <1>6, <2>1 DEF KeptInv, Kept
  <2> QED
    BY <1>3, <2>1, <2>2, <2>3, <2>4, <2>5, <2>6 DEF ParserInv
<1>7. CASE /\ sections' = sections \o u /\ shown' = shown \o u
           /\ monologue' = <<>> /\ state' = 1 /\ failsafe' = TRUE /\ passthrough' = TRUE
  <2>1. Piece(buffer, fed - Len(buffer)) /\ Piece(monologue, Parsed)
    BY PiecesIs
  <2>2. /\ Parsed + Len(monologue) = fed - Len(buffer) /\ Parsed \in Nat /\ Len(monologue) \in Nat
        /\ fed \in Nat /\ Len(buffer) \in Nat
    BY PiecesIs
  <2>3. Piece(t, Parsed) /\ Len(t) = Len(monologue) + Len(buffer)
    BY <2>1, <2>2, PieceConcat
  <2> HIDE DEF t
  <2>4. Parsed + Len(t) = fed /\ Parsed' = fed /\ fed' = fed /\ Len(buffer') = 0
    BY <1>2, <1>7, <2>2, <2>3 DEF Parsed
  <2>5. /\ u \in Places
        /\ \A k, l \in DOMAIN u : k < l => u[k] < u[l]
        /\ \A k \in DOMAIN u : u[k] \in Parsed + 1 .. Parsed + Len(t)
    BY <2>3, PieceUntagged
  <2>6. /\ sections' \in Places
        /\ \A p \in Kept : p \in Kept'
        /\ \A p \in Parsed + 1 .. Parsed + Len(t) : text[p] \in Private => p \in Kept'
    BY <1>2, <1>7, <2>3, SectionsGrow
  <2> HIDE DEF u
  <2>7. \A i \in DOMAIN shown : shown[i] \in Int /\ shown[i] <= Parsed
    BY <1>1, Typed DEF OrderInv, Places
  <2>8. \A i \in DOMAIN u : u[i] \in Int /\ u[i] > Parsed /\ u[i] <= fed
    BY <2>2, <2>4, <2>5
  <2>9. /\ shown' \in Places /\ InOrder'
        /\ \A k \in DOMAIN shown' :
             (\E i \in DOMAIN shown : shown'[k] = shown[i]) \/ (\E i \in DOMAIN u : shown'[k] = u[i])
        /\ \A i \in DOMAIN shown : \E k \in DOMAIN shown' : shown'[k] = shown[i]
    <3>1. \A i \in DOMAIN shown, k \in DOMAIN u : shown[i] < u[k]
      BY <2>2, <2>7, <2>8
    <3> QED
      BY <1>7, <2>5, <3>1, ShownGrows
  <2>10. TypeOK'
    <3>1. buffer' \in Places /\ monologue' \in Places
      BY <1>2, <1>5, <1>7 DEF Places
    <3> QED
      BY <1>1, <1>2, <1>5, <1>7, <2>6, <2>9, <3>1 DEF TypeOK
  <2>11. ModeInv'
    BY <1>1, <1>2, <1>4, <1>7 DEF ModeInv
  <2>12. ContigInv'
    BY <1>1, <1>2, <1>7, <2>2, <2>4 DEF ContigInv
  <2>13. OrderInv'
    <3>1. \A k \in DOMAIN shown' : shown'[k] <= fed
      <4>1. \A i \in DOMAIN shown : shown[i] <= fed
        BY <2>2, <2>4, <2>7
      <4> QED
        BY <2>8, <2>9, <4>1
    <3> QED
      BY <1>2, <1>4, <2>4, <2>9, <3>1 DEF OrderInv
  <2>14. TagsKnown' => PrivInv'
    BY <1>2, <1>3, <1>4, <1>7 DEF PrivInv, Outside
  <2>15. ASSUME TagsKnown' PROVE KeptInv'
    <3>1. ASSUME NEW p \in 1 .. fed, text[p] \in Private
          PROVE  p \in Kept' \/ \E k \in DOMAIN shown' : shown'[k] = p
      <4>1. p \in 1 .. Parsed \/ p \in Parsed + 1 .. Parsed + Len(t)
        BY <2>2, <2>4
      <4>2. CASE p \in 1 .. Parsed
        BY <1>3, <2>6, <2>9, <2>15, <3>1, <4>2 DEF KeptInv
      <4>3. CASE p \in Parsed + 1 .. Parsed + Len(t)
        BY <2>6, <3>1, <4>3
      <4> QED
        BY <4>1, <4>2, <4>3
    <3> QED
      BY <1>2, <2>4, <3>1 DEF KeptInv
  <2> QED
    BY <1>3, <2>10, <2>11, <2>12, <2>13, <2>14, <2>15 DEF ParserInv
<1> QED
  BY <1>2, <1>6, <1>7

LEMMA EndOfStreamInv ==
  ASSUME ParserInv, EndOfStream
  PROVE  ParserInv'
<1> USE DEF input, modes, output
<1>1. TypeOK /\ StopInv /\ ModeInv /\ ContigInv /\ OrderInv
  BY DEF ParserInv
<1>2. /\ pc = "read" /\ buffer' = <<>> /\ next' = "final"
      /\ line' = (IF state = 1 THEN line \o buffer ELSE line)
      /\ monologue' = (IF state = 0 THEN monologue \o buffer ELSE monologue)
      /\ pc' = (IF state = 1 THEN "lines" ELSE "final")
      /\ UNCHANGED <<text, fed, cuts, state, sections, monoTokens, publicTokens, truncated,
                     shown, failsafe, passthrough, warned>>
  BY DEF EndOfStream
<1>3. /\ text' = text /\ TextInv' /\ StopInv'
      /\ TagsKnown' => TagsKnown /\ PrivInv /\ KeptInv
  BY StepIs DEF Next
<1>4. Places' = Places /\ Kept' = Kept /\ \A S : <<>> \in Seq(S)
  BY <1>2 DEF Places, Kept
<1>5. CASE state = 0
  <2>1. monologue' \in Places /\ buffer' \in Places /\ Parsed' = Parsed /\ ContigInv'
    BY <1>2, <1>5, MonologueGrows
  <2>2. TypeOK'
    BY <1>1, <1>2, <1>4, <1>5, <2>1 DEF TypeOK
  <2>3. ModeInv'
    BY <1>1, <1>2, <1>5 DEF ModeInv
  <2>4. OrderInv'
    BY <1>1, <1>2, <1>5, <2>1 DEF OrderInv, InOrder
  <2>5. TagsKnown' => PrivInv'
    BY <1>2, <1>3, <1>5 DEF PrivInv, Outside
  <2>6. TagsKnown' => KeptInv'
    BY <1>2, <1>3, <1>4, <1>5, <2>1 DEF KeptInv
  <2> QED
    BY <1>3, <2>1, <2>2, <2>3, <2>4, <2>5, <2>6 DEF ParserInv
<1>6. CASE state = 1
  <2>1. /\ line' = line \o buffer /\ monologue' = monologue /\ monologue = <<>> /\ pc' = "lines"
    BY <1>1, <1>2, <1>6 DEF ModeInv
  <2>2. Piece(buffer, Parsed)
    BY <1>6, PiecesIs
  <2>3. /\ Parsed + Len(buffer) = fed /\ Parsed \in Nat /\ fed \in Nat /\ Len(buffer) \in Nat
        /\ Parsed = fed - Len(buffer)
    BY <1>6, PiecesIs
  <2>4. Parsed' = fed
    BY <1>2, <2>1, <2>3 DEF Parsed
  <2>5. passthrough => buffer = <<>> /\ line = <<>>
    BY <1>1 DEF ModeInv
  <2>6. ASSUME PrivInv PROVE \A i \in DOMAIN buffer : text[buffer[i]] \notin Private
    <3>1. CASE passthrough
      BY <2>5, <3>1
    <3>2. CASE ~passthrough
      BY <1>2, <1>6, <2>6, <3>2 DEF PrivInv, Outside
    <3> QED
      BY <3>1, <3>2
  <2>7. /\ line' \in Places /\ OrderInv'
        /\ PrivInv => \A i \in DOMAIN line' : text[line'[i]] \notin Private
    <3>1. Parsed + Len(buffer) <= fed /\ fed \in Int
      BY <2>3
    <3> QED
      BY <1>2, <2>1, <2>2, <2>4, <2>6, <3>1, LineGrows
  <2>8. TypeOK'
    BY <1>1, <1>2, <1>4, <2>1, <2>7 DEF TypeOK, Places
  <2>9. ModeInv'
    <3>1. passthrough => line' = <<>>
      BY <2>1, <2>5
    <3> QED
      BY <1>1, <1>2, <2>1, <3>1, <1>6 DEF ModeInv
  <2>10. ContigInv'
    BY <1>1, <1>2, <2>1, <2>3, <2>4 DEF ContigInv
  <2>11. TagsKnown' => PrivInv'
    BY <1>2, <1>3, <2>1, <2>7 DEF PrivInv, Outside
  <2>12. ASSUME TagsKnown' PROVE KeptInv'
    <3>1. ASSUME NEW p \in 1 .. fed, text[p] \in Private PROVE p \in 1 .. Parsed
      <4> SUFFICES ASSUME ~(p <= Parsed) PROVE FALSE
        BY <2>3
      <4>1. p - Parsed \in 1 .. Len(buffer) /\ Parsed + (p - Parsed) = p
        BY <2>3
      <4>2. p - Parsed \in DOMAIN buffer /\ buffer[p - Parsed] = p
        BY <1>1, <2>2, <4>1, Typed DEF Piece
      <4> QED
        BY <1>3, <2>6, <2>12, <3>1, <4>2
    <3> QED
      BY <1>2, <1>3, <1>4, <2>1, <2>4, <2>12, <3>1 DEF KeptInv
  <2> QED
    BY <1>3, <2>7, <2>8, <2>9, <2>10, <2>11, <2>12 DEF ParserInv
<1> QED
  BY <1>1, <1>5, <1>6 DEF TypeOK

LEMMA FinishInv ==
  ASSUME ParserInv, Finish
  PROVE  ParserInv'
<1> DEFINE rest == IF state = 0 THEN Untagged(monologue) ELSE <<>>
           default == rest # <<>> /\ shown = <<>>
<1> USE DEF input, modes, output
<1>1. TypeOK /\ StopInv /\ ModeInv /\ ContigInv /\ OrderInv
  BY DEF ParserInv
<1>2. /\ pc = "final" /\ pc' = "done" /\ sections' = sections \o rest
      /\ failsafe' = (failsafe \/ default)
      /\ shown' = (IF default THEN WithoutBleed(rest) ELSE shown)
      /\ warned' = HasWarning(sections')
      /\ monologue' = (IF state = 0 THEN <<>> ELSE monologue)
      /\ state' = (IF monologue = <<>> THEN state ELSE 1)
      /\ UNCHANGED <<text, fed, cuts, buffer, monoTokens, line, publicTokens, truncated,
                     passthrough, next>>
  BY DEF Finish
<1>3. /\ text' = text /\ TextInv' /\ StopInv'
      /\ TagsKnown' => TagsKnown /\ PrivInv /\ KeptInv
  BY StepIs DEF Next
<1>4. Places' = Places /\ \A S : <<>> \in Seq(S)
  BY <1>2 DEF Places
<1>5. /\ state = 1 => rest = <<>> /\ monologue = <<>>
      /\ state = 0 => rest = Untagged(monologue) /\ line = <<>> /\ ~truncated /\ buffer = <<>>
      /\ state \in {0, 1} /\ monologue' = <<>> /\ state' \in {0, 1}
      /\ (state = 1 => state' = 1)
  BY <1>1, <1>2 DEF ModeInv, StopInv, TypeOK
<1>6. Piece(monologue, Parsed)
  BY PiecesIs
<1>7. /\ Parsed \in Nat /\ Len(monologue) \in Nat /\ fed \in Nat /\ Len(buffer) \in Nat
      /\ Parsed + Len(monologue) = fed - Len(buffer)
  BY PiecesIs
<1>8. Parsed' = fed - Len(buffer)
  BY <1>2, <1>5, <1>7 DEF Parsed
<1>9. /\ Untagged(monologue) \in Places
      /\ \A k, l \in DOMAIN Untagged(monologue) : k < l => Untagged(monologue)[k] < Untagged(monologue)[l]
      /\ \A k \in DOMAIN Untagged(monologue) :
           Untagged(monologue)[k] \in Parsed + 1 .. Parsed + Len(monologue)
  BY <1>6, PieceUntagged
<1>10. /\ rest \in Places
       /\ \A k, l \in DOMAIN rest : k < l => rest[k] < rest[l]
       /\ \A k \in DOMAIN rest : rest[k] \in Int /\ rest[k] <= fed - Len(buffer)
  <2>1. CASE state = 0
    BY <1>5, <1>7, <1>9, <2>1
  <2>2. CASE state = 1
    BY <1>4, <1>5, <2>2 DEF Places
  <2> QED
    BY <1>5, <2>1, <2>2
<1>11. /\ sections' \in Places /\ \A p \in Kept : p \in Kept'
       /\ \A p \in Parsed + 1 .. Parsed + Len(monologue) : text[p] \in Private => p \in Kept'
  <2>1. CASE state = 0
    BY <1>2, <1>5, <1>6, <2>1, SectionsGrow
  <2>2. CASE state = 1
    <3>1. sections' = sections
      <4>1. sections \in Seq(1 .. Len(text))
        BY <1>1, Typed DEF Places
      <4> QED
        BY <1>2, <1>5, <2>2, <4>1, ConcatEmptySeq
    <3>2. Len(monologue) = 0
      BY <1>5, <2>2
    <3> QED
      BY <1>1, <1>7, <3>1, <3>2, Typed DEF Kept
  <2> QED
    BY <1>5, <2>1, <2>2
<1> HIDE DEF rest
<1>12. /\ WithoutBleed(rest) \in Places
       /\ \A k \in DOMAIN WithoutBleed(rest) : \E i \in DOMAIN rest : WithoutBleed(rest)[k] = rest[i]
       /\ \A k, l \in DOMAIN WithoutBleed(rest) : k < l => WithoutBleed(rest)[k] < WithoutBleed(rest)[l]
  BY <1>10, WithoutBleedIs DEF Places
<1>13. default => state = 0 /\ line = <<>>
  BY <1>5
<1> HIDE DEF default
<1>14. TypeOK'
  <2>1. shown' \in Places /\ monologue' \in Places
    BY <1>1, <1>2, <1>4, <1>5, <1>12, Typed DEF Places
  <2>2. {failsafe', warned'} \subseteq BOOLEAN
    BY <1>1, <1>2 DEF TypeOK, HasWarning, default
  <2> QED
    BY <1>1, <1>2, <1>4, <1>5, <1>11, <2>1, <2>2 DEF TypeOK
<1>15. ModeInv'
  <2>1. warned' = HasWarning(sections)'
    BY <1>2 DEF HasWarning, Is
  <2> QED
    BY <1>1, <1>2, <1>5, <2>1 DEF ModeInv
<1>16. ContigInv'
  BY <1>1, <1>2, <1>5, <1>7, <1>8 DEF ContigInv
<1>17. OrderInv'
  <2>1. CASE default
    <3>1. shown' = WithoutBleed(rest) /\ line' = <<>>
      BY <1>2, <1>13, <2>1
    <3>2. \A k \in DOMAIN shown' : shown'[k] <= fed - Len(buffer)
      BY <1>10, <1>12, <3>1
    <3> QED
      BY <1>8, <1>12, <3>1, <3>2 DEF OrderInv, InOrder
  <2>2. CASE ~default
    <3>1. \A k \in DOMAIN shown : shown[k] <= Parsed /\ shown[k] \in Int
      BY <1>1, Typed DEF OrderInv, Places
    <3>2. \A k \in DOMAIN line : line[k] <= Parsed /\ line[k] \in Int
      BY <1>1, Typed DEF OrderInv, Places
    <3>3. Parsed <= fed - Len(buffer) /\ Parsed \in Int /\ fed - Len(buffer) \in Int
      BY <1>7
    <3>4. /\ \A k \in DOMAIN shown : shown[k] <= fed - Len(buffer)
          /\ \A k \in DOMAIN line : line[k] <= fed - Len(buffer)
      BY <3>1, <3>2, <3>3
    <3>5. shown' = shown /\ line' = line
      BY <1>2, <2>2
    <3> QED
      BY <1>1, <1>8, <3>4, <3>5 DEF OrderInv, InOrder
  <2> QED
    BY <2>1, <2>2
<1>18. ASSUME TagsKnown' PROVE PrivInv'
  <2>1. ~failsafe' => ~failsafe /\ shown' = shown
    BY <1>1, <1>2 DEF TypeOK
  <2> QED
    BY <1>2, <1>3, <1>18, <2>1 DEF PrivInv, Outside
<1>19. ASSUME TagsKnown' PROVE KeptInv'
  <2>1. ASSUME NEW p \in 1 .. fed - Len(buffer), text[p] \in Private
        PROVE  p \in Kept' \/ \E k \in DOMAIN shown' : shown'[k] = p
    <3>1. p \in 1 .. Parsed \/ p \in Parsed + 1 .. Parsed + Len(monologue)
      BY <1>7
    <3>2. CASE p \in 1 .. Parsed
      <4>1. p \in Kept \/ \E k \in DOMAIN shown : shown[k] = p
        BY <1>3, <1>19, <2>1, <3>2 DEF KeptInv
      <4>2. (\E k \in DOMAIN shown : shown[k] = p) => shown' = shown
        <5>1. default => shown = <<>>
          BY DEF default
        <5> QED
          BY <1>2, <5>1
      <4> QED
        BY <1>11, <4>1, <4>2
    <3>3. CASE p \in Parsed + 1 .. Parsed + Len(monologue)
      BY <1>11, <2>1, <3>3
    <3> QED
      BY <3>1, <3>2, <3>3
  <2> QED
    BY <1>2, <1>8, <2>1 DEF KeptInv
<1> QED
  BY <1>3, <1>14, <1>15, <1>16, <1>17, <1>18, <1>19 DEF ParserInv

LEMMA NextParserInv == ParserInv /\ [Next]_vars => ParserInv'
<1> SUFFICES ASSUME ParserInv, [Next]_vars PROVE ParserInv'
  OBVIOUS
<1>1. ASSUME NEW n \in 1 .. Len(text) - fed, Read(n) PROVE ParserInv'
  BY <1>1, ReadInv
<1>2. CASE UNCHANGED vars
  <2> USE DEF ParserInv
  <2>1. UNCHANGED <<text, fed, cuts, state, buffer, line, monologue, sections, monoTokens,
                    publicTokens, truncated, failsafe, passthrough, shown, warned, pc, next>>
    BY <1>2 DEF vars, input, tags, output, modes
  <2>2. TextInv' /\ StopInv' /\ (TagsKnown' => PrivInv /\ KeptInv)
    BY StepIs
  <2>3. TypeOK' /\ ModeInv'
    BY <2>1 DEF TypeOK, Places, ModeInv, HasWarning, Is
  <2>4. ContigInv' /\ OrderInv'
    BY <2>1 DEF ContigInv, OrderInv, InOrder, Parsed
  <2>5. TagsKnown' => PrivInv'
    BY <2>1, <2>2 DEF PrivInv, Outside
  <2>6. TagsKnown' => KeptInv'
    BY <2>1, <2>2 DEF KeptInv, Kept, Parsed
  <2> QED
    BY <2>2, <2>3, <2>4, <2>5, <2>6
<1> QED
  BY <1>1, <1>2, FindOpenTagInv, NoOpenTagInv, NextLineInv, NoMoreLinesInv, FindCloseTagInv,
     NoCloseTagInv, EndOfStreamInv, FinishInv DEF Next

THEOREM ParserInvariance == Spec => []ParserInv
BY InitParserInv, NextParserInv, PTL DEF Spec

------------------------------------------------------------------------------------
\* The public part: what is shown of it, as far as the parser has come

\* Where the public lines of PublicLine end.
Breaks(p) == text[p] \in {"nl", "<", "<T", ">"}

\* A line starts behind m.
Starts(m) == m = 0 \/ Breaks(m)

IsShown(p) == \E i \in DOMAIN shown : shown[i] = p

\* The words up to m are shown, or their line is meta-commentary.
Decided(m) ==
    \A p \in 1 .. m : text[p] = "pub" =>
        (IsShown(p) <=> \A q \in PublicLine(p) : text[q] # "meta")

\* Position p can be in the line buffer: part of no tag, but for a "<" at the very end.
Plain(p) ==
    /\ ~CloseAt(text, p) /\ text[p] \notin {"<T", ">"}
    /\ text[p] = "<" => pc = "lines" /\ next = "final" /\ p = fed

\* The line buffer is the stream behind m.
LineBehind(m) == \A i \in DOMAIN line : line[i] = m + i /\ Plain(m + i)

\* What left the buffer.
Taken == fed - Len(buffer)

\* The parser is in public text, whose present line starts behind m,
InPublic(m) ==
    /\ Outside /\ Starts(m) /\ LineBehind(m)
    /\ m + Len(line) = Taken /\ PublicFrom(text, Taken)
    /\ pc # "scan" => \A o \in Taken + 1 .. fed - 1 : ~OpenAt(text, o)

\* or has found the open tag at the end of it,
AtOpenTag(m) ==
    LET o == m + Len(line) + 1 IN
    /\ pc = "lines" /\ next = "enter"
    /\ (line # <<>> => Starts(m)) /\ LineBehind(m)
    /\ o < Taken /\ text[o] \in {"<", "<T"}
    /\ \A p \in o .. Taken : text[p] # "pub"
    /\ ThoughtFrom(text, Taken)

\* or is in the monologue,
InThoughts(m) ==
    /\ state = 0 /\ pc \in {"read", "scan"} /\ (pc = "read" => buffer = <<>>)
    /\ Starts(m) /\ \A p \in m + 1 .. Taken : text[p] # "pub"
    /\ ThoughtFrom(text, Taken)

\* or flushes the last line.
AtEnd(m) ==
    /\ pc = "lines" /\ next = "final"
    /\ (line # <<>> => Starts(m)) /\ LineBehind(m)
    /\ m + Len(line) = fed

AnyMode(m) == InPublic(m) \/ AtOpenTag(m) \/ InThoughts(m) \/ AtEnd(m)

\* As long as the property has anything to say.
Regular == ~failsafe /\ ~truncated /\ TagsKnown /\ CloseTagsWhole

\* The stream is well-formed (WellFormed).
StreamOK ==
    \A i \in DOMAIN text : OpenAt(text, i) \/ CloseAt(text, i) =>
        /\ i + 2 \in DOMAIN text /\ text[i + 2] = ">"
        /\ OpenAt(text, i) => ThoughtFrom(text, i + 2)
        /\ CloseAt(text, i) => PublicFrom(text, i + 2)

\* All but the present line is decided, and in the end all.
LinesOK ==
    Regular => IF pc \in {"final", "done"} THEN Decided(fed)
               ELSE \E m \in 0 .. Taken : Decided(m) /\ AnyMode(m)

PublicInv == StreamOK /\ LinesOK

\* Without a tag on the way, what lies behind a position lies behind a later one.
LEMMA PublicShift ==
  ASSUME NEW b \in Nat, NEW c \in Nat, b <= c, PublicFrom(text, b), Len(text) \in Nat,
         \A o \in b + 1 .. c : ~OpenAt(text, o)
  PROVE  PublicFrom(text, c)
<1> SUFFICES ASSUME NEW p \in c + 1 .. Len(text), \A o \in c + 1 .. p : ~OpenAt(text, o)
             PROVE  text[p] \notin {"<", "<T", ">"} /\ ~CloseAt(text, p)
  BY DEF PublicFrom
<1>1. p \in b + 1 .. Len(text) /\ \A o \in b + 1 .. p : o \in b + 1 .. c \/ o \in c + 1 .. p
  OBVIOUS
<1>2. \A o \in b + 1 .. p : ~OpenAt(text, o)
  BY <1>1
<1> QED
  BY <1>1, <1>2 DEF PublicFrom

LEMMA ThoughtShift ==
  ASSUME NEW b \in Nat, NEW c \in Nat, b <= c, ThoughtFrom(text, b), Len(text) \in Nat,
         \A o \in b + 1 .. c : ~CloseAt(text, o)
  PROVE  ThoughtFrom(text, c)
<1> SUFFICES ASSUME NEW p \in c + 1 .. Len(text), \A o \in c + 1 .. p : ~CloseAt(text, o)
             PROVE  text[p] # "pub"
  BY DEF ThoughtFrom
<1>1. p \in b + 1 .. Len(text) /\ \A o \in b + 1 .. p : o \in b + 1 .. c \/ o \in c + 1 .. p
  OBVIOUS
<1>2. \A o \in b + 1 .. p : ~CloseAt(text, o)
  BY <1>1
<1> QED
  BY <1>1, <1>2 DEF ThoughtFrom

\* The line from a to b is a line of PublicLine.
LEMMA WholeLine ==
  ASSUME TypeOK, NEW a \in Nat, NEW b \in Nat, a < b, b <= fed, Starts(a),
         \A r \in a + 1 .. b - 1 : ~Breaks(r),
         Breaks(b) \/ b = fed \/ (b < fed /\ text[b + 1] \in {"<", "<T"}),
         NEW p \in a + 1 .. b, text[p] = "pub"
  PROVE  (\A q \in PublicLine(p) : text[q] # "meta") <=> \A q \in a + 1 .. b : text[q] # "meta"
<1>1. fed \in Nat /\ p \in Nat /\ a < p /\ p <= b
  BY Typed
<1>2. ASSUME NEW q \in a + 1 .. b PROVE q \in PublicLine(p)
  <2>1. q \in 1 .. fed
    BY <1>1, <1>2
  <2>2. ASSUME NEW r \in 1 .. fed, (p <= r /\ r < q) \/ (q <= r /\ r < p)
        PROVE  text[r] \notin {"nl", "<", "<T", ">"}
    <3>1. r \in a + 1 .. b - 1
      BY <1>1, <2>1, <2>2
    <3> QED
      BY <3>1 DEF Breaks
  <2> QED
    BY <2>1, <2>2 DEF PublicLine
<1>3. ASSUME NEW q \in PublicLine(p), text[q] = "meta" PROVE q \in a + 1 .. b
  <2>1. /\ q \in 1 .. fed
        /\ \A r \in 1 .. fed : (p <= r /\ r < q) \/ (q <= r /\ r < p) => ~Breaks(r)
    BY DEF PublicLine, Breaks
  <2>2. a < q
    <3> SUFFICES ASSUME q <= a PROVE FALSE
      BY <1>1, <2>1
    <3>1. a \in 1 .. fed /\ q <= a /\ a < p
      BY <1>1, <2>1
    <3>2. Breaks(a)
      BY <3>1 DEF Starts
    <3> QED
      BY <2>1, <3>1, <3>2
  <2>3. q <= b
    <3> SUFFICES ASSUME b < q PROVE FALSE
      BY <1>1, <2>1
    <3>1. b < fed /\ b \in 1 .. fed /\ p <= b
      BY <1>1, <2>1
    <3>2. ~Breaks(b)
      BY <2>1, <3>1
    <3>3. text[b + 1] \in {"<", "<T"}
      BY <1>1, <3>1, <3>2
    <3>4. q # b + 1
      BY <1>3, <3>3
    <3>5. b + 1 \in 1 .. fed /\ p <= b + 1 /\ b + 1 < q
      BY <1>1, <2>1, <3>1, <3>4
    <3>6. ~Breaks(b + 1)
      BY <2>1, <3>5
    <3> QED
      BY <3>3, <3>6 DEF Breaks
  <2> QED
    BY <1>1, <2>1, <2>2, <2>3
<1> QED
  BY <1>2, <1>3

\* Nothing that arrives changes a line which is over.
LEMMA LineStays ==
  ASSUME TypeOK, NEW m \in Nat, m <= fed, Starts(m), Decided(m),
         NEW more \in Nat, fed' = fed + more, text' = text, shown' = shown
  PROVE  Decided(m)' /\ Starts(m)'
<1>1. fed \in Nat
  BY Typed
<1>2. Starts(m)'
  BY DEF Starts, Breaks
<1>3. ASSUME NEW p \in 1 .. m PROVE PublicLine(p)' = PublicLine(p)
  <2>1. Breaks(m) /\ m \in 1 .. fed
    BY <1>1, <1>3 DEF Starts
  <2>2. ASSUME NEW q \in PublicLine(p)' PROVE q \in PublicLine(p)
    <3>1. /\ q \in 1 .. fed + more
          /\ \A r \in 1 .. fed + more : (p <= r /\ r < q) \/ (q <= r /\ r < p) => ~Breaks(r)
      BY <2>2 DEF PublicLine, Breaks
    <3>2. q <= fed
      <4> SUFFICES ASSUME fed < q PROVE FALSE
        BY <1>1, <3>1
      <4>1. m \in 1 .. fed + more /\ p <= m /\ m < q
        BY <1>1, <1>3, <2>1, <3>1
      <4> QED
        BY <2>1, <3>1, <4>1
    <3>3. \A r \in 1 .. fed : r \in 1 .. fed + more
      BY <1>1
    <3> QED
      BY <1>1, <3>1, <3>2, <3>3 DEF PublicLine, Breaks
  <2>3. ASSUME NEW q \in PublicLine(p) PROVE q \in PublicLine(p)'
    <3>1. /\ q \in 1 .. fed
          /\ \A r \in 1 .. fed : (p <= r /\ r < q) \/ (q <= r /\ r < p) => ~Breaks(r)
      BY <2>3 DEF PublicLine, Breaks
    <3>2. ASSUME NEW r \in 1 .. fed + more, (p <= r /\ r < q) \/ (q <= r /\ r < p)
          PROVE  text[r] \notin {"nl", "<", "<T", ">"}
      <4>1. r \in 1 .. fed
        BY <1>1, <1>3, <2>1, <3>1, <3>2
      <4> QED
        BY <3>1, <3>2, <4>1 DEF Breaks
    <3>3. q \in 1 .. fed + more
      BY <1>1, <3>1
    <3> QED
      BY <3>2, <3>3 DEF PublicLine
  <2>4. PublicLine(p)' \subseteq 1 .. fed + more /\ PublicLine(p) \subseteq 1 .. fed
    BY DEF PublicLine
  <2> QED
    BY <2>2, <2>3
<1> QED
  BY <1>2, <1>3 DEF Decided, IsShown

\* A line without a tag is meta-commentary or shown, word by word.
LEMMA LineStep ==
  ASSUME ParserInv, NextLine, ~truncated', NEW m \in Nat, Decided(m), LineBehind(m), Starts(m),
         m + Len(line) <= fed,
         next = "final" => m + Len(line) = fed,
         next = "enter" => m + Len(line) < fed /\ text[m + Len(line) + 1] \in {"<", "<T"}
  PROVE  \E n \in 1 .. Len(line) :
           /\ Decided(m + n)' /\ LineBehind(m + n)'
           /\ line' \in Places /\ Len(line') = Len(line) - n
           /\ line' # <<>> \/ next = "read" => Starts(m + n)'
           /\ pc' = "lines"
<1> DEFINE k == IF LineEnds = {} THEN Len(line) ELSE Least(LineEnds)
           clean == Untagged(SubSeq(line, 1, k))
           meta == IsMeta(clean, DOMAIN clean)
<1> USE DEF input, modes, output, tags
<1>1. TypeOK /\ OrderInv
  BY DEF ParserInv
<1>2. /\ pc = "lines" /\ (LineEnds # {} \/ (Flush /\ line # <<>>)) /\ line' = After(line, k)
      /\ \/ meta /\ UNCHANGED <<publicTokens, truncated, shown, pc>>
         \/ ~meta /\ Yield(clean, "lines")
      /\ UNCHANGED <<text, fed, cuts, state, buffer, monologue, sections, monoTokens,
                     failsafe, passthrough, warned, next>>
  BY DEF NextLine
<1>3. /\ line \in Places /\ Len(line) \in Nat /\ DOMAIN line = 1 .. Len(line) /\ fed \in Nat
      /\ fed <= Len(text) /\ Len(text) \in Nat /\ shown \in Places
      /\ DOMAIN shown = 1 .. Len(shown) /\ Places' = Places
  BY <1>1, <1>2, Typed DEF Places
<1>4. /\ k \in 1 .. Len(line)
      /\ \A j \in 1 .. k - 1 : text[line[j]] # "nl"
      /\ k = Len(line) \/ text[line[k]] = "nl"
      /\ next = "read" => text[line[k]] = "nl"
  <2>1. CASE LineEnds = {}
    <3>1. \A j \in 1 .. Len(line) : text[line[j]] # "nl"
      BY <1>3, <2>1 DEF LineEnds, Is
    <3>2. k = Len(line) /\ Len(line) >= 1 /\ next # "read"
      BY <1>2, <1>3, <2>1 DEF Flush
    <3> QED
      BY <1>3, <3>1, <3>2
  <2>2. CASE LineEnds # {}
    <3>1. LineEnds \in SUBSET Nat /\ LineEnds \subseteq 1 .. Len(line)
      BY <1>3 DEF LineEnds
    <3>2. Least(LineEnds) \in LineEnds /\ \A j \in LineEnds : Least(LineEnds) <= j
      BY <2>2, <3>1, LeastIs
    <3>3. k = Least(LineEnds)
      BY <2>2
    <3> HIDE DEF k
    <3>5. k \in 1 .. Len(line) /\ \A j \in LineEnds : k <= j
      BY <3>1, <3>2, <3>3
    <3>4. ASSUME NEW j \in 1 .. k - 1, text[line[j]] = "nl" PROVE FALSE
      <4>1. j \in DOMAIN line
        BY <1>3, <3>4, <3>5
      <4>2. j \in LineEnds
        BY <3>4, <4>1 DEF LineEnds, Is
      <4> QED
        BY <1>3, <3>4, <3>5, <4>1, <4>2
    <3>6. text[line[k]] = "nl"
      BY <3>2, <3>3 DEF LineEnds, Is
    <3> QED
      BY <3>4, <3>5, <3>6 DEF LineEnds, Is
  <2> QED
    BY <2>1, <2>2
<1> HIDE DEF k
<1>5. PICK n \in 1 .. Len(line) : n = k
  BY <1>4
<1>6. n \in Nat /\ n >= 1 /\ n <= Len(line)
  BY <1>3
<1>7. \A j \in 1 .. Len(line) : line[j] = m + j /\ Plain(m + j)
  BY <1>3 DEF LineBehind
<1>8. /\ Before(line, n + 1) \in Places /\ DOMAIN Before(line, n + 1) = 1 .. n
      /\ \A j \in 1 .. n : Before(line, n + 1)[j] = m + j
      /\ Before(line, n + 1) = SubSeq(line, 1, k)
  <2>1. n + 1 \in 1 .. Len(line) + 1 /\ (n + 1) - 1 = n
    BY <1>6
  <2>2. /\ Before(line, n + 1) \in Seq(1 .. Len(text)) /\ DOMAIN Before(line, n + 1) = 1 .. n
        /\ \A j \in 1 .. n : Before(line, n + 1)[j] = line[j]
    <3>1. line \in Seq(1 .. Len(text))
      BY <1>3 DEF Places
    <3>2. /\ Before(line, n + 1) \in Seq(1 .. Len(text))
          /\ DOMAIN Before(line, n + 1) = 1 .. (n + 1) - 1
          /\ \A j \in 1 .. (n + 1) - 1 : Before(line, n + 1)[j] = line[j]
      BY <2>1, <3>1, BeforeIs
    <3> QED
      BY <2>1, <3>2
  <2>3. \A j \in 1 .. n : j \in 1 .. Len(line)
    BY <1>6
  <2>4. Before(line, n + 1) = SubSeq(line, 1, k)
    BY <1>5, <2>1 DEF Before
  <2> QED
    BY <1>7, <2>2, <2>3, <2>4 DEF Places
<1>9. /\ line' \in Places /\ Len(line') = Len(line) - n /\ DOMAIN line' = 1 .. Len(line) - n
      /\ \A j \in 1 .. Len(line) - n : line'[j] = m + (n + j)
  <2>1. n \in 0 .. Len(line)
    BY <1>6
  <2>2. /\ line' \in Seq(1 .. Len(text)) /\ Len(line') = Len(line) - n
        /\ DOMAIN line' = 1 .. Len(line) - n
        /\ \A j \in 1 .. Len(line) - n : line'[j] = line[n + j]
    <3>1. line' = After(line, n)
      BY <1>2, <1>5
    <3>2. line \in Seq(1 .. Len(text))
      BY <1>3 DEF Places
    <3>3. /\ After(line, n) \in Seq(1 .. Len(text)) /\ Len(After(line, n)) = Len(line) - n
          /\ DOMAIN After(line, n) = 1 .. Len(line) - n
          /\ \A j \in 1 .. Len(line) - n : After(line, n)[j] = line[n + j]
      BY <2>1, <3>2, AfterIs
    <3> QED
      BY <3>1, <3>3
  <2> QED
    BY <1>3, <1>6, <1>7, <2>2 DEF Places
\* The words of the line, and no other, are in its clean form: it has no tag.
<1>10. clean \in Places /\ \A p : (\E i \in DOMAIN clean : clean[i] = p) <=> p \in m + 1 .. m + n
  <2> DEFINE t == Before(line, n + 1)
  <2>1. OpenTags(t) = {}
    <3> SUFFICES ASSUME NEW i \in OpenTags(t) PROVE FALSE
      OBVIOUS
    <3>1. i \in 1 .. n /\ i + 1 \in 1 .. n /\ text[t[i]] \in {"<", "<T"}
      BY <1>8 DEF OpenTags, Is
    <3>2. text[m + i] \in {"<", "<T"} /\ i < Len(line) /\ i \in 1 .. Len(line)
      BY <1>6, <1>8, <3>1
    <3>3. next = "final" /\ m + i = fed
      BY <1>7, <3>2 DEF Plain
    <3> QED
      BY <1>3, <3>2, <3>3
  <2>2. CloseTags(t) = {}
    <3> SUFFICES ASSUME NEW i \in CloseTags(t) PROVE FALSE
      OBVIOUS
    <3>1. i \in 1 .. n /\ i + 1 \in 1 .. n /\ text[t[i]] = "</" /\ text[t[i + 1]] = "think"
      BY <1>8 DEF CloseTags, Is
    <3>2. /\ text[m + i] = "</" /\ text[m + (i + 1)] = "think" /\ m + (i + 1) = (m + i) + 1
          /\ i \in 1 .. Len(line) /\ (m + i) + 1 \in 1 .. Len(text)
      <4>1. t[i] = m + i /\ t[i + 1] = m + (i + 1)
        BY <1>8, <3>1
      <4>2. i + 1 <= n /\ i >= 1
        BY <1>6, <3>1
      <4>3. (m + i) + 1 <= Len(text)
        BY <1>3, <1>6, <3>1, <4>2
      <4> QED
        BY <1>3, <1>6, <3>1, <4>1, <4>2, <4>3
    <3>3. CloseAt(text, m + i)
      BY <1>1, <3>2, Typed DEF CloseAt
    <3> QED
      BY <1>7, <3>2, <3>3 DEF Plain
  <2>8. ListedTags(t) = {}
    <3> SUFFICES ASSUME NEW i \in ListedTags(t) PROVE FALSE
      OBVIOUS
    <3>1. Is(t, i, "<") /\ Is(t, i + 1, "think")
      <4>1. i \in Nat /\ \A h \in 0 .. 3 : Is(t, i + h, <<"<", "think", "ing", ">">>[h + 1])
        BY <1>8 DEF ListedTags
      <4>2. Is(t, i + 0, <<"<", "think", "ing", ">">>[0 + 1])
        BY <4>1
      <4>3. Is(t, i + 1, <<"<", "think", "ing", ">">>[1 + 1])
        BY <4>1
      <4> QED
        BY <4>1, <4>2, <4>3
    <3>2. i \in 1 .. n /\ i + 1 \in 1 .. n /\ text[t[i]] = "<"
      BY <1>8, <3>1 DEF Is
    <3>3. text[m + i] = "<" /\ i < Len(line) /\ i \in 1 .. Len(line)
      BY <1>6, <1>8, <3>2
    <3>4. next = "final" /\ m + i = fed
      BY <1>7, <3>3 DEF Plain
    <3> QED
      BY <1>3, <3>3, <3>4
  <2>3. t \in Seq(1 .. Len(text)) /\ DOMAIN t = 1 .. n /\ \A j \in 1 .. n : t[j] = m + j
    BY <1>8 DEF Places
  <2>4. clean = Untagged(t)
    BY <1>8
  <2> HIDE DEF t
  <2>5. /\ Untagged(t) \in Seq(1 .. Len(text))
        /\ \A i \in DOMAIN Untagged(t) : \E j \in DOMAIN t : Untagged(t)[i] = t[j]
        /\ \A j \in DOMAIN t : \E i \in DOMAIN Untagged(t) : Untagged(t)[i] = t[j]
    BY <2>1, <2>2, <2>3, <2>8, UntaggedIs
  <2>6. ASSUME NEW p, NEW i \in DOMAIN Untagged(t), Untagged(t)[i] = p PROVE p \in m + 1 .. m + n
    <3>1. PICK j \in DOMAIN t : Untagged(t)[i] = t[j]
      BY <2>5
    <3>2. j \in 1 .. n /\ p = m + j
      BY <2>3, <2>6, <3>1
    <3> QED
      BY <1>6, <3>2
  <2>7. ASSUME NEW p \in m + 1 .. m + n PROVE \E i \in DOMAIN Untagged(t) : Untagged(t)[i] = p
    <3>1. p - m \in 1 .. n /\ m + (p - m) = p
      BY <1>6
    <3> QED
      BY <2>3, <2>5, <3>1
  <2> QED
    BY <2>4, <2>5, <2>6, <2>7 DEF Places
<1> HIDE DEF clean
<1>11. meta <=> \E p \in m + 1 .. m + n : text[p] = "meta"
  <2>1. DOMAIN clean \in SUBSET Nat
    BY <1>10 DEF Places
  <2>2. ASSUME NEW i \in DOMAIN clean PROVE text[clean[i]] # ">"
    <3>1. clean[i] \in m + 1 .. m + n
      BY <1>10
    <3>2. clean[i] - m \in 1 .. Len(line) /\ m + (clean[i] - m) = clean[i]
      BY <1>6, <3>1
    <3> QED
      BY <1>7, <3>2 DEF Plain
  <2>3. DOMAIN clean # {} => Least(DOMAIN clean) \in DOMAIN clean
    BY <2>1, LeastIs
  <2>4. meta <=> \E i \in DOMAIN clean : text[clean[i]] = "meta"
    BY <2>2, <2>3 DEF IsMeta, Is
  <2> QED
    BY <1>10, <2>4
<1> HIDE DEF meta
<1>12. pc' = "lines" /\ shown' = IF meta THEN shown ELSE shown \o clean
  BY <1>1, <1>2, <1>10, YieldIs
<1>13. \A p : IsShown(p)' <=> IsShown(p) \/ (~meta /\ p \in m + 1 .. m + n)
  <2>1. CASE meta
    BY <1>12, <2>1 DEF IsShown
  <2>2. CASE ~meta
    <3> DEFINE S == 1 .. Len(text)
    <3>1. shown \in Seq(S) /\ clean \in Seq(S) /\ shown' = shown \o clean
      BY <1>3, <1>10, <1>12, <2>2 DEF Places
    <3> HIDE DEF S
    <3>2. Range(shown') = Range(shown) \cup Range(clean)
      BY <3>1, RangeConcatenation
    <3>3. \A p : IsShown(p)' <=> IsShown(p) \/ \E i \in DOMAIN clean : clean[i] = p
      BY <3>2, Zenon DEF IsShown, Range
    <3> QED
      BY <1>10, <2>2, <3>3
  <2> QED
    BY <2>1, <2>2
<1>14. \A p \in m + 1 .. m + n : ~IsShown(p)
  <2> SUFFICES ASSUME NEW p \in m + 1 .. m + n, NEW i \in DOMAIN shown, shown[i] = p PROVE FALSE
    BY DEF IsShown
  <2>1. p - m \in 1 .. Len(line) /\ line[p - m] = p
    BY <1>6, <1>7
  <2>2. shown[i] < line[p - m]
    BY <1>1, <1>3, <2>1 DEF OrderInv
  <2> QED
    BY <1>6, <2>1, <2>2
<1>15. Decided(m + n)'
  <2> SUFFICES ASSUME NEW p \in 1 .. m + n, text[p] = "pub"
               PROVE  IsShown(p)' <=> \A q \in PublicLine(p) : text[q] # "meta"
    BY <1>2 DEF Decided, PublicLine
  <2>1. CASE p \in 1 .. m
    <3>1. p \notin m + 1 .. m + n
      BY <2>1
    <3> QED
      BY <1>13, <2>1, <3>1 DEF Decided
  <2>2. CASE p \notin 1 .. m
    <3>1. p \in m + 1 .. m + n
      BY <1>6, <2>2
    <3>2. \A r \in m + 1 .. (m + n) - 1 : ~Breaks(r)
      <4> SUFFICES ASSUME NEW r \in m + 1 .. (m + n) - 1 PROVE ~Breaks(r)
        OBVIOUS
      <4>1. r - m \in 1 .. n - 1 /\ r - m \in 1 .. Len(line) /\ m + (r - m) = r
        BY <1>6
      <4>2. text[r] # "nl"
        BY <1>4, <1>5, <1>7, <4>1
      <4>3. Plain(r)
        BY <1>7, <4>1
      <4>4. text[r] # "<"
        <5> SUFFICES ASSUME text[r] = "<" PROVE FALSE
          OBVIOUS
        <5>1. next = "final" /\ r = fed
          BY <4>3 DEF Plain
        <5> QED
          BY <1>3, <1>6, <4>1, <5>1
      <4> QED
        BY <4>2, <4>3, <4>4 DEF Breaks, Plain
    <3>3. Breaks(m + n) \/ m + n = fed \/ (m + n < fed /\ text[(m + n) + 1] \in {"<", "<T"})
      <4>1. CASE text[line[k]] = "nl"
        BY <1>5, <1>7, <4>1 DEF Breaks
      <4>2. CASE n = Len(line) /\ next = "final"
        BY <1>3, <4>2
      <4>3. CASE n = Len(line) /\ next = "enter"
        BY <1>3, <4>3
      <4>4. next \in {"read", "enter", "final"}
        BY <1>1 DEF TypeOK
      <4> QED
        BY <1>4, <1>5, <4>1, <4>2, <4>3, <4>4
    <3>4. (\A q \in PublicLine(p) : text[q] # "meta") <=> \A q \in m + 1 .. m + n : text[q] # "meta"
      <4>1. m + n \in Nat /\ m < m + n /\ m + n <= fed
        BY <1>3, <1>6
      <4> QED
        BY <1>1, <3>1, <3>2, <3>3, <4>1, WholeLine
    <3>5. IsShown(p)' <=> ~meta
      BY <1>13, <1>14, <3>1
    <3> QED
      BY <1>11, <3>4, <3>5
  <2> QED
    BY <2>1, <2>2
<1>16. LineBehind(m + n)'
  <2> SUFFICES ASSUME NEW j \in DOMAIN line' PROVE line'[j] = (m + n) + j /\ Plain((m + n) + j)'
    BY DEF LineBehind
  <2>1. n + j \in 1 .. Len(line) /\ m + (n + j) = (m + n) + j
    BY <1>3, <1>6, <1>9
  <2>2. Plain((m + n) + j)
    BY <1>7, <2>1
  <2>3. Plain((m + n) + j)'
    BY <1>2, <1>12, <2>2 DEF Plain
  <2> QED
    BY <1>9, <2>1, <2>3
<1>17. line' # <<>> \/ next = "read" => Starts(m + n)'
  <2> SUFFICES ASSUME line' # <<>> \/ next = "read" PROVE Starts(m + n)'
    OBVIOUS
  <2>1. text[line[k]] = "nl"
    <3>1. CASE k = Len(line)
      <4>1. Len(line') = 0
        BY <1>3, <1>5, <1>9, <3>1
      <4>2. line' = <<>>
        BY <1>9, <4>1 DEF Places
      <4> QED
        BY <1>4, <4>2
    <3> QED
      BY <1>4, <3>1
  <2>2. text[m + n] = "nl"
    BY <1>5, <1>7, <2>1
  <2> QED
    BY <1>2, <2>2 DEF Starts, Breaks
<1> QED
  BY <1>9, <1>12, <1>15, <1>16, <1>17

\* The buffer is the stream between what was taken and what was received.
LEMMA BufferIs ==
  ASSUME ParserInv
  PROVE  /\ Taken \in Nat /\ Taken + Len(buffer) = fed /\ Len(buffer) \in Nat /\ fed \in Nat
         /\ DOMAIN buffer = 1 .. Len(buffer) /\ fed <= Len(text) /\ Len(text) \in Nat
         /\ DOMAIN text = 1 .. Len(text) /\ Piece(buffer, Taken)
         /\ \A i, a : Is(buffer, i, a) <=> i \in 1 .. Len(buffer) /\ text[Taken + i] = a
<1>1. Piece(buffer, Taken)
  BY PiecesIs DEF Taken
<1>2. /\ Len(buffer) \in Nat /\ fed \in Nat /\ fed <= Len(text) /\ Len(text) \in Nat
      /\ DOMAIN buffer = 1 .. Len(buffer) /\ DOMAIN text = 1 .. Len(text)
  BY Typed DEF ParserInv
<1>3. Taken \in Nat
  <2>1. Parsed \in Nat /\ Len(monologue) \in Nat /\ Parsed + Len(monologue) = fed - Len(buffer)
    BY PiecesIs
  <2> QED
    BY <1>2, <2>1 DEF Taken
<1>4. \A i \in DOMAIN buffer : buffer[i] = Taken + i
  BY <1>1 DEF Piece
<1>5. \A i, a : Is(buffer, i, a) <=> i \in 1 .. Len(buffer) /\ text[Taken + i] = a
  BY <1>2, <1>4 DEF Is
<1>6. Taken + Len(buffer) = fed
  BY <1>2 DEF Taken
<1> QED
  BY <1>1, <1>2, <1>3, <1>5, <1>6

\* Its tags are those of the text that are received whole.
LEMMA TagsInBuffer ==
  ASSUME ParserInv, TagsKnown
  PROVE  /\ \A i : i \in OpenTags(buffer) <=> i \in 1 .. Len(buffer) - 1 /\ OpenAt(text, Taken + i)
         /\ \A i : i \in CloseTags(buffer) <=> i \in 1 .. Len(buffer) - 1 /\ CloseAt(text, Taken + i)
<1>1. /\ Taken \in Nat /\ Taken + Len(buffer) = fed /\ Len(buffer) \in Nat /\ fed \in Nat
      /\ DOMAIN buffer = 1 .. Len(buffer) /\ fed <= Len(text) /\ Len(text) \in Nat
      /\ DOMAIN text = 1 .. Len(text)
  BY BufferIs
<1>2. \A i, a : Is(buffer, i, a) <=> i \in 1 .. Len(buffer) /\ text[Taken + i] = a
  BY BufferIs
<1>3. \A i : i \in 1 .. Len(buffer) /\ i + 1 \in 1 .. Len(buffer) <=> i \in 1 .. Len(buffer) - 1
  <2> SUFFICES ASSUME NEW i
               PROVE  i \in 1 .. Len(buffer) /\ i + 1 \in 1 .. Len(buffer) <=> i \in 1 .. Len(buffer) - 1
    OBVIOUS
  <2>1. i \in 1 .. Len(buffer) /\ i + 1 \in 1 .. Len(buffer) => i \in 1 .. Len(buffer) - 1
    BY <1>1
  <2>2. i \in 1 .. Len(buffer) - 1 => i \in 1 .. Len(buffer) /\ i + 1 \in 1 .. Len(buffer)
    BY <1>1
  <2> QED
    BY <2>1, <2>2
<1>4. \A i \in 1 .. Len(buffer) - 1 :
        /\ Taken + (i + 1) = (Taken + i) + 1 /\ (Taken + i) + 1 \in DOMAIN text
  BY <1>1
<1>5. \A i, a, c : Is(buffer, i, a) /\ Is(buffer, i + 1, c) <=>
        i \in 1 .. Len(buffer) - 1 /\ text[Taken + i] = a /\ text[(Taken + i) + 1] = c
  BY <1>2, <1>3, <1>4
<1>7. 1 .. Len(buffer) - 1 \subseteq DOMAIN buffer
  BY <1>1
<1>8. ASSUME NEW i
      PROVE  i \in OpenTags(buffer) <=> i \in 1 .. Len(buffer) - 1 /\ OpenAt(text, Taken + i)
  <2>1. ~Is(buffer, i + 2, "ing")
    BY BufferIs, NoIng DEF Piece
  <2>2. i \in OpenTags(buffer) <=>
          \/ Is(buffer, i, "<") /\ Is(buffer, i + 1, "think")
          \/ Is(buffer, i, "<T") /\ Is(buffer, i + 1, "hink")
    BY <2>1 DEF OpenTags, Is
  <2>3. \A a, c : Is(buffer, i, a) /\ Is(buffer, i + 1, c) <=>
          i \in 1 .. Len(buffer) - 1 /\ text[Taken + i] = a /\ text[(Taken + i) + 1] = c
    BY <1>5
  <2>4. i \in 1 .. Len(buffer) - 1 =>
          (OpenAt(text, Taken + i) <=>
            \/ text[Taken + i] = "<" /\ text[(Taken + i) + 1] = "think"
            \/ text[Taken + i] = "<T" /\ text[(Taken + i) + 1] = "hink")
    BY <1>4 DEF OpenAt
  <2> QED
    BY <2>2, <2>3, <2>4
<1>9. ASSUME NEW i
      PROVE  i \in CloseTags(buffer) <=> i \in 1 .. Len(buffer) - 1 /\ CloseAt(text, Taken + i)
  BY <1>4, <1>5, <1>7 DEF CloseTags, CloseAt
<1> QED
  BY <1>8, <1>9

\* A tag in another case is received whole.
LEMMA TagNotCut ==
  ASSUME ParserInv, TagsKnown, fed # 0
  PROVE  text[fed] # "<T"
<1>1. fed \in cuts /\ fed \in 1 .. Len(text)
  BY Typed DEF ParserInv, ContigInv
<1> QED
  BY <1>1 DEF TagsKnown

\* The line buffer grows by a piece of the buffer.
LEMMA LineGoesOn ==
  ASSUME ParserInv, NEW m \in Nat, LineBehind(m), m + Len(line) = Taken,
         NEW t, Piece(t, Taken), line' = line \o t, text' = text,
         \A p \in m + 1 .. Taken + Len(t) : Plain(p)'
  PROVE  LineBehind(m)' /\ Len(line') = Len(line) + Len(t)
<1>1. Len(line) \in Nat /\ DOMAIN line = 1 .. Len(line) /\ line \in Places
  BY Typed DEF ParserInv
<1>2. Piece(line, m)
  BY <1>1 DEF Piece, LineBehind
<1>3. Piece(line', m) /\ Len(line') = Len(line) + Len(t)
  BY <1>2, PieceConcat
<1>4. Len(t) \in Nat /\ DOMAIN line' = 1 .. Len(line')
  BY <1>3 DEF Piece, Places
<1>5. Taken \in Nat
  BY BufferIs
<1> HIDE DEF Taken
<1>6. \A i \in DOMAIN line' : line'[i] = m + i /\ m + i \in m + 1 .. Taken + Len(t)
  <2>1. \A i \in DOMAIN line' : m + i \in m + 1 .. Taken + Len(t)
    BY <1>1, <1>3, <1>4, <1>5
  <2> QED
    BY <1>3, <2>1 DEF Piece
<1> QED
  BY <1>3, <1>6 DEF LineBehind

LEMMA InitPublicInv ==
  ASSUME \A s \in Streams : WellFormed(s), Init
  PROVE  PublicInv
<1> USE DEF Init
<1>1. PICK s \in Streams : text = s.text /\ state = s.start
  OBVIOUS
<1>2. WellFormed(s) /\ text \in Seq(Atoms) /\ state \in {0, 1}
  BY <1>1, StreamAssumption
<1>3. StreamOK
  BY <1>1, <1>2 DEF WellFormed, StreamOK
<1>4. Taken = 0
  <2>1. fed = 0 /\ Len(buffer) = 0
    <3>1. buffer = <<>>
      OBVIOUS
    <3> HIDE DEF Init
    <3>2. Len(buffer) = 0
      BY <3>1
    <3> QED
      BY <3>2 DEF Init
  <2> HIDE DEF Init
  <2> QED
    BY <2>1 DEF Taken
<1>5. Decided(0) /\ LineBehind(0) /\ Starts(0)
  BY DEF Decided, LineBehind, Starts
<1>6. CASE state = 1
  <2>1. PublicFrom(text, 0)
    BY <1>1, <1>2, <1>6 DEF WellFormed
  <2>2. 0 + Len(line) = 0 /\ \A o \in 0 + 1 .. fed - 1 : FALSE
    OBVIOUS
  <2>3. InPublic(0)
    BY <1>4, <1>5, <1>6, <2>1, <2>2 DEF InPublic, Outside
  <2> QED
    BY <1>3, <1>4, <1>5, <2>3 DEF PublicInv, LinesOK, AnyMode
<1>7. CASE state = 0
  <2>1. ThoughtFrom(text, 0)
    BY <1>1, <1>2, <1>7 DEF WellFormed
  <2>2. InThoughts(0)
    BY <1>4, <1>5, <1>7, <2>1 DEF InThoughts
  <2> QED
    BY <1>3, <1>4, <1>5, <2>2 DEF PublicInv, LinesOK, AnyMode
<1> QED
  BY <1>2, <1>6, <1>7

\* The next chunk changes nothing of the lines.
LEMMA ReadPublic ==
  ASSUME ParserInv, PublicInv, NEW n \in 1 .. Len(text) - fed, Read(n)
  PROVE  PublicInv'
<1> USE DEF modes, output, tags
<1>1. TypeOK /\ ModeInv
  BY DEF ParserInv
<1>2. /\ pc = "read" /\ fed' = fed + n /\ cuts' = cuts \cup {fed + n} /\ n \in Nat
      /\ UNCHANGED <<text, state, monologue, sections, monoTokens, line, failsafe, passthrough,
                     warned, next>>
  BY <1>1, Typed DEF Read
<1>3. StreamOK'
  BY <1>2 DEF PublicInv, StreamOK
<1>4. SUFFICES ASSUME Regular' PROVE LinesOK'
  BY <1>3 DEF PublicInv, LinesOK
<1>5. ~passthrough
  BY <1>1, <1>2, <1>4 DEF ModeInv, Regular
<1>6. /\ UNCHANGED <<publicTokens, truncated, shown>> /\ pc' = "scan"
      /\ buffer' = buffer \o [i \in 1 .. n |-> fed + i]
  BY <1>5 DEF Read
<1>7. Regular
  BY <1>2, <1>4, <1>6 DEF Regular, CloseTagsWhole, TagsKnown
<1>8. PICK m \in 0 .. Taken : Decided(m) /\ AnyMode(m)
  BY <1>2, <1>7 DEF PublicInv, LinesOK
<1>9. /\ Taken \in Nat /\ fed \in Nat /\ Taken <= fed /\ Len(buffer) \in Nat
      /\ fed + n <= Len(text)
  BY <1>1, BufferIs, Typed
<1>10. Taken' = Taken
  <2>1. fed + n \in Nat /\ Len(buffer') = Len(buffer) + n
    <3>1. \A i \in 1 .. n : fed + i \in 1 .. Len(text)
      <4>1. fed \in Nat /\ n \in Nat /\ Len(text) \in Nat /\ fed + n <= Len(text)
        BY <1>1, <1>2, <1>9, Typed
      <4> QED
        BY <4>1
    <3>2. [i \in 1 .. n |-> fed + i] \in Seq(1 .. Len(text)) /\ buffer \in Seq(1 .. Len(text))
      BY <1>1, <1>2, <3>1, Typed DEF Places
    <3>3. Len([i \in 1 .. n |-> fed + i]) = n
      BY <1>2
    <3>4. Len(buffer') = Len(buffer) + n
      BY <1>6, <3>2, <3>3, ConcatIs
    <3> QED
      BY <1>2, <1>9, <3>4
  <2>2. Taken' = (fed + n) - (Len(buffer) + n)
    BY <1>2, <2>1 DEF Taken
  <2> QED
    BY <1>2, <1>9, <2>2 DEF Taken
<1>11. InPublic(m) \/ InThoughts(m)
  BY <1>2, <1>8 DEF AnyMode, AtOpenTag, AtEnd
<1>12. Decided(m)' /\ Starts(m)'
  <2>1. Starts(m) /\ m \in Nat /\ m <= fed
    BY <1>9, <1>11 DEF InPublic, InThoughts
  <2> QED
    BY <1>1, <1>2, <1>6, <1>8, <2>1, LineStays
<1>13. CASE InPublic(m)
  <2>1. LineBehind(m)'
    BY <1>2, <1>6, <1>13 DEF InPublic, LineBehind, Plain
  <2>2. PublicFrom(text, Taken)'
    BY <1>2, <1>10, <1>13 DEF InPublic, PublicFrom
  <2>3. InPublic(m)'
    BY <1>2, <1>6, <1>10, <1>12, <1>13, <2>1, <2>2 DEF InPublic, Outside
  <2> QED
    BY <1>6, <1>10, <1>12, <2>3 DEF LinesOK, AnyMode
<1>14. CASE InThoughts(m)
  <2>1. ThoughtFrom(text, Taken)'
    BY <1>2, <1>10, <1>14 DEF InThoughts, ThoughtFrom
  <2>2. InThoughts(m)'
    BY <1>2, <1>6, <1>10, <1>12, <1>14, <2>1 DEF InThoughts
  <2> QED
    BY <1>6, <1>10, <1>12, <2>2 DEF LinesOK, AnyMode
<1> QED
  BY <1>11, <1>13, <1>14

\* Up to the first open tag the buffer is plain text.
LEMMA PlainAhead ==
  ASSUME ParserInv, PublicFrom(text, Taken), NEW q \in Nat, q <= Len(text),
         \A o \in Taken + 1 .. q : ~OpenAt(text, o)
  PROVE  \A p \in Taken + 1 .. q : text[p] \notin {"<", "<T", ">"} /\ ~CloseAt(text, p)
<1>1. Taken \in Nat /\ Len(text) \in Nat
  BY BufferIs
<1> SUFFICES ASSUME NEW p \in Taken + 1 .. q
             PROVE  text[p] \notin {"<", "<T", ">"} /\ ~CloseAt(text, p)
  OBVIOUS
<1>2. p \in Taken + 1 .. Len(text) /\ \A o \in Taken + 1 .. p : o \in Taken + 1 .. q
  BY <1>1
<1> QED
  BY <1>2 DEF PublicFrom

\* An open tag is found: the public text before it is on the line, behind it are thoughts.
LEMMA FindOpenTagPublic ==
  ASSUME ParserInv, PublicInv, FindOpenTag
  PROVE  PublicInv'
<1> DEFINE j == Least(OpenTags(buffer))
           e == OpenEnd(buffer, j)
<1> USE DEF input, modes, output
<1>1. TypeOK /\ ModeInv /\ StopInv
  BY DEF ParserInv
<1>2. /\ pc = "scan" /\ state = 1 /\ OpenTags(buffer) # {}
      /\ line' = line \o Before(buffer, j) /\ buffer' = After(buffer, e)
      /\ pc' = "lines" /\ next' = "enter"
      /\ UNCHANGED <<text, fed, cuts, state, monologue, sections, monoTokens, publicTokens,
                     truncated, shown, failsafe, passthrough, warned>>
  BY DEF FindOpenTag
<1>3. StreamOK'
  BY <1>2 DEF PublicInv, StreamOK
<1>4. SUFFICES ASSUME Regular' PROVE LinesOK'
  BY <1>3 DEF PublicInv, LinesOK
<1>5. Regular /\ TagsKnown
  BY <1>2, <1>4 DEF Regular, CloseTagsWhole, TagsKnown
<1>6. PICK m \in 0 .. Taken : Decided(m) /\ InPublic(m)
  BY <1>2, <1>5 DEF PublicInv, LinesOK, AnyMode, AtOpenTag, InThoughts, AtEnd
<1>7. /\ Taken \in Nat /\ Taken + Len(buffer) = fed /\ Len(buffer) \in Nat /\ fed \in Nat
      /\ fed <= Len(text) /\ Len(text) \in Nat /\ DOMAIN text = 1 .. Len(text)
      /\ Piece(buffer, Taken)
  BY BufferIs
<1>8. PICK i \in 1 .. Len(buffer) - 1 :
        j = i /\ OpenAt(text, Taken + i) /\ \A h \in OpenTags(buffer) : i <= h
  <2>1. OpenTags(buffer) \in SUBSET Nat
    BY <1>7 DEF OpenTags, Piece, Places
  <2>2. j \in OpenTags(buffer) /\ \A h \in OpenTags(buffer) : j <= h
    BY <1>2, <2>1, LeastIs
  <2> QED
    BY <1>5, <2>2, TagsInBuffer
<1> HIDE DEF j
<1>9. PICK o \in 1 .. Len(text) : o = Taken + i
  BY <1>7
<1>10. i \in Nat /\ i >= 1 /\ i + 1 <= Len(buffer)
  BY <1>7
<1>11. /\ OpenAt(text, o) /\ text[o] \in {"<", "<T"} /\ text[o + 1] \in {"think", "hink"}
       /\ o + 2 \in DOMAIN text /\ text[o + 2] = ">" /\ ThoughtFrom(text, o + 2)
  BY <1>7, <1>8, <1>9 DEF PublicInv, StreamOK, OpenAt
<1>12. e \in {i + 1, i + 2} /\ e \in 0 .. Len(buffer)
  <2>1. \A h : Is(buffer, h, ">") <=> h \in 1 .. Len(buffer) /\ text[Taken + h] = ">"
    BY BufferIs
  <2>2. ~Is(buffer, i, ">") /\ ~Is(buffer, i + 1, ">")
    <3>1. Taken + i = o /\ Taken + (i + 1) = o + 1
      BY <1>7, <1>9, <1>10
    <3> QED
      BY <1>11, <2>1, <3>1
  <2> DEFINE ends == {h \in i .. Len(buffer) : Is(buffer, h, ">")}
  <2>3. e = IF ends = {} THEN Len(buffer) ELSE Least(ends)
    BY <1>8 DEF OpenEnd
  <2>4. CASE i + 2 <= Len(buffer)
    <3>1. i + 2 \in ends
      <4>1. Taken + (i + 2) = o + 2 /\ i + 2 \in 1 .. Len(buffer) /\ i + 2 \in i .. Len(buffer)
        BY <1>7, <1>9, <1>10, <2>4
      <4> QED
        BY <1>11, <2>1, <4>1
    <3>2. ends \in SUBSET Nat /\ \A h \in ends : h \in Nat /\ h >= i + 2
      <4> SUFFICES ASSUME NEW h \in ends PROVE h \in Nat /\ h >= i + 2
        OBVIOUS
      <4>1. h \in i .. Len(buffer) /\ h # i /\ h # i + 1
        BY <2>2
      <4> QED
        BY <1>7, <1>10, <4>1
    <3> HIDE DEF ends
    <3>3. Least(ends) \in ends /\ Least(ends) <= i + 2
      BY <3>1, <3>2, LeastIs
    <3>5. Least(ends) \in Nat /\ Least(ends) >= i + 2
      BY <3>2, <3>3
    <3>4. Least(ends) = i + 2
      BY <1>10, <3>3, <3>5
    <3> QED
      BY <1>7, <1>10, <2>3, <2>4, <3>1, <3>4
  <2>5. CASE ~(i + 2 <= Len(buffer))
    <3>1. Len(buffer) = i + 1
      BY <1>7, <1>10, <2>5
    <3>2. ends = {}
      <4> SUFFICES ASSUME NEW h \in ends PROVE FALSE
        OBVIOUS
      <4>1. h \in i .. Len(buffer) /\ h # i /\ h # i + 1
        BY <2>2
      <4> QED
        BY <1>10, <3>1, <4>1
    <3> QED
      BY <1>7, <1>10, <2>3, <3>1, <3>2
  <2> QED
    BY <2>4, <2>5
<1> HIDE DEF e
<1>13. /\ Piece(Before(buffer, j), Taken) /\ Len(Before(buffer, j)) = i - 1
  <2>1. i \in 1 .. Len(buffer) + 1
    BY <1>10, <1>7
  <2> QED
    BY <1>7, <1>8, <2>1, PieceBefore
<1>14. Taken' = Taken + e /\ Taken' \in {o + 1, o + 2} /\ Taken' <= fed
  <2>1. Len(buffer') = Len(buffer) - e
    BY <1>2, <1>7, <1>12, PieceAfter
  <2>2. Taken' = fed - (Len(buffer) - e)
    BY <1>2, <2>1 DEF Taken
  <2>3. Taken' = Taken + e
    BY <1>7, <1>12, <2>2
  <2>4. o = Taken + i /\ e \in {i + 1, i + 2} /\ e <= Len(buffer)
    BY <1>9, <1>12
  <2> HIDE DEF Taken
  <2> QED
    BY <1>7, <1>10, <2>3, <2>4
<1>15. \A p \in Taken + 1 .. o - 1 : text[p] \notin {"<", "<T", ">"} /\ ~CloseAt(text, p)
  <2>1. ASSUME NEW h \in Taken + 1 .. o - 1 PROVE ~OpenAt(text, h)
    <3>1. h - Taken \in 1 .. Len(buffer) - 1 /\ Taken + (h - Taken) = h /\ ~(i <= h - Taken)
      BY <1>7, <1>9, <1>10
    <3> QED
      BY <1>5, <1>8, <3>1, TagsInBuffer
  <2>2. o - 1 \in Nat /\ o - 1 <= Len(text)
    BY <1>7
  <2> QED
    BY <1>6, <2>1, <2>2, PlainAhead DEF InPublic
<1>16. Len(line) \in Nat /\ m + Len(line) = Taken /\ m \in Nat /\ LineBehind(m) /\ Starts(m)
  BY <1>1, <1>6, <1>7, Typed DEF InPublic
<1>17. LineBehind(m)' /\ Len(line') = Len(line) + (i - 1)
  <2>1. ASSUME NEW p \in m + 1 .. o - 1 PROVE Plain(p)'
    <3>1. CASE p \in Taken + 1 .. o - 1
      BY <1>2, <1>15, <3>1 DEF Plain
    <3>2. CASE p \notin Taken + 1 .. o - 1
      <4>1. p - m \in 1 .. Len(line) /\ m + (p - m) = p
        BY <1>7, <1>9, <1>16, <3>2
      <4>2. Plain(p)
        <5>1. p - m \in DOMAIN line
          BY <1>1, <4>1, Typed
        <5> QED
          BY <1>16, <4>1, <5>1 DEF LineBehind
      <4> QED
        BY <1>2, <4>2 DEF Plain
    <3> QED
      BY <3>1, <3>2
  <2>2. Taken + Len(Before(buffer, j)) = o - 1
    BY <1>7, <1>9, <1>10, <1>13
  <2> QED
    BY <1>2, <1>13, <1>16, <2>1, <2>2, LineGoesOn
<1>18. (m + Len(line) + 1)' = o
  <2>1. m + Len(line') + 1 = o
    BY <1>7, <1>9, <1>10, <1>16, <1>17
  <2> QED
    BY <2>1
<1>19. \A p \in o .. Taken' : text[p] # "pub"
  <2>1. \A p \in o .. Taken' : p \in {o, o + 1, o + 2}
    BY <1>14
  <2> QED
    BY <1>11, <2>1
<1>20. ThoughtFrom(text, Taken')
  <2>1. CASE Taken' = o + 2
    BY <1>11, <2>1
  <2>2. CASE Taken' = o + 1
    <3> SUFFICES ASSUME NEW p \in (o + 1) + 1 .. Len(text),
                        \A c \in (o + 1) + 1 .. p : ~CloseAt(text, c)
                 PROVE  text[p] # "pub"
      BY <2>2 DEF ThoughtFrom
    <3>1. CASE p = o + 2
      BY <1>11, <3>1
    <3>2. CASE p # o + 2
      <4>1. p \in (o + 2) + 1 .. Len(text) /\ \A c \in (o + 2) + 1 .. p : c \in (o + 1) + 1 .. p
        BY <3>2
      <4> QED
        BY <1>11, <4>1 DEF ThoughtFrom
    <3> QED
      BY <3>1, <3>2
  <2> QED
    BY <1>14, <2>1, <2>2
<1>21. Decided(m)' /\ Starts(m)'
  BY <1>2, <1>6, <1>16 DEF Decided, IsShown, PublicLine, Starts, Breaks
<1>22. AtOpenTag(m)'
  <2>1. o < Taken'
    BY <1>14
  <2>2. ThoughtFrom(text, Taken)'
    BY <1>2, <1>20 DEF ThoughtFrom
  <2> QED
    BY <1>2, <1>11, <1>17, <1>18, <1>19, <1>21, <2>1, <2>2 DEF AtOpenTag
<1>23. m \in 0 .. Taken'
  BY <1>7, <1>12, <1>14, <1>16
<1> QED
  BY <1>2, <1>21, <1>22, <1>23 DEF LinesOK, AnyMode

\* No open tag is found: the public text goes to the line, but for part of a tag.
LEMMA NoOpenTagPublic ==
  ASSUME ParserInv, PublicInv, NoOpenTag
  PROVE  PublicInv'
<1> DEFINE k == Partial(buffer)
<1> USE DEF input, modes, output
<1>1. TypeOK /\ ModeInv /\ StopInv
  BY DEF ParserInv
<1>2. /\ pc = "scan" /\ state = 1 /\ OpenTags(buffer) = {}
      /\ line' = line \o Before(buffer, k) /\ buffer' = After(buffer, k - 1)
      /\ pc' = "lines" /\ next' = "read"
      /\ UNCHANGED <<text, fed, cuts, state, monologue, sections, monoTokens, publicTokens,
                     truncated, shown, failsafe, passthrough, warned>>
  BY DEF NoOpenTag
<1>3. StreamOK'
  BY <1>2 DEF PublicInv, StreamOK
<1>4. SUFFICES ASSUME Regular' PROVE LinesOK'
  BY <1>3 DEF PublicInv, LinesOK
<1>5. Regular /\ TagsKnown
  BY <1>2, <1>4 DEF Regular, CloseTagsWhole, TagsKnown
<1>6. PICK m \in 0 .. Taken : Decided(m) /\ InPublic(m)
  BY <1>2, <1>5 DEF PublicInv, LinesOK, AnyMode, AtOpenTag, InThoughts, AtEnd
<1>7. /\ Taken \in Nat /\ Taken + Len(buffer) = fed /\ Len(buffer) \in Nat /\ fed \in Nat
      /\ fed <= Len(text) /\ Len(text) \in Nat /\ DOMAIN text = 1 .. Len(text)
      /\ Piece(buffer, Taken)
  BY BufferIs
<1>8. k \in 1 .. Len(buffer) + 1 /\ (Is(buffer, Len(buffer), "<") => k = Len(buffer))
  BY <1>7, PartialIs DEF Piece, Places
<1> HIDE DEF k
<1>9. /\ Piece(Before(buffer, k), Taken) /\ Len(Before(buffer, k)) = k - 1
      /\ Len(buffer') = Len(buffer) - (k - 1)
  <2>1. k - 1 \in 0 .. Len(buffer)
    BY <1>7, <1>8
  <2> QED
    BY <1>2, <1>7, <1>8, <2>1, PieceBefore, PieceAfter
<1>10. PICK c \in Taken .. fed : c = Taken + (k - 1)
  BY <1>7, <1>8
<1>11. Taken' = c /\ c \in Nat
  <2>1. Taken' = fed - (Len(buffer) - (k - 1))
    BY <1>2, <1>9 DEF Taken
  <2> HIDE DEF Taken
  <2> QED
    BY <1>7, <1>8, <1>10, <2>1
<1>12. \A o \in Taken + 1 .. fed - 1 : ~OpenAt(text, o)
  <2> SUFFICES ASSUME NEW o \in Taken + 1 .. fed - 1 PROVE ~OpenAt(text, o)
    OBVIOUS
  <2>1. o - Taken \in 1 .. Len(buffer) - 1 /\ Taken + (o - Taken) = o
    BY <1>7
  <2> QED
    BY <1>2, <1>5, <2>1, TagsInBuffer
<1>13. \A o \in Taken + 1 .. c : ~OpenAt(text, o)
  <2> SUFFICES ASSUME NEW o \in Taken + 1 .. c, OpenAt(text, o) PROVE FALSE
    OBVIOUS
  <2>1. o = fed
    BY <1>7, <1>10, <1>12
  <2>2. Len(buffer) \in 1 .. Len(buffer) /\ Taken + Len(buffer) = o /\ k # Len(buffer)
    BY <1>7, <1>10, <2>1
  <2>4. text[o] # "<T"
    BY <1>5, <1>7, <2>1, TagNotCut
  <2>3. Is(buffer, Len(buffer), "<")
    BY <2>2, <2>4, BufferIs DEF OpenAt
  <2> QED
    BY <1>8, <2>2, <2>3
<1>14. \A p \in Taken + 1 .. c : text[p] \notin {"<", "<T", ">"} /\ ~CloseAt(text, p)
  <2>1. c <= Len(text) /\ PublicFrom(text, Taken)
    BY <1>6, <1>7, <1>10 DEF InPublic
  <2> QED
    BY <1>11, <1>13, <2>1, PlainAhead
<1>15. Len(line) \in Nat /\ m + Len(line) = Taken /\ m \in Nat /\ LineBehind(m) /\ Starts(m)
  BY <1>1, <1>6, <1>7, Typed DEF InPublic
<1>16. LineBehind(m)' /\ Len(line') = Len(line) + (k - 1)
  <2>1. ASSUME NEW p \in m + 1 .. c PROVE Plain(p)'
    <3>1. CASE p \in Taken + 1 .. c
      BY <1>2, <1>14, <3>1 DEF Plain
    <3>2. CASE p \notin Taken + 1 .. c
      <4>1. p - m \in 1 .. Len(line) /\ m + (p - m) = p
        BY <1>7, <1>15, <3>2
      <4>2. Plain(p)
        <5>1. p - m \in DOMAIN line
          BY <1>1, <4>1, Typed
        <5> QED
          BY <1>15, <4>1, <5>1 DEF LineBehind
      <4> QED
        BY <1>2, <4>2 DEF Plain
    <3> QED
      BY <3>1, <3>2
  <2>2. Taken + Len(Before(buffer, k)) = c
    BY <1>9, <1>10
  <2>3. \A p \in m + 1 .. Taken + Len(Before(buffer, k)) : Plain(p)'
    BY <2>1, <2>2
  <2>4. line' = line \o Before(buffer, k) /\ text' = text
    BY <1>2
  <2>5. Len(line') = Len(line) + Len(Before(buffer, k)) /\ LineBehind(m)'
    BY <1>9, <1>15, <2>3, <2>4, LineGoesOn
  <2> QED
    BY <1>9, <2>5
<1>17. m + Len(line') = c
  <2>1. k - 1 \in Int /\ Len(line') = Len(line) + (k - 1)
    BY <1>7, <1>8, <1>16
  <2>2. m + Len(line) = Taken /\ c = Taken + (k - 1)
    BY <1>10, <1>15
  <2> HIDE DEF Taken
  <2> QED
    BY <1>7, <1>15, <2>1, <2>2
<1>18. PublicFrom(text, c)
  <2>1. Taken <= c /\ PublicFrom(text, Taken)
    BY <1>6, <1>7, <1>10 DEF InPublic
  <2> QED
    BY <1>7, <1>11, <1>13, <2>1, PublicShift
<1>19. Decided(m)' /\ Starts(m)'
  BY <1>2, <1>6, <1>15 DEF Decided, IsShown, PublicLine, Starts, Breaks
<1>20. InPublic(m)'
  <2>1. \A o \in c + 1 .. fed - 1 : o \in Taken + 1 .. fed - 1
    BY <1>7, <1>10
  <2>2. \A o \in c + 1 .. fed - 1 : ~OpenAt(text, o)
    BY <1>12, <2>1
  <2>3. ~passthrough
    BY <1>6 DEF InPublic, Outside
  <2>4. PublicFrom(text, Taken)' /\ (m + Len(line))' = c
    BY <1>2, <1>11, <1>17, <1>18 DEF PublicFrom
  <2> QED
    BY <1>2, <1>11, <1>16, <1>19, <2>2, <2>3, <2>4 DEF InPublic, Outside
<1>21. m \in 0 .. Taken'
  BY <1>7, <1>10, <1>11, <1>15
<1> QED
  BY <1>2, <1>19, <1>20, <1>21 DEF LinesOK, AnyMode

\* The next line is decided.
LEMMA NextLinePublic ==
  ASSUME ParserInv, PublicInv, NextLine
  PROVE  PublicInv'
<1> USE DEF input, tags, modes
<1>1. TypeOK /\ StopInv
  BY DEF ParserInv
<1>2. /\ pc = "lines" /\ (LineEnds # {} \/ (Flush /\ line # <<>>))
      /\ UNCHANGED <<text, fed, cuts, state, buffer, monologue, sections, monoTokens,
                     failsafe, passthrough, warned, next>>
  BY DEF NextLine
<1>3. StreamOK'
  BY <1>2 DEF PublicInv, StreamOK
<1>4. SUFFICES ASSUME Regular' PROVE LinesOK'
  BY <1>3 DEF PublicInv, LinesOK
<1>5. Regular /\ ~truncated'
  BY <1>1, <1>2, <1>4 DEF Regular, CloseTagsWhole, TagsKnown, StopInv
<1>6. PICK m \in 0 .. Taken : Decided(m) /\ (InPublic(m) \/ AtOpenTag(m) \/ AtEnd(m))
  BY <1>2, <1>5 DEF PublicInv, LinesOK, AnyMode, InThoughts
<1>7. Taken \in Nat /\ Taken <= fed /\ fed \in Nat /\ m \in Nat
  BY BufferIs
<1>8. Taken' = Taken
  BY <1>2 DEF Taken
<1> HIDE DEF Taken
<1>9. Len(line) \in Nat /\ line # <<>>
  BY <1>1, <1>2, Typed DEF LineEnds
<1>10. /\ LineBehind(m) /\ Starts(m) /\ m + Len(line) <= fed /\ m + Len(line) <= Taken
       /\ next = "final" => m + Len(line) = fed
       /\ next = "enter" => m + Len(line) < fed /\ text[m + Len(line) + 1] \in {"<", "<T"}
  <2>1. CASE InPublic(m)
    <3>1. /\ next = "read" /\ LineBehind(m) /\ Starts(m)
          /\ m + Len(line) = Taken
      BY <1>2, <2>1 DEF InPublic, Outside
    <3> QED
      BY <1>7, <3>1
  <2>2. CASE AtOpenTag(m)
    <3>1. /\ next = "enter" /\ LineBehind(m) /\ Starts(m)
          /\ m + Len(line) + 1 < Taken /\ text[m + Len(line) + 1] \in {"<", "<T"}
      BY <1>9, <2>2 DEF AtOpenTag
    <3> QED
      BY <1>7, <1>9, <3>1
  <2>3. CASE AtEnd(m)
    <3>1. /\ next = "final" /\ LineBehind(m) /\ Starts(m) /\ m + Len(line) = fed
      BY <1>9, <2>3 DEF AtEnd
    <3>2. Taken = fed
      <4>1. buffer = <<>>
        BY <1>2, <3>1 DEF ParserInv, ModeInv
      <4>2. Len(buffer) = 0
        BY <4>1
      <4> QED
        BY <1>7, <4>2 DEF Taken
    <3> QED
      BY <1>7, <3>1, <3>2
  <2> QED
    BY <1>6, <2>1, <2>2, <2>3
<1>11. PICK n \in 1 .. Len(line) :
           /\ Decided(m + n)' /\ LineBehind(m + n)'
           /\ line' \in Places /\ Len(line') = Len(line) - n
           /\ line' # <<>> \/ next = "read" => Starts(m + n)'
           /\ pc' = "lines"
  BY <1>5, <1>6, <1>7, <1>10, LineStep
<1>12. /\ (m + n) + Len(line') = m + Len(line)
       /\ m + n \in 0 .. Taken
  BY <1>7, <1>9, <1>10, <1>11
<1>13. AnyMode(m + n)'
  <2>1. CASE InPublic(m)
    <3>1. InPublic(m + n)'
      <4>1. next = "read"
        BY <1>2, <2>1 DEF InPublic, Outside
      <4>2. Outside' /\ PublicFrom(text, Taken)'
        BY <1>2, <1>8, <1>11, <2>1, <4>1 DEF InPublic, Outside, PublicFrom
      <4>3. (m + n) + Len(line') = Taken'
        BY <1>8, <1>12, <2>1 DEF InPublic
      <4>4. \A o \in Taken' + 1 .. fed' - 1 : ~OpenAt(text', o)
        BY <1>2, <1>8, <2>1 DEF InPublic
      <4> QED
        BY <1>2, <1>11, <4>1, <4>2, <4>3, <4>4 DEF InPublic
    <3> QED
      BY <3>1 DEF AnyMode
  <2>2. CASE AtOpenTag(m)
    <3>1. ThoughtFrom(text, Taken)'
      BY <1>2, <1>8, <2>2 DEF AtOpenTag, ThoughtFrom
    <3>2. AtOpenTag(m + n)'
      BY <1>2, <1>8, <1>11, <1>12, <2>2, <3>1 DEF AtOpenTag
    <3> QED
      BY <3>2 DEF AnyMode
  <2>3. CASE AtEnd(m)
    <3>1. AtEnd(m + n)'
      BY <1>2, <1>11, <1>12, <2>3 DEF AtEnd
    <3> QED
      BY <3>1 DEF AnyMode
  <2> QED
    BY <1>6, <2>1, <2>2, <2>3
<1>14. Decided(m + n)' /\ m + n \in 0 .. Taken' /\ pc' = "lines"
  BY <1>8, <1>11, <1>12
<1> QED
  BY <1>13, <1>14 DEF LinesOK

\* All the lines are decided: the monologue begins, or the stream is over.
LEMMA NoMoreLinesPublic ==
  ASSUME ParserInv, PublicInv, NoMoreLines
  PROVE  PublicInv'
<1> USE DEF input, output, modes
<1>1. TypeOK
  BY DEF ParserInv
<1>2. /\ pc = "lines" /\ (Flush => line = <<>>)
      /\ pc' = (IF next = "enter" THEN "scan" ELSE next)
      /\ state' = (IF next = "enter" THEN 0 ELSE state)
      /\ UNCHANGED <<text, fed, cuts, buffer, monologue, sections, monoTokens, line, publicTokens,
                     truncated, shown, failsafe, passthrough, warned, next>>
  BY DEF NoMoreLines
<1>3. StreamOK'
  BY <1>2 DEF PublicInv, StreamOK
<1>4. SUFFICES ASSUME Regular' PROVE LinesOK'
  BY <1>3 DEF PublicInv, LinesOK
<1>5. Regular
  BY <1>2, <1>4 DEF Regular, CloseTagsWhole, TagsKnown
<1>6. PICK m \in 0 .. Taken : Decided(m) /\ (InPublic(m) \/ AtOpenTag(m) \/ AtEnd(m))
  BY <1>2, <1>5 DEF PublicInv, LinesOK, AnyMode, InThoughts
<1>7. Taken \in Nat /\ Taken <= fed /\ fed \in Nat /\ m \in Nat
  BY BufferIs
<1>8. Taken' = Taken
  BY <1>2 DEF Taken
<1> HIDE DEF Taken
<1>9. Decided(m)' /\ Starts(m)' = Starts(m)
  BY <1>2, <1>6 DEF Decided, IsShown, PublicLine, Starts, Breaks
<1>10. CASE InPublic(m)
  <2>1. next = "read" /\ pc' = "read" /\ state' = state
    BY <1>2, <1>10 DEF InPublic, Outside
  <2>2. LineBehind(m)'
    BY <1>2, <1>10, <2>1 DEF InPublic, LineBehind, Plain
  <2>3. Outside' /\ PublicFrom(text, Taken)'
    BY <1>2, <1>8, <1>10, <2>1 DEF InPublic, Outside, PublicFrom
  <2>4. InPublic(m)'
    BY <1>2, <1>8, <1>9, <1>10, <2>1, <2>2, <2>3 DEF InPublic
  <2> QED
    BY <1>8, <1>9, <2>1, <2>4 DEF LinesOK, AnyMode
<1>11. CASE AtOpenTag(m)
  <2>1. next = "enter" /\ line = <<>> /\ pc' = "scan" /\ state' = 0
    BY <1>2, <1>11 DEF AtOpenTag, Flush
  <2>2. PICK o \in Nat : o = m + 1
    BY <1>7
  <2>3. m + Len(line) + 1 = o
    <3>1. Len(line) = 0
      BY <2>1
    <3> QED
      BY <1>7, <2>2, <3>1
  <2>4. /\ o < Taken /\ text[o] \in {"<", "<T"} /\ (\A p \in o .. Taken : text[p] # "pub")
        /\ ThoughtFrom(text, Taken)
    BY <1>11, <2>3 DEF AtOpenTag
  <2>5. Decided(o)'
    <3> SUFFICES ASSUME NEW p \in 1 .. o, text'[p] = "pub"
                 PROVE  IsShown(p)' <=> \A q \in PublicLine(p)' : text'[q] # "meta"
      BY DEF Decided
    <3>1. p # o
      BY <1>2, <2>4
    <3>2. p \in 1 .. m
      BY <1>7, <2>2, <3>1
    <3> QED
      BY <1>9, <3>2 DEF Decided
  <2>6. Starts(o)'
    BY <1>2, <2>4 DEF Starts, Breaks
  <2>7. InThoughts(o)'
    <3>1. \A p \in o + 1 .. Taken : p \in o .. Taken
      BY <1>7
    <3>2. \A p \in o + 1 .. Taken : text[p] # "pub"
      BY <2>4, <3>1
    <3>3. ThoughtFrom(text, Taken)'
      BY <1>2, <1>8, <2>4 DEF ThoughtFrom
    <3> QED
      BY <1>2, <1>8, <2>1, <2>6, <3>2, <3>3 DEF InThoughts
  <2>8. o \in 0 .. Taken'
    BY <1>7, <1>8, <2>4
  <2> QED
    BY <2>1, <2>5, <2>7, <2>8 DEF LinesOK, AnyMode
<1>12. CASE AtEnd(m)
  <2>1. next = "final" /\ line = <<>> /\ pc' = "final" /\ m + Len(line) = fed
    BY <1>2, <1>12 DEF AtEnd, Flush
  <2>2. m = fed
    <3>1. Len(line) = 0
      BY <2>1
    <3> QED
      BY <1>7, <2>1, <3>1
  <2>3. Decided(fed)'
    BY <1>2, <1>6, <2>2 DEF Decided, IsShown, PublicLine
  <2> QED
    BY <2>1, <2>3 DEF LinesOK
<1> QED
  BY <1>6, <1>10, <1>11, <1>12

\* A close tag that was received whole is taken whole: the next line starts behind it.
LEMMA FindCloseTagPublic ==
  ASSUME ParserInv, PublicInv, FindCloseTag
  PROVE  PublicInv'
<1> DEFINE j == Least(CloseTags(buffer))
           e == CloseEnd(buffer, j)
<1> USE DEF input, output, modes
<1>1. TypeOK /\ ModeInv /\ StopInv
  BY DEF ParserInv
<1>2. /\ pc = "scan" /\ state = 0 /\ CloseTags(buffer) # {} /\ state' = 1
      /\ buffer' = After(buffer, e)
      /\ UNCHANGED <<text, fed, cuts, monoTokens, line, publicTokens, truncated, shown,
                     failsafe, passthrough, warned, pc, next>>
  BY DEF FindCloseTag
<1>3. StreamOK'
  BY <1>2 DEF PublicInv, StreamOK
<1>4. SUFFICES ASSUME Regular' PROVE LinesOK'
  BY <1>3 DEF PublicInv, LinesOK
<1>5. Regular /\ TagsKnown
  BY <1>2, <1>4 DEF Regular, CloseTagsWhole, TagsKnown
<1>6. PICK m \in 0 .. Taken : Decided(m) /\ InThoughts(m)
  BY <1>2, <1>5 DEF PublicInv, LinesOK, AnyMode, InPublic, AtOpenTag, AtEnd, Outside
<1>7. /\ Taken \in Nat /\ Taken + Len(buffer) = fed /\ Len(buffer) \in Nat /\ fed \in Nat
      /\ fed <= Len(text) /\ Len(text) \in Nat /\ DOMAIN text = 1 .. Len(text)
      /\ Piece(buffer, Taken) /\ m \in Nat
  BY BufferIs
<1>8. PICK i \in 1 .. Len(buffer) - 1 :
        j = i /\ CloseAt(text, Taken + i) /\ \A h \in CloseTags(buffer) : i <= h
  <2>1. CloseTags(buffer) \in SUBSET Nat
    BY <1>7 DEF CloseTags, Piece, Places
  <2>2. j \in CloseTags(buffer) /\ \A h \in CloseTags(buffer) : j <= h
    BY <1>2, <2>1, LeastIs
  <2> QED
    BY <1>5, <2>2, TagsInBuffer
<1> HIDE DEF j
<1>9. PICK c \in 1 .. Len(text) : c = Taken + i
  BY <1>7
<1>10. i \in Nat /\ i >= 1 /\ i + 1 <= Len(buffer) /\ c \in Nat
  BY <1>7
<1>11. /\ text[c] = "</" /\ text[c + 1] = "think"
       /\ c + 2 \in DOMAIN text /\ text[c + 2] = ">" /\ PublicFrom(text, c + 2)
  BY <1>7, <1>8, <1>9 DEF PublicInv, StreamOK, CloseAt
\* A chunk ended at fed, so that the tag would not be whole.
<1>12. c + 2 <= fed
  <2>1. fed # 0 /\ c + 1 <= fed
    BY <1>7, <1>9, <1>10
  <2>2. fed \in cuts
    BY <2>1 DEF ParserInv, ContigInv
  <2>3. cuts \cap {c, c + 1} = {}
    BY <1>5, <1>11 DEF Regular, CloseTagsWhole, TagsKnown
  <2>4. fed # c + 1
    BY <2>2, <2>3
  <2> QED
    BY <1>7, <1>10, <2>1, <2>4
<1>13. e = i + 2
  <2>1. i + 2 \in 1 .. Len(buffer) /\ Taken + (i + 2) = c + 2
    BY <1>7, <1>9, <1>10, <1>12
  <2>2. Is(buffer, i + 2, ">")
    BY <1>11, <2>1, BufferIs
  <2> QED
    BY <1>8, <2>2 DEF CloseEnd
<1> HIDE DEF e
<1>14. Taken' = c + 2
  <2>1. i + 2 \in 0 .. Len(buffer)
    BY <1>7, <1>9, <1>10, <1>12
  <2>2. Len(buffer') = Len(buffer) - (i + 2)
    BY <1>2, <1>7, <1>13, <2>1, PieceAfter
  <2>3. Taken' = fed - (Len(buffer) - (i + 2))
    BY <1>2, <2>2 DEF Taken
  <2> HIDE DEF Taken
  <2> QED
    BY <1>7, <1>9, <1>10, <2>3
<1>15. ASSUME NEW p \in m + 1 .. c + 2 PROVE text[p] # "pub"
  <2>1. CASE p <= Taken
    <3>1. p \in m + 1 .. Taken
      BY <1>7, <2>1
    <3> QED
      BY <1>6, <3>1 DEF InThoughts
  <2>2. CASE Taken < p /\ p < c
    <3>1. p \in Taken + 1 .. Len(text)
      BY <1>7, <1>9, <2>2
    <3>2. ASSUME NEW h \in Taken + 1 .. p, CloseAt(text, h) PROVE FALSE
      <4>1. h - Taken \in 1 .. Len(buffer) - 1 /\ Taken + (h - Taken) = h /\ ~(i <= h - Taken)
        BY <1>7, <1>9, <1>10, <1>12, <2>2
      <4> QED
        BY <1>5, <1>8, <3>2, <4>1, TagsInBuffer
    <3> QED
      BY <1>6, <3>1, <3>2 DEF InThoughts, ThoughtFrom
  <2>3. CASE c <= p
    <3>1. p \in {c, c + 1, c + 2}
      BY <1>10, <2>3
    <3> QED
      BY <1>11, <3>1
  <2> QED
    BY <1>7, <1>10, <2>1, <2>2, <2>3
<1>16. Decided(c + 2)'
  <2> SUFFICES ASSUME NEW p \in 1 .. c + 2, text[p] = "pub"
               PROVE  IsShown(p)' <=> \A q \in PublicLine(p)' : text'[q] # "meta"
    BY <1>2 DEF Decided
  <2>1. p \in 1 .. m
    BY <1>7, <1>10, <1>15
  <2> QED
    BY <1>2, <1>6, <2>1 DEF Decided, IsShown, PublicLine
<1>17. InPublic(c + 2)'
  <2>1. line' = <<>> /\ Len(line') = 0 /\ DOMAIN line' = {}
    <3>1. line' = <<>>
      BY <1>1, <1>2 DEF ModeInv
    <3> QED
      BY <3>1
  <2>2. LineBehind(c + 2)' /\ Starts(c + 2)'
    BY <1>2, <1>11, <2>1 DEF LineBehind, Starts, Breaks
  <2>3. Outside'
    BY <1>1, <1>2, <1>5 DEF Outside, ModeInv, Regular
  <2>4. PublicFrom(text, Taken)'
    BY <1>2, <1>11, <1>14 DEF PublicFrom
  <2>5. (c + 2) + Len(line') = Taken' /\ pc' = "scan"
    BY <1>2, <1>10, <1>14, <2>1
  <2> QED
    BY <2>2, <2>3, <2>4, <2>5 DEF InPublic
<1>18. c + 2 \in 0 .. Taken'
  BY <1>10, <1>14
<1> QED
  BY <1>2, <1>16, <1>17, <1>18 DEF LinesOK, AnyMode

\* More of the monologue.
LEMMA NoCloseTagPublic ==
  ASSUME ParserInv, PublicInv, NoCloseTag
  PROVE  PublicInv'
<1> USE DEF input
<1>1. TypeOK /\ ModeInv
  BY DEF ParserInv
<1>2. /\ pc = "scan" /\ state = 0 /\ CloseTags(buffer) = {} /\ buffer' = <<>> /\ pc' = "read"
      /\ \/ UNCHANGED <<state, shown, failsafe, passthrough>>
         \/ failsafe' = TRUE
      /\ UNCHANGED <<text, fed, cuts, line, publicTokens, truncated, warned, next>>
  BY DEF NoCloseTag
<1>3. StreamOK'
  BY <1>2 DEF PublicInv, StreamOK
<1>4. SUFFICES ASSUME Regular' PROVE LinesOK'
  BY <1>3 DEF PublicInv, LinesOK
<1>5. UNCHANGED <<state, shown, failsafe, passthrough>>
  BY <1>2, <1>4 DEF Regular
<1>6. Regular /\ TagsKnown
  BY <1>2, <1>4, <1>5 DEF Regular, CloseTagsWhole, TagsKnown
<1>7. PICK m \in 0 .. Taken : Decided(m) /\ InThoughts(m)
  BY <1>2, <1>6 DEF PublicInv, LinesOK, AnyMode, InPublic, AtOpenTag, AtEnd, Outside
<1>8. /\ Taken \in Nat /\ Taken + Len(buffer) = fed /\ Len(buffer) \in Nat /\ fed \in Nat
      /\ fed <= Len(text) /\ Len(text) \in Nat /\ m \in Nat
  BY BufferIs
<1>9. Taken' = fed
  <2>1. Len(buffer') = 0
    BY <1>2
  <2>2. Taken' = fed - 0
    BY <1>2, <2>1 DEF Taken
  <2> HIDE DEF Taken
  <2> QED
    BY <1>8, <2>2
<1> HIDE DEF Taken
<1>10. \A c \in Taken + 1 .. fed : ~CloseAt(text, c)
  <2> SUFFICES ASSUME NEW c \in Taken + 1 .. fed, CloseAt(text, c) PROVE FALSE
    OBVIOUS
  <2>1. CASE c = fed
    <3>1. fed # 0 /\ fed \in 1 .. Len(text)
      BY <1>8, <2>1
    <3>2. fed \in cuts /\ text[fed] = "</"
      BY <2>1, <3>1 DEF ParserInv, ContigInv, CloseAt
    <3> QED
      BY <1>6, <3>1, <3>2 DEF Regular, CloseTagsWhole, TagsKnown
  <2>2. CASE c # fed
    <3>1. c - Taken \in 1 .. Len(buffer) - 1 /\ Taken + (c - Taken) = c
      BY <1>8, <2>2
    <3> QED
      BY <1>2, <1>6, <3>1, TagsInBuffer
  <2> QED
    BY <2>1, <2>2
<1>11. ThoughtFrom(text, fed)
  <2>1. Taken <= fed /\ ThoughtFrom(text, Taken)
    BY <1>7, <1>8 DEF InThoughts
  <2> QED
    BY <1>8, <1>10, <2>1, ThoughtShift
<1>12. ASSUME NEW p \in m + 1 .. fed PROVE text[p] # "pub"
  <2>1. CASE p <= Taken
    <3>1. p \in m + 1 .. Taken
      BY <1>8, <2>1
    <3> QED
      BY <1>7, <3>1 DEF InThoughts
  <2>2. CASE ~(p <= Taken)
    <3>1. p \in Taken + 1 .. Len(text) /\ \A c \in Taken + 1 .. p : c \in Taken + 1 .. fed
      BY <1>8, <2>2
    <3>2. \A c \in Taken + 1 .. p : ~CloseAt(text, c)
      BY <1>10, <3>1
    <3> QED
      BY <1>7, <3>1, <3>2 DEF InThoughts, ThoughtFrom
  <2> QED
    BY <2>1, <2>2
<1>13. Decided(m)' /\ Starts(m)'
  BY <1>2, <1>5, <1>7 DEF Decided, IsShown, PublicLine, InThoughts, Starts, Breaks
<1>14. InThoughts(m)'
  <2>1. ThoughtFrom(text, Taken)'
    BY <1>2, <1>9, <1>11 DEF ThoughtFrom
  <2>2. state' = 0 /\ text' = text
    BY <1>2, <1>5
  <2> QED
    BY <1>2, <1>9, <1>12, <1>13, <2>1, <2>2 DEF InThoughts
<1>15. m \in 0 .. Taken'
  BY <1>8, <1>9
<1> QED
  BY <1>2, <1>13, <1>14, <1>15 DEF LinesOK, AnyMode

\* The stream is over: what is left of the public text is on the line.
LEMMA EndOfStreamPublic ==
  ASSUME ParserInv, PublicInv, EndOfStream
  PROVE  PublicInv'
<1> USE DEF input, output, modes
<1>1. TypeOK
  BY DEF ParserInv
<1>2. /\ pc = "read" /\ line' = (IF state = 1 THEN line \o buffer ELSE line) /\ buffer' = <<>>
      /\ pc' = (IF state = 1 THEN "lines" ELSE "final") /\ next' = "final"
      /\ UNCHANGED <<text, fed, cuts, state, publicTokens, truncated, shown, failsafe,
                     passthrough, warned>>
  BY DEF EndOfStream
<1>3. StreamOK'
  BY <1>2 DEF PublicInv, StreamOK
<1>4. SUFFICES ASSUME Regular' PROVE LinesOK'
  BY <1>3 DEF PublicInv, LinesOK
<1>5. Regular /\ TagsKnown
  BY <1>2, <1>4 DEF Regular, CloseTagsWhole, TagsKnown
<1>6. PICK m \in 0 .. Taken : Decided(m) /\ (InPublic(m) \/ InThoughts(m))
  BY <1>2, <1>5 DEF PublicInv, LinesOK, AnyMode, AtOpenTag, AtEnd
<1>7. /\ Taken \in Nat /\ Taken + Len(buffer) = fed /\ Len(buffer) \in Nat /\ fed \in Nat
      /\ fed <= Len(text) /\ Len(text) \in Nat /\ Piece(buffer, Taken) /\ m \in Nat
  BY BufferIs
<1>8. Taken' = fed
  <2>1. Len(buffer') = 0
    BY <1>2
  <2>2. Taken' = fed - 0
    BY <1>2, <2>1 DEF Taken
  <2> HIDE DEF Taken
  <2> QED
    BY <1>7, <2>2
<1>9. Decided(m)'
  BY <1>2, <1>6 DEF Decided, IsShown, PublicLine
<1>10. CASE InPublic(m)
  <2>1. state = 1 /\ line' = line \o buffer /\ pc' = "lines"
    BY <1>2, <1>10 DEF InPublic, Outside
  <2>2. /\ Len(line) \in Nat /\ m + Len(line) = Taken /\ LineBehind(m) /\ Starts(m)
        /\ PublicFrom(text, Taken)
    BY <1>1, <1>10, Typed DEF InPublic
  <2>3. \A o \in Taken + 1 .. fed - 1 : ~OpenAt(text, o)
    BY <1>2, <1>10 DEF InPublic
  <2>4. ASSUME NEW p \in Taken + 1 .. fed PROVE Plain(p)'
    <3>1. CASE OpenAt(text, p)
      <4>1. p = fed /\ text[p] = "<"
        BY <1>5, <1>7, <2>3, <3>1, TagNotCut DEF OpenAt
      <4> QED
        BY <1>2, <2>1, <4>1 DEF Plain, CloseAt
    <3>2. CASE ~OpenAt(text, p)
      <4>1. p \in Nat /\ p <= Len(text)
        BY <1>7
      <4>2. \A o \in Taken + 1 .. p : o \in Taken + 1 .. fed - 1 \/ o = p
        BY <1>7
      <4>3. \A o \in Taken + 1 .. p : ~OpenAt(text, o)
        BY <2>3, <3>2, <4>2
      <4>4. p \in Taken + 1 .. p
        BY <1>7
      <4>5. text[p] \notin {"<", "<T", ">"} /\ ~CloseAt(text, p)
        BY <2>2, <4>1, <4>3, <4>4, PlainAhead
      <4> QED
        BY <1>2, <4>5 DEF Plain
    <3> QED
      BY <3>1, <3>2
  <2>5. ASSUME NEW p \in m + 1 .. Taken + Len(buffer) PROVE Plain(p)'
    <3>1. CASE p \in Taken + 1 .. fed
      BY <2>4, <3>1
    <3>2. CASE p \notin Taken + 1 .. fed
      <4>1. p - m \in 1 .. Len(line) /\ m + (p - m) = p
        BY <1>7, <2>2, <3>2
      <4>2. Plain(p)
        <5>1. p - m \in DOMAIN line
          BY <1>1, <4>1, Typed
        <5> QED
          BY <2>2, <4>1, <5>1 DEF LineBehind
      <4> QED
        BY <1>2, <4>2 DEF Plain
    <3> QED
      BY <3>1, <3>2
  <2>6. LineBehind(m)' /\ Len(line') = Len(line) + Len(buffer)
    BY <1>2, <1>7, <2>1, <2>2, <2>5, LineGoesOn
  <2>7. m + Len(line') = fed
    BY <1>7, <2>2, <2>6
  <2>8. AtEnd(m)'
    BY <1>2, <2>1, <2>2, <2>6, <2>7 DEF AtEnd, Starts, Breaks
  <2>9. m \in 0 .. Taken'
    BY <1>7, <1>8
  <2> QED
    BY <1>9, <2>1, <2>8, <2>9 DEF LinesOK, AnyMode
<1>11. CASE InThoughts(m)
  <2>1. state = 0 /\ pc' = "final" /\ buffer = <<>>
    BY <1>2, <1>11 DEF InThoughts
  <2>2. Taken = fed
    <3>1. Len(buffer) = 0
      BY <2>1
    <3> HIDE DEF Taken
    <3> QED
      BY <1>7, <3>1
  <2>3. Decided(fed)
    <3> SUFFICES ASSUME NEW p \in 1 .. fed, text[p] = "pub"
                 PROVE  IsShown(p) <=> \A q \in PublicLine(p) : text[q] # "meta"
      BY DEF Decided
    <3>1. ~(p \in m + 1 .. fed)
      BY <1>11, <2>2 DEF InThoughts
    <3>2. p \in 1 .. m
      BY <1>7, <3>1
    <3> QED
      BY <1>6, <3>2 DEF Decided
  <2>4. Decided(fed)'
    BY <1>2, <2>3 DEF Decided, IsShown, PublicLine
  <2> QED
    BY <2>1, <2>4 DEF LinesOK
<1> QED
  BY <1>6, <1>10, <1>11

\* The finally block shows no public word.
LEMMA FinishPublic ==
  ASSUME ParserInv, PublicInv, Finish
  PROVE  PublicInv'
<1> USE DEF input
<1>1. /\ pc = "final" /\ pc' = "done" /\ (~failsafe' => ~failsafe /\ shown' = shown)
      /\ UNCHANGED <<text, fed, cuts, truncated>>
  BY DEF Finish
<1>2. StreamOK'
  BY <1>1 DEF PublicInv, StreamOK
<1>3. SUFFICES ASSUME Regular' PROVE LinesOK'
  BY <1>2 DEF PublicInv, LinesOK
<1>4. Regular /\ shown' = shown
  BY <1>1, <1>3 DEF Regular, CloseTagsWhole, TagsKnown
<1>5. Decided(fed)
  BY <1>1, <1>4 DEF PublicInv, LinesOK
<1>6. Decided(fed)'
  BY <1>1, <1>4, <1>5 DEF Decided, IsShown, PublicLine
<1> QED
  BY <1>1, <1>6 DEF LinesOK

LEMMA NextPublicInv == ParserInv /\ PublicInv /\ [Next]_vars => PublicInv'
<1> SUFFICES ASSUME ParserInv, PublicInv, [Next]_vars PROVE PublicInv'
  OBVIOUS
<1>1. ASSUME NEW n \in 1 .. Len(text) - fed, Read(n) PROVE PublicInv'
  BY <1>1, ReadPublic
<1>2. CASE UNCHANGED vars
  <2>1. UNCHANGED <<text, fed, cuts, state, buffer, line, monologue, sections, monoTokens,
                    publicTokens, truncated, failsafe, passthrough, shown, warned, pc, next>>
    BY <1>2 DEF vars, input, tags, output, modes
  <2>2. StreamOK'
    BY <2>1 DEF PublicInv, StreamOK
  <2>3. SUFFICES ASSUME Regular' PROVE LinesOK'
    BY <2>2 DEF PublicInv, LinesOK
  <2>4. Regular
    BY <2>1, <2>3 DEF Regular, CloseTagsWhole, TagsKnown
  <2>5. CASE pc \in {"final", "done"}
    <3>1. Decided(fed)
      BY <2>4, <2>5 DEF PublicInv, LinesOK
    <3>2. Decided(fed)'
      BY <2>1, <3>1 DEF Decided, IsShown, PublicLine
    <3> QED
      BY <2>1, <2>5, <3>2 DEF LinesOK
  <2>6. CASE pc \notin {"final", "done"}
    <3>1. PICK m \in 0 .. Taken : Decided(m) /\ AnyMode(m)
      BY <2>4, <2>6 DEF PublicInv, LinesOK
    <3>2. Taken' = Taken /\ LineBehind(m)' = LineBehind(m) /\ Starts(m)' = Starts(m)
      BY <2>1 DEF Taken, LineBehind, Plain, Starts, Breaks
    <3>3. Decided(m)'
      BY <2>1, <3>1 DEF Decided, IsShown, PublicLine
    <3>4. InPublic(m)' = InPublic(m) /\ AtOpenTag(m)' = AtOpenTag(m)
      BY <2>1, <3>2 DEF InPublic, AtOpenTag, Outside, PublicFrom, ThoughtFrom
    <3>5. InThoughts(m)' = InThoughts(m) /\ AtEnd(m)' = AtEnd(m)
      BY <2>1, <3>2 DEF InThoughts, AtEnd, ThoughtFrom
    <3>6. AnyMode(m)' = AnyMode(m)
      BY <3>4, <3>5 DEF AnyMode
    <3> QED
      BY <2>1, <2>6, <3>1, <3>2, <3>3, <3>6 DEF LinesOK
  <2> QED
    BY <2>5, <2>6
<1> QED
  BY <1>1, <1>2, FindOpenTagPublic, NoOpenTagPublic, NextLinePublic, NoMoreLinesPublic,
     FindCloseTagPublic, NoCloseTagPublic, EndOfStreamPublic, FinishPublic DEF Next

------------------------------------------------------------------------------------
\* The theorems

\* The buffers of _stream_buffer, _line_buffer and inner_monologue_buffer always hold pieces
\* of the received stream, and the parser is in a mode its loop knows.
THEOREM TypeCorrect == Spec => []TypeOK
<1>1. ParserInv => TypeOK
  BY DEF ParserInv
<1> QED
  BY <1>1, ParserInvariance, PTL

\* No chunk boundary lets a word of a scratchpad reach the client, not even one inside a tag
\* that is written as in OPEN_TAGS: only the fail-safe shows the monologue, and it says so.
\* (Behind <thinking>, or a tag in another case that a chunk ended in, it does reach it.)
THEOREM ScratchpadPrivate == Spec => []NoBleed
<1>1. ParserInv => NoBleed
  BY DEF ParserInv, PrivInv, NoBleed, Shown
<1> QED
  BY <1>1, ParserInvariance, PTL

\* What the client gets is a subsequence of the stream: nothing is shown twice or out of
\* order, whatever was carried to the next chunk, flushed or replayed.
THEOREM WordsInOrder == Spec => []InOrder
<1>1. ParserInv => InOrder
  BY DEF ParserInv, OrderInv
<1> QED
  BY <1>1, ParserInvariance, PTL

\* Every word of a scratchpad that was received is in the turn's inner_monologue or was
\* shown, unless the public limit stopped the stream or an open tag was unknown.
THEOREM NoThoughtLost == Spec => []ThoughtsKept
<1>1. ParserInv => ThoughtsKept
  <2> SUFFICES ASSUME ParserInv, TagsKnown, pc = "done", ~truncated, NEW p \in 1 .. fed, text[p] \in Private
               PROVE  p \in Kept \cup Shown(Private)
    BY DEF ThoughtsKept
  <2>1. Len(buffer) = 0 /\ Len(monologue) = 0
    BY DEF ParserInv, ModeInv
  <2>2. fed \in Nat /\ fed <= Len(text) /\ Len(text) \in Nat
    BY PiecesIs
  <2>3. Parsed = fed /\ p \in 1 .. Len(text)
    BY <2>1, <2>2 DEF Parsed
  <2>4. p \in Kept \/ \E i \in DOMAIN shown : shown[i] = p
    BY <2>3 DEF ParserInv, KeptInv
  <2> QED
    BY <2>3, <2>4 DEF Shown
<1> QED
  BY <1>1, ParserInvariance, PTL

\* A GM warning that was parsed is shown in the end, wherever the stream stopped, if the
\* open tags are known.
THEOREM WarningShown == Spec => []WarningDelivered
<1>1. ParserInv => WarningDelivered
  <2> SUFFICES ASSUME ParserInv, TagsKnown, pc = "done", NEW p \in 1 .. fed, text[p] = "warn",
                      \A i \in DOMAIN buffer : buffer[i] # p
               PROVE  warned \/ Shown({"warn"}) # {}
    BY DEF WarningDelivered
  <2>1. Piece(buffer, fed - Len(buffer)) /\ monologue = <<>>
    BY PiecesIs DEF ParserInv, ModeInv
  <2>2. /\ fed \in Nat /\ fed <= Len(text) /\ Len(text) \in Nat /\ Len(buffer) \in Nat
        /\ Parsed + Len(monologue) = fed - Len(buffer) /\ Parsed \in Nat
    BY PiecesIs
  <2>3. p \in 1 .. Parsed
    <3> SUFFICES ASSUME p > Parsed PROVE FALSE
      BY <2>2
    <3> DEFINE i == p - (fed - Len(buffer))
    <3>1. i \in 1 .. Len(buffer) /\ (fed - Len(buffer)) + i = p
      BY <2>1, <2>2
    <3>2. DOMAIN buffer = 1 .. Len(buffer)
      BY <2>1 DEF Piece, Places
    <3> QED
      BY <2>1, <3>1, <3>2 DEF Piece
  <2>4. p \in Kept \/ \E i \in DOMAIN shown : shown[i] = p
    BY <2>3 DEF ParserInv, KeptInv, Private
  <2>5. CASE p \in Kept
    <3>1. PICK i \in DOMAIN sections : sections[i] = p
      BY <2>5 DEF Kept
    <3>2. HasWarning(sections)
      BY <3>1 DEF HasWarning, Is
    <3> QED
      BY <3>2 DEF ParserInv, ModeInv
  <2>6. CASE \E i \in DOMAIN shown : shown[i] = p
    <3>1. p \in 1 .. Len(text)
      BY <2>2
    <3> QED
      BY <2>6, <3>1 DEF Shown
  <2> QED
    BY <2>4, <2>5, <2>6
<1> QED
  BY <1>1, ParserInvariance, PTL

\* However a stream of whole tags is cut into chunks: as long as the open tags are known,
\* the close tags are whole and no limit is met, the client gets exactly the public words
\* of its public lines.
THEOREM CutsDontMatter ==
  ASSUME \A s \in Streams : WellFormed(s)
  PROVE  Spec => []ChunksDontMatter
<1>1. Init => ParserInv /\ PublicInv
  BY InitParserInv, InitPublicInv
<1>2. ParserInv /\ PublicInv /\ [Next]_vars => (ParserInv /\ PublicInv)'
  BY NextParserInv, NextPublicInv
<1>3. ParserInv /\ PublicInv => ChunksDontMatter
  <2> SUFFICES ASSUME ParserInv, PublicInv, pc = "done", Regular
               PROVE  Shown({"pub"}) = {p \in 1 .. fed : text[p] = "pub"
                                          /\ \A q \in PublicLine(p) : text[q] # "meta"}
    BY DEF ChunksDontMatter, Regular
  <2>1. Decided(fed)
    BY DEF PublicInv, LinesOK
  <2>2. Shown({"pub"}) = {p \in 1 .. Len(text) : text[p] = "pub" /\ IsShown(p)}
    BY DEF Shown, IsShown
  <2>3. fed \in Nat /\ fed <= Len(text) /\ Len(text) \in Nat
    BY PiecesIs
  <2>4. ASSUME NEW p \in 1 .. Len(text), IsShown(p) PROVE p \in 1 .. fed
    <3>1. PICK i \in DOMAIN shown : shown[i] = p
      BY <2>4 DEF IsShown
    <3>2. p <= Parsed /\ Parsed + Len(monologue) = fed - Len(buffer)
      BY <3>1, PiecesIs DEF ParserInv, OrderInv
    <3>3. Parsed \in Nat /\ Len(monologue) \in Nat /\ Len(buffer) \in Nat
      BY PiecesIs
    <3> QED
      BY <2>3, <3>2, <3>3
  <2>5. \A p \in 1 .. fed : p \in 1 .. Len(text)
    BY <2>3
  <2> QED
    BY <2>1, <2>2, <2>4, <2>5 DEF Decided
<1> QED
  BY <1>1, <1>2, <1>3, PTL DEF Spec

\* max_public_tokens: once it is reached, no later chunk, line, tag or fail-safe adds to
\* what the client gets, but for the GM warning.
THEOREM LimitIsFinal == Spec => LimitFinal
<1>1. StopInv /\ [Next]_vars => [truncated => shown' = shown]_vars
  BY NothingShown
<1> QED
  BY <1>1, StopInvariance, PTL DEF Spec, LimitFinal
===================================================================================
