--------------------------- MODULE ReaderCacheProofs ---------------------------
(***************************************************************************)
(* What the cache of readers promises, for every set of type texts, every  *)
(* reader of them and every maxSize.                                       *)
(***************************************************************************)
EXTENDS ReaderCache, SequenceTheorems, TLAPS

Readers == {ReaderFor(text) : text \in TypeTexts}

CacheType ==
    /\ cache \in Seq([type : TypeTexts, reader : Readers])
    /\ requested \in Seq(TypeTexts)

\* An entry is what its text compiles to, and the text was asked for;
EntriesAsked ==
    \A k \in DOMAIN cache : \E i \in LastUses : cache[k] = EntryFor(requested[i])
\* the entries are in the order of the last uses of their texts;
EntriesInOrder ==
    \A k, l \in DOMAIN cache, i, j \in LastUses :
        /\ k < l
        /\ cache[k].type = requested[i]
        /\ cache[l].type = requested[j]
        => i < j
\* and a text without one was last used before all of those.
OldestDropped ==
    \A i \in LastUses :
        \/ \E k \in DOMAIN cache : cache[k].type = requested[i]
        \/ /\ Len(cache) = MaxSize
           /\ \A k \in DOMAIN cache, j \in LastUses :
                 cache[k].type = requested[j] => i < j

CacheInv ==
    /\ CacheType
    /\ Len(cache) <= MaxSize
    /\ EntriesAsked
    /\ EntriesInOrder
    /\ OldestDropped

-----------------------------------------------------------------------------
(* One entry less                                                           *)

LEMMA Removed ==
    ASSUME NEW S, NEW s \in Seq(S), NEW at \in DOMAIN s
    PROVE  /\ RemoveAt(s, at) \in Seq(S)
           /\ Len(RemoveAt(s, at)) = Len(s) - 1
           /\ \A k \in 1..(Len(s) - 1) :
                 RemoveAt(s, at)[k] = s[IF k < at THEN k ELSE k + 1]
<1> DEFINE before == SubSeq(s, 1, at - 1)
           after == SubSeq(s, at + 1, Len(s))
<1>1. at \in 1..Len(s) /\ Len(s) \in Nat
  OBVIOUS
<1>2. /\ before \in Seq(S) /\ Len(before) = at - 1
      /\ \A k \in 1..(at - 1) : before[k] = s[k]
  BY <1>1, SubSeqProperties
<1>3. /\ after \in Seq(S) /\ Len(after) = Len(s) - at
      /\ \A k \in 1..(Len(s) - at) : after[k] = s[at + k]
  BY <1>1, SubSeqProperties
<1> HIDE DEF before, after
<1>4. /\ before \o after \in Seq(S)
      /\ Len(before \o after) = Len(before) + Len(after)
      /\ \A k \in 1..(Len(before) + Len(after)) :
            (before \o after)[k] = IF k <= Len(before) THEN before[k]
                                   ELSE after[k - Len(before)]
  BY <1>2, <1>3, ConcatProperties
<1>5. Len(before) + Len(after) = Len(s) - 1
  BY <1>1, <1>2, <1>3
<1>6. ASSUME NEW k \in 1..(Len(s) - 1)
      PROVE  (before \o after)[k] = s[IF k < at THEN k ELSE k + 1]
  <2>1. CASE k < at
    <3>1. (before \o after)[k] = before[k]
      BY <1>1, <1>2, <1>4, <1>5, <2>1
    <3> QED  BY <1>1, <1>2, <2>1, <3>1
  <2>2. CASE ~(k < at)
    <3>1. (before \o after)[k] = after[k - (at - 1)]
      BY <1>1, <1>2, <1>4, <1>5, <2>2
    <3>2. k - (at - 1) \in 1..(Len(s) - at) /\ at + (k - (at - 1)) = k + 1
      BY <1>1, <2>2
    <3> QED  BY <1>1, <1>3, <2>2, <3>1, <3>2
  <2> QED  BY <2>1, <2>2
<1> QED  BY <1>4, <1>5, <1>6 DEF RemoveAt, before, after

-----------------------------------------------------------------------------
(* The last uses after a call                                               *)

Asked(text) == requested' = Append(requested, text)

LEMMA UsesAfter ==
    ASSUME CacheType, NEW text \in TypeTexts, Asked(text)
    PROVE  LET n == Len(requested)
           IN  /\ n \in Nat /\ DOMAIN requested = 1..n
               /\ requested' \in Seq(TypeTexts)
               /\ requested'[n + 1] = text
               /\ \A i \in 1..n : requested'[i] = requested[i]
               /\ LastUses \subseteq 1..n /\ LastUses' \subseteq 1..(n + 1)
               /\ \A i \in 1..n :
                     i \in LastUses' <=> i \in LastUses /\ requested[i] # text
               /\ n + 1 \in LastUses' <=> ReaderFor(text) # NoReader
<1> DEFINE n == Len(requested)
<1>1. /\ n \in Nat /\ DOMAIN requested = 1..n
      /\ requested' \in Seq(TypeTexts) /\ Len(requested') = n + 1
      /\ DOMAIN requested' = 1..(n + 1)
      /\ requested'[n + 1] = text
      /\ \A i \in 1..n : requested'[i] = requested[i]
  BY AppendProperties DEF CacheType, Asked
<1> HIDE DEF n
<1>2. \A i \in 1..n : i \in LastUses' <=> i \in LastUses /\ requested[i] # text
  BY <1>1 DEF LastUses
<1>3. n + 1 \in LastUses' <=> ReaderFor(text) # NoReader
  BY <1>1 DEF LastUses
<1>4. LastUses \subseteq 1..n /\ LastUses' \subseteq 1..(n + 1)
  BY <1>1 DEF LastUses
<1> QED  BY <1>1, <1>2, <1>3, <1>4 DEF n

LEMMA OneLastUse ==
    ASSUME CacheType, NEW i \in LastUses, NEW j \in LastUses,
           requested[i] = requested[j]
    PROVE  i = j
BY DEF CacheType, LastUses

\* Every text has one entry.
LEMMA OneEntry ==
    ASSUME CacheInv
    PROVE  \A k, l \in DOMAIN cache : cache[k].type = cache[l].type => k = l
<1> SUFFICES ASSUME NEW k \in DOMAIN cache, NEW l \in DOMAIN cache,
                    cache[k].type = cache[l].type, k # l
             PROVE  FALSE
  OBVIOUS
<1>1. PICK i \in LastUses : cache[k].type = requested[i]
  BY DEF CacheInv, EntriesAsked, EntryFor
<1>2. LastUses \subseteq Nat /\ DOMAIN cache \subseteq Nat
  BY DEF CacheInv, CacheType, LastUses
<1>3. k < l => i < i
  BY <1>1 DEF CacheInv, EntriesInOrder
<1>4. l < k => i < i
  BY <1>1 DEF CacheInv, EntriesInOrder
<1>5. k < l \/ l < k
  BY <1>2
<1> QED  BY <1>2, <1>3, <1>4, <1>5

-----------------------------------------------------------------------------
(* A call                                                                   *)

\* The m entries kept, of other texts, stay in their order, entry k from where
\* it was, and the entry of the text follows them.  Another entry that is
\* dropped was the first of a full cache.
Keeps(m, was) ==
    /\ m \in Nat
    /\ was \in [1..m -> DOMAIN cache]
    /\ DOMAIN cache' = 1..(m + 1)
    /\ \A k, l \in 1..m : k < l => was[k] < was[l]
    /\ \A k \in 1..m : cache'[k] = cache[was[k]]
Drops(text, m, was) ==
    /\ \A k \in 1..m : cache[was[k]].type # text
    /\ \A d \in DOMAIN cache :
          \/ cache[d].type = text
          \/ \E k \in 1..m : was[k] = d
          \/ m + 1 = MaxSize /\ \A k \in 1..m : d < was[k]
    /\ Len(cache) = MaxSize => m + 1 = MaxSize

LEMMA Renewed ==
    ASSUME CacheInv, CacheType', Len(cache') <= MaxSize,
           NEW text \in TypeTexts, ReaderFor(text) # NoReader, Asked(text),
           NEW m, NEW was, Keeps(m, was), Drops(text, m, was),
           Len(cache') = m + 1, cache'[m + 1] = EntryFor(text)
    PROVE  CacheInv'
<1> DEFINE n == Len(requested)
<1>1. /\ n \in Nat
      /\ requested'[n + 1] = text
      /\ LastUses \subseteq 1..n /\ n + 1 \in LastUses'
  BY UsesAfter DEF CacheInv
<1>2. \A i \in LastUses' :
         \/ i = n + 1
         \/ i \in LastUses /\ i < n + 1 /\ requested'[i] = requested[i] /\ requested[i] # text
  BY UsesAfter DEF CacheInv
<1>3. \A i \in LastUses : requested[i] # text => i \in LastUses' /\ requested'[i] = requested[i]
  BY UsesAfter DEF CacheInv
<1> HIDE DEF n
<1>4. /\ DOMAIN cache' = 1..(m + 1) /\ m \in Nat
      /\ \A k \in 1..(m + 1) : k = m + 1 \/ k \in 1..m
      /\ \A k \in 1..m : /\ was[k] \in DOMAIN cache
                         /\ cache'[k] = cache[was[k]] /\ cache[was[k]].type # text
      /\ \A k, l \in 1..m : k < l => was[k] < was[l]
      /\ \A l \in 1..(m + 1), k \in 1..(m + 1) : k < l => k \in 1..m
  BY DEF Keeps, Drops
<1>5. cache'[m + 1].type = text
  BY DEF EntryFor
<1>6. EntriesAsked'
  <2> SUFFICES ASSUME NEW k \in 1..(m + 1)
               PROVE  \E i \in LastUses' : cache'[k] = EntryFor(requested'[i])
    BY <1>4 DEF EntriesAsked, EntryFor
  <2>1. CASE k = m + 1
    BY <1>1, <2>1
  <2>2. CASE k \in 1..m
    <3>1. PICK i \in LastUses : cache[was[k]] = EntryFor(requested[i])
      BY <1>4, <2>2 DEF CacheInv, EntriesAsked
    <3>2. requested[i] # text
      BY <1>4, <2>2, <3>1 DEF EntryFor
    <3>3. cache'[k] = cache[was[k]]
      BY <1>4, <2>2
    <3> QED  BY <1>3, <3>1, <3>2, <3>3
  <2> QED  BY <1>4, <2>1, <2>2
<1>7. EntriesInOrder'
  <2> SUFFICES ASSUME NEW k \in 1..(m + 1), NEW l \in 1..(m + 1),
                      NEW i \in LastUses', NEW j \in LastUses',
                      k < l /\ cache'[k].type = requested'[i] /\ cache'[l].type = requested'[j]
               PROVE  i < j
    BY <1>4 DEF EntriesInOrder
  <2>1. /\ k \in 1..m /\ was[k] \in DOMAIN cache
        /\ cache[was[k]].type = requested'[i] /\ requested'[i] # text
    BY <1>4
  <2>2. i \in LastUses /\ i < n + 1 /\ requested[i] = requested'[i]
    BY <1>1, <1>2, <2>1
  <2>3. CASE j = n + 1
    BY <2>2, <2>3
  <2>4. CASE j \in LastUses /\ requested'[j] = requested[j] /\ requested[j] # text
    <3>1. l \in 1..m /\ was[l] \in DOMAIN cache /\ cache[was[l]].type = requested[j]
      BY <1>4, <1>5, <2>4
    <3>2. was[k] < was[l]
      BY <1>4, <2>1, <3>1
    <3> QED  BY <2>1, <2>2, <2>4, <3>1, <3>2 DEF CacheInv, EntriesInOrder
  <2> QED  BY <1>2, <2>3, <2>4
<1>8. OldestDropped'
  <2> SUFFICES ASSUME NEW i \in LastUses',
                      \A k \in 1..(m + 1) : cache'[k].type # requested'[i]
               PROVE  /\ m + 1 = MaxSize
                      /\ \A k \in 1..(m + 1), j \in LastUses' :
                            cache'[k].type = requested'[j] => i < j
    BY <1>4 DEF OldestDropped
  <2>1. requested'[i] # text
    BY <1>4, <1>5
  <2>2. i \in LastUses /\ i < n + 1 /\ requested[i] = requested'[i]
    BY <1>1, <1>2, <2>1
  <2>3. /\ m + 1 = MaxSize
        /\ \A k \in 1..m, j \in LastUses : cache[was[k]].type = requested[j] => i < j
    <3>1. CASE \E e \in DOMAIN cache : cache[e].type = requested[i]
      <4>1. PICK e \in DOMAIN cache : cache[e].type = requested[i]
        BY <3>1
      <4>2. \A k \in 1..m : was[k] # e
        BY <1>4, <2>2, <4>1
      <4>3. m + 1 = MaxSize /\ \A k \in 1..m : e < was[k]
        BY <2>1, <2>2, <4>1, <4>2 DEF Drops
      <4> QED  BY <1>4, <2>2, <4>1, <4>3 DEF CacheInv, EntriesInOrder
    <3>2. CASE ~ \E e \in DOMAIN cache : cache[e].type = requested[i]
      <4>1. /\ Len(cache) = MaxSize
            /\ \A k \in DOMAIN cache, j \in LastUses :
                  cache[k].type = requested[j] => i < j
        BY <2>2, <3>2 DEF CacheInv, OldestDropped
      <4> QED  BY <1>4, <4>1 DEF Drops
    <3> QED  BY <3>1, <3>2
  <2>4. ASSUME NEW k \in 1..(m + 1), NEW j \in LastUses', cache'[k].type = requested'[j]
        PROVE  i < j
    <3>1. CASE j = n + 1
      BY <2>2, <3>1
    <3>2. CASE j \in LastUses /\ requested'[j] = requested[j] /\ requested[j] # text
      <4>1. k \in 1..m /\ cache[was[k]].type = requested[j]
        BY <1>4, <1>5, <2>4, <3>2
      <4> QED  BY <2>3, <3>2, <4>1
    <3> QED  BY <1>2, <3>1, <3>2
  <2> QED  BY <2>3, <2>4
<1> QED  BY <1>6, <1>7, <1>8 DEF CacheInv

\* A call of the resolver keeps the invariant.
LEMMA Resolved ==
    ASSUME MaxSize \in Nat, CacheInv, NEW text \in TypeTexts, Ask(text)
    PROVE  CacheInv'
<1> DEFINE size == Len(cache)
<1>1. /\ size \in Nat /\ DOMAIN cache = 1..size /\ size <= MaxSize
      /\ cache \in Seq([type : TypeTexts, reader : Readers])
      /\ requested \in Seq(TypeTexts)
  BY DEF CacheInv, CacheType
<1>2. Asked(text) /\ requested' \in Seq(TypeTexts)
  BY AppendProperties, <1>1 DEF Ask, Asked
<1>3. EntryFor(text) \in [type : TypeTexts, reader : Readers]
  BY DEF EntryFor, Readers
<1>4. CASE Entries(cache, text) # {}
  <2> DEFINE at == CHOOSE i \in Entries(cache, text) : TRUE
             rest == RemoveAt(cache, at)
             was == [k \in 1..(size - 1) |-> IF k < at THEN k ELSE k + 1]
  <2>1. at \in 1..size /\ cache[at].type = text
    BY <1>1, <1>4 DEF Entries
  <2>2. cache' = Append(rest, cache[at])
    BY <1>4 DEF Ask, Resolve
  <2> HIDE DEF at
  <2>3. /\ rest \in Seq([type : TypeTexts, reader : Readers])
        /\ Len(rest) = size - 1
        /\ \A k \in 1..(size - 1) : rest[k] = cache[IF k < at THEN k ELSE k + 1]
    BY <1>1, <2>1, Removed
  <2>4. cache[at] \in [type : TypeTexts, reader : Readers]
    BY <1>1, <2>1, ElementOfSeq
  <2> HIDE DEF rest
  <2>5. /\ cache' \in Seq([type : TypeTexts, reader : Readers])
        /\ Len(cache') = Len(rest) + 1
        /\ \A k \in 1..Len(rest) : cache'[k] = rest[k]
        /\ cache'[Len(rest) + 1] = cache[at]
    BY <2>2, <2>3, <2>4, AppendProperties
  <2>6. DOMAIN cache' = 1..Len(cache')
    BY <2>5, LenProperties
  <2> HIDE DEF size
  <2>7. PICK i \in LastUses : cache[at] = EntryFor(requested[i])
    BY <1>1, <2>1 DEF CacheInv, EntriesAsked
  <2>8. requested[i] = text
    BY <2>1, <2>7 DEF EntryFor
  <2>9. ReaderFor(text) # NoReader
    BY <2>7, <2>8 DEF LastUses
  <2>10. Keeps(size - 1, was)
    BY <1>1, <2>1, <2>3, <2>5, <2>6 DEF Keeps
  <2>11. Drops(text, size - 1, was)
    <3>1. \A k \in 1..(size - 1) : was[k] \in DOMAIN cache /\ was[k] # at
      BY <1>1, <2>1
    <3>2. \A k \in 1..(size - 1) : cache[was[k]].type # text
      BY <1>1, <2>1, <3>1, OneEntry
    <3>3. \A d \in DOMAIN cache : d = at \/ \E k \in 1..(size - 1) : was[k] = d
      <4> SUFFICES ASSUME NEW d \in 1..size, d # at
                   PROVE  \E k \in 1..(size - 1) : was[k] = d
        BY <1>1
      <4>1. CASE d < at
        <5>1. d \in 1..(size - 1) /\ was[d] = d
          BY <1>1, <2>1, <4>1
        <5> QED  BY <5>1
      <4>2. CASE d > at
        <5>1. d - 1 \in 1..(size - 1) /\ was[d - 1] = d
          BY <1>1, <2>1, <4>2
        <5> QED  BY <5>1
      <4> QED  BY <1>1, <2>1, <4>1, <4>2
    <3>4. Len(cache) = MaxSize => (size - 1) + 1 = MaxSize
      BY <1>1 DEF size
    <3> QED  BY <2>1, <3>2, <3>3, <3>4 DEF Drops
  <2>12. Len(cache') = (size - 1) + 1 /\ cache'[(size - 1) + 1] = EntryFor(text)
    BY <2>3, <2>5, <2>7, <2>8
  <2>13. CacheType' /\ Len(cache') <= MaxSize
    BY <1>1, <1>2, <2>5, <2>12 DEF CacheType
  <2> HIDE DEF was
  <2> QED  BY <1>2, <2>9, <2>10, <2>11, <2>12, <2>13, Renewed
<1>5. CASE Entries(cache, text) = {} /\ ReaderFor(text) = NoReader
  <2>1. cache' = cache
    BY <1>5 DEF Ask, Resolve, Missed
  <2>2. /\ LastUses' = LastUses
        /\ \A i \in LastUses : requested'[i] = requested[i]
    <3> DEFINE n == Len(requested)
    <3>1. /\ n \in Nat /\ LastUses \subseteq 1..n /\ LastUses' \subseteq 1..(n + 1)
          /\ n + 1 \notin LastUses'
          /\ \A i \in 1..n : requested'[i] = requested[i]
          /\ \A i \in 1..n : i \in LastUses' <=> i \in LastUses /\ requested[i] # text
      BY <1>2, <1>5, UsesAfter DEF CacheInv
    <3>2. \A i \in LastUses : requested[i] # text
      BY <1>5 DEF LastUses
    <3> HIDE DEF n
    <3>3. \A i \in 1..(n + 1) : i \in 1..n \/ i = n + 1
      BY <3>1
    <3> QED  BY <3>1, <3>2, <3>3
  <2>3. CacheType' /\ Len(cache') <= MaxSize
    BY <1>1, <1>2, <2>1 DEF CacheType
  <2>4. EntriesAsked'
    BY <2>1, <2>2 DEF CacheInv, EntriesAsked
  <2>5. EntriesInOrder'
    BY <2>1, <2>2 DEF CacheInv, EntriesInOrder
  <2>6. OldestDropped'
    BY <2>1, <2>2 DEF CacheInv, OldestDropped
  <2> QED  BY <2>3, <2>4, <2>5, <2>6 DEF CacheInv
<1>6. CASE Entries(cache, text) = {} /\ ReaderFor(text) # NoReader
  <2> DEFINE grown == Append(cache, EntryFor(text))
  <2>1. /\ grown \in Seq([type : TypeTexts, reader : Readers])
        /\ grown # <<>> /\ Len(grown) = size + 1
        /\ \A k \in 1..size : grown[k] = cache[k]
        /\ grown[size + 1] = EntryFor(text)
    BY <1>1, <1>3, AppendProperties
  <2>2. \A k \in 1..size : cache[k].type # text
    BY <1>1, <1>6 DEF Entries
  <2>3. cache' = IF Len(grown) > MaxSize THEN Tail(grown) ELSE grown
    BY <1>6 DEF Ask, Resolve, Missed
  <2> HIDE DEF grown
  <2>4. CASE size + 1 <= MaxSize
    <3> DEFINE was == [k \in 1..size |-> k]
    <3>1. cache' = grown
      BY <1>1, <2>1, <2>3, <2>4
    <3>2. DOMAIN cache' = 1..(size + 1)
      BY <2>1, <3>1, LenProperties
    <3>3. CacheType' /\ Len(cache') <= MaxSize
      BY <1>2, <2>1, <2>4, <3>1 DEF CacheType
    <3>4. Len(cache') = size + 1 /\ cache'[size + 1] = EntryFor(text)
      BY <2>1, <3>1
    <3> HIDE DEF size
    <3>5. size # MaxSize
      BY <1>1, <2>4
    <3>6. Keeps(size, was)
      BY <1>1, <2>1, <3>1, <3>2 DEF Keeps
    <3>7. Drops(text, size, was)
      BY <1>1, <2>2, <3>5 DEF Drops, size
    <3> HIDE DEF was
    <3> QED  BY <1>2, <1>6, <3>3, <3>4, <3>6, <3>7, Renewed
  <2>5. CASE ~(size + 1 <= MaxSize)
    <3> HIDE DEF size
    <3>1. /\ size = MaxSize /\ cache' = Tail(grown)
          /\ cache' \in Seq([type : TypeTexts, reader : Readers])
          /\ Len(cache') = size
          /\ \A k \in 1..size : cache'[k] = grown[k + 1]
      <4>1. size = MaxSize /\ cache' = Tail(grown)
        BY <1>1, <2>1, <2>3, <2>5
      <4>2. /\ Tail(grown) \in Seq([type : TypeTexts, reader : Readers])
            /\ Len(Tail(grown)) = Len(grown) - 1
            /\ \A k \in 1..Len(Tail(grown)) : Tail(grown)[k] = grown[k + 1]
        BY <2>1, HeadTailProperties
      <4> QED  BY <1>1, <2>1, <4>1, <4>2
    <3>2. DOMAIN cache' = 1..size
      BY <3>1, LenProperties
    <3>3. CacheType' /\ Len(cache') <= MaxSize
      BY <1>1, <1>2, <3>1 DEF CacheType
    <3>4. CASE size = 0
      <4>1. DOMAIN cache' = {} /\ Len(cache') = MaxSize
        BY <3>1, <3>2, <3>4 DEF size
      <4> QED  BY <3>3, <4>1 DEF CacheInv, EntriesAsked, EntriesInOrder, OldestDropped
    <3>5. CASE size # 0
      <4> DEFINE was == [k \in 1..(size - 1) |-> k + 1]
      <4>1. size - 1 \in Nat /\ (size - 1) + 1 = size
        BY <1>1, <3>5
      <4>2. Len(cache') = (size - 1) + 1 /\ cache'[(size - 1) + 1] = EntryFor(text)
        BY <1>1, <2>1, <3>1, <3>5
      <4>3. Keeps(size - 1, was)
        BY <1>1, <2>1, <3>1, <3>2, <4>1 DEF Keeps
      <4>4. Drops(text, size - 1, was)
        <5>1. \A d \in 1..size : d = 1 \/ (d - 1 \in 1..(size - 1) /\ was[d - 1] = d)
          BY <1>1
        <5>2. \A k \in 1..(size - 1) : 1 < was[k] /\ was[k] \in 1..size
          BY <1>1
        <5> HIDE DEF was
        <5> QED  BY <1>1, <2>2, <3>1, <4>1, <5>1, <5>2 DEF Drops
      <4> HIDE DEF was
      <4> QED  BY <1>2, <1>6, <3>3, <4>2, <4>3, <4>4, Renewed
    <3> QED  BY <3>4, <3>5
  <2> QED  BY <2>4, <2>5
<1> QED  BY <1>4, <1>5, <1>6

-----------------------------------------------------------------------------
(* The theorems                                                             *)

\* The inductive invariant
THEOREM CacheInvariant ==
    ASSUME MaxSize \in Nat
    PROVE  CacheSpec => []CacheInv
<1>1. CacheInit => CacheInv
  BY DEF CacheInit, CacheInv, CacheType, EntriesAsked, EntriesInOrder, OldestDropped, LastUses
<1>2. CacheInv /\ [\E text \in TypeTexts : Ask(text)]_cacheVars => CacheInv'
  <2> SUFFICES ASSUME CacheInv, [\E text \in TypeTexts : Ask(text)]_cacheVars
               PROVE  CacheInv'
    OBVIOUS
  <2>1. CASE \E text \in TypeTexts : Ask(text)
    BY <2>1, Resolved
  <2>2. CASE UNCHANGED cacheVars
    BY <2>2 DEF cacheVars, CacheInv, CacheType, EntriesAsked, EntriesInOrder,
        OldestDropped, LastUses
  <2> QED  BY <2>1, <2>2
<1> QED  BY <1>1, <1>2, PTL DEF CacheSpec

\* Whatever types are asked for, in whatever order, the cache holds those asked
\* for last, at most maxSize of them, each with its own reader, and has dropped
\* one only when it was full (createTypeReaderCache).
THEOREM KeepsRecent ==
    ASSUME MaxSize \in Nat
    PROVE  CacheSpec => []CacheKeepsRecent
<1>1. CacheInv => CacheKeepsRecent
  BY DEF CacheInv, CacheKeepsRecent, EntriesAsked, EntriesInOrder, OldestDropped, EntryFor
<1> QED  BY <1>1, CacheInvariant, PTL

\* A hit returns what a miss would compile: no text is ever answered with the
\* reader of another one, or with one that an error left behind
\* (createTypeReaderCache).
THEOREM CacheAnswersRight ==
    ASSUME MaxSize \in Nat
    PROVE  CacheSpec => []AnswersRight
<1>1. CacheInv => AnswersRight
  <2> SUFFICES ASSUME CacheInv, NEW text \in TypeTexts, Entries(cache, text) # {}
               PROVE  cache[CHOOSE i \in Entries(cache, text) : TRUE].reader = ReaderFor(text)
    BY DEF AnswersRight, ReaderOf
  <2> DEFINE at == CHOOSE i \in Entries(cache, text) : TRUE
  <2>1. at \in DOMAIN cache /\ cache[at].type = text
    BY DEF Entries
  <2> HIDE DEF at
  <2>2. cache[at].reader = ReaderFor(text)
    BY <2>1 DEF CacheInv, EntriesAsked, EntryFor
  <2> QED  BY <2>2 DEF at
<1> QED  BY <1>1, CacheInvariant, PTL
=============================================================================
