------------------------ MODULE MessageRouterProofs ------------------------
(***************************************************************************)
(* Lemmas about the operators of the message router: what subscribing a    *)
(* writer adds to the answers of the router, as sets of writers and        *)
(* counted.                                                                *)
(***************************************************************************)
EXTENDS MessageRouter, FiniteSetTheorems, TLAPS

(***************************************************************************)
(* Entry and Insert on a HashMap.                                          *)
(***************************************************************************)
LEMMA InsertSame ==
  ASSUME NEW map, NEW k, NEW v, NEW default
  PROVE  Entry(Insert(map, k, v), k, default) = v
BY DEF Insert, Entry

LEMMA InsertOther ==
  ASSUME NEW map, NEW k, NEW v, NEW default, NEW x, x # k
  PROVE  Entry(Insert(map, k, v), x, default) = Entry(map, x, default)
BY DEF Insert, Entry

LEMMA InsertType ==
  ASSUME NEW K, NEW V, NEW map, IsHashMap(map, K, V), NEW k \in K, NEW v \in V
  PROVE  IsHashMap(Insert(map, k, v), K, V)
BY DEF Insert, IsHashMap

LEMMA EntryType ==
  ASSUME NEW K, NEW V, NEW map, IsHashMap(map, K, V), NEW k, NEW default \in V
  PROVE  Entry(map, k, default) \in V
BY DEF Entry, IsHashMap

LEMMA RangeAppend ==
  ASSUME NEW S, NEW s \in Seq(S), NEW e \in S
  PROVE  Append(s, e) \in Seq(S) /\ Range(Append(s, e)) = Range(s) \cup {e}
<1>1. Append(s, e) \in Seq(S) /\ Len(Append(s, e)) = Len(s) + 1
  OBVIOUS
<1>2. \A i \in 1..Len(s) : Append(s, e)[i] = s[i]
  OBVIOUS
<1>3. Append(s, e)[Len(s) + 1] = e
  OBVIOUS
<1>4. DOMAIN s = 1..Len(s) /\ DOMAIN Append(s, e) = 1..(Len(s) + 1) /\ Len(s) \in Nat
  BY <1>1
<1>5. 1..(Len(s) + 1) = (1..Len(s)) \cup {Len(s) + 1}
  BY <1>4
<1> QED
  BY <1>1, <1>2, <1>3, <1>4, <1>5 DEF Range

LEMMA RangeConcat ==
  ASSUME NEW S, NEW s \in Seq(S), NEW t \in Seq(S)
  PROVE  s \o t \in Seq(S) /\ Range(s \o t) = Range(s) \cup Range(t)
<1>1. s \o t \in Seq(S) /\ Len(s \o t) = Len(s) + Len(t)
  OBVIOUS
<1>2. DOMAIN s = 1..Len(s) /\ DOMAIN t = 1..Len(t) /\ DOMAIN (s \o t) = 1..(Len(s) + Len(t))
      /\ Len(s) \in Nat /\ Len(t) \in Nat
  BY <1>1
<1>3. \A i \in 1..Len(s) : (s \o t)[i] = s[i] /\ i \in 1..(Len(s) + Len(t))
  BY <1>2
<1>4. \A i \in 1..Len(t) : (s \o t)[Len(s) + i] = t[i] /\ Len(s) + i \in 1..(Len(s) + Len(t))
  BY <1>2
<1>5. \A i \in 1..(Len(s) + Len(t)) :
         \/ i \in 1..Len(s) /\ (s \o t)[i] = s[i]
         \/ i - Len(s) \in 1..Len(t) /\ (s \o t)[i] = t[i - Len(s)]
  BY <1>2
<1>6. Range(s \o t) \subseteq Range(s) \cup Range(t)
  BY <1>2, <1>5 DEF Range
<1>7. Range(s) \cup Range(t) \subseteq Range(s \o t)
  BY <1>2, <1>3, <1>4 DEF Range
<1> QED
  BY <1>1, <1>6, <1>7

(***************************************************************************)
(* The two routers keep their types and route to one writer more.          *)
(***************************************************************************)
LEMMA TopicRoute ==
  ASSUME NEW tr, IsTopicRouter(tr), NEW key \in Keys \cup {None}
  PROVE  /\ TopicWritersFor(tr, key) \in Seq(Nat)
         /\ Range(TopicWritersFor(tr, key)) =
              Range(Entry(tr.keyed_subscribers, key, <<>>)) \cup Range(tr.all_key_subscribers)
<1> DEFINE keyed == IF key = None THEN <<>> ELSE Entry(tr.keyed_subscribers, key, <<>>)
<1>1. <<>> \in Seq(Nat) /\ IsHashMap(tr.keyed_subscribers, Keys, Seq(Nat))
      /\ tr.all_key_subscribers \in Seq(Nat)
  BY DEF IsTopicRouter
<1>2. Entry(tr.keyed_subscribers, key, <<>>) \in Seq(Nat)
  BY <1>1, EntryType
<1>3. key = None => Entry(tr.keyed_subscribers, key, <<>>) = <<>>
  BY <1>1, NoneAssumption DEF Entry, IsHashMap
<1>4. keyed = Entry(tr.keyed_subscribers, key, <<>>)
  BY <1>3
<1> QED
  BY <1>1, <1>2, <1>4, RangeConcat DEF TopicWritersFor

LEMMA TopicSubscribeRoutes ==
  ASSUME NEW tr, IsTopicRouter(tr), NEW id \in Nat, NEW sub \in Keys \cup {All},
         NEW key \in Keys \cup {None}
  PROVE  /\ IsTopicRouter(TopicSubscribe(tr, id, sub))
         /\ Range(TopicWritersFor(TopicSubscribe(tr, id, sub), key)) =
              Range(TopicWritersFor(tr, key)) \cup (IF sub \in {All, key} THEN {id} ELSE {})
<1> DEFINE new == TopicSubscribe(tr, id, sub)
<1>1. IsHashMap(tr.keyed_subscribers, Keys, Seq(Nat)) /\ tr.all_key_subscribers \in Seq(Nat)
      /\ <<>> \in Seq(Nat)
  BY DEF IsTopicRouter
<1>2. CASE sub = All
  <2> DEFINE list == Append(tr.all_key_subscribers, id)
  <2>4. list \in Seq(Nat)
    BY <1>1
  <2>5. new = [tr EXCEPT !.all_key_subscribers = list]
    BY <1>2 DEF TopicSubscribe
  <2> HIDE DEF list
  <2>6. tr = [all_key_subscribers |-> tr.all_key_subscribers,
              keyed_subscribers |-> tr.keyed_subscribers]
    BY DEF IsTopicRouter
  <2> HIDE DEF new
  <2>7. new = [all_key_subscribers |-> list, keyed_subscribers |-> tr.keyed_subscribers]
    BY <2>5, <2>6
  <2> USE DEF list
  <2>1. new.all_key_subscribers = Append(tr.all_key_subscribers, id)
        /\ new.keyed_subscribers = tr.keyed_subscribers /\ IsTopicRouter(new)
    BY <1>1, <2>4, <2>7 DEF IsTopicRouter
  <2> USE DEF new
  <2>2. Range(new.all_key_subscribers) = Range(tr.all_key_subscribers) \cup {id}
    BY <1>1, <2>1, RangeAppend
  <2>3. Range(TopicWritersFor(new, key)) =
          Range(Entry(new.keyed_subscribers, key, <<>>)) \cup Range(new.all_key_subscribers)
    BY <2>1, TopicRoute
  <2> QED
    BY <1>2, <2>1, <2>2, <2>3, TopicRoute
<1>3. CASE sub # All
  <2> DEFINE old  == Entry(tr.keyed_subscribers, sub, <<>>)
             list == Append(old, id)
  <2>1. sub \in Keys /\ old \in Seq(Nat)
    BY <1>1, <1>3, EntryType
  <2>2. list \in Seq(Nat) /\ Range(list) = Range(old) \cup {id}
    BY <2>1, RangeAppend
  <2>3. new.all_key_subscribers = tr.all_key_subscribers
        /\ new.keyed_subscribers = Insert(tr.keyed_subscribers, sub, list)
    BY <1>3 DEF TopicSubscribe, IsTopicRouter
  <2> HIDE DEF list
  <2>4. IsHashMap(new.keyed_subscribers, Keys, Seq(Nat))
    BY <1>1, <2>1, <2>2, <2>3, InsertType
  <2>5. IsTopicRouter(new)
    BY <1>1, <1>3, <2>3, <2>4 DEF TopicSubscribe, IsTopicRouter, list
  <2>6. Entry(new.keyed_subscribers, sub, <<>>) = list
    BY <2>3, InsertSame
  <2>7. key # sub => Entry(new.keyed_subscribers, key, <<>>)
                       = Entry(tr.keyed_subscribers, key, <<>>)
    BY <2>3, InsertOther
  <2>8. Range(TopicWritersFor(new, key)) =
          Range(Entry(new.keyed_subscribers, key, <<>>)) \cup Range(new.all_key_subscribers)
    BY <2>5, TopicRoute
  <2>9. Range(TopicWritersFor(tr, key)) =
          Range(Entry(tr.keyed_subscribers, key, <<>>)) \cup Range(tr.all_key_subscribers)
    BY TopicRoute
  <2> QED
    BY <1>3, <2>2, <2>3, <2>5, <2>6, <2>7, <2>8, <2>9
<1> QED
  BY <1>2, <1>3

LEMMA EntryRouter ==
  ASSUME NEW r, IsRouter(r), NEW t
  PROVE  IsTopicRouter(Entry(r, t, EmptyTopicRouter))
<1>1. IsTopicRouter(EmptyTopicRouter)
  BY DEF EmptyTopicRouter, EmptyMap, IsTopicRouter, IsHashMap
<1> QED
  BY <1>1 DEF Entry, IsRouter

LEMMA RouteType ==
  ASSUME NEW r, IsRouter(r), NEW t, NEW k \in Keys \cup {None}
  PROVE  WritersFor(r, t, k) \in Seq(Nat)
BY EntryRouter, TopicRoute DEF WritersFor

LEMMA SubscribeRoutes ==
  ASSUME NEW r, IsRouter(r), NEW id \in Nat, NEW sub \in Subscription,
         NEW t \in Topics, NEW k \in Keys \cup {None}
  PROVE  /\ IsRouter(Subscribe(r, id, sub))
         /\ Range(WritersFor(Subscribe(r, id, sub), t, k)) =
              Range(WritersFor(r, t, k)) \cup (IF Matches(sub, t, k) THEN {id} ELSE {})
<1> DEFINE old == Entry(r, sub.topic, EmptyTopicRouter)
           new == TopicSubscribe(old, id, sub.key)
           res == Subscribe(r, id, sub)
<1>1. sub.topic \in Topics /\ sub.key \in Keys \cup {All}
  BY DEF Subscription
<1>2. IsTopicRouter(old)
  BY EntryRouter
<1>3. IsTopicRouter(new)
      /\ Range(TopicWritersFor(new, k)) =
           Range(TopicWritersFor(old, k)) \cup (IF sub.key \in {All, k} THEN {id} ELSE {})
  BY <1>1, <1>2, TopicSubscribeRoutes
<1>4. IsRouter(res)
  BY <1>1, <1>3 DEF Subscribe, Insert, IsRouter
<1>5. Entry(res, sub.topic, EmptyTopicRouter) = new
  BY InsertSame DEF Subscribe
<1>6. t # sub.topic => Entry(res, t, EmptyTopicRouter) = Entry(r, t, EmptyTopicRouter)
  BY InsertOther DEF Subscribe
<1> QED
  BY <1>3, <1>4, <1>5, <1>6 DEF WritersFor, Matches

-----------------------------------------------------------------------------
(***************************************************************************)
(* How often a writer is in a list.                                        *)
(***************************************************************************)
Occurrences(seq, id) == {i \in DOMAIN seq : seq[i] = id}

Count(seq, id) == Cardinality(Occurrences(seq, id))

\* What one more subscription adds
Once(cond) == IF cond THEN 1 ELSE 0

LEMMA CountType ==
  ASSUME NEW seq \in Seq(Nat), NEW id
  PROVE  IsFiniteSet(Occurrences(seq, id)) /\ Count(seq, id) \in Nat
<1>1. Len(seq) \in Nat /\ DOMAIN seq = 1..Len(seq)
  OBVIOUS
<1>2. IsFiniteSet(1..Len(seq))
  BY <1>1, FS_Interval
<1>3. Occurrences(seq, id) \in SUBSET (1..Len(seq))
  BY <1>1 DEF Occurrences
<1>4. IsFiniteSet(Occurrences(seq, id))
  BY <1>2, <1>3, FS_Subset
<1> QED BY <1>4, FS_CardinalityType DEF Count

LEMMA CountEmpty == ASSUME NEW id PROVE Count(<<>>, id) = 0
<1>1. Occurrences(<<>>, id) = {}
  BY DEF Occurrences
<1> QED BY <1>1, FS_EmptySet DEF Count

\* One number more satisfies the condition by which a set of numbers is counted, or does not.
LEMMA CountNext ==
  ASSUME NEW n \in Nat, NEW S \in SUBSET (1..n), NEW T, NEW cond \in BOOLEAN,
         T = IF cond THEN S \cup {n + 1} ELSE S
  PROVE  Cardinality(T) = Cardinality(S) + Once(cond)
<1>1. IsFiniteSet(1..n)
  BY FS_Interval
<1>2. IsFiniteSet(S)
  BY <1>1, FS_Subset
<1>3. n + 1 \notin S
  OBVIOUS
<1>4. Cardinality(S \cup {n + 1}) = Cardinality(S) + 1 /\ Cardinality(S) \in Nat
  BY <1>2, <1>3, FS_AddElement, FS_CardinalityType
<1> QED BY <1>4 DEF Once

LEMMA CountAppend ==
  ASSUME NEW seq \in Seq(Nat), NEW e \in Nat, NEW id
  PROVE  Count(Append(seq, e), id) = Count(seq, id) + Once(e = id)
<1> DEFINE n == Len(seq)
<1>1. /\ n \in Nat /\ DOMAIN seq = 1..n /\ DOMAIN Append(seq, e) = (1..n) \cup {n + 1}
      /\ Append(seq, e)[n + 1] = e /\ \A i \in 1..n : Append(seq, e)[i] = seq[i]
  <2>1. Append(seq, e) \in Seq(Nat) /\ Len(Append(seq, e)) = n + 1 /\ n \in Nat
    OBVIOUS
  <2>2. 1..(n + 1) = (1..n) \cup {n + 1}
    BY <2>1
  <2> QED BY <2>1, <2>2
<1> HIDE DEF n
<1>2. n + 1 \notin 1..n
  BY <1>1
<1>3. Occurrences(seq, id) \in SUBSET (1..n)
  BY <1>1 DEF Occurrences
<1>4. Occurrences(Append(seq, e), id)
        = IF e = id THEN Occurrences(seq, id) \cup {n + 1} ELSE Occurrences(seq, id)
  BY <1>1, <1>2 DEF Occurrences
<1> QED BY <1>1, <1>3, <1>4, CountNext DEF Count

LEMMA CountConcat ==
  ASSUME NEW s \in Seq(Nat), NEW t \in Seq(Nat), NEW id
  PROVE  Count(s \o t, id) = Count(s, id) + Count(t, id)
<1> DEFINE n       == Len(s)
           A       == Occurrences(s, id)
           B       == Occurrences(t, id)
           shifted == {i + n : i \in B}
           shift   == [i \in B |-> i + n]
<1>1. /\ n \in Nat /\ Len(t) \in Nat /\ DOMAIN s = 1..n /\ DOMAIN t = 1..Len(t)
      /\ DOMAIN (s \o t) = 1..(n + Len(t))
      /\ \A i \in 1..n : (s \o t)[i] = s[i]
      /\ \A i \in 1..Len(t) : (s \o t)[i + n] = t[i]
  OBVIOUS
<1>2. A \subseteq 1..n /\ B \subseteq 1..Len(t)
  BY <1>1 DEF Occurrences
<1>3. IsFiniteSet(A) /\ IsFiniteSet(B) /\ Cardinality(A) \in Nat /\ Cardinality(B) \in Nat
  BY CountType DEF Count
<1>4. Occurrences(s \o t, id) = A \cup shifted
  <2> HIDE DEF n
  <2>1. ASSUME NEW i \in Occurrences(s \o t, id) PROVE i \in A \cup shifted
    <3>1. i \in 1..(n + Len(t)) /\ (s \o t)[i] = id
      BY <1>1 DEF Occurrences
    <3>2. CASE i <= n
      BY <1>1, <3>1, <3>2 DEF Occurrences
    <3>3. CASE ~(i <= n)
      <4>1. i - n \in 1..Len(t) /\ (i - n) + n = i
        BY <1>1, <3>1, <3>3
      <4>2. i - n \in B
        BY <1>1, <3>1, <4>1 DEF Occurrences
      <4> QED BY <4>1, <4>2
    <3> QED BY <3>2, <3>3
  <2>2. \A i \in A : i \in Occurrences(s \o t, id)
    <3>1. \A i \in 1..n : i \in 1..(n + Len(t))
      BY <1>1
    <3> QED BY <1>1, <3>1 DEF Occurrences
  <2>3. \A i \in B : i + n \in Occurrences(s \o t, id)
    <3>1. \A i \in 1..Len(t) : i + n \in 1..(n + Len(t))
      BY <1>1
    <3> QED BY <1>1, <3>1 DEF Occurrences
  <2> QED BY <2>1, <2>2, <2>3
<1>5. IsFiniteSet(shifted) /\ Cardinality(shifted) = Cardinality(B)
  <2>1. \A i, j \in B : i + n = j + n => i = j
    <3> HIDE DEF n
    <3> QED BY <1>1, <1>2
  <2>2. shift \in Bijection(B, shifted)
    BY <2>1 DEF Bijection, Injection, Surjection, IsInjective
  <2> QED BY <1>3, <2>2, FS_Bijection DEF ExistsBijection
<1>6. A \cap shifted = {}
  <2> HIDE DEF n
  <2> QED BY <1>1, <1>2
<1> HIDE DEF A, B, shifted
<1>7. Cardinality(A \cup shifted) = Cardinality(A) + Cardinality(B)
  <2>1. Cardinality(A \cup shifted)
          = Cardinality(A) + Cardinality(shifted) - Cardinality(A \cap shifted)
    BY <1>3, <1>5, FS_Union
  <2>2. Cardinality(A \cap shifted) = 0
    BY <1>6, FS_EmptySet
  <2> QED BY <1>3, <1>5, <2>1, <2>2
<1> QED BY <1>4, <1>7 DEF Count, A, B

-----------------------------------------------------------------------------
(***************************************************************************)
(* A subscription adds one occurrence to each answer that it matches.      *)
(***************************************************************************)
LEMMA TopicCount ==
  ASSUME NEW tr, IsTopicRouter(tr), NEW key \in Keys \cup {None}, NEW id
  PROVE  /\ Entry(tr.keyed_subscribers, key, <<>>) \in Seq(Nat)
         /\ tr.all_key_subscribers \in Seq(Nat)
         /\ Count(TopicWritersFor(tr, key), id) =
              Count(Entry(tr.keyed_subscribers, key, <<>>), id) + Count(tr.all_key_subscribers, id)
<1>1. <<>> \in Seq(Nat) /\ IsHashMap(tr.keyed_subscribers, Keys, Seq(Nat))
      /\ tr.all_key_subscribers \in Seq(Nat)
  BY DEF IsTopicRouter
<1>2. Entry(tr.keyed_subscribers, key, <<>>) \in Seq(Nat)
  BY <1>1, EntryType
<1>3. key = None => Entry(tr.keyed_subscribers, key, <<>>) = <<>>
  BY <1>1, NoneAssumption DEF Entry, IsHashMap
<1>4. TopicWritersFor(tr, key) = Entry(tr.keyed_subscribers, key, <<>>) \o tr.all_key_subscribers
  BY <1>3 DEF TopicWritersFor
<1> QED BY <1>1, <1>2, <1>4, CountConcat

LEMMA TopicSubscribeCounts ==
  ASSUME NEW tr, IsTopicRouter(tr), NEW new \in Nat, NEW sub \in Keys \cup {All},
         NEW key \in Keys \cup {None}, NEW id
  PROVE  Count(TopicWritersFor(TopicSubscribe(tr, new, sub), key), id) =
           Count(TopicWritersFor(tr, key), id) + Once(new = id /\ sub \in {All, key})
<1> DEFINE res   == TopicSubscribe(tr, new, sub)
           keyed == Entry(tr.keyed_subscribers, key, <<>>)
           every == tr.all_key_subscribers
<1>1. IsTopicRouter(res)
  BY TopicSubscribeRoutes
<1>2. /\ keyed \in Seq(Nat) /\ every \in Seq(Nat)
      /\ Count(TopicWritersFor(tr, key), id) = Count(keyed, id) + Count(every, id)
  BY TopicCount
<1>3. Count(TopicWritersFor(res, key), id) =
        Count(Entry(res.keyed_subscribers, key, <<>>), id) + Count(res.all_key_subscribers, id)
  BY <1>1, TopicCount
<1>4. Count(keyed, id) \in Nat /\ Count(every, id) \in Nat
  BY <1>2, CountType
<1>5. tr = [keyed_subscribers |-> tr.keyed_subscribers, all_key_subscribers |-> every]
  BY DEF IsTopicRouter
<1>6. CASE sub = All
  <2>1. res.all_key_subscribers = Append(every, new)
        /\ res.keyed_subscribers = tr.keyed_subscribers
    BY <1>5, <1>6 DEF TopicSubscribe
  <2>2. Count(Append(every, new), id) = Count(every, id) + Once(new = id)
    BY <1>2, CountAppend
  <2> HIDE DEF res, keyed, every
  <2> QED BY <1>2, <1>3, <1>4, <1>6, <2>1, <2>2 DEF Once, keyed, res
<1>7. CASE sub # All
  <2> DEFINE old  == Entry(tr.keyed_subscribers, sub, <<>>)
             list == Append(old, new)
  <2>1. IsHashMap(tr.keyed_subscribers, Keys, Seq(Nat)) /\ <<>> \in Seq(Nat) /\ sub \in Keys
    BY <1>7 DEF IsTopicRouter
  <2>2. old \in Seq(Nat)
    BY <2>1, EntryType
  <2>3. res.all_key_subscribers = every
        /\ res.keyed_subscribers = Insert(tr.keyed_subscribers, sub, list)
    BY <1>5, <1>7 DEF TopicSubscribe
  <2>4. Count(list, id) = Count(old, id) + Once(new = id)
    BY <2>2, CountAppend
  <2> HIDE DEF list, old, res, keyed, every
  <2>5. CASE key = sub
    <3>1. Entry(res.keyed_subscribers, key, <<>>) = list
      BY <2>3, <2>5, InsertSame
    <3>2. keyed = old /\ sub \in {All, key}
      BY <2>5 DEF keyed, old
    <3> QED BY <1>2, <1>3, <1>4, <2>3, <2>4, <3>1, <3>2 DEF Once, res
  <2>6. CASE key # sub
    <3>1. Entry(res.keyed_subscribers, key, <<>>) = keyed
      BY <2>3, <2>6, InsertOther DEF keyed
    <3>2. sub \notin {All, key}
      BY <1>7, <2>6
    <3> QED BY <1>2, <1>3, <1>4, <2>3, <3>1, <3>2 DEF Once, res
  <2> QED BY <2>5, <2>6
<1> QED BY <1>6, <1>7

LEMMA SubscribeCounts ==
  ASSUME NEW r, IsRouter(r), NEW new \in Nat, NEW sub \in Subscription,
         NEW t \in Topics, NEW k \in Keys \cup {None}, NEW id
  PROVE  Count(WritersFor(Subscribe(r, new, sub), t, k), id) =
           Count(WritersFor(r, t, k), id) + Once(new = id /\ Matches(sub, t, k))
<1> DEFINE old == Entry(r, sub.topic, EmptyTopicRouter)
           tr  == TopicSubscribe(old, new, sub.key)
           res == Subscribe(r, new, sub)
<1>1. sub.topic \in Topics /\ sub.key \in Keys \cup {All} /\ IsTopicRouter(old)
  BY EntryRouter DEF Subscription
<1>2. Count(TopicWritersFor(tr, k), id)
        = Count(TopicWritersFor(old, k), id) + Once(new = id /\ sub.key \in {All, k})
  BY <1>1, TopicSubscribeCounts
<1>3. Entry(res, sub.topic, EmptyTopicRouter) = tr
  BY InsertSame DEF Subscribe
<1>4. t # sub.topic => Entry(res, t, EmptyTopicRouter) = Entry(r, t, EmptyTopicRouter)
  BY InsertOther DEF Subscribe
<1>5. Count(WritersFor(r, t, k), id) \in Nat
  BY RouteType, CountType
<1> HIDE DEF tr, res, old
<1>6. CASE t = sub.topic
  <2>1. Count(WritersFor(res, t, k), id) = Count(TopicWritersFor(tr, k), id)
        /\ Count(WritersFor(r, t, k), id) = Count(TopicWritersFor(old, k), id)
    BY <1>3, <1>6 DEF WritersFor, old
  <2> QED BY <1>2, <1>6, <2>1 DEF Matches, Once, res
<1>7. CASE t # sub.topic
  <2>1. Count(WritersFor(res, t, k), id) = Count(WritersFor(r, t, k), id)
    BY <1>4, <1>7 DEF WritersFor
  <2>2. ~Matches(sub, t, k)
    BY <1>7 DEF Matches
  <2> QED BY <1>5, <2>1, <2>2 DEF Once, res
<1> QED BY <1>6, <1>7
=============================================================================
