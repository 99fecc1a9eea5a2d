---------------------------- MODULE BufferProofs ----------------------------
(***************************************************************************)
(* Theorems about the cache in front of a database, over any number of     *)
(* requests, evictions, failures, flushes and restarts.                    *)
(***************************************************************************)
EXTENDS BufferRestart, FiniteSetTheorems, TLAPS

(* most leaves need no arithmetic *)
USE Zenon

(* the answer to e is, or brings, the answer to the client *)
Ends(e) == e.kind = "client" \/ e.wait

Single(queue) == \A i, j \in DOMAIN queue : Ends(queue[i]) /\ Ends(queue[j]) => i = j

(* what is in the queue of a key belongs to the request j of the client, or to none *)
Belongs(queue, j) ==
  \A i \in DOMAIN queue :
    Ends(queue[i]) =>
      j # NoJob /\ j.code \in IF queue[i].kind = "client" THEN DbCodes ELSE {"Purge", "Flush"}

OneRequest ==
  \A k \in Key :
    /\ Single(Path(k)) /\ Belongs(Path(k), job[k])
    /\ use_queue => ret[k] = << >>
    /\ job[k] # NoJob /\ job[k].code = "Delete" => job[k].val = NoRow

BaseInv == RTypeOK /\ (state # "up" => restarts < max_restart) /\ OneRequest /\ FlushCounted

-----------------------------------------------------------------------------
(* Queues of requests: equality, *)
LEMMA SameQueue ==
  ASSUME NEW S, NEW s \in Seq(S), NEW t \in Seq(S), Len(s) = Len(t),
         \A i \in 1 .. Len(s) : s[i] = t[i]
  PROVE  s = t
<1>1. s = [i \in 1 .. Len(s) |-> s[i]] /\ t = [i \in 1 .. Len(t) |-> t[i]]
  BY SMT
<1> QED BY <1>1

(* the entries of two queues in a row, *)
LEMMA ConcatAt ==
  ASSUME NEW S, NEW s \in Seq(S), NEW t \in Seq(S)
  PROVE  /\ s \o t \in Seq(S) /\ Len(s \o t) = Len(s) + Len(t)
         /\ Len(s) \in Nat /\ Len(t) \in Nat
         /\ DOMAIN s = 1 .. Len(s) /\ DOMAIN t = 1 .. Len(t)
         /\ DOMAIN (s \o t) = 1 .. Len(s) + Len(t)
         /\ \A i \in 1 .. Len(s) : (s \o t)[i] = s[i]
         /\ \A i \in 1 .. Len(t) : (s \o t)[Len(s) + i] = t[i]
         /\ \A i \in DOMAIN (s \o t) : i \in 1 .. Len(s) \/ i - Len(s) \in 1 .. Len(t)
         /\ \A i \in DOMAIN (s \o t) : i \notin 1 .. Len(s) => (s \o t)[i] = t[i - Len(s)]
<1>1. Len(s) \in Nat /\ Len(t) \in Nat /\ DOMAIN s = 1 .. Len(s) /\ DOMAIN t = 1 .. Len(t)
  BY SMT
<1>2. s \o t \in Seq(S) /\ Len(s \o t) = Len(s) + Len(t)
  BY SMT
<1>3. DOMAIN (s \o t) = 1 .. Len(s) + Len(t)
  BY <1>2, SMT
<1>4. \A i \in 1 .. Len(s) : (s \o t)[i] = s[i]
  BY <1>1, SMT
<1>5. \A i \in DOMAIN (s \o t) : i \notin 1 .. Len(s) => (s \o t)[i] = t[i - Len(s)]
  BY <1>1, <1>3, SMT
<1>6. ASSUME NEW i \in 1 .. Len(t) PROVE (s \o t)[Len(s) + i] = t[i]
  <2>1. Len(s) + i \in DOMAIN (s \o t) /\ Len(s) + i \notin 1 .. Len(s) /\ (Len(s) + i) - Len(s) = i
    BY <1>1, <1>3, SMT
  <2> QED BY <1>5, <2>1
<1>7. \A i \in DOMAIN (s \o t) : i \in 1 .. Len(s) \/ i - Len(s) \in 1 .. Len(t)
  BY <1>1, <1>3, SMT
<1> QED BY <1>1, <1>2, <1>3, <1>4, <1>5, <1>6, <1>7

(* and of a queue without its first. *)
LEMMA TailAt ==
  ASSUME NEW S, NEW s \in Seq(S), s # << >>
  PROVE  /\ Tail(s) \in Seq(S) /\ Head(s) = s[1] /\ Head(s) \in S /\ Len(Tail(s)) = Len(s) - 1
         /\ Len(s) \in Nat /\ Len(s) > 0 /\ DOMAIN s = 1 .. Len(s)
         /\ DOMAIN Tail(s) = 1 .. Len(s) - 1
         /\ \A i \in DOMAIN Tail(s) : i + 1 \in DOMAIN s /\ i + 1 # 1 /\ Tail(s)[i] = s[i + 1]
         /\ \A i \in DOMAIN s : i # 1 => i - 1 \in DOMAIN Tail(s) /\ Tail(s)[i - 1] = s[i]
<1>1. /\ Len(s) \in Nat /\ DOMAIN s = 1 .. Len(s) /\ Len(s) > 0
  BY SMT
<1>2. Tail(s) \in Seq(S) /\ Head(s) = s[1] /\ Head(s) \in S /\ Len(Tail(s)) = Len(s) - 1
  BY SMT
<1>3. DOMAIN Tail(s) = 1 .. Len(s) - 1
  BY <1>1, <1>2, SMT
<1>4. \A i \in DOMAIN Tail(s) : i + 1 \in DOMAIN s /\ i + 1 # 1 /\ Tail(s)[i] = s[i + 1]
  BY <1>1, <1>3, SMT
<1>5. ASSUME NEW i \in DOMAIN s, i # 1 PROVE i - 1 \in DOMAIN Tail(s) /\ Tail(s)[i - 1] = s[i]
  <2>1. i - 1 \in DOMAIN Tail(s) /\ (i - 1) + 1 = i
    BY <1>1, <1>3, <1>5, SMT
  <2> QED BY <1>4, <2>1
<1> QED BY <1>1, <1>2, <1>3, <1>4, <1>5

LEMMA ConcatThree ==
  ASSUME NEW s \in Seq(Entry), NEW t \in Seq(Entry), NEW u \in Seq(Entry)
  PROVE  (s \o t) \o u = s \o (t \o u)
<1>1. /\ (s \o t) \o u \in Seq(Entry) /\ s \o (t \o u) \in Seq(Entry)
      /\ Len((s \o t) \o u) = Len(s) + Len(t) + Len(u)
      /\ Len(s \o (t \o u)) = Len(s) + Len(t) + Len(u)
  BY SMT
<1>2. \A i \in 1 .. Len(s) + Len(t) + Len(u) : ((s \o t) \o u)[i] = (s \o (t \o u))[i]
  BY SMT
<1> QED BY <1>1, <1>2, SameQueue

LEMMA ConcatNothing ==
  ASSUME NEW s \in Seq(Entry)
  PROVE  s \o << >> = s /\ << >> \o s = s
<1>1. << >> \in Seq(Entry) /\ Len(<< >>) = 0
  BY SMT
<1>2. /\ s \o << >> \in Seq(Entry) /\ Len(s \o << >>) = Len(s)
      /\ \A i \in 1 .. Len(s) : (s \o << >>)[i] = s[i]
  BY <1>1, SMT
<1>3. /\ << >> \o s \in Seq(Entry) /\ Len(<< >> \o s) = Len(s)
      /\ \A i \in 1 .. Len(s) : (<< >> \o s)[i] = s[i]
  BY <1>1, SMT
<1> QED BY <1>2, <1>3, SameQueue

(* The first request of a queue moved to the end of the queue before *)
LEMMA MoveHead ==
  ASSUME NEW S, NEW s \in Seq(S), NEW t \in Seq(S), t # << >>
  PROVE  Append(s, Head(t)) \o Tail(t) = s \o t
<1>1. Tail(t) \in Seq(S) /\ Head(t) \in S /\ Append(s, Head(t)) \in Seq(S)
      /\ Len(Append(s, Head(t))) = Len(s) + 1 /\ Len(Tail(t)) = Len(t) - 1
      /\ Len(s) \in Nat /\ Len(t) \in Nat \ {0}
  BY SMT
<1> DEFINE a == Append(s, Head(t))
<1>2. \A i \in 1 .. Len(s) : a[i] = s[i]
  BY SMT
<1>3. a[Len(s) + 1] = t[1]
  BY <1>1, SMT
<1> HIDE DEF a
<1>4. a \in Seq(S) /\ Len(a) = Len(s) + 1
  BY <1>1 DEF a
<1>5. a \o Tail(t) \in Seq(S) /\ s \o t \in Seq(S)
      /\ Len(a \o Tail(t)) = Len(s) + Len(t) /\ Len(s \o t) = Len(s) + Len(t)
  <2>1. a \o Tail(t) \in Seq(S) /\ Len(a \o Tail(t)) = Len(a) + Len(Tail(t))
    BY <1>1, <1>4, SMT
  <2>2. s \o t \in Seq(S) /\ Len(s \o t) = Len(s) + Len(t)
    BY ConcatAt
  <2>3. (Len(s) + 1) + (Len(t) - 1) = Len(s) + Len(t)
    BY <1>1, SMT
  <2> QED BY <1>1, <1>4, <2>1, <2>2, <2>3
<1>6. ASSUME NEW i \in 1 .. Len(s) + Len(t) PROVE (a \o Tail(t))[i] = (s \o t)[i]
  <2>1. CASE i \in 1 .. Len(s)
    <3>1. i \in 1 .. Len(a)
      BY <1>1, <1>4, <2>1, SMT
    <3> QED BY <1>1, <1>2, <1>4, <2>1, <3>1, ConcatAt, SMT
  <2>2. CASE i = Len(s) + 1
    <3>1. i \in 1 .. Len(a) /\ 1 \in 1 .. Len(t)
      BY <1>1, <1>4, <2>2, SMT
    <3>2. (a \o Tail(t))[i] = a[i] /\ (s \o t)[i] = t[1]
      BY <1>1, <1>4, <2>2, <3>1, ConcatAt, SMT
    <3> QED BY <1>3, <2>2, <3>2
  <2>3. CASE i > Len(s) + 1
    <3>1. /\ i - (Len(s) + 1) \in 1 .. Len(t) - 1 /\ i \notin 1 .. Len(a) /\ i \notin 1 .. Len(s)
          /\ i - (Len(s) + 1) + 1 = i - Len(s) /\ i \in 1 .. Len(a) + Len(Tail(t))
      BY <1>1, <1>4, <2>3, SMT
    <3>2. (a \o Tail(t))[i] = Tail(t)[i - (Len(s) + 1)]
      BY <1>1, <1>4, <3>1, ConcatAt, SMT
    <3>3. (s \o t)[i] = t[i - Len(s)]
      BY <1>1, <3>1, ConcatAt, SMT
    <3>4. Tail(t)[i - (Len(s) + 1)] = t[i - Len(s)]
      BY <1>1, <3>1, TailAt, SMT
    <3> QED BY <3>2, <3>3, <3>4
  <2>4. i \in 1 .. Len(s) \/ i = Len(s) + 1 \/ i > Len(s) + 1
    BY <1>1, SMT
  <2> QED BY <2>1, <2>2, <2>3, <2>4
<1>7. a \o Tail(t) = s \o t
  BY <1>5, <1>6, SameQueue
<1> QED BY <1>7 DEF a
NoEnd(queue) == \A i \in DOMAIN queue : ~Ends(queue[i])

(* Whose requests two queues in a row hold, *)
LEMMA ConcatEnds ==
  ASSUME NEW s \in Seq(Entry), NEW t \in Seq(Entry), NEW j
  PROVE  /\ NoEnd(s \o t) <=> NoEnd(s) /\ NoEnd(t)
         /\ Belongs(s \o t, j) <=> Belongs(s, j) /\ Belongs(t, j)
         /\ Single(s) /\ NoEnd(t) => Single(s \o t)
         /\ NoEnd(s) /\ Single(t) => Single(s \o t)
         /\ Single(s \o t) => Single(s) /\ Single(t)
<1> DEFINE c == s \o t
           M == Len(s)
<1>1. /\ M \in Nat /\ Len(t) \in Nat /\ DOMAIN s = 1 .. M /\ DOMAIN t = 1 .. Len(t)
      /\ DOMAIN c = 1 .. M + Len(t)
      /\ \A i \in 1 .. M : c[i] = s[i]
      /\ \A i \in 1 .. Len(t) : c[M + i] = t[i]
      /\ \A i \in DOMAIN c : i \in 1 .. M \/ i - M \in 1 .. Len(t)
      /\ \A i \in DOMAIN c : i \notin 1 .. M => c[i] = t[i - M]
  BY ConcatAt, SMT
<1> HIDE DEF c, M
<1>2. /\ \A i \in DOMAIN s : i \in DOMAIN c /\ c[i] = s[i]
      /\ \A i \in DOMAIN t : M + i \in DOMAIN c /\ c[M + i] = t[i]
      /\ \A i \in DOMAIN c : \/ i \in DOMAIN s /\ c[i] = s[i]
                             \/ i - M \in DOMAIN t /\ c[i] = t[i - M]
  BY <1>1, SMT
<1>3. \A a, b \in DOMAIN t : M + a = M + b => a = b
  BY <1>1, SMT
<1>4. \A a, b \in DOMAIN c : a - M = b - M => a = b
  BY <1>1, SMT
<1>5. NoEnd(c) <=> NoEnd(s) /\ NoEnd(t)
  BY <1>2 DEF NoEnd
<1>6. Belongs(c, j) <=> Belongs(s, j) /\ Belongs(t, j)
  BY <1>2, SMT DEF Belongs
<1>7. Single(s) /\ NoEnd(t) => Single(c)
  BY <1>2 DEF Single, NoEnd
<1>8. NoEnd(s) /\ Single(t) => Single(c)
  BY <1>2, <1>4, SMT DEF Single, NoEnd
<1>9. Single(c) => Single(s) /\ Single(t)
  BY <1>2, <1>3 DEF Single
<1> QED BY <1>5, <1>6, <1>7, <1>8, <1>9 DEF c

(* and a queue without its first. *)
LEMMA TailEnds ==
  ASSUME NEW s \in Seq(Entry), s # << >>, NEW j
  PROVE  /\ NoEnd(s) => NoEnd(Tail(s))
         /\ Belongs(s, j) => Belongs(Tail(s), j)
         /\ Single(s) => Single(Tail(s)) /\ (Ends(Head(s)) => NoEnd(Tail(s)))
<1> DEFINE c == Tail(s)
<1>1. /\ 1 \in DOMAIN s /\ Head(s) = s[1]
      /\ \A i \in DOMAIN c : i \in Int /\ i + 1 \in DOMAIN s /\ i + 1 # 1 /\ c[i] = s[i + 1]
  BY TailAt, SMT
<1>2. \A a, b \in DOMAIN c : a + 1 = b + 1 => a = b
  BY <1>1, SMT
<1> HIDE DEF c
<1>3. /\ NoEnd(s) => NoEnd(c)
      /\ Belongs(s, j) => Belongs(c, j)
  BY <1>1, SMT DEF NoEnd, Belongs
<1>4. Single(s) => Single(c)
  BY <1>1, <1>2 DEF Single
<1>5. Single(s) /\ Ends(Head(s)) => NoEnd(c)
  BY <1>1 DEF Single, NoEnd
<1> QED BY <1>3, <1>4, <1>5 DEF c

(* Flush requests are counted queue by queue, *)
LEMMA FlushesFinite ==
  ASSUME NEW s \in Seq(Entry)
  PROVE  IsFiniteSet(Flushes(s)) /\ Cardinality(Flushes(s)) \in Nat
<1>1. Flushes(s) \subseteq 1 .. Len(s) /\ 1 \in Int /\ Len(s) \in Int
  BY SMT DEF Flushes
<1>2. IsFiniteSet(1 .. Len(s))
  BY <1>1, FS_Interval
<1>3. IsFiniteSet(Flushes(s))
  BY <1>1, <1>2, FS_Subset
<1> QED BY <1>3, FS_CardinalityType

LEMMA ConcatFlushes ==
  ASSUME NEW s \in Seq(Entry), NEW t \in Seq(Entry)
  PROVE  /\ Flushes(s \o t) = {} <=> Flushes(s) = {} /\ Flushes(t) = {}
         /\ Cardinality(Flushes(s \o t)) = Cardinality(Flushes(s)) + Cardinality(Flushes(t))
<1> DEFINE c == s \o t
           M == Len(s)
           F == Flushes(c) \ Flushes(s)
           f == [i \in Flushes(t) |-> M + i]
<1>1. /\ M \in Nat /\ Len(t) \in Nat /\ DOMAIN s = 1 .. M /\ DOMAIN t = 1 .. Len(t)
      /\ DOMAIN c = 1 .. M + Len(t)
      /\ \A i \in 1 .. M : c[i] = s[i]
      /\ \A i \in 1 .. Len(t) : c[M + i] = t[i]
      /\ \A i \in DOMAIN c : i \in 1 .. M \/ i - M \in 1 .. Len(t)
      /\ \A i \in DOMAIN c : i \notin 1 .. M => c[i] = t[i - M]
      /\ c \in Seq(Entry)
  BY ConcatAt, SMT
<1> HIDE DEF c, M
<1>2. Flushes(s) \subseteq Flushes(c) /\ \A i \in Flushes(s) : i <= M
  BY <1>1, SMT DEF Flushes
<1>3. ASSUME NEW i \in Flushes(t) PROVE f[i] \in F
  BY <1>1, SMT DEF Flushes
<1>4. ASSUME NEW i \in F PROVE i - M \in Flushes(t) /\ f[i - M] = i
  BY <1>1, SMT DEF Flushes
<1>5. \A a, b \in Flushes(t) : f[a] = f[b] => a = b
  BY <1>1, SMT DEF Flushes
<1>50. f \in [Flushes(t) -> F] /\ DOMAIN f = Flushes(t)
  BY <1>3
<1>51. F = Flushes(c) \ Flushes(s)
  OBVIOUS
<1> HIDE DEF f, F
<1>6. f \in Bijection(Flushes(t), F)
  BY <1>4, <1>5, <1>50 DEF Bijection, Injection, Surjection, IsInjective
<1>7. Cardinality(F) = Cardinality(Flushes(t)) /\ IsFiniteSet(F)
  BY <1>6, FlushesFinite, FS_Bijection DEF ExistsBijection
<1>8. Flushes(c) = Flushes(s) \cup F /\ Flushes(s) \cap F = {}
  BY <1>2, <1>51
<1>9. /\ Cardinality(Flushes(c)) =
           Cardinality(Flushes(s)) + Cardinality(F) - Cardinality({})
      /\ Cardinality({}) = 0
  BY <1>7, <1>8, FlushesFinite, FS_Union, FS_EmptySet, SMT
<1>10. F = {} <=> Flushes(t) = {}
  BY <1>3, <1>4
<1>11. Cardinality(Flushes(s)) \in Nat /\ Cardinality(Flushes(t)) \in Nat
  BY FlushesFinite
<1> QED BY <1>7, <1>8, <1>9, <1>10, <1>11, SMT DEF c
(* and key by key: the flush requests in the queues paths of the keys *)
Spots(paths) == UNION {{k} \X Flushes(paths[k]) : k \in Key}

LEMMA SpotsOf ==
  ASSUME NEW paths \in [Key -> Seq(Entry)]
  PROVE  /\ IsFiniteSet(Spots(paths)) /\ Cardinality(Spots(paths)) \in Nat
         /\ \A x : x \in Spots(paths) <=>
                     \E k \in Key : \E i \in Flushes(paths[k]) : x = <<k, i>>
<1>1. \A k \in Key : IsFiniteSet({k} \X Flushes(paths[k]))
  <2> TAKE k \in Key
  <2>1. IsFiniteSet({k}) /\ IsFiniteSet(Flushes(paths[k]))
    BY FS_Singleton, FlushesFinite
  <2> QED BY <2>1, FS_Product
<1> DEFINE C == {{k} \X Flushes(paths[k]) : k \in Key}
           f == [k \in Key |-> {k} \X Flushes(paths[k])]
<1>2. f \in Surjection(Key, C)
  BY DEF Surjection
<1>3. IsFiniteSet(C)
  BY <1>2, SetAssumption, FS_Surjection
<1>4. IsFiniteSet(UNION C)
  <2>1. \A T \in C : IsFiniteSet(T)
    BY <1>1
  <2> HIDE DEF C
  <2> QED BY <1>3, <2>1, FS_UNION
<1>5. IsFiniteSet(Spots(paths)) /\ Cardinality(Spots(paths)) \in Nat
  BY <1>4, FS_CardinalityType DEF Spots
<1>6. ASSUME NEW x
      PROVE  x \in Spots(paths) <=> \E k \in Key : \E i \in Flushes(paths[k]) : x = <<k, i>>
  BY SMT DEF Spots
<1> QED BY <1>5, <1>6

LEMMA SpotsOne ==
  ASSUME NEW P \in [Key -> Seq(Entry)], NEW Q \in [Key -> Seq(Entry)], NEW k \in Key,
         \A q \in Key : q # k => Q[q] = P[q]
  PROVE  Cardinality(Spots(Q)) + Cardinality(Flushes(P[k])) =
           Cardinality(Spots(P)) + Cardinality(Flushes(Q[k]))
<1> DEFINE Rest == {x \in Spots(P) : x[1] # k}
<1>1. ASSUME NEW R \in [Key -> Seq(Entry)], \A q \in Key : q # k => R[q] = P[q]
      PROVE  Cardinality(Spots(R)) = Cardinality(Rest) + Cardinality(Flushes(R[k]))
  <2> DEFINE Mine == {k} \X Flushes(R[k])
  <2>1. Spots(R) = Rest \cup Mine
    <3>1. ASSUME NEW x \in Spots(R) PROVE x \in Rest \cup Mine
      <4>0. PICK q \in Key : \E i \in Flushes(R[q]) : x = <<q, i>>
        BY <3>1, SMT DEF Spots
      <4>1. PICK i \in Flushes(R[q]) : x = <<q, i>>
        BY <4>0
      <4>2. CASE q = k
        BY <4>1, <4>2
      <4>3. CASE q # k
        <5>1. i \in Flushes(P[q]) /\ x[1] = q
          BY <1>1, <4>1, <4>3
        <5>2. x \in Spots(P)
          BY <4>1, <5>1, SpotsOf
        <5> QED BY <5>1, <5>2, <4>3
      <4> QED BY <4>2, <4>3
    <3>2. ASSUME NEW x \in Rest PROVE x \in Spots(R)
      <4>0. PICK q \in Key : \E i \in Flushes(P[q]) : x = <<q, i>>
        <5>1. x \in Spots(P)
          BY <3>2
        <5> QED BY <5>1, SMT DEF Spots
      <4>1. PICK i \in Flushes(P[q]) : x = <<q, i>>
        BY <4>0
      <4>2. q # k
        BY <3>2, <4>1
      <4>3. i \in Flushes(R[q])
        BY <1>1, <4>1, <4>2
      <4> QED BY <4>1, <4>3, <1>1, SpotsOf
    <3>3. ASSUME NEW x \in Mine PROVE x \in Spots(R)
      <4>1. PICK i \in Flushes(R[k]) : x = <<k, i>>
        BY <3>3, SMT
      <4> QED BY <4>1, SpotsOf
    <3> QED BY <3>1, <3>2, <3>3
  <2>2. Rest \cap Mine = {}
    OBVIOUS
  <2>3. IsFiniteSet(Rest) /\ IsFiniteSet(Mine)
    <3>1. IsFiniteSet(Spots(P))
      BY SpotsOf
    <3>2. IsFiniteSet({k}) /\ IsFiniteSet(Flushes(R[k]))
      BY FS_Singleton, FlushesFinite
    <3>3. IsFiniteSet(Mine)
      BY <3>2, FS_Product
    <3>4. Rest \in SUBSET Spots(P)
      OBVIOUS
    <3> HIDE DEF Rest
    <3>5. IsFiniteSet(Rest)
      BY <3>1, <3>4, FS_Subset
    <3> QED BY <3>3, <3>5
  <2>4. Cardinality(Mine) = Cardinality(Flushes(R[k]))
    <3>1. /\ IsFiniteSet({k}) /\ IsFiniteSet(Flushes(R[k])) /\ Cardinality({k}) = 1
          /\ Cardinality(Flushes(R[k])) \in Nat
      BY FS_Singleton, FlushesFinite
    <3>2. Cardinality(Mine) = Cardinality({k}) * Cardinality(Flushes(R[k]))
      BY <3>1, FS_Product
    <3> QED BY <3>1, <3>2, SMT
  <2> HIDE DEF Rest, Mine
  <2>5. Cardinality(Rest) \in Nat /\ Cardinality(Mine) \in Nat /\ Cardinality({}) = 0
    BY <2>3, FS_CardinalityType, FS_EmptySet
  <2>6. Cardinality(Rest \cup Mine) =
          Cardinality(Rest) + Cardinality(Mine) - Cardinality(Rest \cap Mine)
    BY <2>3, FS_Union
  <2>7. Cardinality(Spots(R)) = Cardinality(Rest) + Cardinality(Mine) - Cardinality({})
    BY <2>1, <2>2, <2>6
  <2> QED BY <2>4, <2>5, <2>7, SMT
<1>2. Cardinality(Spots(P)) = Cardinality(Rest) + Cardinality(Flushes(P[k]))
  BY <1>1
<1>3. Cardinality(Spots(Q)) = Cardinality(Rest) + Cardinality(Flushes(Q[k]))
  BY <1>1
<1>4. Cardinality(Rest) \in Nat
  <2>1. IsFiniteSet(Spots(P)) /\ Rest \in SUBSET Spots(P)
    BY SpotsOf
  <2> HIDE DEF Rest
  <2>2. IsFiniteSet(Rest)
    BY <2>1, FS_Subset
  <2> QED BY <2>2, FS_CardinalityType
<1> HIDE DEF Rest
<1>5. Cardinality(Flushes(P[k])) \in Nat /\ Cardinality(Flushes(Q[k])) \in Nat
  BY FlushesFinite
<1> QED BY <1>2, <1>3, <1>4, <1>5, SMT
LEMMA SpotsMore ==
  ASSUME NEW P \in [Key -> Seq(Entry)], NEW Q \in [Key -> Seq(Entry)], NEW R \in SUBSET Key,
         \A q \in R : Flushes(Q[q]) = Flushes(P[q]) \cup {Len(P[q]) + 1},
         \A q \in Key \ R : Q[q] = P[q]
  PROVE  Cardinality(Spots(Q)) = Cardinality(Spots(P)) + Cardinality(R)
<1> DEFINE New == {<<q, Len(P[q]) + 1>> : q \in R}
           f == [q \in R |-> <<q, Len(P[q]) + 1>>]
<1>1. \A q \in Key : Len(P[q]) \in Nat /\ Len(P[q]) + 1 \notin Flushes(P[q])
  BY SMT DEF Flushes
<1>2. Spots(Q) = Spots(P) \cup New
  <2>1. ASSUME NEW x \in Spots(Q) PROVE x \in Spots(P) \cup New
    <3>1. PICK q \in Key : \E i \in Flushes(Q[q]) : x = <<q, i>>
      BY <2>1, SMT DEF Spots
    <3>2. PICK i \in Flushes(Q[q]) : x = <<q, i>>
      BY <3>1
    <3>3. CASE i \in Flushes(P[q])
      BY <3>2, <3>3, SpotsOf
    <3>4. CASE i \notin Flushes(P[q])
      <4>1. q \in R /\ i = Len(P[q]) + 1
        BY <3>2, <3>4
      <4> QED BY <3>2, <4>1
    <3> QED BY <3>3, <3>4
  <2>2. ASSUME NEW x \in Spots(P) PROVE x \in Spots(Q)
    <3>1. PICK q \in Key : \E i \in Flushes(P[q]) : x = <<q, i>>
      BY <2>2, SMT DEF Spots
    <3>2. PICK i \in Flushes(P[q]) : x = <<q, i>>
      BY <3>1
    <3>3. i \in Flushes(Q[q])
      BY <3>2
    <3> QED BY <3>2, <3>3, SpotsOf
  <2>3. ASSUME NEW x \in New PROVE x \in Spots(Q)
    <3>1. PICK q \in R : x = <<q, Len(P[q]) + 1>>
      BY <2>3
    <3>2. Len(P[q]) + 1 \in Flushes(Q[q]) /\ q \in Key
      BY <3>1
    <3> QED BY <3>1, <3>2, SpotsOf
  <2> QED BY <2>1, <2>2, <2>3
<1>3. Spots(P) \cap New = {}
  <2> SUFFICES ASSUME NEW x \in Spots(P), x \in New PROVE FALSE
    OBVIOUS
  <2>1. PICK q \in Key : \E i \in Flushes(P[q]) : x = <<q, i>>
    BY SMT DEF Spots
  <2> QED BY <1>1, <2>1, SMT
<1>4. f \in Bijection(R, New)
  <2>1. f \in [R -> New] /\ DOMAIN f = R
    OBVIOUS
  <2>2. \A a, b \in R : f[a] = f[b] => a = b
    OBVIOUS
  <2>3. \A x \in New : \E a \in R : f[a] = x
    OBVIOUS
  <2> HIDE DEF f, New
  <2> QED BY <2>1, <2>2, <2>3 DEF Bijection, Injection, Surjection, IsInjective
<1>5. IsFiniteSet(R)
  BY SetAssumption, FS_Subset
<1> HIDE DEF f, New
<1>6. IsFiniteSet(New) /\ Cardinality(New) = Cardinality(R)
  BY <1>4, <1>5, FS_Bijection DEF ExistsBijection
<1>7. IsFiniteSet(Spots(P)) /\ Cardinality(Spots(P)) \in Nat
  BY SpotsOf
<1>8. Cardinality(R) \in Nat /\ Cardinality({}) = 0
  BY <1>5, FS_CardinalityType, FS_EmptySet
<1>9. Cardinality(Spots(P) \cup New) =
        Cardinality(Spots(P)) + Cardinality(New) - Cardinality(Spots(P) \cap New)
  BY <1>6, <1>7, FS_Union
<1>10. Cardinality(Spots(Q)) = Cardinality(Spots(P)) + Cardinality(R) - Cardinality({})
  BY <1>2, <1>3, <1>6, <1>9
<1> QED BY <1>7, <1>8, <1>10, SMT
-----------------------------------------------------------------------------
(* A set of numbers has a least one. *)
LEMMA NatMin ==
  ASSUME NEW T, T \subseteq Nat, T # {}
  PROVE \E x \in T : \A y \in T : x <= y
<1> DEFINE R == OpToRel(<, Nat)
<1>1. \A x, y \in Nat : y < x => <<y, x>> \in R
  BY DEF OpToRel
<1>2. PICK x \in T : \A y \in T : ~ (<<y, x>> \in R)
  BY NatLessThanWellFounded, WFMin
<1> HIDE DEF R
<1>3. \A y \in T : y \in Nat /\ x \in Nat /\ ~ (y < x)
  BY <1>1, <1>2
<1>4. \A y \in T : x <= y
  BY <1>3, SMT
<1> QED BY <1>4

(* The last flush request of a queue says what the row will be. *)
LEMMA SettledIs ==
  ASSUME NEW s \in Seq(Entry), NEW row
  PROVE  /\ Flushes(s) = {} => Settled(s, row) = row
         /\ \A i \in Flushes(s) :
              (\A j \in Flushes(s) : j <= i) => Settled(s, row) = s[i].val
         /\ Flushes(s) # {} => \E i \in Flushes(s) : \A j \in Flushes(s) : j <= i
<1>1. Flushes(s) = {} => Settled(s, row) = row
  BY DEF Settled
<1>2. \A i \in Flushes(s) : i \in Nat /\ i <= Len(s) /\ Len(s) \in Nat
  BY SMT DEF Flushes
<1>3. ASSUME NEW i \in Flushes(s), \A j \in Flushes(s) : j <= i
      PROVE  Settled(s, row) = s[i].val
  <2>1. Max(Flushes(s)) = i
    <3>1. \A x \in Flushes(s) : (\A y \in Flushes(s) : x >= y) => x = i
      BY <1>2, <1>3, SMT
    <3>2. \A y \in Flushes(s) : i >= y
      BY <1>2, <1>3
    <3>3. \E x \in Flushes(s) : \A y \in Flushes(s) : x >= y
      BY <3>2
    <3>4. /\ Max(Flushes(s)) \in Flushes(s)
          /\ \A y \in Flushes(s) : Max(Flushes(s)) >= y
      BY <3>3 DEF Max
    <3> QED BY <3>1, <3>4
  <2> QED BY <2>1 DEF Settled
<1>4. ASSUME Flushes(s) # {}
      PROVE  \E i \in Flushes(s) : \A j \in Flushes(s) : j <= i
  <2> DEFINE T == {Len(s) - i : i \in Flushes(s)}
  <2>1. T \subseteq Nat /\ T # {}
    BY <1>2, <1>4, SMT
  <2>2. PICK x \in T : \A y \in T : x <= y
    BY <2>1, NatMin
  <2>3. PICK i \in Flushes(s) : x = Len(s) - i
    BY <2>2
  <2>4. ASSUME NEW j \in Flushes(s) PROVE j <= i
    <3>1. Len(s) - j \in T
      OBVIOUS
    <3> HIDE DEF T
    <3>2. Len(s) - i <= Len(s) - j
      BY <2>2, <2>3, <3>1
    <3> QED BY <1>2, <3>2, SMT
  <2> QED BY <2>4
<1> QED BY <1>1, <1>3, <1>4

(* A flush request at the end decides, anything else there does not matter. *)
LEMMA SettledAppend ==
  ASSUME NEW s \in Seq(Entry), NEW e \in Entry, NEW row
  PROVE  /\ e.kind = "flush" => Settled(Append(s, e), row) = e.val
         /\ e.kind # "flush" => Settled(Append(s, e), row) = Settled(s, row)
         /\ Flushes(Append(s, e)) =
              IF e.kind = "flush" THEN Flushes(s) \cup {Len(s) + 1} ELSE Flushes(s)
<1> DEFINE c == Append(s, e)
<1>1. /\ c \in Seq(Entry) /\ Len(c) = Len(s) + 1 /\ Len(s) \in Nat
      /\ DOMAIN c = 1 .. Len(s) + 1 /\ DOMAIN s = 1 .. Len(s)
      /\ c[Len(s) + 1] = e /\ \A i \in 1 .. Len(s) : c[i] = s[i]
  BY SMT
<1> HIDE DEF c
<1>2. Flushes(c) = IF e.kind = "flush" THEN Flushes(s) \cup {Len(s) + 1} ELSE Flushes(s)
  BY <1>1, SMT DEF Flushes
<1>3. \A i \in Flushes(s) : i <= Len(s) + 1 /\ c[i] = s[i]
  BY <1>1, SMT DEF Flushes
<1>4. ASSUME e.kind = "flush" PROVE Settled(c, row) = e.val
  <2>1. Len(s) + 1 \in Flushes(c) /\ \A j \in Flushes(c) : j <= Len(s) + 1
    BY <1>1, <1>2, <1>3, <1>4, SMT
  <2> QED BY <1>1, <2>1, SettledIs
<1>5. ASSUME e.kind # "flush" PROVE Settled(c, row) = Settled(s, row)
  <2>1. Flushes(c) = Flushes(s)
    BY <1>2, <1>5
  <2>2. CASE Flushes(s) = {}
    BY <1>1, <2>1, <2>2, SettledIs
  <2>3. CASE Flushes(s) # {}
    <3>1. PICK i \in Flushes(s) : \A j \in Flushes(s) : j <= i
      BY <2>3, SettledIs
    <3>2. Settled(s, row) = s[i].val
      BY <3>1, SettledIs
    <3>3. Settled(c, row) = c[i].val
      BY <1>1, <2>1, <3>1, SettledIs, SMT
    <3> QED BY <1>3, <3>2, <3>3
  <2> QED BY <2>2, <2>3
<1> QED BY <1>2, <1>4, <1>5 DEF c

(* The first flush request executed, or anything else there gone. *)
LEMMA SettledTail ==
  ASSUME NEW s \in Seq(Entry), s # << >>, NEW row
  PROVE  /\ Head(s).kind = "flush" => Settled(Tail(s), Head(s).val) = Settled(s, row)
         /\ Head(s).kind # "flush" => Settled(Tail(s), row) = Settled(s, row)
         /\ Flushes(s) = {} => Flushes(Tail(s)) = {}
<1> DEFINE c == Tail(s)
<1>1. /\ c \in Seq(Entry) /\ 1 \in DOMAIN s /\ Head(s) = s[1]
      /\ \A i \in DOMAIN c : i \in Int /\ i + 1 \in DOMAIN s /\ i + 1 # 1 /\ c[i] = s[i + 1]
      /\ \A i \in DOMAIN s : i \in Int /\ i >= 1 /\ (i # 1 => i - 1 \in DOMAIN c /\ c[i - 1] = s[i])
  BY TailAt, SMT
<1> HIDE DEF c
<1>2. \A i \in Flushes(c) : i + 1 \in Flushes(s) /\ i \in Int /\ c[i] = s[i + 1]
  BY <1>1 DEF Flushes
<1>3. \A i \in Flushes(s) : i \in Int /\ i >= 1 /\ (i # 1 => i - 1 \in Flushes(c))
  BY <1>1 DEF Flushes
<1>4. 1 \in Flushes(s) <=> Head(s).kind = "flush"
  BY <1>1 DEF Flushes
<1>5. CASE Flushes(c) = {}
  <2>1. \A r : Settled(c, r) = r
    BY <1>1, <1>5, SettledIs
  <2>2. \A i \in Flushes(s) : i = 1
    BY <1>3, <1>5
  <2>3. CASE Head(s).kind = "flush"
    <3>1. 1 \in Flushes(s) /\ \A j \in Flushes(s) : j <= 1
      BY <1>4, <2>2, <2>3, SMT
    <3> QED BY <1>1, <2>1, <2>3, <3>1, SettledIs, SMT DEF c
  <2>4. CASE Head(s).kind # "flush"
    <3>1. Flushes(s) = {}
      BY <1>4, <2>2, <2>4
    <3> QED BY <1>5, <2>1, <2>4, <3>1, SettledIs DEF c
  <2> QED BY <2>3, <2>4
<1>6. CASE Flushes(c) # {}
  <2>1. PICK i \in Flushes(c) : \A j \in Flushes(c) : j <= i
    BY <1>1, <1>6, SettledIs
  <2>2. \A r : Settled(c, r) = c[i].val
    BY <1>1, <2>1, SettledIs, SMT
  <2>3. i + 1 \in Flushes(s) /\ \A j \in Flushes(s) : j <= i + 1
    <3>1. i + 1 \in Flushes(s) /\ i \in Int /\ i >= 1
      <4>1. i \in DOMAIN c /\ c \in Seq(Entry)
        BY <1>1, <2>1 DEF Flushes
      <4> QED BY <1>2, <2>1, <4>1, SMT
    <3>2. ASSUME NEW j \in Flushes(s) PROVE j <= i + 1
      <4>1. CASE j = 1
        BY <3>1, <4>1, SMT
      <4>2. CASE j # 1
        <5>1. j - 1 <= i /\ j \in Int
          BY <1>3, <2>1, <4>2
        <5> QED BY <3>1, <5>1, SMT
      <4> QED BY <4>1, <4>2
    <3> QED BY <3>1, <3>2
  <2>4. Settled(s, row) = s[i + 1].val
    BY <2>3, SettledIs
  <2>5. c[i] = s[i + 1] /\ Flushes(s) # {}
    BY <1>2, <2>1, <2>3
  <2> QED BY <2>2, <2>4, <2>5 DEF c
<1> QED BY <1>5, <1>6
-----------------------------------------------------------------------------
(* The requests of answers *)
LEMMA EntriesOf ==
  ASSUME NEW r \in Seq(Answer)
  PROVE  /\ Entries(r) \in Seq(Entry) /\ Len(Entries(r)) = Len(r) /\ DOMAIN Entries(r) = DOMAIN r
         /\ \A i \in DOMAIN r : Entries(r)[i] = r[i].entry /\ r[i] \in Answer
         /\ \A a \in Answer : Entries(Append(r, a)) = Append(Entries(r), a.entry)
         /\ r # << >> => /\ Entries(r) # << >> /\ Entries(Tail(r)) = Tail(Entries(r))
                         /\ Head(Entries(r)) = Head(r).entry /\ Head(r) \in Answer
         /\ Entries(<< >>) = << >>
<1>1. ASSUME NEW q \in Seq(Answer)
      PROVE  /\ Entries(q) \in Seq(Entry) /\ Len(Entries(q)) = Len(q) /\ DOMAIN Entries(q) = DOMAIN q
             /\ DOMAIN q = 1 .. Len(q) /\ Len(q) \in Nat
             /\ \A i \in DOMAIN q : Entries(q)[i] = q[i].entry /\ q[i] \in Answer
  <2>1. Len(q) \in Nat /\ DOMAIN q = 1 .. Len(q) /\ \A i \in DOMAIN q : q[i] \in Answer
    BY SMT
  <2>2. \A i \in DOMAIN q : q[i].entry \in Entry
    BY <2>1 DEF Answer
  <2> QED BY <2>1, <2>2, SMT DEF Entries
<1>2. ASSUME NEW a \in Answer PROVE Entries(Append(r, a)) = Append(Entries(r), a.entry)
  <2>1. /\ Append(r, a) \in Seq(Answer) /\ Len(Append(r, a)) = Len(r) + 1
        /\ \A i \in 1 .. Len(r) + 1 : Append(r, a)[i] = IF i = Len(r) + 1 THEN a ELSE r[i]
    BY SMT
  <2>2. a.entry \in Entry
    BY DEF Answer
  <2>3. /\ Append(Entries(r), a.entry) \in Seq(Entry) /\ Len(Append(Entries(r), a.entry)) = Len(r) + 1
        /\ \A i \in 1 .. Len(r) + 1 : Append(Entries(r), a.entry)[i] =
             IF i = Len(r) + 1 THEN a.entry ELSE Entries(r)[i]
    BY <1>1, <2>2, SMT
  <2>4. /\ Entries(Append(r, a)) \in Seq(Entry) /\ Len(Entries(Append(r, a))) = Len(r) + 1
        /\ \A i \in 1 .. Len(r) + 1 : Entries(Append(r, a))[i] = Append(r, a)[i].entry
    BY <1>1, <2>1
  <2>5. \A i \in 1 .. Len(r) + 1 : i # Len(r) + 1 => i \in DOMAIN r
    BY <1>1, SMT
  <2>6. \A i \in 1 .. Len(r) + 1 : Entries(Append(r, a))[i] = Append(Entries(r), a.entry)[i]
    BY <1>1, <2>1, <2>3, <2>4, <2>5, SMT
  <2> QED BY <2>3, <2>4, <2>6, SameQueue
<1>3. ASSUME r # << >>
      PROVE  /\ Entries(r) # << >> /\ Entries(Tail(r)) = Tail(Entries(r))
             /\ Head(Entries(r)) = Head(r).entry /\ Head(r) \in Answer
  <2>1. Entries(r) # << >> /\ 1 \in DOMAIN r /\ Tail(r) \in Seq(Answer) /\ Head(r) = r[1]
    BY <1>1, <1>3, SMT
  <2>2. Head(Entries(r)) = Head(r).entry /\ Head(r) \in Answer
    BY <1>1, <2>1, SMT
  <2>3. /\ Len(Tail(r)) = Len(r) - 1 /\ Len(Tail(Entries(r))) = Len(r) - 1
        /\ \A i \in 1 .. Len(r) - 1 : i + 1 \in DOMAIN r /\ Tail(r)[i] = r[i + 1]
                                      /\ Tail(Entries(r))[i] = Entries(r)[i + 1]
        /\ Tail(Entries(r)) \in Seq(Entry)
    BY <1>1, <2>1, <1>3, SMT
  <2>4. /\ Entries(Tail(r)) \in Seq(Entry) /\ Len(Entries(Tail(r))) = Len(r) - 1
        /\ \A i \in 1 .. Len(r) - 1 : Entries(Tail(r))[i] = Tail(r)[i].entry
    BY <1>1, <2>1, <2>3
  <2>5. \A i \in 1 .. Len(r) - 1 : Entries(Tail(r))[i] = Tail(Entries(r))[i]
    BY <1>1, <2>3, <2>4, SMT
  <2>6. Entries(Tail(r)) = Tail(Entries(r))
    BY <2>3, <2>4, <2>5, SameQueue, SMTT(30)
  <2> QED BY <2>1, <2>2, <2>6
<1>4. Entries(<< >>) = << >>
  BY SMT DEF Entries
<1> QED BY <1>1, <1>2, <1>3, <1>4

(* the requests of k that the cache or its queue has handed over *)
Front(k) == Entries(ret[k]) \o back[k]

LEMMA PathParts ==
  ASSUME TypeOK, NEW k \in Key
  PROVE  /\ ret[k] \in Seq(Answer) /\ Entries(ret[k]) \in Seq(Entry)
         /\ back[k] \in Seq(Entry) /\ chain[k] \in Seq(Entry)
         /\ Way(k) \in Seq(Entry) /\ Front(k) \in Seq(Entry) /\ Path(k) \in Seq(Entry)
         /\ Path(k) = Front(k) \o chain[k] /\ Path(k) = Entries(ret[k]) \o Way(k)
         /\ Way(k) = back[k] \o chain[k] /\ Front(k) = Entries(ret[k]) \o back[k]
<1>1. ret[k] \in Seq(Answer) /\ back[k] \in Seq(Entry) /\ chain[k] \in Seq(Entry)
  BY DEF TypeOK
<1>2. Entries(ret[k]) \in Seq(Entry)
  BY <1>1, EntriesOf
<1>3. /\ Way(k) \in Seq(Entry) /\ Front(k) \in Seq(Entry)
      /\ Way(k) = back[k] \o chain[k] /\ Front(k) = Entries(ret[k]) \o back[k]
  BY <1>1, <1>2, SMT DEF Way, Front
<1>4. Path(k) = Entries(ret[k]) \o Way(k)
  BY DEF Path
<1>5. Path(k) = Front(k) \o chain[k]
  <2>1. (Entries(ret[k]) \o back[k]) \o chain[k] = Entries(ret[k]) \o (back[k] \o chain[k])
    BY <1>1, <1>2, ConcatThree
  <2> QED BY <1>3, <1>4, <2>1
<1>6. Path(k) \in Seq(Entry)
  BY <1>2, <1>3, <1>4, SMT
<1> QED BY <1>1, <1>2, <1>3, <1>4, <1>5, <1>6

(* Requests of a client, and what a flush sends *)
LEMMA ClientEntry ==
  /\ Client \in Entry /\ <<Client>> \in Seq(Entry) /\ Client.kind = "client"
  /\ Flushes(<<Client>>) = {} /\ Single(<<Client>>)
  /\ \A j : j # NoJob /\ j.code \in DbCodes => Belongs(<<Client>>, j)
<1>1. NoRow \in Row
  BY DEF Row
<1>2. Client \in Entry /\ Client.kind = "client"
  BY <1>1 DEF Client, Entry
<1>3. <<Client>> \in Seq(Entry) /\ DOMAIN <<Client>> = {1} /\ <<Client>>[1] = Client
  BY <1>2, SMT
<1>4. Flushes(<<Client>>) = {}
  BY <1>2, <1>3 DEF Flushes
<1>5. Single(<<Client>>)
  BY <1>3 DEF Single
<1>6. \A j : j # NoJob /\ j.code \in DbCodes => Belongs(<<Client>>, j)
  BY <1>2, <1>3 DEF Belongs
<1> QED BY <1>2, <1>3, <1>4, <1>5, <1>6

LEMMA FlushEntry ==
  ASSUME NEW v \in Row, NEW w \in BOOLEAN
  PROVE  LET r == <<FlushRow(v, w)>> IN
         /\ FlushRow(v, w) \in Entry /\ FlushRow(v, w).kind = "flush" /\ FlushRow(v, w).val = v
         /\ r \in Seq(Entry) /\ Len(r) = 1 /\ r[1] = FlushRow(v, w) /\ r # << >>
         /\ Cardinality(Flushes(r)) = 1 /\ Single(r) /\ (~w => NoEnd(r))
         /\ \A j : j # NoJob /\ j.code \in {"Purge", "Flush"} => Belongs(r, j)
<1> DEFINE e == FlushRow(v, w)
           r == <<e>>
<1>1. e \in Entry /\ e.kind = "flush" /\ e.val = v /\ e.wait = w
  BY DEF FlushRow, Entry
<1> HIDE DEF e
<1>2. r \in Seq(Entry) /\ DOMAIN r = {1} /\ r[1] = e /\ Len(r) = 1 /\ r # << >>
  BY <1>1, SMT
<1> HIDE DEF r
<1>3. Flushes(r) = {1}
  BY <1>1, <1>2 DEF Flushes
<1>4. Cardinality(Flushes(r)) = 1
  BY <1>3, FS_Singleton
<1>5. Single(r) /\ (~w => NoEnd(r))
  BY <1>1, <1>2 DEF Single, NoEnd, Ends
<1>6. \A j : j # NoJob /\ j.code \in {"Purge", "Flush"} => Belongs(r, j)
  BY <1>1, <1>2 DEF Belongs
<1> QED BY <1>1, <1>2, <1>4, <1>5, <1>6 DEF r, e

LEMMA EmptyQueue ==
  /\ << >> \in Seq(Entry) /\ Flushes(<< >>) = {} /\ Single(<< >>) /\ NoEnd(<< >>)
  /\ \A j : Belongs(<< >>, j)
<1>1. << >> \in Seq(Entry) /\ DOMAIN << >> = {}
  BY SMT
<1> QED BY <1>1 DEF Flushes, Single, NoEnd, Belongs

(* Nothing in a queue belongs to no request. *)
LEMMA NobodyEnds ==
  ASSUME NEW s
  PROVE  /\ Belongs(s, NoJob) => NoEnd(s)
         /\ NoEnd(s) => Single(s) /\ \A j : Belongs(s, j)
BY DEF Belongs, NoEnd, Single
-----------------------------------------------------------------------------
NodeOrNone == Node \cup {NoNode}

(* What TypeOK says of nodes *)
LEMMA NodeTypes ==
  /\ \A v \in Row : Clean(v) \in Node /\ Dirty(v) \in Node
  /\ \A n \in Node : /\ n # NoNode /\ n.val \in Row /\ n.dirty \in BOOLEAN /\ n.rowdirty \in BOOLEAN
                     /\ [n EXCEPT !.dirty = TRUE] \in Node
                     /\ \A v \in Row : [n EXCEPT !.val = v] \in Node
  /\ NoRow \in Row /\ \A v \in Value : v \in Row
<1>1. \A v \in Row : Clean(v) \in Node /\ Dirty(v) \in Node
  BY DEF Clean, Dirty, Node
<1>2. ASSUME NEW n \in Node
      PROVE  /\ n # NoNode /\ n.val \in Row /\ n.dirty \in BOOLEAN /\ n.rowdirty \in BOOLEAN
             /\ [n EXCEPT !.dirty = TRUE] \in Node
             /\ \A v \in Row : [n EXCEPT !.val = v] \in Node
  BY AbsentAssumption DEF Node
<1>3. NoRow \in Row /\ \A v \in Value : v \in Row
  BY DEF Row
<1> QED BY <1>1, <1>2, <1>3

LEMMA JobTypes ==
  /\ \A c \in Codes, v \in Row, p \in BOOLEAN :
       LET j == [code |-> c, val |-> v, pass |-> p] IN
       /\ j \in Job /\ j.code = c /\ j.val = v /\ j.pass = p
  /\ \A j \in Job : j # NoJob /\ j.code \in Codes /\ j.val \in Row /\ j.pass \in BOOLEAN
  /\ \A c \in {"Get", "Insert", "Update", "Replace", "Delete", "Purge", "Flush"} : c \in Codes
  /\ \A c \in DbCodes : c \in Codes
<1>1. \A j \in Job : j # NoJob /\ j.code \in Codes /\ j.val \in Row /\ j.pass \in BOOLEAN
  BY AbsentAssumption DEF Job
<1>2. \A c \in Codes, v \in Row, p \in BOOLEAN :
        LET j == [code |-> c, val |-> v, pass |-> p] IN
        /\ j \in Job /\ j.code = c /\ j.val = v /\ j.pass = p
  BY DEF Job
<1> QED BY <1>1, <1>2 DEF Codes, DbCodes

(* A client's request: it is answered, *)
Answers(k) == \E seen \in SUBSET Row : turn_around_job_answer(k, seen)

(* sent on, behind a flush request or not, *)
Sends(k) ==
  \E j \in Job, rows \in {<< >>, flush_rows(k, FALSE)} :
    /\ j.code \in DbCodes /\ (j.code = "Delete" => j.val = NoRow)
    /\ rows # << >> => node[k] \in Node
    /\ goto_next_chain(k, j, rows)

(* or answered when the node is flushed. *)
Waits(k) ==
  /\ node[k] \in Node
  /\ \E code \in {"Purge", "Flush"} : buffer_flush_data(k, code)

LEMMA AskCases ==
  ASSUME TypeOK, NEW k \in Key, job_ask_procedure(k)
  PROVE  /\ job[k] = NoJob /\ ~double_reply
         /\ UNCHANGED <<db, ret, memory_dirty_, black_list_, late, suspect>>
         /\ node' \in [Key -> NodeOrNone] /\ \A q \in Key \ {k} : node'[q] = node[q]
         /\ Answers(k) \/ Sends(k) \/ Waits(k)
<1>1. /\ node \in [Key -> NodeOrNone] /\ node[k] \in NodeOrNone /\ legal[k] \in SUBSET Row
      /\ node[k] # NoNode => node[k] \in Node
  BY DEF TypeOK, NodeOrNone
<1>2. ASSUME NEW n \in NodeOrNone, node' = [node EXCEPT ![k] = n]
      PROVE  node' \in [Key -> NodeOrNone] /\ \A q \in Key \ {k} : node'[q] = node[q]
  BY <1>1, <1>2
<1>3. ASSUME node' = node
      PROVE  node' \in [Key -> NodeOrNone] /\ \A q \in Key \ {k} : node'[q] = node[q]
  BY <1>1, <1>3
<1>4. ASSUME NEW j \in Job, j.code \in DbCodes, j.code = "Delete" => j.val = NoRow,
             goto_next_chain(k, j, << >>)
      PROVE  Sends(k)
  BY <1>4 DEF Sends
<1>5. NoNode \in NodeOrNone /\ \A n \in Node : n \in NodeOrNone
  BY DEF NodeOrNone
<1>6. CASE ask_get(k)
  <2>1. /\ job[k] = NoJob /\ ~double_reply
        /\ UNCHANGED <<db, ret, memory_dirty_, black_list_, late, suspect>>
    BY <1>6 DEF ask_get, Ask
  <2>2. node' = [node EXCEPT ![k] = NoNode] \/ node' = node
    BY <1>6 DEF ask_get
  <2>3. \A p \in BOOLEAN : LET j == [code |-> "Get", val |-> NoRow, pass |-> p] IN
          j \in Job /\ j.code = "Get"
    BY JobTypes, NodeTypes
  <2>4. Answers(k) \/ Sends(k)
    <3>1. CASE \E p \in BOOLEAN : goto_next_chain(k, [code |-> "Get", val |-> NoRow, pass |-> p], << >>)
      BY <1>4, <2>3, <3>1 DEF DbCodes
    <3>2. CASE turn_around_job_answer(k, legal[k] \cap {node[k].val})
      BY <1>1, <3>2 DEF Answers
    <3> QED BY <1>6, <3>1, <3>2 DEF ask_get
  <2> QED BY <1>2, <1>3, <1>5, <2>1, <2>2, <2>4
<1>7. ASSUME NEW v \in Value, ask_insert(k, v)
      PROVE  /\ job[k] = NoJob /\ ~double_reply
             /\ UNCHANGED <<db, ret, memory_dirty_, black_list_, late, suspect>>
             /\ node' \in [Key -> NodeOrNone] /\ \A q \in Key \ {k} : node'[q] = node[q]
             /\ Answers(k) \/ Sends(k)
  <2>1. /\ job[k] = NoJob /\ ~double_reply
        /\ UNCHANGED <<db, ret, memory_dirty_, black_list_, late, suspect>>
    BY <1>7 DEF ask_insert, Ask
  <2>2. node' = [node EXCEPT ![k] = Dirty(v)] \/ node' = node
    BY <1>7 DEF ask_insert
  <2>3. LET j == [code |-> "Insert", val |-> v, pass |-> FALSE] IN j \in Job /\ j.code = "Insert"
    BY JobTypes, NodeTypes
  <2>4. Answers(k) \/ Sends(k)
    <3>1. CASE goto_next_chain(k, [code |-> "Insert", val |-> v, pass |-> FALSE], << >>)
      BY <1>4, <2>3, <3>1 DEF DbCodes
    <3>2. CASE \E seen \in {legal[k] \ {NoRow}, {v}, legal[k]} : turn_around_job_answer(k, seen)
      BY <1>1, <3>2, NodeTypes DEF Answers
    <3> QED BY <1>7, <3>1, <3>2 DEF ask_insert
  <2> QED BY <1>2, <1>3, <1>5, <2>1, <2>2, <2>4, NodeTypes
<1>8. ASSUME NEW v \in Value, ask_update(k, v)
      PROVE  /\ job[k] = NoJob /\ ~double_reply
             /\ UNCHANGED <<db, ret, memory_dirty_, black_list_, late, suspect>>
             /\ node' \in [Key -> NodeOrNone] /\ \A q \in Key \ {k} : node'[q] = node[q]
             /\ Answers(k) \/ Sends(k)
  <2>1. /\ job[k] = NoJob /\ ~double_reply
        /\ UNCHANGED <<db, ret, memory_dirty_, black_list_, late, suspect>>
    BY <1>8 DEF ask_update, Ask
  <2>2. \/ node' = [node EXCEPT ![k] = Dirty(v)] \/ node' = node
        \/ node[k] # NoNode /\ node' = [node EXCEPT ![k] = [node[k] EXCEPT !.dirty = TRUE]]
    BY <1>1, <1>8 DEF ask_update
  <2>3. LET j == [code |-> "Update", val |-> v, pass |-> FALSE] IN j \in Job /\ j.code = "Update"
    BY JobTypes, NodeTypes
  <2>4. Answers(k) \/ Sends(k)
    <3>1. CASE goto_next_chain(k, [code |-> "Update", val |-> v, pass |-> FALSE], << >>)
      BY <1>4, <2>3, <3>1 DEF DbCodes
    <3>2. CASE \E seen \in {legal[k] \cap {NoRow}, {v}, legal[k]} : turn_around_job_answer(k, seen)
      BY <1>1, <3>2, NodeTypes DEF Answers
    <3> QED BY <1>8, <3>1, <3>2 DEF ask_update
  <2> QED BY <1>1, <1>2, <1>3, <1>5, <2>1, <2>2, <2>4, NodeTypes
<1>9. ASSUME NEW v \in Value, ask_replace(k, v)
      PROVE  /\ job[k] = NoJob /\ ~double_reply
             /\ UNCHANGED <<db, ret, memory_dirty_, black_list_, late, suspect>>
             /\ node' \in [Key -> NodeOrNone] /\ \A q \in Key \ {k} : node'[q] = node[q]
             /\ Answers(k) \/ Sends(k)
  <2>1. /\ job[k] = NoJob /\ ~double_reply
        /\ UNCHANGED <<db, ret, memory_dirty_, black_list_, late, suspect>>
    BY <1>9 DEF ask_replace, Ask
  <2>2. \E n \in {Dirty(v), node[k], NoNode} : node' = node \/ node' = [node EXCEPT ![k] = n]
    BY <1>9 DEF ask_replace
  <2>3. LET j == [code |-> "Replace", val |-> v, pass |-> FALSE] IN j \in Job /\ j.code = "Replace"
    BY JobTypes, NodeTypes
  <2>4. Answers(k) \/ Sends(k)
    <3>1. CASE goto_next_chain(k, [code |-> "Replace", val |-> v, pass |-> FALSE], << >>)
      BY <1>4, <2>3, <3>1 DEF DbCodes
    <3>2. CASE \E seen \in {{v}, legal[k]} : turn_around_job_answer(k, seen)
      BY <1>1, <3>2, NodeTypes DEF Answers
    <3> QED BY <1>9, <3>1, <3>2 DEF ask_replace
  <2> QED BY <1>1, <1>2, <1>3, <1>5, <2>1, <2>2, <2>4, NodeTypes
<1>10. CASE ask_delete(k)
  <2>1. /\ job[k] = NoJob /\ ~double_reply
        /\ UNCHANGED <<db, ret, memory_dirty_, black_list_, late, suspect>>
    BY <1>10 DEF ask_delete, Ask
  <2>2. \/ node' = node
        \/ node[k] # NoNode /\ node' = [node EXCEPT ![k] = Clean(node[k].val)]
    BY <1>10 DEF ask_delete, IsDirty, flushed
  <2> DEFINE j == [code |-> "Delete", val |-> NoRow, pass |-> FALSE]
  <2>3. j \in Job /\ j.code = "Delete" /\ j.val = NoRow
    BY JobTypes, NodeTypes
  <2> HIDE DEF j
  <2>4. \/ goto_next_chain(k, j, << >>)
        \/ node[k] # NoNode /\ goto_next_chain(k, j, flush_rows(k, FALSE))
    BY <1>10 DEF ask_delete, IsDirty, j
  <2>5. Sends(k)
    BY <1>1, <1>4, <2>3, <2>4 DEF Sends, DbCodes
  <2> QED BY <1>1, <1>2, <1>3, <1>5, <2>1, <2>2, <2>5, NodeTypes
<1>11. CASE ask_purge(k)
  <2>1. /\ job[k] = NoJob /\ ~double_reply
        /\ UNCHANGED <<db, ret, memory_dirty_, black_list_, late, suspect>>
    BY <1>11 DEF ask_purge, Ask
  <2>2. \/ node' = [node EXCEPT ![k] = NoNode]
        \/ node[k] # NoNode /\ node' = [node EXCEPT ![k] = Clean(node[k].val)]
    BY <1>11 DEF ask_purge, IsDirty, flushed
  <2>3. \/ node[k] # NoNode /\ buffer_flush_data(k, "Purge")
        \/ turn_around_job_answer(k, legal[k])
    BY <1>11 DEF ask_purge, IsDirty
  <2>4. Answers(k) \/ Waits(k)
    BY <1>1, <2>3 DEF Answers, Waits
  <2> QED BY <1>1, <1>2, <1>3, <1>5, <2>1, <2>2, <2>4, NodeTypes
<1>12. CASE ask_flush(k)
  <2>1. /\ job[k] = NoJob /\ ~double_reply
        /\ UNCHANGED <<db, ret, memory_dirty_, black_list_, late, suspect>>
    BY <1>12 DEF ask_flush, Ask
  <2>2. \/ node' = node
        \/ node[k] # NoNode /\ node' = [node EXCEPT ![k] = Clean(node[k].val)]
    BY <1>12 DEF ask_flush, IsDirty, flushed
  <2>3. \/ node[k] # NoNode /\ buffer_flush_data(k, "Flush")
        \/ turn_around_job_answer(k, legal[k])
    BY <1>12 DEF ask_flush, IsDirty
  <2>4. Answers(k) \/ Waits(k)
    BY <1>1, <2>3 DEF Answers, Waits
  <2> QED BY <1>1, <1>2, <1>3, <1>5, <2>1, <2>2, <2>4, NodeTypes
<1> QED BY <1>6, <1>7, <1>8, <1>9, <1>10, <1>11, <1>12 DEF job_ask_procedure
-----------------------------------------------------------------------------
paths == [k \in Key |-> Path(k)]

PathsOK ==
  /\ \A k \in Key :
       /\ ret[k] \in Seq(Answer) /\ Entries(ret[k]) \in Seq(Entry)
       /\ back[k] \in Seq(Entry) /\ chain[k] \in Seq(Entry)
       /\ Way(k) \in Seq(Entry) /\ Front(k) \in Seq(Entry) /\ Path(k) \in Seq(Entry)
       /\ Path(k) = Front(k) \o chain[k] /\ Path(k) = Entries(ret[k]) \o Way(k)
       /\ Way(k) = back[k] \o chain[k] /\ Front(k) = Entries(ret[k]) \o back[k]
  /\ paths \in [Key -> Seq(Entry)] /\ \A k \in Key : paths[k] = Path(k)
  /\ FlushCounted <=> current_pend_flush_request_ = Cardinality(Spots(paths))

(* What the queues of the keys are, before a step and after it *)
LEMMA PathsNow == TypeOK => PathsOK
<1> SUFFICES ASSUME TypeOK PROVE PathsOK
  OBVIOUS
<1>1. \A k \in Key :
       /\ ret[k] \in Seq(Answer) /\ Entries(ret[k]) \in Seq(Entry)
       /\ back[k] \in Seq(Entry) /\ chain[k] \in Seq(Entry)
       /\ Way(k) \in Seq(Entry) /\ Front(k) \in Seq(Entry) /\ Path(k) \in Seq(Entry)
       /\ Path(k) = Front(k) \o chain[k] /\ Path(k) = Entries(ret[k]) \o Way(k)
       /\ Way(k) = back[k] \o chain[k] /\ Front(k) = Entries(ret[k]) \o back[k]
  BY PathParts
<1>2. paths \in [Key -> Seq(Entry)] /\ \A k \in Key : paths[k] = Path(k)
  BY <1>1 DEF paths
<1>3. UNION {{k} \X Flushes(Path(k)) : k \in Key} = Spots(paths)
  BY <1>2 DEF Spots
<1> QED BY <1>1, <1>2, <1>3 DEF PathsOK, FlushCounted

LEMMA PathsNext == TypeOK' => PathsOK'
BY PathsNow, PTL

(* The queue of one key changes: *)
LEMMA CountOne ==
  ASSUME TypeOK, TypeOK', FlushCounted, NEW k \in Key, \A q \in Key \ {k} : Path(q)' = Path(q),
         current_pend_flush_request_' + Cardinality(Flushes(Path(k))) =
           current_pend_flush_request_ + Cardinality(Flushes(Path(k)'))
  PROVE  FlushCounted'
<1>1. PathsOK /\ PathsOK'
  BY PathsNow, PathsNext
<1> DEFINE P == paths
           Q == paths'
<1>2. P \in [Key -> Seq(Entry)] /\ Q \in [Key -> Seq(Entry)]
      /\ P[k] = Path(k) /\ Q[k] = Path(k)' /\ \A q \in Key : q # k => Q[q] = P[q]
  BY <1>1 DEF PathsOK
<1>3. current_pend_flush_request_ = Cardinality(Spots(P))
      /\ (FlushCounted' <=> current_pend_flush_request_' = Cardinality(Spots(Q)))
  BY <1>1 DEF PathsOK
<1> HIDE DEF P, Q
<1>4. Cardinality(Spots(Q)) + Cardinality(Flushes(P[k])) =
        Cardinality(Spots(P)) + Cardinality(Flushes(Q[k]))
  BY <1>2, SpotsOne
<1>5. Cardinality(Flushes(P[k])) \in Nat /\ Cardinality(Flushes(Q[k])) \in Nat
      /\ Cardinality(Spots(P)) \in Nat /\ Cardinality(Spots(Q)) \in Nat
  BY <1>2, FlushesFinite, SpotsOf
<1>6. current_pend_flush_request_' \in Nat
  BY DEF TypeOK
<1> QED BY <1>2, <1>3, <1>4, <1>5, <1>6, SMT
(* What flush_rows sends for a node *)
LEMMA RowsOf ==
  ASSUME NEW k \in Key, node[k] \in Node, NEW w \in BOOLEAN
  PROVE  LET rows == flush_rows(k, w) IN
         /\ rows \in Seq(Entry) /\ Len(rows) \in Nat /\ Cardinality(Flushes(rows)) = Len(rows)
         /\ node[k].rowdirty <=> rows # << >>
         /\ rows # << >> => rows = <<FlushRow(node[k].val, w)>>
         /\ ~w => NoEnd(rows)
         /\ Single(rows)
         /\ \A j : j # NoJob /\ j.code \in {"Purge", "Flush"} => Belongs(rows, j)
<1>1. CASE node[k].rowdirty
  <2>1. flush_rows(k, w) = <<FlushRow(node[k].val, w)>> /\ node[k].val \in Row
    BY <1>1, NodeTypes DEF flush_rows
  <2> QED BY <1>1, <2>1, FlushEntry, SMT
<1>2. CASE ~node[k].rowdirty
  <2>1. flush_rows(k, w) = << >> /\ Len(<< >>) = 0
    BY <1>2 DEF flush_rows
  <2> QED BY <1>2, <2>1, EmptyQueue, FS_EmptySet
<1> QED BY <1>1, <1>2, NodeTypes

LEMMA AskType ==
  ASSUME TypeOK, NEW k \in Key, job_ask_procedure(k), UNCHANGED config
  PROVE  TypeOK'
<1>1. /\ UNCHANGED <<db, ret, memory_dirty_, black_list_, late, suspect>>
      /\ node' \in [Key -> NodeOrNone]
      /\ Answers(k) \/ Sends(k) \/ Waits(k)
  BY AskCases
<1>2. node' \in [Key -> Node \cup {NoNode}]
  BY <1>1 DEF NodeOrNone
<1>3. SUFFICES /\ job' \in [Key -> Job \cup {NoJob}]
               /\ chain' \in [Key -> Seq(Entry)] /\ back' \in [Key -> Seq(Entry)]
               /\ current_pend_flush_request_' \in Nat
               /\ legal' \in [Key -> SUBSET Row] /\ double_reply' \in BOOLEAN
  BY <1>1, <1>2 DEF TypeOK
<1>4. /\ job \in [Key -> Job \cup {NoJob}] /\ chain \in [Key -> Seq(Entry)]
      /\ back \in [Key -> Seq(Entry)] /\ current_pend_flush_request_ \in Nat
      /\ legal \in [Key -> SUBSET Row] /\ double_reply \in BOOLEAN
  BY DEF TypeOK
<1>5. CASE Answers(k)
  BY <1>4, <1>5 DEF Answers, turn_around_job_answer
<1>6. CASE Sends(k)
  <2>1. PICK j \in Job, rows \in {<< >>, flush_rows(k, FALSE)} :
          (rows # << >> => node[k] \in Node) /\ goto_next_chain(k, j, rows)
    BY <1>6 DEF Sends
  <2>2. rows \in Seq(Entry) /\ Len(rows) \in Nat
    <3>1. CASE rows = << >>
      BY <3>1, SMT
    <3>2. CASE rows # << >>
      BY <2>1, <3>2, RowsOf
    <3> QED BY <3>1, <3>2
  <2>3. chain[k] \in Seq(Entry) /\ back[k] \in Seq(Entry)
    BY <1>4
  <2>4. /\ chain[k] \o rows \in Seq(Entry) /\ (chain[k] \o rows) \o <<Client>> \in Seq(Entry)
        /\ Append(back[k], Client) \in Seq(Entry)
    BY <2>2, <2>3, ClientEntry, SMT
  <2>5. /\ job' = [job EXCEPT ![k] = j] /\ UNCHANGED <<legal, double_reply>>
        /\ current_pend_flush_request_' = current_pend_flush_request_ + Len(rows)
        /\ \/ chain' = [chain EXCEPT ![k] = chain[k] \o rows]
           \/ chain' = [chain EXCEPT ![k] = (chain[k] \o rows) \o <<Client>>]
        /\ back' = back \/ back' = [back EXCEPT ![k] = Append(back[k], Client)]
    BY <2>1 DEF goto_next_chain
  <2>6. job' \in [Key -> Job \cup {NoJob}] /\ current_pend_flush_request_' \in Nat
    BY <1>4, <2>2, <2>5, SMT
  <2>7. chain' \in [Key -> Seq(Entry)] /\ back' \in [Key -> Seq(Entry)]
    BY <1>4, <2>4, <2>5
  <2> QED BY <1>4, <2>5, <2>6, <2>7
<1>7. CASE Waits(k)
  <2>1. PICK code \in {"Purge", "Flush"} : buffer_flush_data(k, code)
    BY <1>7 DEF Waits
  <2> DEFINE rows == flush_rows(k, TRUE)
  <2>2. rows \in Seq(Entry) /\ Len(rows) \in Nat
    BY <1>7, RowsOf DEF Waits
  <2>3. /\ chain' = [chain EXCEPT ![k] = chain[k] \o rows] /\ UNCHANGED <<back, legal>>
        /\ current_pend_flush_request_' = current_pend_flush_request_ + Len(rows)
        /\ \/ double_reply' = TRUE /\ UNCHANGED job
           \/ /\ job' = [job EXCEPT ![k] = [code |-> code, val |-> NoRow, pass |-> FALSE]]
              /\ UNCHANGED double_reply
    BY <2>1 DEF buffer_flush_data
  <2> HIDE DEF rows
  <2>4. [code |-> code, val |-> NoRow, pass |-> FALSE] \in Job
    BY JobTypes, NodeTypes
  <2>5. job' \in [Key -> Job \cup {NoJob}] /\ double_reply' \in BOOLEAN
    BY <1>4, <2>3, <2>4
  <2>6. chain[k] \o rows \in Seq(Entry)
    BY <1>4, <2>2, SMT
  <2>7. chain' \in [Key -> Seq(Entry)]
    BY <1>4, <2>3, <2>6
  <2> QED BY <1>4, <2>2, <2>3, <2>5, <2>7, SMT
<1> QED BY <1>1, <1>5, <1>6, <1>7
(* rows are put behind the requests of q *)
Adds(q, rows) == Way(q)' = Way(q) \o rows /\ Path(q)' = Path(q) \o rows

LEMMA AddsRows ==
  ASSUME TypeOK, TypeOK', NEW q \in Key, NEW rows \in Seq(Entry),
         ret'[q] = ret[q], back'[q] = back[q], chain'[q] = chain[q] \o rows
  PROVE  Adds(q, rows)
<1>1. PathsOK /\ PathsOK'
  BY PathsNow, PathsNext
<1>2. Way(q)' = back[q] \o (chain[q] \o rows) /\ Way(q) = back[q] \o chain[q]
      /\ Path(q) = Entries(ret[q]) \o Way(q) /\ Path(q)' = Entries(ret[q]) \o Way(q)'
  BY <1>1 DEF PathsOK
<1>3. back[q] \in Seq(Entry) /\ chain[q] \in Seq(Entry) /\ Way(q) \in Seq(Entry)
      /\ Entries(ret[q]) \in Seq(Entry)
  BY <1>1 DEF PathsOK
<1>4. (back[q] \o chain[q]) \o rows = back[q] \o (chain[q] \o rows)
  BY <1>3, ConcatThree, ZenonT(30)
<1>5. (Entries(ret[q]) \o Way(q)) \o rows = Entries(ret[q]) \o (Way(q) \o rows)
  BY <1>3, ConcatThree, SMTT(30)
<1> QED BY <1>2, <1>4, <1>5 DEF Adds

LEMMA AskPaths ==
  ASSUME TypeOK, NEW k \in Key, job_ask_procedure(k), UNCHANGED config
  PROVE  /\ TypeOK' /\ \A q \in Key \ {k} : Path(q)' = Path(q) /\ Way(q)' = Way(q)
         /\ UNCHANGED ret /\ \A q \in Key \ {k} : job'[q] = job[q] /\ legal'[q] = legal[q]
         /\ Answers(k) => Path(k)' = Path(k) /\ Way(k)' = Way(k)
<1>1. TypeOK' /\ UNCHANGED ret /\ (Answers(k) \/ Sends(k) \/ Waits(k))
  BY AskType, AskCases
<1>2. job \in [Key -> Job \cup {NoJob}] /\ chain \in [Key -> Seq(Entry)] /\ back \in [Key -> Seq(Entry)]
      /\ legal \in [Key -> SUBSET Row]
  BY DEF TypeOK
<1>3. ASSUME NEW q \in Key \ {k}
      PROVE  chain'[q] = chain[q] /\ back'[q] = back[q] /\ job'[q] = job[q] /\ legal'[q] = legal[q]
  <2>1. CASE Answers(k)
    BY <1>2, <2>1 DEF Answers, turn_around_job_answer
  <2>2. CASE Sends(k)
    BY <1>2, <2>2, SMT DEF Sends, goto_next_chain
  <2>3. CASE Waits(k)
    BY <1>2, <2>3 DEF Waits, buffer_flush_data
  <2> QED BY <1>1, <2>1, <2>2, <2>3
<1>4. \A q \in Key \ {k} : Path(q)' = Path(q) /\ Way(q)' = Way(q)
  BY <1>1, <1>3 DEF Path, Way
<1>5. Answers(k) => Path(k)' = Path(k) /\ Way(k)' = Way(k)
  BY <1>1 DEF Answers, turn_around_job_answer, Path, Way
<1> QED BY <1>1, <1>3, <1>4, <1>5

(* The paths after a request was sent on: *)
SentOn(k, rows) ==
  IF use_queue
  THEN /\ Way(k)' = (back[k] \o <<Client>>) \o (chain[k] \o rows)
       /\ Path(k)' = (Front(k) \o <<Client>>) \o (chain[k] \o rows)
  ELSE /\ Way(k)' = (Way(k) \o rows) \o <<Client>>
       /\ Path(k)' = (Path(k) \o rows) \o <<Client>>

LEMMA SendsPaths ==
  ASSUME TypeOK, TypeOK', NEW k \in Key, NEW j, NEW rows \in Seq(Entry),
         UNCHANGED <<config, ret>>, goto_next_chain(k, j, rows)
  PROVE  SentOn(k, rows)
<1>1. PathsOK /\ PathsOK'
  BY PathsNow, PathsNext
<1>2. /\ back[k] \in Seq(Entry) /\ chain[k] \in Seq(Entry) /\ Way(k) \in Seq(Entry)
      /\ Entries(ret[k]) \in Seq(Entry) /\ Way(k)' = back'[k] \o chain'[k]
      /\ Path(k)' = Entries(ret[k]) \o Way(k)' /\ Path(k)' = (Entries(ret[k]) \o back'[k]) \o chain'[k]
      /\ Way(k) = back[k] \o chain[k] /\ Path(k) = Entries(ret[k]) \o Way(k)
      /\ Front(k) = Entries(ret[k]) \o back[k]
  BY <1>1 DEF PathsOK
<1>3. back \in [Key -> Seq(Entry)] /\ chain \in [Key -> Seq(Entry)]
  BY DEF TypeOK
<1>4. CASE use_queue
  <2>1. chain'[k] = chain[k] \o rows /\ back'[k] = Append(back[k], Client)
    BY <1>3, <1>4 DEF goto_next_chain
  <2>2. Append(back[k], Client) = back[k] \o <<Client>>
    BY <1>2, ClientEntry, SMT
  <2>3. (Entries(ret[k]) \o back[k]) \o <<Client>> = Entries(ret[k]) \o (back[k] \o <<Client>>)
    BY <1>2, ClientEntry, ConcatThree, ZenonT(30)
  <2>4. Path(k)' = (Front(k) \o <<Client>>) \o (chain[k] \o rows)
    BY <1>2, <2>1, <2>2, <2>3
  <2> QED BY <1>2, <1>4, <2>1, <2>2, <2>4 DEF SentOn
<1>5. CASE ~use_queue
  <2>1. chain'[k] = chain[k] \o (rows \o <<Client>>) /\ back'[k] = back[k]
    <3>1. chain'[k] = (chain[k] \o rows) \o <<Client>> /\ back'[k] = back[k]
      BY <1>3, <1>5 DEF goto_next_chain
    <3>2. (chain[k] \o rows) \o <<Client>> = chain[k] \o (rows \o <<Client>>)
      BY <1>2, ClientEntry, ConcatThree, ZenonT(30)
    <3> QED BY <3>1, <3>2
  <2>2. rows \o <<Client>> \in Seq(Entry)
    BY ClientEntry, SMT
  <2>3. Adds(k, rows \o <<Client>>)
    BY <2>1, <2>2, AddsRows
  <2>4. Path(k) \in Seq(Entry)
    BY <1>1 DEF PathsOK
  <2>5. (Way(k) \o rows) \o <<Client>> = Way(k) \o (rows \o <<Client>>)
    BY <1>2, ClientEntry, ConcatThree, ZenonT(30)
  <2>6. (Path(k) \o rows) \o <<Client>> = Path(k) \o (rows \o <<Client>>)
    BY <2>4, ClientEntry, ConcatThree
  <2> QED BY <1>5, <2>3, <2>5, <2>6 DEF SentOn, Adds
<1> QED BY <1>4, <1>5
(* A key's queue is right for its request *)
Right(k) ==
  /\ Single(Path(k)) /\ Belongs(Path(k), job[k])
  /\ use_queue => ret[k] = << >>
  /\ job[k] # NoJob /\ job[k].code = "Delete" => job[k].val = NoRow

LEMMA AskRight ==
  ASSUME BaseInv, NEW k \in Key, job_ask_procedure(k), UNCHANGED config
  PROVE  OneRequest' /\ FlushCounted'
<1>1. /\ TypeOK /\ TypeOK' /\ UNCHANGED ret
      /\ \A q \in Key \ {k} : Path(q)' = Path(q) /\ job'[q] = job[q]
      /\ Answers(k) => Path(k)' = Path(k)
  BY AskPaths DEF BaseInv, RTypeOK
<1>2. job[k] = NoJob /\ (Answers(k) \/ Sends(k) \/ Waits(k))
  BY <1>1, AskCases
<1>3. \A q \in Key : Right(q)
  BY DEF BaseInv, OneRequest, Right
<1>4. use_queue' = use_queue
  BY DEF use_queue
<1>5. \A q \in Key \ {k} : Right(q)'
  BY <1>1, <1>3, <1>4 DEF Right
<1>6. /\ PathsOK /\ PathsOK' /\ FlushCounted
  BY <1>1, PathsNow, PathsNext DEF BaseInv
<1>7. Path(k) \in Seq(Entry) /\ NoEnd(Path(k)) /\ Single(Path(k))
  BY <1>2, <1>3, <1>6, NobodyEnds DEF PathsOK, Right
<1>8. /\ NoEnd(Front(k)) /\ NoEnd(chain[k]) /\ Front(k) \in Seq(Entry) /\ chain[k] \in Seq(Entry)
      /\ Cardinality(Flushes(Path(k))) = Cardinality(Flushes(Front(k))) + Cardinality(Flushes(chain[k]))
  <2>1. Front(k) \in Seq(Entry) /\ chain[k] \in Seq(Entry) /\ Path(k) = Front(k) \o chain[k]
    BY <1>6 DEF PathsOK
  <2> QED BY <1>7, <2>1, ConcatEnds, ConcatFlushes, ZenonT(30)
<1>9. /\ current_pend_flush_request_ \in Nat /\ job \in [Key -> Job \cup {NoJob}]
      /\ Cardinality(Flushes(Path(k))) \in Nat /\ Cardinality(Flushes(Front(k))) \in Nat
      /\ Cardinality(Flushes(chain[k])) \in Nat
  BY <1>1, <1>7, <1>8, FlushesFinite DEF TypeOK
<1>10. SUFFICES /\ Single(Path(k)') /\ Belongs(Path(k)', job'[k])
                /\ job'[k] # NoJob /\ job'[k].code = "Delete" => job'[k].val = NoRow
                /\ current_pend_flush_request_' + Cardinality(Flushes(Path(k))) =
                     current_pend_flush_request_ + Cardinality(Flushes(Path(k)'))
  <2>1. Right(k)'
    BY <1>1, <1>3, <1>4, <1>10 DEF Right
  <2>2. FlushCounted'
    BY <1>1, <1>6, <1>10, CountOne
  <2> QED BY <1>5, <2>1, <2>2 DEF OneRequest, Right
<1>11. CASE Answers(k)
  <2>1. Path(k)' = Path(k) /\ job' = job /\ UNCHANGED current_pend_flush_request_
    BY <1>1, <1>11 DEF Answers, turn_around_job_answer
  <2> QED BY <1>3, <2>1 DEF Right
<1>12. CASE Sends(k)
  <2>1. PICK j \in Job, rows \in {<< >>, flush_rows(k, FALSE)} :
          /\ j.code \in DbCodes /\ (j.code = "Delete" => j.val = NoRow)
          /\ (rows # << >> => node[k] \in Node) /\ goto_next_chain(k, j, rows)
    BY <1>12 DEF Sends
  <2>2. /\ rows \in Seq(Entry) /\ NoEnd(rows) /\ Cardinality(Flushes(rows)) = Len(rows)
        /\ Len(rows) \in Nat
    <3>1. CASE rows = << >>
      BY <3>1, EmptyQueue, FS_EmptySet
    <3>2. CASE rows # << >>
      BY <2>1, <3>2, RowsOf
    <3> QED BY <3>1, <3>2
  <2>3. /\ job'[k] = j /\ current_pend_flush_request_' = current_pend_flush_request_ + Len(rows)
        /\ j # NoJob
    BY <1>9, <2>1, JobTypes, SMT DEF goto_next_chain
  <2>4. SentOn(k, rows)
    BY <1>1, <2>1, <2>2, SendsPaths
  <2> DEFINE c == <<Client>>
  <2>5. Belongs(c, j) /\ Single(c) /\ c \in Seq(Entry) /\ Cardinality(Flushes(c)) = 0
    BY <2>1, <2>3, ClientEntry, FS_EmptySet
  <2> HIDE DEF c
  <2>6. CASE use_queue
    <3> DEFINE a == Front(k) \o c
               b == chain[k] \o rows
    <3>0. Path(k)' = a \o b
      BY <2>4, <2>6 DEF SentOn, c
    <3>1. a \in Seq(Entry) /\ b \in Seq(Entry)
      BY <1>8, <2>2, <2>5, SMT
    <3>2. NoEnd(b) /\ Belongs(b, j) /\ Single(a) /\ Belongs(a, j)
      BY <1>8, <2>2, <2>5, ConcatEnds, NobodyEnds
    <3>3. /\ Cardinality(Flushes(a)) = Cardinality(Flushes(Front(k))) + Cardinality(Flushes(c))
          /\ Cardinality(Flushes(b)) = Cardinality(Flushes(chain[k])) + Cardinality(Flushes(rows))
      BY <1>8, <2>2, <2>5, ConcatFlushes
    <3> HIDE DEF a, b
    <3>4. Single(Path(k)') /\ Belongs(Path(k)', j)
      BY <3>0, <3>1, <3>2, ConcatEnds, SMT
    <3>5. Cardinality(Flushes(Path(k)')) = Cardinality(Flushes(a)) + Cardinality(Flushes(b))
      BY <3>0, <3>1, ConcatFlushes
    <3> QED BY <1>8, <1>9, <2>1, <2>2, <2>3, <2>5, <3>3, <3>4, <3>5, SMT
  <2>7. CASE ~use_queue
    <3> DEFINE a == Path(k) \o rows
    <3>0. Path(k)' = a \o c
      BY <2>4, <2>7 DEF SentOn, c
    <3>1. a \in Seq(Entry)
      BY <1>7, <2>2, SMT
    <3>2. NoEnd(a) /\ Belongs(a, j)
      BY <1>7, <2>2, ConcatEnds, NobodyEnds
    <3>3. Cardinality(Flushes(a)) = Cardinality(Flushes(Path(k))) + Len(rows)
      BY <1>7, <2>2, ConcatFlushes
    <3> HIDE DEF a
    <3>4. Single(Path(k)') /\ Belongs(Path(k)', j)
      BY <2>5, <3>0, <3>1, <3>2, ConcatEnds, SMT
    <3>5. Cardinality(Flushes(Path(k)')) = Cardinality(Flushes(a)) + Cardinality(Flushes(c))
      BY <2>5, <3>0, <3>1, ConcatFlushes
    <3> QED BY <1>9, <2>1, <2>2, <2>3, <2>5, <3>3, <3>4, <3>5, SMT
  <2> QED BY <2>6, <2>7
<1>13. CASE Waits(k)
  <2>1. PICK code \in {"Purge", "Flush"} : buffer_flush_data(k, code)
    BY <1>13, SMT DEF Waits
  <2> DEFINE rows == flush_rows(k, TRUE)
             j == [code |-> code, val |-> NoRow, pass |-> FALSE]
  <2>2. /\ rows \in Seq(Entry) /\ Cardinality(Flushes(rows)) = Len(rows) /\ Len(rows) \in Nat
        /\ Single(rows)
        /\ \A i : i # NoJob /\ i.code \in {"Purge", "Flush"} => Belongs(rows, i)
    BY <1>13, RowsOf DEF Waits
  <2>3. /\ chain' = [chain EXCEPT ![k] = chain[k] \o rows] /\ UNCHANGED back
        /\ current_pend_flush_request_' = current_pend_flush_request_ + Len(rows)
        /\ IF rows = << >> THEN UNCHANGED job ELSE job' = [job EXCEPT ![k] = j]
    BY <2>1 DEF buffer_flush_data
  <2>4. j \in Job /\ j.code = code
    BY JobTypes, NodeTypes
  <2> HIDE DEF rows, j
  <2>5. chain'[k] = chain[k] \o rows /\ back'[k] = back[k] /\ ret'[k] = ret[k]
    BY <1>1, <2>3 DEF TypeOK
  <2>6. Path(k)' = Path(k) \o rows
    BY <1>1, <2>2, <2>5, AddsRows DEF Adds
  <2>7. Cardinality(Flushes(Path(k)')) = Cardinality(Flushes(Path(k))) + Len(rows)
    BY <1>7, <2>2, <2>6, ConcatFlushes
  <2>8. CASE rows = << >>
    <3>1. Path(k)' = Path(k) /\ job' = job
      BY <1>7, <2>3, <2>6, <2>8, ConcatNothing
    <3> QED BY <1>3, <1>9, <2>2, <2>3, <2>7, <3>1, SMT DEF Right
  <2>9. CASE rows # << >>
    <3>1. job'[k] = j /\ j # NoJob
      BY <1>9, <2>3, <2>4, <2>9, JobTypes
    <3>2. Belongs(rows, j) /\ Belongs(Path(k), j)
      BY <1>7, <2>2, <2>4, <3>1, NobodyEnds
    <3>3. Single(Path(k)') /\ Belongs(Path(k)', j)
      BY <1>7, <2>2, <2>6, <3>2, ConcatEnds, SMT
    <3> QED BY <1>9, <2>2, <2>3, <2>4, <2>7, <3>1, <3>3, SMT
  <2> QED BY <2>8, <2>9
<1> QED BY <1>2, <1>11, <1>12, <1>13
-----------------------------------------------------------------------------
(* Requests that are handed over stay in their order. *)
LEMMA DeliverPaths ==
  ASSUME TypeOK, chain_deliver \/ (\E k \in Key : tunnel_deliver(k)), UNCHANGED config
  PROVE  /\ TypeOK' /\ \A q \in Key : Way(q)' = Way(q) /\ Path(q)' = Path(q)
         /\ UNCHANGED <<node, db, job, ret, memory_dirty_, current_pend_flush_request_,
                        black_list_, late, legal, suspect, double_reply>>
<1>1. /\ chain \in [Key -> Seq(Entry)] /\ back \in [Key -> Seq(Entry)]
      /\ \A q \in Key : chain[q] \in Seq(Entry) /\ back[q] \in Seq(Entry)
  BY DEF TypeOK
<1>2. UNCHANGED <<node, db, job, ret, memory_dirty_, current_pend_flush_request_,
                  black_list_, late, legal, suspect, double_reply>>
  BY DEF chain_deliver, tunnel_deliver
<1>3. SUFFICES /\ chain' \in [Key -> Seq(Entry)] /\ back' \in [Key -> Seq(Entry)]
               /\ \A q \in Key : back'[q] \o chain'[q] = back[q] \o chain[q]
  <2>1. TypeOK'
    BY <1>2, <1>3 DEF TypeOK
  <2>2. \A q \in Key : Way(q)' = Way(q)
    BY <1>3 DEF Way
  <2>3. \A q \in Key : Path(q)' = Path(q)
    BY <1>2, <2>2 DEF Path
  <2> QED BY <1>2, <2>1, <2>2, <2>3
<1>4. CASE chain_deliver
  <2>1. back' = [q \in Key |-> back[q] \o chain[q]] /\ chain' = [q \in Key |-> << >>]
    BY <1>4 DEF chain_deliver
  <2>2. \A q \in Key : back[q] \o chain[q] \in Seq(Entry) /\ << >> \in Seq(Entry)
    BY <1>1, SMT
  <2>3. chain' \in [Key -> Seq(Entry)] /\ back' \in [Key -> Seq(Entry)]
    BY <2>1, <2>2
  <2>4. ASSUME NEW q \in Key PROVE back'[q] \o chain'[q] = back[q] \o chain[q]
    <3>1. back'[q] = back[q] \o chain[q] /\ chain'[q] = << >>
      BY <2>1
    <3>2. back'[q] \o << >> = back'[q]
      BY <2>2, <3>1, ConcatNothing
    <3> QED BY <3>1, <3>2
  <2> QED BY <2>3, <2>4
<1>5. ASSUME NEW k \in Key, tunnel_deliver(k)
      PROVE  /\ chain' \in [Key -> Seq(Entry)] /\ back' \in [Key -> Seq(Entry)]
             /\ \A q \in Key : back'[q] \o chain'[q] = back[q] \o chain[q]
  <2>1. /\ back' = [back EXCEPT ![k] = Append(back[k], Head(chain[k]))]
        /\ chain' = [chain EXCEPT ![k] = Tail(chain[k])] /\ chain[k] # << >>
    BY <1>5 DEF tunnel_deliver
  <2>2. Append(back[k], Head(chain[k])) \in Seq(Entry) /\ Tail(chain[k]) \in Seq(Entry)
    BY <1>1, <2>1, SMT
  <2>3. chain' \in [Key -> Seq(Entry)] /\ back' \in [Key -> Seq(Entry)]
    BY <1>1, <2>1, <2>2
  <2>4. Append(back[k], Head(chain[k])) \o Tail(chain[k]) = back[k] \o chain[k]
    BY <1>1, <2>1, MoveHead
  <2>5. \A q \in Key : back'[q] \o chain'[q] = back[q] \o chain[q]
    BY <1>1, <2>1, <2>4
  <2> QED BY <2>3, <2>5
<1> QED BY <1>4, <1>5

(* Nothing happens to the queues. *)
LEMMA SamePaths ==
  ASSUME BaseInv, TypeOK', \A q \in Key : Path(q)' = Path(q),
         UNCHANGED <<config, job, current_pend_flush_request_>>, UNCHANGED ret
  PROVE  OneRequest' /\ FlushCounted'
<1>1. use_queue' = use_queue
  BY DEF use_queue
<1>2. OneRequest'
  BY <1>1 DEF BaseInv, OneRequest
<1>3. {{k} \X Flushes(Path(k)') : k \in Key} = {{k} \X Flushes(Path(k)) : k \in Key}
  OBVIOUS
<1>4. FlushCounted'
  BY <1>3 DEF BaseInv, FlushCounted
<1> QED BY <1>2, <1>4
-----------------------------------------------------------------------------
(* The keys of D whose node has a dirty row *)
Rowdirty(D) == {q \in D : node[q].rowdirty}

(* What is sent when the nodes of D are flushed *)
LEMMA TimerRows ==
  ASSUME TypeOK, NEW D \in SUBSET dirty_keys
  PROVE  /\ D \in SUBSET Key /\ Rowdirty(D) \in SUBSET Key
         /\ \A q \in D : node[q] \in Node /\ node[q].dirty /\ flushed(q) \in Node
         /\ \A q \in Key : /\ timer_rows(D)[q] \in Seq(Entry) /\ NoEnd(timer_rows(D)[q])
                           /\ q \notin Rowdirty(D) => timer_rows(D)[q] = << >>
         /\ \A q \in Rowdirty(D) : timer_rows(D)[q] = <<FlushRow(node[q].val, FALSE)>>
<1>1. D \in SUBSET Key /\ Rowdirty(D) \in SUBSET Key /\ \A q \in D : node[q] # NoNode /\ node[q].dirty
  BY DEF dirty_keys, IsDirty, Rowdirty
<1>2. \A q \in D : node[q] \in Node
  BY <1>1 DEF TypeOK
<1>3. \A q \in D : flushed(q) \in Node
  BY <1>2, NodeTypes DEF flushed
<1>4. ASSUME NEW q \in Key
      PROVE  /\ timer_rows(D)[q] \in Seq(Entry) /\ NoEnd(timer_rows(D)[q])
             /\ q \notin Rowdirty(D) => timer_rows(D)[q] = << >>
             /\ q \in Rowdirty(D) => timer_rows(D)[q] = <<FlushRow(node[q].val, FALSE)>>
  <2>1. timer_rows(D)[q] = IF q \in D THEN flush_rows(q, FALSE) ELSE << >>
    BY DEF timer_rows
  <2>2. CASE q \in D
    <3>1. timer_rows(D)[q] = flush_rows(q, FALSE) /\ (q \in Rowdirty(D) <=> node[q].rowdirty)
      BY <2>1, <2>2 DEF Rowdirty
    <3>2. /\ flush_rows(q, FALSE) \in Seq(Entry) /\ NoEnd(flush_rows(q, FALSE))
          /\ node[q].rowdirty <=> flush_rows(q, FALSE) # << >>
          /\ flush_rows(q, FALSE) # << >> => flush_rows(q, FALSE) = <<FlushRow(node[q].val, FALSE)>>
      BY <1>2, <2>2, RowsOf
    <3> QED BY <3>1, <3>2
  <2>3. CASE q \notin D
    BY <2>1, <2>3, EmptyQueue DEF Rowdirty
  <2> QED BY <2>2, <2>3
<1> QED BY <1>1, <1>2, <1>3, <1>4

(* and how many requests that is *)
LEMMA TimerCount ==
  ASSUME TypeOK, NEW D \in SUBSET dirty_keys, NEW P \in [Key -> Seq(Entry)],
         NEW Q \in [Key -> Seq(Entry)], \A q \in Key : Q[q] = P[q] \o timer_rows(D)[q]
  PROVE  /\ Cardinality(Spots(Q)) = Cardinality(Spots(P)) + Cardinality(Rowdirty(D))
         /\ Cardinality(Rowdirty(D)) \in Nat
<1>1. Rowdirty(D) \in SUBSET Key
  BY TimerRows
<1>2. ASSUME NEW q \in Rowdirty(D) PROVE Flushes(Q[q]) = Flushes(P[q]) \cup {Len(P[q]) + 1}
  <2> DEFINE e == FlushRow(node[q].val, FALSE)
  <2>1. q \in Key /\ timer_rows(D)[q] = <<e>> /\ node[q] \in Node
    BY <1>1, TimerRows DEF Rowdirty
  <2>2. e \in Entry /\ e.kind = "flush"
    BY <2>1, NodeTypes, FlushEntry
  <2> HIDE DEF e
  <2>3. Q[q] = P[q] \o <<e>> /\ P[q] \in Seq(Entry)
    BY <2>1
  <2>4. P[q] \o <<e>> = Append(P[q], e)
    BY <2>2, <2>3, SMT
  <2>5. /\ Settled(Append(P[q], e), NoRow) = e.val
        /\ Flushes(Append(P[q], e)) = Flushes(P[q]) \cup {Len(P[q]) + 1}
    BY <2>2, <2>3, SettledAppend
  <2> QED BY <2>3, <2>4, <2>5
<1>3. ASSUME NEW q \in Key \ Rowdirty(D) PROVE Q[q] = P[q]
  <2>1. timer_rows(D)[q] = << >> /\ P[q] \in Seq(Entry)
    BY TimerRows
  <2> QED BY <2>1, ConcatNothing
<1>4. Cardinality(Spots(Q)) = Cardinality(Spots(P)) + Cardinality(Rowdirty(D))
  BY <1>1, <1>2, <1>3, SpotsMore
<1>5. IsFiniteSet(Rowdirty(D))
  BY <1>1, SetAssumption, FS_Subset
<1> QED BY <1>4, <1>5, FS_CardinalityType
(* The nodes after a flush *)
LEMMA TimerNodes ==
  ASSUME TypeOK, NEW D \in SUBSET dirty_keys, NEW left \in Nat, buffer_flush_data_timer(D, left)
  PROVE  /\ node' \in [Key -> Node \cup {NoNode}] /\ current_pend_flush_request_' \in Nat
         /\ \A q \in D : node'[q] = Clean(node[q].val)
         /\ \A q \in Key \ D : node'[q] = node[q]
         /\ current_pend_flush_request_' = left + Cardinality(Rowdirty(D))
<1>1. /\ \A q \in D : flushed(q) \in Node
      /\ D \in SUBSET Key /\ Rowdirty(D) \in SUBSET Key
  BY TimerRows
<1>2. IsFiniteSet(Rowdirty(D)) /\ Cardinality(Rowdirty(D)) \in Nat
  BY <1>1, SetAssumption, FS_Subset, FS_CardinalityType
<1>3. /\ node' = [q \in Key |-> IF q \in D THEN flushed(q) ELSE node[q]]
      /\ current_pend_flush_request_' = left + Cardinality(Rowdirty(D))
  BY DEF buffer_flush_data_timer, Rowdirty
<1>4. \A q \in Key : node[q] \in Node \cup {NoNode}
  BY DEF TypeOK
<1>5. node' \in [Key -> Node \cup {NoNode}]
  BY <1>1, <1>3, <1>4
<1> QED BY <1>1, <1>2, <1>3, <1>5, SMT DEF flushed

(* After a flush the requests are counted if they were before it. *)
LEMMA TimerCounted ==
  ASSUME TypeOK, TypeOK', NEW D \in SUBSET dirty_keys, NEW left \in Nat,
         buffer_flush_data_timer(D, left),
         NEW P \in [Key -> Seq(Entry)], left = Cardinality(Spots(P)),
         \A q \in Key : Path(q)' = P[q] \o timer_rows(D)[q]
  PROVE  FlushCounted'
<1>1. PathsOK'
  BY PathsNext
<1> DEFINE Q == paths'
<1>2. Q \in [Key -> Seq(Entry)] /\ \A q \in Key : Q[q] = P[q] \o timer_rows(D)[q]
  BY <1>1 DEF PathsOK
<1>3. FlushCounted' <=> current_pend_flush_request_' = Cardinality(Spots(Q))
  BY <1>1 DEF PathsOK
<1> HIDE DEF Q
<1>4. Cardinality(Spots(Q)) = Cardinality(Spots(P)) + Cardinality(Rowdirty(D))
  BY <1>2, TimerCount
<1>5. current_pend_flush_request_' = left + Cardinality(Rowdirty(D))
  BY TimerNodes
<1> QED BY <1>3, <1>4, <1>5

(* The flush timer puts flush requests behind the others. *)
LEMMA TimerPaths ==
  ASSUME TypeOK, job_timer_procedure, UNCHANGED config
  PROVE  /\ TypeOK'
         /\ \E D \in SUBSET dirty_keys :
              /\ buffer_flush_data_timer(D, current_pend_flush_request_)
              /\ \A q \in Key : Adds(q, timer_rows(D)[q])
         /\ update_mode_ = "ASYNC" \/ memory_dirty_
         /\ UNCHANGED <<db, job, ret, black_list_, late, legal, suspect, double_reply>>
         /\ memory_dirty_' \in {memory_dirty_, FALSE}
<1>1. UNCHANGED <<db, job, ret, black_list_, late, legal, suspect, double_reply>>
      /\ (update_mode_ = "ASYNC" \/ memory_dirty_)
  BY DEF job_timer_procedure
<1>2. PICK D \in SUBSET dirty_keys :
        /\ buffer_flush_data_timer(D, current_pend_flush_request_)
        /\ IF use_queue
           THEN /\ back' = [k \in Key |-> back[k] \o chain[k] \o timer_rows(D)[k]]
                /\ chain' = [k \in Key |-> << >>]
           ELSE /\ chain' = [k \in Key |-> chain[k] \o timer_rows(D)[k]]
                /\ UNCHANGED back
        /\ memory_dirty_' \in {memory_dirty_, FALSE}
  BY DEF job_timer_procedure, clean_memory
<1>3. /\ current_pend_flush_request_ \in Nat /\ memory_dirty_ \in BOOLEAN
      /\ chain \in [Key -> Seq(Entry)] /\ back \in [Key -> Seq(Entry)] /\ PathsOK
      /\ \A q \in Key : chain[q] \in Seq(Entry) /\ back[q] \in Seq(Entry)
  BY PathsNow DEF TypeOK
<1>4. node' \in [Key -> Node \cup {NoNode}] /\ current_pend_flush_request_' \in Nat
  BY <1>2, <1>3, TimerNodes
<1> DEFINE rows(q) == timer_rows(D)[q]
<1>5. \A q \in Key : rows(q) \in Seq(Entry)
  BY TimerRows
<1> HIDE DEF rows
<1>6. chain' \in [Key -> Seq(Entry)] /\ back' \in [Key -> Seq(Entry)]
  <2>1. CASE use_queue
    <3>1. back' = [k \in Key |-> (back[k] \o chain[k]) \o rows(k)] /\ chain' = [k \in Key |-> << >>]
      BY <1>2, <2>1 DEF rows
    <3>2. \A q \in Key : (back[q] \o chain[q]) \o rows(q) \in Seq(Entry) /\ << >> \in Seq(Entry)
      BY <1>3, <1>5, SMT
    <3> QED BY <3>1, <3>2
  <2>2. CASE ~use_queue
    <3>1. chain' = [k \in Key |-> chain[k] \o rows(k)] /\ back' = back
      BY <1>2, <2>2 DEF rows
    <3>2. \A q \in Key : chain[q] \o rows(q) \in Seq(Entry)
      BY <1>3, <1>5, SMT
    <3> QED BY <1>3, <3>1, <3>2
  <2> QED BY <2>1, <2>2
<1>7. TypeOK'
  BY <1>1, <1>2, <1>3, <1>4, <1>6 DEF TypeOK
<1>8. ASSUME NEW q \in Key PROVE Adds(q, rows(q))
  <2>1. CASE use_queue
    <3>1. back'[q] = (back[q] \o chain[q]) \o rows(q) /\ chain'[q] = << >>
      BY <1>2, <2>1 DEF rows
    <3>2. /\ Way(q) \in Seq(Entry) /\ Way(q) = back[q] \o chain[q] /\ Way(q)' = back'[q] \o chain'[q]
          /\ Entries(ret[q]) \in Seq(Entry) /\ Path(q) = Entries(ret[q]) \o Way(q)
          /\ Path(q)' = Entries(ret'[q]) \o Way(q)' /\ ret' = ret
      BY <1>1, <1>3 DEF PathsOK, Way, Path
    <3>3. Way(q) \o rows(q) \in Seq(Entry)
      BY <1>5, <3>2, SMT
    <3>4. Way(q)' = Way(q) \o rows(q)
      BY <3>1, <3>2, <3>3, ConcatNothing
    <3>5. (Entries(ret[q]) \o Way(q)) \o rows(q) = Entries(ret[q]) \o (Way(q) \o rows(q))
      BY <1>5, <3>2, ConcatThree
    <3>6. Path(q)' = Path(q) \o rows(q)
      BY <3>2, <3>4, <3>5
    <3> QED BY <3>4, <3>6 DEF Adds
  <2>2. CASE ~use_queue
    <3>1. chain'[q] = chain[q] \o rows(q) /\ back'[q] = back[q] /\ ret'[q] = ret[q]
      BY <1>1, <1>2, <2>2 DEF rows
    <3> QED BY <1>5, <1>7, <3>1, AddsRows
  <2> QED BY <2>1, <2>2
<1> QED BY <1>1, <1>2, <1>7, <1>8 DEF rows
LEMMA TimerRight ==
  ASSUME BaseInv, job_timer_procedure, UNCHANGED config
  PROVE  OneRequest' /\ FlushCounted'
<1>1. TypeOK /\ TypeOK' /\ PathsOK /\ UNCHANGED <<job, ret>> /\ OneRequest
  BY TimerPaths, PathsNow DEF BaseInv, RTypeOK
<1>2. PICK D \in SUBSET dirty_keys :
        /\ buffer_flush_data_timer(D, current_pend_flush_request_)
        /\ \A q \in Key : Adds(q, timer_rows(D)[q])
  BY <1>1, TimerPaths
<1>3. FlushCounted'
  <2>1. /\ paths \in [Key -> Seq(Entry)] /\ \A q \in Key : paths[q] = Path(q)
        /\ current_pend_flush_request_ = Cardinality(Spots(paths))
    BY <1>1 DEF PathsOK, BaseInv
  <2>2. \A q \in Key : Path(q)' = paths[q] \o timer_rows(D)[q]
    BY <1>2, <2>1 DEF Adds
  <2>3. current_pend_flush_request_ \in Nat
    BY <1>1 DEF TypeOK
  <2> QED BY <1>1, <1>2, <2>1, <2>2, <2>3, TimerCounted
<1>4. ASSUME NEW q \in Key PROVE Single(Path(q)') /\ Belongs(Path(q)', job[q])
  <2> DEFINE rows == timer_rows(D)[q]
  <2>1. rows \in Seq(Entry) /\ NoEnd(rows)
    BY <1>1, TimerRows
  <2>2. Path(q)' = Path(q) \o rows
    BY <1>2 DEF Adds
  <2> HIDE DEF rows
  <2>3. Path(q) \in Seq(Entry) /\ Single(Path(q)) /\ Belongs(Path(q), job[q])
    BY <1>1 DEF PathsOK, OneRequest
  <2>4. Belongs(rows, job[q])
    BY <2>1, NobodyEnds
  <2> QED BY <2>1, <2>2, <2>3, <2>4, ConcatEnds, SMT
<1>5. use_queue' = use_queue
  BY DEF use_queue
<1> QED BY <1>1, <1>3, <1>4, <1>5 DEF OneRequest
-----------------------------------------------------------------------------
(* The first of two queues in a row *)
LEMMA TailConcat ==
  ASSUME NEW s \in Seq(Entry), NEW t \in Seq(Entry), s # << >>
  PROVE  s \o t # << >> /\ Head(s \o t) = Head(s) /\ Tail(s \o t) = Tail(s) \o t
<1> DEFINE u == s \o t
           v == Tail(s)
<1>1. /\ u \in Seq(Entry) /\ Len(u) = Len(s) + Len(t) /\ Len(s) \in Nat /\ Len(t) \in Nat
      /\ DOMAIN u = 1 .. Len(s) + Len(t)
      /\ \A i \in 1 .. Len(s) : u[i] = s[i]
      /\ \A i \in DOMAIN u : i \notin 1 .. Len(s) => u[i] = t[i - Len(s)]
  BY ConcatAt, SMT
<1>2. /\ v \in Seq(Entry) /\ Len(v) = Len(s) - 1 /\ Len(s) > 0 /\ Head(s) = s[1]
      /\ DOMAIN v = 1 .. Len(s) - 1 /\ \A i \in DOMAIN v : v[i] = s[i + 1]
  BY TailAt
<1> DEFINE w == v \o t
<1>3. /\ w \in Seq(Entry) /\ Len(w) = Len(v) + Len(t) /\ DOMAIN w = 1 .. Len(v) + Len(t)
      /\ \A i \in 1 .. Len(v) : w[i] = v[i]
      /\ \A i \in DOMAIN w : i \notin 1 .. Len(v) => w[i] = t[i - Len(v)]
  BY <1>2, ConcatAt, SMT
<1>4. u # << >>
  BY <1>1, <1>2, SMT
<1> DEFINE x == Tail(u)
<1>5. /\ x \in Seq(Entry) /\ Len(x) = Len(u) - 1 /\ Head(u) = u[1]
      /\ DOMAIN x = 1 .. Len(u) - 1 /\ \A i \in DOMAIN x : x[i] = u[i + 1]
  BY <1>1, <1>4, TailAt
<1>6. SUFFICES Head(u) = Head(s) /\ x = w
  BY <1>4
<1> HIDE DEF u, v, w, x
<1>7. Head(u) = Head(s)
  BY <1>1, <1>2, <1>5, SMT
<1>8. Len(x) = Len(w)
  BY <1>1, <1>2, <1>3, <1>5, SMT
<1>9. ASSUME NEW i \in 1 .. Len(x) PROVE x[i] = w[i]
  <2> DEFINE m == Len(s)
             n == Len(t)
  <2>4. Len(x) = (m + n) - 1 /\ Len(w) = (m - 1) + n /\ m \in Nat /\ n \in Nat /\ m > 0
    BY <1>1, <1>2, <1>3, <1>5
  <2>5. DOMAIN x = 1 .. Len(x) /\ DOMAIN w = 1 .. Len(w) /\ DOMAIN u = 1 .. m + n
    BY <1>1, <1>3, <1>5
  <2> HIDE DEF m, n
  <2>6. i + 1 \in 1 .. m + n /\ i \in 1 .. Len(w) /\ i \in Nat
    BY <1>8, <2>4, SMT
  <2>1. x[i] = u[i + 1] /\ i + 1 \in DOMAIN u /\ i \in DOMAIN w /\ i \in Nat
    BY <1>5, <2>5, <2>6
  <2>2. CASE i \in 1 .. Len(v)
    <3>1. DOMAIN v = 1 .. Len(v)
      BY <1>2
    <3>2. w[i] = v[i] /\ v[i] = s[i + 1]
      BY <1>2, <1>3, <2>2, <3>1
    <3>3. Len(v) = m - 1 /\ 1 .. Len(s) = 1 .. m
      BY <1>2 DEF m
    <3>4. i + 1 \in 1 .. m
      BY <2>2, <2>4, <3>3, SMT
    <3>5. u[i + 1] = s[i + 1]
      BY <1>1, <3>3, <3>4
    <3> QED BY <2>1, <3>2, <3>5
  <2>3. CASE i \notin 1 .. Len(v)
    <3>1. i + 1 \notin 1 .. Len(s) /\ (i + 1) - Len(s) = i - Len(v)
      BY <1>1, <1>2, <2>1, <2>3, SMT
    <3>2. u[i + 1] = t[(i + 1) - Len(s)]
      BY <1>1, <2>1, <3>1
    <3>3. w[i] = t[i - Len(v)]
      BY <1>3, <2>1, <2>3
    <3> QED BY <2>1, <3>1, <3>2, <3>3
  <2> QED BY <2>2, <2>3
<1>10. x = w
  BY <1>3, <1>5, <1>8, <1>9, SameQueue
<1> QED BY <1>7, <1>10

(* Statements and their results *)
LEMMA StatementTypes ==
  ASSUME NEW c \in DbCodes, NEW v \in Row, NEW r \in Row
  PROVE  /\ Execute(c, v, r) \in Row /\ Done(c, v, r) \subseteq Result
         /\ Failed("refused") \in Result /\ Failed("unknown") \in Result
<1>1. NoRow \in Row
  BY DEF Row
<1>2. Execute(c, v, r) \in Row
  BY <1>1 DEF Execute, DbCodes
<1>3. Done(c, v, r) \subseteq Result
  BY <1>1, SMT DEF Done, Result
<1> QED BY <1>1, <1>2, <1>3 DEF Failed, Result
(* What the database and the connector make of e, the first request of k: its result is res *)
Outcome(k, e, res) ==
  LET executed == db' = [db EXCEPT ![k] = Execute(EntryCode(k, e), EntryVal(k, e), @)] IN
  \/ executed /\ res \in Done(EntryCode(k, e), EntryVal(k, e), db[k]) /\ UNCHANGED late
  \/ res \in {Failed("refused"), Failed("unknown")} /\ UNCHANGED <<db, late>>
  \/ executed /\ res = Failed("unknown") /\ UNCHANGED late
  \/ /\ res = Failed("unknown") /\ Cardinality(late) < max_late
     /\ late' = late \cup {[key |-> k, code |-> EntryCode(k, e), val |-> EntryVal(k, e)]}
     /\ UNCHANGED db

(* The statement of the first request of a key *)
LEMMA HeadOf ==
  ASSUME TypeOK, OneRequest, NEW k \in Key, back[k] # << >>
  PROVE  LET e == Head(back[k]) IN
         /\ e \in Entry /\ Tail(back[k]) \in Seq(Entry)
         /\ EntryCode(k, e) \in DbCodes /\ EntryVal(k, e) \in Row
         /\ e.kind = "client" => job[k] \in Job /\ job[k].code \in DbCodes
<1> DEFINE e == Head(back[k])
<1>1. back[k] \in Seq(Entry) /\ PathsOK
  BY PathsNow DEF TypeOK
<1>2. e \in Entry /\ Tail(back[k]) \in Seq(Entry) /\ e = back[k][1] /\ 1 \in DOMAIN back[k]
  BY <1>1, TailAt, SMT
<1>3. e.kind \in {"client", "flush"} /\ e.val \in Row
  BY <1>2 DEF Entry
<1>4. Belongs(back[k], job[k])
  <2>1. Entries(ret[k]) \in Seq(Entry) /\ Way(k) \in Seq(Entry) /\ chain[k] \in Seq(Entry)
    BY <1>1 DEF PathsOK
  <2>2. Belongs(Entries(ret[k]) \o Way(k), job[k])
    BY DEF OneRequest, Path
  <2>3. Belongs(Way(k), job[k])
    BY <2>1, <2>2, ConcatEnds
  <2>4. Belongs(back[k] \o chain[k], job[k])
    BY <2>3 DEF Way
  <2> QED BY <1>1, <2>1, <2>4, ConcatEnds
<1>5. e.kind = "client" => job[k] # NoJob /\ job[k].code \in DbCodes
  BY <1>2, <1>4 DEF Belongs, Ends
<1>6. e.kind = "client" => job[k] \in Job /\ job[k].val \in Row
  BY <1>5, JobTypes, SMT DEF TypeOK
<1>7. EntryCode(k, e) \in DbCodes /\ EntryVal(k, e) \in Row
  BY <1>3, <1>5, <1>6 DEF EntryCode, EntryVal, DbCodes
<1> QED BY <1>2, <1>5, <1>6, <1>7

LEMMA HelperCases ==
  ASSUME TypeOK, OneRequest, NEW k \in Key, helper_execute(k)
  PROVE  LET e == Head(back[k]) IN
         /\ back[k] # << >> /\ back' = [back EXCEPT ![k] = Tail(back[k])]
         /\ \E res \in Result : Outcome(k, e, res) /\ answer(k, e, res)
         /\ db' \in [Key -> Row] /\ late' \subseteq [key : Key, code : DbCodes, val : Row]
         /\ \A q \in Key \ {k} : db'[q] = db[q]
<1> DEFINE e == Head(back[k])
           code == EntryCode(k, e)
           v == EntryVal(k, e)
<1>1. back[k] # << >> /\ back' = [back EXCEPT ![k] = Tail(back[k])]
  BY DEF helper_execute
<1>2. /\ code \in DbCodes /\ v \in Row /\ db \in [Key -> Row] /\ db[k] \in Row
      /\ late \subseteq [key : Key, code : DbCodes, val : Row]
  BY <1>1, HeadOf DEF TypeOK
<1>3. /\ Done(code, v, db[k]) \subseteq Result /\ Execute(code, v, db[k]) \in Row
      /\ Failed("refused") \in Result /\ Failed("unknown") \in Result
  BY <1>2, StatementTypes
<1>4. \/ /\ db' = [db EXCEPT ![k] = Execute(code, v, @)]
         /\ \E res \in Done(code, v, db[k]) : answer(k, e, res)
         /\ UNCHANGED late
      \/ /\ \E c \in {"refused", "unknown"} : answer(k, e, Failed(c))
         /\ UNCHANGED <<db, late>>
      \/ /\ db' = [db EXCEPT ![k] = Execute(code, v, @)]
         /\ answer(k, e, Failed("unknown"))
         /\ UNCHANGED late
      \/ /\ Cardinality(late) < max_late
         /\ answer(k, e, Failed("unknown"))
         /\ late' = late \cup {[key |-> k, code |-> code, val |-> v]}
         /\ UNCHANGED db
  BY DEF helper_execute
<1>5. \E res \in Result : Outcome(k, e, res) /\ answer(k, e, res)
  <2> HIDE DEF e
  <2> QED BY <1>3, <1>4 DEF Outcome
<1>6. [key |-> k, code |-> code, val |-> v] \in [key : Key, code : DbCodes, val : Row]
  BY <1>2
<1> HIDE DEF code, v
<1>7. /\ db' = db \/ db' = [db EXCEPT ![k] = Execute(code, v, @)]
      /\ late' = late \/ late' = late \cup {[key |-> k, code |-> code, val |-> v]}
  BY <1>4
<1>8. db' \in [Key -> Row] /\ late' \subseteq [key : Key, code : DbCodes, val : Row]
  BY <1>2, <1>3, <1>6, <1>7
<1>9. \A q \in Key \ {k} : db'[q] = db[q]
  BY <1>2, <1>7
<1> QED BY <1>1, <1>5, <1>8, <1>9
-----------------------------------------------------------------------------
(* Answers to clients: the node of the key is kept, purged or written, *)
LEMMA ClientNodes ==
  ASSUME TypeOK, NEW k \in Key, NEW res \in Result, client_answer(k, res),
         job[k] \in Job, job[k].code \in DbCodes
  PROVE  /\ node' \in [Key -> NodeOrNone] /\ \A q \in Key \ {k} : node'[q] = node[q]
         /\ black_list_' \in {black_list_, black_list_ \cup {k}}
         /\ suspect' \in {suspect, suspect \cup {k}}
<1> DEFINE j == job[k]
           OK == /\ node' \in [Key -> NodeOrNone] /\ \A q \in Key \ {k} : node'[q] = node[q]
                 /\ black_list_' \in {black_list_, black_list_ \cup {k}}
<1>1. node \in [Key -> NodeOrNone] /\ node[k] \in NodeOrNone /\ (node[k] # NoNode => node[k] \in Node)
  BY DEF TypeOK, NodeOrNone
<1>2. j.val \in Row /\ res.row \in Row /\ j.code \in DbCodes
  BY JobTypes DEF Result
<1>3. \A v \in Row : Clean(v) \in NodeOrNone /\ (node[k] # NoNode => Rewritten(k, v) \in NodeOrNone)
  BY <1>1, NodeTypes DEF NodeOrNone, Rewritten
<1>4. NoNode \in NodeOrNone
  BY DEF NodeOrNone
<1>5. keep => OK
  BY <1>1 DEF keep
<1>6. purge(k) => OK
  BY <1>1, <1>4 DEF purge
<1>7. ASSUME NEW n \in NodeOrNone, NEW m \in NodeOrNone, store(k, n, m) PROVE OK
  BY <1>1, <1>7 DEF store
<1>8. ASSUME reply_connector_answer(k, j, res) PROVE OK
  <2>1. CASE j.code = "Get"
    <3>1. answer_get(k, j, res)
      BY <1>8, <2>1 DEF reply_connector_answer
    <3> DEFINE n == IF node[k] = NoNode THEN Clean(res.row) ELSE Rewritten(k, res.row)
    <3>2. n \in NodeOrNone
      BY <1>2, <1>3
    <3>3. keep \/ store(k, n, NoNode)
      BY <3>1 DEF answer_get
    <3> HIDE DEF n, OK
    <3> QED BY <1>4, <1>5, <1>7, <3>2, <3>3
  <2>2. CASE j.code = "Insert"
    <3>1. answer_insert(k, j)
      BY <1>8, <2>2 DEF reply_connector_answer
    <3>2. keep \/ purge(k) \/ (node[k] # NoNode /\ store(k, Rewritten(k, j.val), NoNode))
      BY <3>1 DEF answer_insert
    <3> HIDE DEF OK
    <3> QED BY <1>2, <1>3, <1>4, <1>5, <1>6, <1>7, <3>2
  <2>3. CASE j.code = "Update"
    <3>1. answer_update(k, j, res)
      BY <1>8, <2>3 DEF reply_connector_answer
    <3>2. keep \/ purge(k) \/ (node[k] # NoNode /\ store(k, Rewritten(k, j.val), NoNode))
      BY <3>1 DEF answer_update
    <3> HIDE DEF OK
    <3> QED BY <1>2, <1>3, <1>4, <1>5, <1>6, <1>7, <3>2, SMT
  <2>4. CASE j.code = "Replace"
    <3>1. answer_replace(k, j, res)
      BY <1>8, <2>4 DEF reply_connector_answer
    <3> DEFINE m == IF IsDirty(k) THEN node[k] ELSE NoNode
    <3>2. keep \/ (node[k] # NoNode /\ store(k, Rewritten(k, j.val), m))
      BY <3>1 DEF answer_replace
    <3>3. m \in NodeOrNone
      BY <1>1, <1>4
    <3> HIDE DEF OK, m
    <3> QED BY <1>2, <1>3, <1>5, <1>7, <3>2, <3>3
  <2>5. CASE j.code = "Delete"
    <3>1. purge(k)
      BY <1>8, <2>5 DEF reply_connector_answer, answer_delete
    <3> HIDE DEF OK
    <3> QED BY <1>6, <3>1
  <2> HIDE DEF j, OK
  <2> QED BY <1>2, <2>1, <2>2, <2>3, <2>4, <2>5 DEF DbCodes
<1>9. CASE res.code = "ok"
  <2>1. reply_connector_answer(k, j, res) /\ suspect' = suspect
    BY <1>9 DEF client_answer
  <2> QED BY <1>8, <2>1
<1>10. CASE res.code # "ok"
  <2>1. deal_flush_exeption(k, j, res)
    BY <1>10 DEF client_answer
  <2>2. (keep \/ purge(k)) /\ suspect' \in {suspect, suspect \cup {k}}
    BY <2>1 DEF deal_flush_exeption
  <2> QED BY <1>5, <1>6, <2>2
<1> QED BY <1>9, <1>10

(* and what the client is told is about rows. *)
LEMMA SeenRows ==
  ASSUME TypeOK, NEW k \in Key, NEW j \in Job, j.code \in DbCodes, NEW res \in Result
  PROVE  Seen(k, j, res) \in SUBSET Row
<1>1. legal[k] \in SUBSET Row /\ j.val \in Row
  BY JobTypes DEF TypeOK
<1>2. \A r \in legal[k] : Execute(j.code, j.val, r) \in Row
  BY <1>1, StatementTypes
<1>3. res.code \in {"ok", "dup", "refused", "unknown"} /\ res.affected \in {0, 1}
  BY DEF Result
<1>4. {Execute(j.code, j.val, r) : r \in legal[k]} \in SUBSET Row
  BY <1>2
<1> DEFINE X == {Execute(j.code, j.val, r) : r \in legal[k]}
<1> HIDE DEF X
<1>5. /\ X \in SUBSET Row
      /\ Seen(k, j, res) =
           CASE res.code = "ok" /\ j.code = "Get" -> legal[k] \cap {res.row}
             [] res.code = "ok" /\ j.code = "Update" /\ res.affected = 0 -> legal[k] \cap {NoRow, j.val}
             [] res.code = "ok" /\ j.code = "Update" /\ res.affected = 1 -> {j.val}
             [] res.code = "ok" /\ j.code \notin {"Get", "Update"} -> {j.val}
             [] res.code = "unknown" -> legal[k] \cup X
             [] res.code = "dup" -> legal[k] \ {NoRow}
             [] res.code = "refused" -> legal[k]
  BY <1>4 DEF X, Seen
<1> QED BY <1>1, <1>3, <1>5
(* the cache takes the answer res to e, the first request of k *)
Handled(k, e, res) ==
  /\ Front(k) # << >> /\ e = Head(Front(k)) /\ e \in Entry /\ res \in Result
  /\ Front(k)' = Tail(Front(k)) /\ \A q \in Key \ {k} : Front(q)' = Front(q)
  /\ job_answer_procedure(k, e, res)
  /\ ret' \in [Key -> Seq(Answer)] /\ back' \in [Key -> Seq(Entry)] /\ db' \in [Key -> Row]
  /\ late' \subseteq [key : Key, code : DbCodes, val : Row]
  /\ use_queue => \A q \in Key : ret'[q] = << >>

(* In one thread it takes the answer at once, *)
LEMMA HelperHandled ==
  ASSUME TypeOK, OneRequest, NEW k \in Key, helper_execute(k), use_queue
  PROVE  \E res \in Result : /\ Outcome(k, Head(back[k]), res) /\ Handled(k, Head(back[k]), res)
                             /\ UNCHANGED ret
<1> DEFINE e == Head(back[k])
<1>1. /\ back[k] # << >> /\ back' = [back EXCEPT ![k] = Tail(back[k])]
      /\ \E res \in Result : Outcome(k, e, res) /\ answer(k, e, res)
      /\ db' \in [Key -> Row] /\ late' \subseteq [key : Key, code : DbCodes, val : Row]
  BY HelperCases
<1>2. e \in Entry /\ Tail(back[k]) \in Seq(Entry)
  BY <1>1, HeadOf
<1>3. PICK res \in Result : Outcome(k, e, res) /\ answer(k, e, res)
  BY <1>1
<1>4. job_answer_procedure(k, e, res) /\ ret' = ret
  BY <1>3 DEF answer
<1>5. ret \in [Key -> Seq(Answer)] /\ back \in [Key -> Seq(Entry)]
      /\ \A q \in Key : back[q] \in Seq(Entry) /\ ret[q] = << >>
  BY DEF TypeOK, OneRequest
<1>6. back' \in [Key -> Seq(Entry)]
  BY <1>1, <1>2, <1>5
<1>7. Entries(<< >>) = << >>
  BY SMT DEF Entries
<1>8. \A q \in Key : << >> \o back[q] = back[q] /\ << >> \o back'[q] = back'[q]
  BY <1>5, <1>6, ConcatNothing
<1>9. \A q \in Key : Front(q) = back[q] /\ Front(q)' = back'[q]
  BY <1>4, <1>5, <1>7, <1>8 DEF Front
<1>10. back'[k] = Tail(back[k]) /\ \A q \in Key \ {k} : back'[q] = back[q]
  BY <1>1, <1>5
<1>11. /\ Front(k) # << >> /\ e = Head(Front(k)) /\ Front(k)' = Tail(Front(k))
       /\ \A q \in Key \ {k} : Front(q)' = Front(q)
  BY <1>1, <1>9, <1>10
<1>12. Handled(k, e, res)
  BY <1>1, <1>2, <1>4, <1>5, <1>6, <1>11 DEF Handled
<1> QED BY <1>3, <1>4, <1>12

(* between two threads when the tunnel delivers it. *)
LEMMA DeliverHandled ==
  ASSUME TypeOK, OneRequest, NEW k \in Key, ret_deliver(k)
  PROVE  /\ ret[k] # << >> /\ Head(ret[k]) \in Answer /\ ~use_queue
         /\ ret' = [ret EXCEPT ![k] = Tail(ret[k])]
         /\ Handled(k, Head(ret[k]).entry, Head(ret[k]).res) /\ UNCHANGED <<db, back, late>>
<1>1. /\ ret[k] # << >> /\ ret' = [ret EXCEPT ![k] = Tail(ret[k])] /\ UNCHANGED <<db, back, late>>
      /\ job_answer_procedure(k, Head(ret[k]).entry, Head(ret[k]).res)
  BY DEF ret_deliver
<1>2. ret \in [Key -> Seq(Answer)] /\ ret[k] \in Seq(Answer) /\ PathsOK
  BY PathsNow DEF TypeOK
<1>3. /\ Entries(ret[k]) # << >> /\ Entries(Tail(ret[k])) = Tail(Entries(ret[k]))
      /\ Head(Entries(ret[k])) = Head(ret[k]).entry /\ Head(ret[k]) \in Answer
      /\ Entries(ret[k]) \in Seq(Entry)
  BY <1>1, <1>2, EntriesOf
<1>4. Tail(ret[k]) \in Seq(Answer)
  BY <1>1, <1>2, TailAt
<1>5. ret' \in [Key -> Seq(Answer)] /\ ret'[k] = Tail(ret[k]) /\ \A q \in Key \ {k} : ret'[q] = ret[q]
  BY <1>1, <1>2, <1>4
<1>6. Head(ret[k]).entry \in Entry /\ Head(ret[k]).res \in Result
  BY <1>3 DEF Answer
<1>7. ~use_queue
  BY <1>1 DEF OneRequest
<1>8. \A q \in Key \ {k} : Front(q)' = Front(q)
  BY <1>1, <1>5 DEF Front
<1>9. /\ Front(k) = Entries(ret[k]) \o back[k] /\ Front(k)' = Tail(Entries(ret[k])) \o back[k]
      /\ back[k] \in Seq(Entry)
  BY <1>1, <1>2, <1>3, <1>5 DEF Front, PathsOK
<1>10. /\ Entries(ret[k]) \o back[k] # << >>
       /\ Head(Entries(ret[k]) \o back[k]) = Head(Entries(ret[k]))
       /\ Tail(Entries(ret[k]) \o back[k]) = Tail(Entries(ret[k])) \o back[k]
  BY <1>3, <1>9, TailConcat
<1>11. Front(k) # << >> /\ Head(Front(k)) = Head(ret[k]).entry /\ Front(k)' = Tail(Front(k))
  BY <1>3, <1>9, <1>10
<1>12. /\ back' \in [Key -> Seq(Entry)] /\ db' \in [Key -> Row]
       /\ late' \subseteq [key : Key, code : DbCodes, val : Row]
  BY <1>1 DEF TypeOK
<1> QED BY <1>1, <1>3, <1>5, <1>6, <1>7, <1>8, <1>11, <1>12 DEF Handled
(* Between two threads the answer is first put into the tunnel. *)
LEMMA HelperAnswers ==
  ASSUME TypeOK, OneRequest, NEW k \in Key, helper_execute(k), ~use_queue, UNCHANGED config
  PROVE  /\ TypeOK' /\ \A q \in Key : Path(q)' = Path(q)
         /\ Way(k) # << >> /\ Head(Way(k)) = Head(back[k]) /\ Way(k)' = Tail(Way(k))
         /\ \A q \in Key \ {k} : Way(q)' = Way(q) /\ ret'[q] = ret[q] /\ db'[q] = db[q]
         /\ UNCHANGED <<node, job, chain, memory_dirty_, current_pend_flush_request_,
                        black_list_, legal, suspect, double_reply>>
         /\ \E res \in Result : /\ Outcome(k, Head(back[k]), res)
                                /\ ret'[k] = Append(ret[k], [entry |-> Head(back[k]), res |-> res])
<1> DEFINE e == Head(back[k])
<1>1. /\ back[k] # << >> /\ back' = [back EXCEPT ![k] = Tail(back[k])]
      /\ \E res \in Result : Outcome(k, e, res) /\ answer(k, e, res)
      /\ db' \in [Key -> Row] /\ late' \subseteq [key : Key, code : DbCodes, val : Row]
      /\ \A q \in Key \ {k} : db'[q] = db[q]
  BY HelperCases
<1>2. e \in Entry /\ Tail(back[k]) \in Seq(Entry)
  BY <1>1, HeadOf
<1>3. PICK res \in Result : Outcome(k, e, res) /\ answer(k, e, res)
  BY <1>1
<1> DEFINE a == [entry |-> e, res |-> res]
<1>4. /\ ret' = [ret EXCEPT ![k] = Append(ret[k], a)]
      /\ UNCHANGED <<node, job, chain, memory_dirty_, current_pend_flush_request_,
                     black_list_, legal, suspect, double_reply>>
  BY <1>3 DEF answer
<1>5. a \in Answer /\ a.entry = e
  BY <1>2 DEF Answer
<1> HIDE DEF a
<1>6. /\ ret \in [Key -> Seq(Answer)] /\ back \in [Key -> Seq(Entry)] /\ PathsOK
      /\ ret[k] \in Seq(Answer) /\ back[k] \in Seq(Entry) /\ chain[k] \in Seq(Entry)
      /\ Entries(ret[k]) \in Seq(Entry)
  BY PathsNow DEF TypeOK, PathsOK
<1>7. Append(ret[k], a) \in Seq(Answer)
  BY <1>5, <1>6, SMT
<1>8. /\ ret' \in [Key -> Seq(Answer)] /\ ret'[k] = Append(ret[k], a)
      /\ \A q \in Key \ {k} : ret'[q] = ret[q]
  BY <1>4, <1>6, <1>7
<1>9. /\ back' \in [Key -> Seq(Entry)] /\ back'[k] = Tail(back[k])
      /\ \A q \in Key \ {k} : back'[q] = back[q]
  BY <1>1, <1>2, <1>6
<1>10. TypeOK'
  BY <1>1, <1>4, <1>8, <1>9 DEF TypeOK
<1>11. \A q \in Key \ {k} : Way(q)' = Way(q)
  BY <1>4, <1>9 DEF Way
<1>12. \A q \in Key \ {k} : Path(q)' = Path(q)
  BY <1>8, <1>11 DEF Path
<1>13. /\ back[k] \o chain[k] # << >> /\ Head(back[k] \o chain[k]) = e
       /\ Tail(back[k] \o chain[k]) = Tail(back[k]) \o chain[k]
  BY <1>1, <1>6, TailConcat
<1>14. Way(k) # << >> /\ Head(Way(k)) = e /\ Way(k)' = Tail(Way(k))
  BY <1>4, <1>9, <1>13 DEF Way
<1>15. Path(k)' = Path(k)
  <2> DEFINE f == Entries(ret[k])
             w == Way(k)
  <2>1. Entries(ret'[k]) = Append(f, e)
    BY <1>5, <1>6, <1>8, EntriesOf, SMT
  <2>2. Path(k)' = Append(f, Head(w)) \o Tail(w) /\ Path(k) = f \o w
    BY <1>14, <2>1 DEF Path
  <2>3. f \in Seq(Entry) /\ w \in Seq(Entry) /\ w # << >>
    BY <1>6, <1>14 DEF PathsOK
  <2> HIDE DEF f, w
  <2>4. Append(f, Head(w)) \o Tail(w) = f \o w
    BY <2>3, MoveHead
  <2> QED BY <2>2, <2>4
<1>16. \E r \in Result : Outcome(k, e, r) /\ ret'[k] = Append(ret[k], [entry |-> e, res |-> r])
  BY <1>3, <1>8 DEF a
<1> QED BY <1>1, <1>4, <1>8, <1>10, <1>11, <1>12, <1>14, <1>15, <1>16
-----------------------------------------------------------------------------
(* Without its first a queue has one flush request less, if that is one. *)
LEMMA TailFlushes ==
  ASSUME NEW s \in Seq(Entry), s # << >>
  PROVE  Cardinality(Flushes(s)) =
           Cardinality(Flushes(Tail(s))) + IF Head(s).kind = "flush" THEN 1 ELSE 0
<1> DEFINE e == Head(s)
           t == Tail(s)
           o == <<e>>
<1>1. e \in Entry /\ t \in Seq(Entry)
  BY TailAt
<1>2. o \o t = s
  <2>1. Append(<< >>, e) \o t = << >> \o s /\ << >> \o s = s
    BY MoveHead, ConcatNothing, EmptyQueue
  <2>2. Append(<< >>, e) = o
    BY SMT
  <2> QED BY <2>1, <2>2
<1>3. o \in Seq(Entry) /\ DOMAIN o = {1} /\ o[1] = e
  BY <1>1, SMT
<1> HIDE DEF e, t, o
<1>4. Flushes(o) = IF e.kind = "flush" THEN {1} ELSE {}
  BY <1>3 DEF Flushes
<1>5. Cardinality(Flushes(o)) = IF e.kind = "flush" THEN 1 ELSE 0
  BY <1>4, FS_EmptySet, FS_Singleton
<1>6. Cardinality(Flushes(o \o t)) = Cardinality(Flushes(o)) + Cardinality(Flushes(t))
  BY <1>1, <1>3, ConcatFlushes
<1>7. Cardinality(Flushes(t)) \in Nat
  BY <1>1, FlushesFinite
<1>8. Cardinality(Flushes(s)) = Cardinality(Flushes(t)) + IF e.kind = "flush" THEN 1 ELSE 0
  BY <1>2, <1>5, <1>6, <1>7, SMT
<1> QED BY <1>8 DEF e, t

(* the queues of the keys without the first request of k *)
Answered(k) == [q \in Key |-> IF q = k THEN Tail(Path(k)) ELSE Path(q)]

(* An answer that is taken is that of the first request, which was counted if it is a flush. *)
LEMMA HandledFirst ==
  ASSUME TypeOK, FlushCounted, NEW k \in Key, NEW e, NEW res, Handled(k, e, res)
  PROVE  /\ Path(k) \in Seq(Entry) /\ Path(k) # << >> /\ e = Head(Path(k))
         /\ Answered(k) \in [Key -> Seq(Entry)]
         /\ Cardinality(Spots(Answered(k))) \in Nat
         /\ current_pend_flush_request_ =
              Cardinality(Spots(Answered(k))) + IF e.kind = "flush" THEN 1 ELSE 0
         /\ Tail(Path(k)) = Tail(Front(k)) \o chain[k]
<1> DEFINE P == paths
           Q == Answered(k)
<1>1. /\ PathsOK /\ Front(k) \in Seq(Entry) /\ chain[k] \in Seq(Entry) /\ Path(k) = Front(k) \o chain[k]
      /\ Path(k) \in Seq(Entry) /\ \A q \in Key : Path(q) \in Seq(Entry)
  BY PathsNow DEF PathsOK
<1>2. Front(k) # << >> /\ e = Head(Front(k))
  BY DEF Handled
<1>3. /\ Front(k) \o chain[k] # << >> /\ Head(Front(k) \o chain[k]) = e
      /\ Tail(Front(k) \o chain[k]) = Tail(Front(k)) \o chain[k]
  BY <1>1, <1>2, TailConcat
<1>4. Path(k) # << >> /\ Head(Path(k)) = e /\ Tail(Path(k)) = Tail(Front(k)) \o chain[k]
  BY <1>1, <1>3
<1>5. Tail(Path(k)) \in Seq(Entry)
  BY <1>1, <1>4, TailAt
<1>6. /\ Q \in [Key -> Seq(Entry)] /\ Q[k] = Tail(Path(k))
      /\ \A q \in Key : q # k => Q[q] = Path(q)
  BY <1>1, <1>5 DEF Answered
<1>7. P \in [Key -> Seq(Entry)] /\ (\A q \in Key : P[q] = Path(q))
      /\ current_pend_flush_request_ = Cardinality(Spots(P))
  BY <1>1 DEF PathsOK
<1> HIDE DEF P, Q
<1>8. Cardinality(Spots(Q)) + Cardinality(Flushes(P[k])) =
        Cardinality(Spots(P)) + Cardinality(Flushes(Q[k]))
  BY <1>6, <1>7, SpotsOne
<1>9. Cardinality(Spots(Q)) \in Nat /\ Cardinality(Spots(P)) \in Nat
  BY <1>6, <1>7, SpotsOf
<1>10. Cardinality(Flushes(P[k])) = Cardinality(Flushes(Q[k])) + IF e.kind = "flush" THEN 1 ELSE 0
  BY <1>1, <1>4, <1>6, <1>7, TailFlushes
<1>11. Cardinality(Flushes(Q[k])) \in Nat
  BY <1>6, FlushesFinite
<1>12. current_pend_flush_request_ = Cardinality(Spots(Q)) + IF e.kind = "flush" THEN 1 ELSE 0
  BY <1>7, <1>8, <1>9, <1>10, <1>11, SMT
<1> QED BY <1>1, <1>4, <1>6, <1>9, <1>12 DEF Q
(* The answer to a client's request ends it, *)
LEMMA HandledClient ==
  ASSUME TypeOK, OneRequest, FlushCounted, UNCHANGED config,
         NEW k \in Key, NEW e, NEW res, Handled(k, e, res), e.kind = "client"
  PROVE  /\ TypeOK' /\ client_answer(k, res) /\ UNCHANGED double_reply
         /\ res \in Result /\ job[k] \in Job /\ job[k].code \in DbCodes
         /\ \A q \in Key : Path(q)' = Answered(k)[q] /\ chain'[q] = chain[q]
<1>1. client_answer(k, res) /\ UNCHANGED double_reply
  BY DEF Handled, job_answer_procedure
<1>2. /\ Path(k) \in Seq(Entry) /\ Path(k) # << >> /\ e = Head(Path(k))
      /\ Tail(Path(k)) = Tail(Front(k)) \o chain[k]
  BY HandledFirst
<1>3. e = Path(k)[1] /\ 1 \in DOMAIN Path(k)
  BY <1>2, TailAt, SMT
<1>4. job[k] # NoJob /\ job[k].code \in DbCodes
  BY <1>3 DEF OneRequest, Belongs, Ends
<1>5. job[k] \in Job /\ job \in [Key -> Job \cup {NoJob}] /\ res \in Result
  BY <1>4 DEF TypeOK, Handled
<1>6. /\ node' \in [Key -> Node \cup {NoNode}]
      /\ black_list_' \in {black_list_, black_list_ \cup {k}}
      /\ suspect' \in {suspect, suspect \cup {k}}
  BY <1>1, <1>4, <1>5, ClientNodes DEF NodeOrNone
<1>7. black_list_' \subseteq Key /\ suspect' \subseteq Key
  BY <1>6 DEF TypeOK
<1>8. legal' \in [Key -> SUBSET Row]
  <2>1. Seen(k, job[k], res) \in SUBSET Row
    BY <1>4, <1>5, SeenRows
  <2> QED BY <1>1, <2>1 DEF client_answer, TypeOK
<1>9. job' \in [Key -> Job \cup {NoJob}]
      /\ UNCHANGED <<chain, memory_dirty_, current_pend_flush_request_>>
  BY <1>1, <1>5 DEF client_answer
<1>10. TypeOK'
  BY <1>1, <1>6, <1>7, <1>8, <1>9 DEF TypeOK, Handled
<1>11. /\ PathsOK /\ PathsOK'
       /\ Front(k)' = Tail(Front(k)) /\ \A q \in Key \ {k} : Front(q)' = Front(q)
  BY <1>10, PathsNow, PathsNext DEF Handled
<1>12. \A q \in Key : Path(q) = Front(q) \o chain[q] /\ Path(q)' = Front(q)' \o chain'[q]
  BY <1>11 DEF PathsOK
<1>13. \A q \in Key : Path(q)' = Answered(k)[q]
  BY <1>2, <1>9, <1>11, <1>12 DEF Answered
<1> QED BY <1>1, <1>4, <1>5, <1>9, <1>10, <1>13

(* that to a flush request may send others. *)
LEMMA HandledFlush ==
  ASSUME TypeOK, OneRequest, FlushCounted, UNCHANGED config,
         NEW k \in Key, NEW e, NEW res, Handled(k, e, res), e.kind = "flush"
  PROVE  /\ TypeOK' /\ UNCHANGED <<double_reply, black_list_, legal>>
         /\ job' = IF e.wait THEN [job EXCEPT ![k] = NoJob] ELSE job
         /\ suspect' = IF res.code = "ok" THEN suspect ELSE suspect \cup {k}
         /\ memory_dirty_' \in {memory_dirty_, FALSE}
         /\ \E D \in SUBSET dirty_keys :
              /\ buffer_flush_data_timer(D, Cardinality(Spots(Answered(k))))
              /\ \A q \in Key : /\ Path(q)' = Answered(k)[q] \o timer_rows(D)[q]
                                /\ chain'[q] = chain[q] \o timer_rows(D)[q]
<1> DEFINE left == Cardinality(Spots(Answered(k)))
<1>1. /\ Path(k) \in Seq(Entry) /\ Path(k) # << >> /\ e = Head(Path(k))
      /\ Tail(Path(k)) = Tail(Front(k)) \o chain[k]
      /\ left \in Nat /\ current_pend_flush_request_ = left + 1
      /\ Answered(k) \in [Key -> Seq(Entry)]
  BY HandledFirst
<1>2. current_pend_flush_request_ - 1 = left
  BY <1>1, SMT
<1> HIDE DEF left
<1>3. flush_answer(k, e, res) /\ UNCHANGED double_reply
  BY DEF Handled, job_answer_procedure
<1>4. /\ complete_flush_request(left)
      /\ job' = IF e.wait THEN [job EXCEPT ![k] = NoJob] ELSE job
      /\ suspect' = IF res.code = "ok" THEN suspect ELSE suspect \cup {k}
      /\ UNCHANGED <<black_list_, legal>>
  BY <1>2, <1>3 DEF flush_answer
<1>5. PICK D \in SUBSET dirty_keys :
        /\ buffer_flush_data_timer(D, left)
        /\ chain' = [q \in Key |-> chain[q] \o timer_rows(D)[q]]
        /\ memory_dirty_' \in {memory_dirty_, FALSE}
  BY <1>4 DEF complete_flush_request, clean_memory
<1>6. node' \in [Key -> Node \cup {NoNode}] /\ current_pend_flush_request_' \in Nat
  BY <1>1, <1>5, TimerNodes
<1> DEFINE rows(q) == timer_rows(D)[q]
<1>7. \A q \in Key : rows(q) \in Seq(Entry)
  BY TimerRows
<1>8. chain' = [q \in Key |-> chain[q] \o rows(q)]
  BY <1>5
<1> HIDE DEF rows
<1>9. /\ PathsOK /\ chain \in [Key -> Seq(Entry)] /\ \A q \in Key : chain[q] \in Seq(Entry)
      /\ job \in [Key -> Job \cup {NoJob}]
  BY PathsNow DEF TypeOK
<1>10. \A q \in Key : chain'[q] = chain[q] \o rows(q) /\ chain[q] \o rows(q) \in Seq(Entry)
  BY <1>7, <1>8, <1>9, SMT
<1>11. chain' \in [Key -> Seq(Entry)]
  BY <1>8, <1>10
<1>12. job' \in [Key -> Job \cup {NoJob}]
  BY <1>4, <1>9
<1>13. suspect' \subseteq Key /\ memory_dirty_' \in BOOLEAN
  BY <1>4, <1>5 DEF TypeOK
<1>14. TypeOK'
  BY <1>3, <1>4, <1>6, <1>11, <1>12, <1>13 DEF TypeOK, Handled
<1>15. ASSUME NEW q \in Key PROVE Path(q)' = Answered(k)[q] \o rows(q)
  <2> DEFINE f == IF q = k THEN Tail(Front(k)) ELSE Front(q)
  <2>1. Front(q)' = f
    BY DEF Handled
  <2>2. f \in Seq(Entry) /\ chain[q] \in Seq(Entry) /\ rows(q) \in Seq(Entry)
    <3>1. Front(q) \in Seq(Entry) /\ Front(k) \in Seq(Entry) /\ Front(k) # << >>
      BY <1>9 DEF PathsOK, Handled
    <3> QED BY <1>7, <1>9, <3>1, TailAt
  <2>3. Path(q)' = Front(q)' \o chain'[q] /\ Path(q) = Front(q) \o chain[q]
    BY <1>9, <1>14, PathsNext DEF PathsOK
  <2>4. Answered(k)[q] = f \o chain[q]
    BY <1>1, <2>3 DEF Answered
  <2> HIDE DEF f
  <2>5. (f \o chain[q]) \o rows(q) = f \o (chain[q] \o rows(q))
    BY <2>2, ConcatThree
  <2> QED BY <1>10, <2>1, <2>3, <2>4, <2>5
<1> QED BY <1>3, <1>4, <1>5, <1>10, <1>14, <1>15 DEF left, rows
(* The queues without the first request that is answered *)
LEMMA AnsweredRight ==
  ASSUME TypeOK, OneRequest, NEW k \in Key, Path(k) # << >>, NEW q \in Key
  PROVE  /\ Answered(k)[q] \in Seq(Entry) /\ Single(Answered(k)[q]) /\ Belongs(Answered(k)[q], job[q])
         /\ q = k /\ Ends(Head(Path(k))) => NoEnd(Answered(k)[q])
<1>1. /\ Path(q) \in Seq(Entry) /\ Path(k) \in Seq(Entry)
      /\ Single(Path(q)) /\ Belongs(Path(q), job[q])
  BY PathsNow DEF PathsOK, OneRequest
<1>2. CASE q = k
  <2>1. Answered(k)[q] = Tail(Path(q)) /\ Path(q) # << >>
    BY <1>2 DEF Answered
  <2>2. Tail(Path(q)) \in Seq(Entry)
    BY <1>1, <2>1, TailAt
  <2> QED BY <1>1, <1>2, <2>1, <2>2, TailEnds
<1>3. CASE q # k
  <2>1. Answered(k)[q] = Path(q)
    BY <1>3 DEF Answered
  <2> QED BY <1>1, <1>3, <2>1
<1> QED BY <1>2, <1>3

LEMMA HandledRight ==
  ASSUME BaseInv, UNCHANGED config, NEW k \in Key, NEW e, NEW res, Handled(k, e, res)
  PROVE  TypeOK' /\ OneRequest' /\ FlushCounted'
<1>1. TypeOK /\ OneRequest /\ FlushCounted /\ use_queue' = use_queue
  BY DEF BaseInv, RTypeOK, use_queue
<1>2. /\ Path(k) # << >> /\ e = Head(Path(k)) /\ Answered(k) \in [Key -> Seq(Entry)]
      /\ Cardinality(Spots(Answered(k))) \in Nat
      /\ current_pend_flush_request_ =
           Cardinality(Spots(Answered(k))) + IF e.kind = "flush" THEN 1 ELSE 0
  BY <1>1, HandledFirst
<1>3. \A q \in Key : /\ Answered(k)[q] \in Seq(Entry) /\ Single(Answered(k)[q])
                     /\ Belongs(Answered(k)[q], job[q])
                     /\ q = k /\ Ends(e) => NoEnd(Answered(k)[q])
  BY <1>1, <1>2, AnsweredRight
<1>4. \A q \in Key : /\ use_queue => ret'[q] = << >>
                     /\ job[q] # NoJob /\ job[q].code = "Delete" => job[q].val = NoRow
  BY <1>1 DEF Handled, OneRequest
<1>5. CASE e.kind = "client"
  <2>1. /\ TypeOK' /\ client_answer(k, res) /\ \A q \in Key : Path(q)' = Answered(k)[q]
    BY <1>1, <1>5, HandledClient
  <2>2. job' = [job EXCEPT ![k] = NoJob] /\ UNCHANGED current_pend_flush_request_
        /\ job \in [Key -> Job \cup {NoJob}]
    BY <1>1, <2>1 DEF client_answer, TypeOK
  <2>3. Ends(e)
    BY <1>5 DEF Ends
  <2>4. ASSUME NEW q \in Key PROVE Single(Path(q)') /\ Belongs(Path(q)', job'[q])
    <3>1. CASE q = k
      BY <1>3, <2>1, <2>3, <3>1, NobodyEnds
    <3>2. CASE q # k
      <4>1. job'[q] = job[q]
        BY <2>2, <3>2
      <4> QED BY <1>3, <2>1, <4>1
    <3> QED BY <3>1, <3>2
  <2>5. \A q \in Key : job'[q] # NoJob /\ job'[q].code = "Delete" => job'[q].val = NoRow
    BY <1>4, <2>2
  <2>6. OneRequest'
    BY <1>1, <1>4, <2>4, <2>5 DEF OneRequest
  <2>7. paths' = Answered(k)
    BY <2>1 DEF paths, Answered
  <2>8. FlushCounted'
    BY <1>2, <1>5, <2>1, <2>2, <2>7, PathsNext, SMT DEF PathsOK
  <2> QED BY <2>1, <2>6, <2>8
<1>6. CASE e.kind = "flush"
  <2>1. /\ TypeOK'
        /\ job' = IF e.wait THEN [job EXCEPT ![k] = NoJob] ELSE job
        /\ job \in [Key -> Job \cup {NoJob}]
    BY <1>1, <1>6, HandledFlush DEF TypeOK
  <2>2. PICK D \in SUBSET dirty_keys :
              /\ buffer_flush_data_timer(D, Cardinality(Spots(Answered(k))))
              /\ \A q \in Key : Path(q)' = Answered(k)[q] \o timer_rows(D)[q]
    BY <1>1, <1>6, HandledFlush
  <2>3. FlushCounted'
    BY <1>1, <1>2, <2>1, <2>2, TimerCounted
  <2>4. ASSUME NEW q \in Key PROVE Single(Path(q)') /\ Belongs(Path(q)', job'[q])
    <3> DEFINE s == Answered(k)[q]
               rows == timer_rows(D)[q]
    <3>1. s \in Seq(Entry) /\ Single(s) /\ Belongs(s, job[q]) /\ Path(q)' = s \o rows
      BY <1>3, <2>2
    <3>2. rows \in Seq(Entry) /\ NoEnd(rows) /\ Belongs(rows, job'[q])
      BY <1>1, TimerRows, NobodyEnds
    <3>3. Belongs(s, job'[q])
      <4>1. CASE q = k /\ e.wait
        <5>1. NoEnd(s)
          BY <1>3, <4>1 DEF Ends
        <5> QED BY <5>1, NobodyEnds
      <4>2. CASE ~(q = k /\ e.wait)
        <5>1. job'[q] = job[q]
          BY <2>1, <4>2
        <5> QED BY <3>1, <5>1
      <4> QED BY <4>1, <4>2
    <3> HIDE DEF s, rows
    <3> QED BY <3>1, <3>2, <3>3, ConcatEnds, SMT
  <2>5. \A q \in Key : job'[q] # NoJob /\ job'[q].code = "Delete" => job'[q].val = NoRow
    BY <1>4, <2>1
  <2>6. OneRequest'
    BY <1>1, <1>4, <2>4, <2>5 DEF OneRequest
  <2> QED BY <2>1, <2>3, <2>6
<1>7. e.kind \in {"client", "flush"}
  BY DEF Handled, Entry
<1> QED BY <1>5, <1>6, <1>7
-----------------------------------------------------------------------------
(* Evictions, the black list, late statements *)
LEMMA RestRight ==
  ASSUME BaseInv, UNCHANGED config,
         late_execute \/ \E k \in Key : purge_clean_node(k) \/ try_expired_blacklist(k)
  PROVE  /\ TypeOK' /\ OneRequest' /\ FlushCounted'
         /\ \A q \in Key : Way(q)' = Way(q)
         /\ UNCHANGED <<job, ret, memory_dirty_, current_pend_flush_request_, legal, suspect,
                        double_reply>>
<1>1. UNCHANGED <<job, chain, back, ret, memory_dirty_, current_pend_flush_request_, legal, suspect,
                  double_reply>>
  BY DEF late_execute, purge_clean_node, try_expired_blacklist
<1>2. \A q \in Key : Way(q)' = Way(q)
  BY <1>1 DEF Way
<1>3. \A q \in Key : Path(q)' = Path(q)
  BY <1>1, <1>2 DEF Path
<1>4. TypeOK
  BY DEF BaseInv, RTypeOK
<1>5. TypeOK'
  <2>1. ASSUME late_execute PROVE TypeOK'
    <3>1. PICK l \in late : /\ db' = [db EXCEPT ![l.key] = Execute(l.code, l.val, @)]
                            /\ late' = late \ {l} /\ UNCHANGED <<node, black_list_>>
      BY <2>1 DEF late_execute
    <3>2. l.key \in Key /\ l.code \in DbCodes /\ l.val \in Row /\ db \in [Key -> Row]
      BY <1>4 DEF TypeOK
    <3>3. Execute(l.code, l.val, db[l.key]) \in Row
      BY <3>2, StatementTypes
    <3>4. db' \in [Key -> Row]
      BY <3>1, <3>2, <3>3
    <3> QED BY <1>1, <1>4, <3>1, <3>4 DEF TypeOK
  <2>2. ASSUME NEW k \in Key, purge_clean_node(k) PROVE TypeOK'
    BY <1>1, <1>4, <2>2 DEF TypeOK, purge_clean_node
  <2>3. ASSUME NEW k \in Key, try_expired_blacklist(k) PROVE TypeOK'
    BY <1>1, <1>4, <2>3 DEF TypeOK, try_expired_blacklist
  <2> QED BY <2>1, <2>2, <2>3
<1>6. OneRequest' /\ FlushCounted'
  BY <1>1, <1>3, <1>5, SamePaths
<1> QED BY <1>1, <1>2, <1>5, <1>6

LEMMA DeliverRight ==
  ASSUME BaseInv, UNCHANGED config, chain_deliver \/ (\E k \in Key : tunnel_deliver(k))
  PROVE  TypeOK' /\ OneRequest' /\ FlushCounted'
<1>1. TypeOK
  BY DEF BaseInv, RTypeOK
<1>2. /\ TypeOK' /\ \A q \in Key : Path(q)' = Path(q)
      /\ UNCHANGED <<job, ret, current_pend_flush_request_>>
  BY <1>1, DeliverPaths
<1> QED BY <1>2, SamePaths

LEMMA HelperRight ==
  ASSUME BaseInv, UNCHANGED config, NEW k \in Key, helper_execute(k) \/ ret_deliver(k)
  PROVE  TypeOK' /\ OneRequest' /\ FlushCounted'
<1>1. TypeOK /\ OneRequest /\ FlushCounted /\ use_queue' = use_queue
  BY DEF BaseInv, RTypeOK, use_queue
<1>2. CASE helper_execute(k) /\ use_queue
  <2>1. PICK res \in Result : Handled(k, Head(back[k]), res)
    BY <1>1, <1>2, HelperHandled
  <2> QED BY <2>1, HandledRight
<1>3. CASE helper_execute(k) /\ ~use_queue
  <2>1. /\ TypeOK' /\ \A q \in Key : Path(q)' = Path(q)
        /\ UNCHANGED <<job, current_pend_flush_request_>>
    BY <1>1, <1>3, HelperAnswers
  <2>2. OneRequest'
    BY <1>1, <1>3, <2>1 DEF OneRequest
  <2>3. {{q} \X Flushes(Path(q)') : q \in Key} = {{q} \X Flushes(Path(q)) : q \in Key}
    BY <2>1
  <2>4. FlushCounted'
    BY <1>1, <2>1, <2>3 DEF FlushCounted
  <2> QED BY <2>1, <2>2, <2>4
<1>4. CASE ret_deliver(k)
  <2>1. Handled(k, Head(ret[k]).entry, Head(ret[k]).res)
    BY <1>1, <1>4, DeliverHandled
  <2> QED BY <2>1, HandledRight
<1> QED BY <1>2, <1>3, <1>4

(* One step of a running dtcd *)
LEMMA StepRight ==
  ASSUME BaseInv, Next
  PROVE  TypeOK' /\ OneRequest' /\ FlushCounted'
<1>1. UNCHANGED config /\ TypeOK
  BY DEF Next, BaseInv, RTypeOK
<1>2. ASSUME NEW k \in Key, job_ask_procedure(k) PROVE TypeOK' /\ OneRequest' /\ FlushCounted'
  BY <1>1, <1>2, AskType, AskRight
<1>3. ASSUME NEW k \in Key, helper_execute(k) \/ ret_deliver(k)
      PROVE  TypeOK' /\ OneRequest' /\ FlushCounted'
  BY <1>1, <1>3, HelperRight
<1>4. CASE chain_deliver \/ \E k \in Key : tunnel_deliver(k)
  BY <1>1, <1>4, DeliverRight
<1>5. CASE job_timer_procedure
  BY <1>1, <1>5, TimerPaths, TimerRight
<1>6. CASE late_execute \/ \E k \in Key : purge_clean_node(k) \/ try_expired_blacklist(k)
  BY <1>1, <1>6, RestRight
<1> QED BY <1>2, <1>3, <1>4, <1>5, <1>6 DEF Next
(* The next start: what was under way is gone. *)
LEMMA OpenPaths ==
  ASSUME TypeOK, OneRequest, open_init_buffer
  PROVE  /\ TypeOK' /\ \A q \in Key : job'[q] = NoJob /\ ret'[q] = << >> /\ Way(q)' = << >> /\ Path(q)' = << >>
         /\ current_pend_flush_request_' = 0 /\ black_list_' = {} /\ UNCHANGED double_reply
<1>1. PICK auto_delete \in AutoDelete : cache_open(auto_delete)
  BY DEF open_init_buffer
<1> DEFINE busy == {k \in Key : back[k] # << >>}
<1>2. PICK E \in SUBSET busy : \E L \in SUBSET (busy \ E) : forget(E, L)
  BY DEF open_init_buffer
<1>3. PICK L \in SUBSET (busy \ E) : forget(E, L)
  BY <1>2
<1>4. /\ job' = [k \in Key |-> NoJob] /\ chain' = [k \in Key |-> << >>]
      /\ back' = [k \in Key |-> << >>] /\ ret' = [k \in Key |-> << >>]
      /\ current_pend_flush_request_' = 0 /\ black_list_' = {}
  BY <1>3 DEF forget
<1>5. \A q \in Key : Way(q)' = << >>
  BY <1>4, SMT DEF Way
<1>6. \A q \in Key : Path(q)' = << >>
  <2>1. Entries(<< >>) = << >> /\ << >> \o << >> = << >>
    BY SMT DEF Entries
  <2>2. \A q \in Key : Path(q)' = Entries(<< >>) \o << >>
    BY <1>4, <1>5 DEF Path
  <2> QED BY <2>1, <2>2
<1>7. /\ << >> \in Seq(Entry) /\ << >> \in Seq(Answer)
  BY SMT
<1>8. /\ job' \in [Key -> Job \cup {NoJob}] /\ chain' \in [Key -> Seq(Entry)]
      /\ back' \in [Key -> Seq(Entry)] /\ ret' \in [Key -> Seq(Answer)]
  BY <1>4, <1>7
<1>9. node' \in [Key -> Node \cup {NoNode}]
  BY <1>1 DEF cache_open, TypeOK
<1>10. config' \in Config /\ memory_dirty_' \in BOOLEAN /\ UNCHANGED double_reply
  BY DEF open_init_buffer
<1>11. ASSUME NEW k \in busy
       PROVE  Pending(k) \in [key : Key, code : DbCodes, val : Row]
  <2>1. k \in Key /\ EntryCode(k, Head(back[k])) \in DbCodes /\ EntryVal(k, Head(back[k])) \in Row
    BY HeadOf
  <2> QED BY <2>1 DEF Pending
<1>12. late' \subseteq [key : Key, code : DbCodes, val : Row]
  <2>1. late' = late \cup {Pending(k) : k \in L}
    BY <1>3 DEF forget
  <2> QED BY <1>11, <2>1 DEF TypeOK
<1>13. db' \in [Key -> Row]
  <2>1. db' = [k \in Key |-> IF k \in E THEN Execute(Pending(k).code, Pending(k).val, db[k]) ELSE db[k]]
    BY <1>3 DEF forget
  <2>2. \A k \in Key : db[k] \in Row
    BY DEF TypeOK
  <2>3. ASSUME NEW k \in E PROVE Execute(Pending(k).code, Pending(k).val, db[k]) \in Row
    <3>1. Pending(k).code \in DbCodes /\ Pending(k).val \in Row /\ db[k] \in Row
      BY <1>11, <2>2
    <3> QED BY <3>1, StatementTypes
  <2> QED BY <2>1, <2>2, <2>3
<1>14. legal' \in [Key -> SUBSET Row]
  <2>1. legal' = [k \in Key |-> IF IsWrite(k) THEN Seen(k, job[k], Failed("unknown")) ELSE legal[k]]
    BY <1>3 DEF forget
  <2>2. \A k \in Key : legal[k] \in SUBSET Row
    BY DEF TypeOK
  <2>3. ASSUME NEW k \in Key, IsWrite(k) PROVE Seen(k, job[k], Failed("unknown")) \in SUBSET Row
    <3>1. job[k] \in Job /\ job[k].code \in DbCodes
      BY <2>3 DEF IsWrite, Writes, DbCodes, TypeOK
    <3>2. Failed("unknown") \in Result
      BY NodeTypes DEF Failed, Result
    <3> QED BY <3>1, <3>2, SeenRows
  <2> QED BY <2>1, <2>2, <2>3
<1>15. suspect' \subseteq Key
  BY <1>3 DEF forget, TypeOK
<1>16. TypeOK'
  BY <1>4, <1>8, <1>9, <1>10, <1>12, <1>13, <1>14, <1>15 DEF TypeOK
<1> QED BY <1>4, <1>5, <1>6, <1>10, <1>16

LEMMA OpenRight ==
  ASSUME BaseInv, open_init_buffer
  PROVE  BaseInv'
<1>1. TypeOK /\ OneRequest
  BY DEF BaseInv, RTypeOK
<1>2. /\ TypeOK' /\ \A q \in Key : job'[q] = NoJob /\ ret'[q] = << >> /\ Path(q)' = << >>
      /\ current_pend_flush_request_' = 0
  BY <1>1, OpenPaths
<1>3. OneRequest'
  BY <1>2, EmptyQueue DEF OneRequest
<1>4. FlushCounted'
  <2>1. \A q \in Key : {q} \X Flushes(Path(q)') = {}
    BY <1>2, EmptyQueue
  <2>2. UNION {{q} \X Flushes(Path(q)') : q \in Key} = {}
    BY <2>1
  <2> QED BY <1>2, <2>2, FS_EmptySet DEF FlushCounted
<1>5. /\ state # "up" /\ restarts' = restarts + 1 /\ state' = "up"
      /\ \E auto_delete \in AutoDelete : cache_open(auto_delete)
  BY DEF open_init_buffer
<1>6. /\ m_shmIntegrity' \in BOOLEAN /\ need_set_integrity' \in BOOLEAN /\ killed' \in BOOLEAN
      /\ ~m_shmIntegrity'
  BY <1>5, RestartAssumption DEF cache_open, BaseInv, RTypeOK
<1>7. restarts' \in 0 .. max_restart
  BY <1>5, RestartAssumption, SMT DEF BaseInv, RTypeOK
<1>8. RTypeOK'
  BY <1>2, <1>5, <1>6, <1>7 DEF RTypeOK
<1> QED BY <1>3, <1>4, <1>5, <1>8 DEF BaseInv
(* The end of dtcd leaves all this alone. *)
LEMMA SameRight ==
  ASSUME BaseInv, UNCHANGED vars
  PROVE  TypeOK' /\ OneRequest' /\ FlushCounted' /\ \A q \in Key : Way(q)' = Way(q) /\ Path(q)' = Path(q)
<1>1. UNCHANGED <<config, node, db, job, chain, back, ret, memory_dirty_,
                  current_pend_flush_request_, black_list_, late, legal, suspect, double_reply>>
  BY DEF vars
<1>2. \A q \in Key : Way(q)' = Way(q)
  BY <1>1 DEF Way
<1>3. \A q \in Key : Path(q)' = Path(q)
  BY <1>1, <1>2 DEF Path
<1>4. TypeOK'
  BY <1>1 DEF BaseInv, RTypeOK, TypeOK
<1> QED BY <1>1, <1>2, <1>3, <1>4, SamePaths

LEMMA BaseInit == RInit => BaseInv
<1> SUFFICES ASSUME RInit PROVE BaseInv
  BY SMT
<1>1. Init
  BY DEF RInit
<1>2. /\ << >> \in Seq(Entry) /\ << >> \in Seq(Answer)
  BY SMT
<1>3. /\ job \in [Key -> Job \cup {NoJob}] /\ chain \in [Key -> Seq(Entry)]
      /\ back \in [Key -> Seq(Entry)] /\ ret \in [Key -> Seq(Answer)]
      /\ node \in [Key -> Node \cup {NoNode}]
  BY <1>1, <1>2 DEF Init
<1>4. legal \in [Key -> SUBSET Row]
  BY <1>1 DEF Init
<1>5. TypeOK
  BY <1>1, <1>3, <1>4 DEF Init, TypeOK
<1>6. RTypeOK /\ state = "up"
  <2>1. restarts \in 0 .. max_restart
    BY RestartAssumption, SMT DEF RInit
  <2>2. /\ state = "up" /\ m_shmIntegrity = FALSE /\ need_set_integrity = TRUE /\ killed = FALSE
        /\ state \in {"up", "stopping", "killed"}
    BY DEF RInit
  <2> QED BY <1>5, <2>1, <2>2 DEF RTypeOK
<1>7. \A q \in Key : Way(q) = << >>
  BY <1>1, SMT DEF Init, Way
<1>8. \A q \in Key : Path(q) = << >>
  <2>1. Entries(<< >>) = << >> /\ << >> \o << >> = << >>
    BY SMT DEF Entries
  <2>2. \A q \in Key : Path(q) = Entries(<< >>) \o << >>
    BY <1>1, <1>7 DEF Init, Path
  <2> QED BY <2>1, <2>2
<1>9. OneRequest
  <2>1. \A q \in Key : job[q] = NoJob /\ ret[q] = << >>
    BY <1>1 DEF Init
  <2> QED BY <1>8, <2>1, EmptyQueue DEF OneRequest
<1>10. FlushCounted
  <2>1. \A q \in Key : {q} \X Flushes(Path(q)) = {}
    BY <1>8, EmptyQueue
  <2>2. UNION {{q} \X Flushes(Path(q)) : q \in Key} = {}
    BY <2>1
  <2>3. current_pend_flush_request_ = 0
    BY <1>1 DEF Init
  <2> QED BY <2>2, <2>3, FS_EmptySet DEF FlushCounted
<1> QED BY <1>6, <1>9, <1>10 DEF BaseInv

LEMMA BaseStep == BaseInv /\ [RNext]_allvars => BaseInv'
<1> SUFFICES ASSUME BaseInv, [RNext]_allvars PROVE BaseInv'
  OBVIOUS
<1>1. ASSUME UNCHANGED vars PROVE TypeOK' /\ OneRequest' /\ FlushCounted'
  BY <1>1, SameRight
<1>2. CASE state = "up" /\ Next /\ UNCHANGED process
  <2>1. TypeOK' /\ OneRequest' /\ FlushCounted'
    BY <1>2, StepRight
  <2> QED BY <1>2, <2>1 DEF BaseInv, RTypeOK, process
<1>3. CASE free_all_resource
  <2>1. TypeOK' /\ OneRequest' /\ FlushCounted'
    BY <1>1, <1>3 DEF free_all_resource
  <2>2. RTypeOK' /\ restarts' < max_restart
    BY <1>3, <2>1 DEF free_all_resource, BaseInv, RTypeOK
  <2> QED BY <2>1, <2>2 DEF BaseInv
<1>4. CASE datasource_thread
  <2>1. UNCHANGED <<config, process>> /\ \E k \in Key : tunnel_deliver(k) \/ helper_execute(k)
    BY <1>4 DEF datasource_thread
  <2>2. TypeOK' /\ OneRequest' /\ FlushCounted'
    BY <2>1, DeliverRight, HelperRight
  <2> QED BY <2>1, <2>2 DEF BaseInv, RTypeOK, process
<1>5. CASE kill
  <2>1. TypeOK' /\ OneRequest' /\ FlushCounted'
    BY <1>1, <1>5 DEF kill
  <2>2. RTypeOK' /\ restarts' < max_restart
    BY <1>5, <2>1 DEF kill, BaseInv, RTypeOK
  <2> QED BY <2>1, <2>2, SMT DEF BaseInv
<1>6. CASE open_init_buffer
  BY <1>6, OpenRight
<1>7. CASE UNCHANGED allvars
  <2>1. TypeOK' /\ OneRequest' /\ FlushCounted'
    BY <1>1, <1>7 DEF allvars
  <2> QED BY <1>7, <2>1 DEF BaseInv, RTypeOK, allvars, process
<1> QED BY <1>2, <1>3, <1>4, <1>5, <1>6, <1>7 DEF RNext

LEMMA BaseAlways == RSpec => []BaseInv
BY BaseInit, BaseStep, PTL DEF RSpec

(***************************************************************************)
(* The state has its type, through all requests, answers, flushes and      *)
(* restarts.                                                               *)
(***************************************************************************)
THEOREM Types == RSpec => []RTypeOK
<1>1. BaseInv => RTypeOK
  BY DEF BaseInv
<1> QED BY <1>1, BaseAlways, PTL

(***************************************************************************)
(* current_pend_flush_request_ counts the flush requests that are not      *)
(* answered, with clients waiting for them or not, in one thread or two,   *)
(* and after every start.                                                  *)
(***************************************************************************)
THEOREM FlushesAreCounted == RSpec => []FlushCounted
<1>1. BaseInv => FlushCounted
  BY DEF BaseInv
<1> QED BY <1>1, BaseAlways, PTL
====
