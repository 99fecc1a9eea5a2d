----------------------------- MODULE AgentProofs -----------------------------
(***************************************************************************)
(* Theorems about the agent for any number of clients, connections to dtcd *)
(* and messages.                                                           *)
(***************************************************************************)
EXTENDS Agent, FiniteSetTheorems, TLAPS

(* most leaves need no arithmetic *)
USE Zenon

(* A set of numbers has a least one. *)
LEMMA NatMin ==
  ASSUME NEW T, T \subseteq Nat, T # {}
  PROVE \E x \in T : \A y \in T : x <= y
<1> DEFINE R == OpToRel(<, Nat)
<1>1. \A x, y \in Nat : y < x => <<y, x>> \in R
  BY DEF OpToRel
<1>2. PICK x \in T : \A y \in T : ~ (<<y, x>> \in R)
  BY NatLessThanWellFounded, WFMin
<1> HIDE DEF R
<1>3. \A y \in T : y \in Nat /\ x \in Nat /\ ~ (y < x)
  BY <1>1, <1>2
<1>4. \A y \in T : x <= y
  BY <1>3, SMT
<1> QED BY <1>4

(* Induction: a set of numbers that has 0 and with a number the next has all. *)
LEMMA Induction ==
  ASSUME NEW T, 0 \in T, \A n \in Nat : n \in T => n + 1 \in T
  PROVE  \A n \in Nat : n \in T
<1> SUFFICES ASSUME NEW n \in Nat, n \notin T PROVE FALSE
  OBVIOUS
<1> DEFINE U == Nat \ T
<1>1. PICK m \in U : \A y \in U : m <= y
  BY NatMin
<1>2. m # 0 /\ m - 1 \in Nat /\ m - 1 \notin U
  BY <1>1, SMT
<1> QED BY <1>1, <1>2, SMT

(* The values of a recursion: N steps from a, the n-th of them step[n]. *)
LEMMA Iteration ==
  ASSUME NEW S, NEW a \in S, NEW N \in Nat, NEW step \in [1 .. N -> [S -> S]]
  PROVE  \E f \in [0 .. N -> S] : f[0] = a /\ \A n \in 1 .. N : f[n] = step[n][f[n - 1]]
<1> DEFINE Upto(m) == \E f \in [0 .. m -> S] : f[0] = a
      /\ \A n \in 1 .. m : f[n] = step[n][f[n - 1]]
           T == {m \in Nat : m <= N => Upto(m)}
<1>1. Upto(0)
  <2> DEFINE z == [n \in 0 .. 0 |-> a]
  <2>1. z \in [0 .. 0 -> S] /\ z[0] = a /\ 1 .. 0 = {}
    BY SMT
  <2> HIDE DEF z
  <2> QED BY <2>1
<1>2. ASSUME NEW m \in Nat, m + 1 <= N, Upto(m) PROVE Upto(m + 1)
  <2>1. PICK f \in [0 .. m -> S] : f[0] = a /\ \A n \in 1 .. m : f[n] = step[n][f[n - 1]]
    BY <1>2
  <2> DEFINE g == [n \in 0 .. m + 1 |-> IF n = m + 1 THEN step[m + 1][f[m]] ELSE f[n]]
  <2>2. m + 1 \in 1 .. N /\ f[m] \in S
    BY <1>2, SMT
  <2>3. g \in [0 .. m + 1 -> S]
    BY <2>2, SMT
  <2>4. g[0] = a
    BY <2>1, SMT
  <2>5. ASSUME NEW n \in 1 .. m + 1 PROVE g[n] = step[n][g[n - 1]]
    <3>1. CASE n = m + 1
      <4>1. n - 1 = m /\ m \in 0 .. m + 1 /\ n \in 0 .. m + 1 /\ m # m + 1
        BY <3>1, SMT
      <4>2. g[m] = f[m]
        BY <4>1
      <4> QED BY <3>1, <4>1, <4>2
    <3>2. CASE n # m + 1
      <4>1. n \in 1 .. m /\ n - 1 \in 0 .. m /\ n - 1 # m + 1
        BY <3>2, SMT
      <4> QED BY <4>1, <3>2, <2>1, SMT
    <3> QED BY <3>1, <3>2
  <2> HIDE DEF g
  <2> QED BY <2>3, <2>4, <2>5
<1> HIDE DEF Upto
<1>3. 0 \in T /\ \A m \in Nat : m \in T => m + 1 \in T
  BY <1>1, <1>2, SMT
<1>4. \A n \in Nat : n \in T
  BY <1>3, Induction
<1> QED BY <1>4, SMT DEF Upto

(* what Without keeps of the first n elements *)
Steps(queue, X, kept) ==
  /\ kept[0] = << >>
  /\ \A n \in 1 .. Len(queue) :
       kept[n] = IF queue[n] \in X THEN kept[n - 1] ELSE Append(kept[n - 1], queue[n])
  /\ Without(queue, X) = kept[Len(queue)]

(* Without by its steps *)
LEMMA WithoutSteps ==
  ASSUME NEW S, NEW queue \in Seq(S), NEW X
  PROVE  \E kept \in [0 .. Len(queue) -> Seq(S)] : Steps(queue, X, kept)
<1> DEFINE N == Len(queue)
           One(n, q) == IF queue[n] \in X THEN q ELSE Append(q, queue[n])
           step == [n \in 1 .. N |-> [q \in Seq(S) |-> One(n, q)]]
           Def(g) == [n \in 0 .. N |-> IF n = 0 THEN << >> ELSE One(n, g[n - 1])]
           kept == CHOOSE g : g = Def(g)
<1>1. N \in Nat /\ << >> \in Seq(S) /\ \A n \in 1 .. N : queue[n] \in S
  BY SMT
<1>2. \A n \in 1 .. N : \A q \in Seq(S) : One(n, q) \in Seq(S)
  BY <1>1, SMT
<1>3. Without(queue, X) = kept[N]
  BY DEF Without
<1> HIDE DEF N, One
<1>4. step \in [1 .. N -> [Seq(S) -> Seq(S)]]
  BY <1>2
<1>5. \A n \in 1 .. N : \A q \in Seq(S) : step[n][q] = One(n, q)
  OBVIOUS
<1> HIDE DEF step
<1>6. PICK f \in [0 .. N -> Seq(S)] : f[0] = << >> /\ \A n \in 1 .. N : f[n] = step[n][f[n - 1]]
  <2> DEFINE SS == Seq(S)
             a == << >>
  <2>1. a \in SS /\ N \in Nat /\ step \in [1 .. N -> [SS -> SS]]
    BY <1>1, <1>4
  <2> HIDE DEF SS, a
  <2>2. \E f \in [0 .. N -> SS] : f[0] = a /\ \A n \in 1 .. N : f[n] = step[n][f[n - 1]]
    BY <2>1, Iteration, SMT
  <2> QED BY <2>2 DEF SS, a
<1>7. \A n \in 0 .. N : n # 0 => n \in 1 .. N /\ n - 1 \in 0 .. N
  BY <1>1, SMT
<1>8. f = Def(f)
  <2>1. \A n \in 0 .. N : f[n] = IF n = 0 THEN << >> ELSE One(n, f[n - 1])
    BY <1>5, <1>6, <1>7
  <2> QED BY <2>1
<1>9. kept = Def(kept)
  BY <1>8
<1> HIDE DEF kept
<1>10. \A n \in 0 .. N : kept[n] = IF n = 0 THEN << >> ELSE One(n, kept[n - 1])
  BY <1>9
<1>11. kept = [n \in 0 .. N |-> kept[n]]
  BY <1>9
<1> HIDE DEF Def
<1> DEFINE T == {n \in Nat : n <= N => kept[n] \in Seq(S)}
<1>12. \A n \in Nat : n \in T
  <2>1. 0 \in T
    <3>1. 0 \in 0 .. N
      BY <1>1, SMT
    <3>2. kept[0] = << >>
      BY <1>10, <3>1
    <3> QED BY <1>1, <3>2
  <2>2. ASSUME NEW n \in Nat, n \in T PROVE n + 1 \in T
    <3> SUFFICES ASSUME n + 1 <= N PROVE kept[n + 1] \in Seq(S)
      BY SMT
    <3>1. n + 1 \in 0 .. N /\ n + 1 # 0 /\ (n + 1) - 1 = n /\ n <= N /\ n + 1 \in 1 .. N
      BY <1>1, SMT
    <3>2. kept[n] \in Seq(S)
      BY <2>2, <3>1
    <3>3. kept[n + 1] = One(n + 1, kept[n])
      BY <1>10, <3>1
    <3> QED BY <1>2, <3>1, <3>2, <3>3
  <2> HIDE DEF T
  <2> QED BY <2>1, <2>2, Induction
<1>13. \A n \in 0 .. N : kept[n] \in Seq(S)
  BY <1>1, <1>12, SMT
<1>14. kept \in [0 .. N -> Seq(S)]
  BY <1>11, <1>13
<1>15. kept[0] = << >> /\ \A n \in 1 .. N : kept[n] = One(n, kept[n - 1])
  BY <1>1, <1>10, SMT
<1>16. Steps(queue, X, kept)
  BY <1>3, <1>15 DEF N, One, Steps
<1> QED BY <1>14, <1>16 DEF N

-----------------------------------------------------------------------------
(* What is in a queue after the operations of the models *)
LEMMA InQueue ==
  ASSUME NEW S, NEW s \in Seq(S)
  PROVE  /\ Range(s) = {s[i] : i \in 1 .. Len(s)} /\ Range(s) \subseteq S
         /\ Range(s) = {} <=> s = << >>
         /\ \A x : x \in Range(s) <=> \E i \in 1 .. Len(s) : s[i] = x
         /\ DOMAIN s = 1 .. Len(s) /\ Len(s) \in Nat
<1>1. DOMAIN s = 1 .. Len(s) /\ Len(s) \in Nat /\ \A i \in 1 .. Len(s) : s[i] \in S
  BY SMT
<1>2. s = << >> <=> Len(s) = 0
  BY SMT
<1>3. Len(s) # 0 => 1 \in 1 .. Len(s)
  BY <1>1, SMT
<1>4. Len(s) = 0 => 1 .. Len(s) = {}
  BY SMT
<1> QED BY <1>1, <1>2, <1>3, <1>4 DEF Range

(* What is in a queue after one more came. *)
LEMMA InAppend ==
  ASSUME NEW S, NEW s \in Seq(S), NEW x \in S
  PROVE  /\ Append(s, x) \in Seq(S)
         /\ Range(Append(s, x)) = Range(s) \cup {x}
         /\ IsInjective(s) /\ x \notin Range(s) => IsInjective(Append(s, x))
<1> DEFINE t == Append(s, x)
<1>1. /\ t \in Seq(S) /\ Len(t) = Len(s) + 1 /\ Len(s) \in Nat
      /\ \A i \in 1 .. Len(s) : t[i] = s[i]
      /\ t[Len(s) + 1] = x
      /\ DOMAIN t = 1 .. Len(s) + 1 /\ DOMAIN s = 1 .. Len(s)
  BY SMT
<1> HIDE DEF t
<1>2. \A i \in 1 .. Len(s) + 1 : i \in 1 .. Len(s) \/ i = Len(s) + 1
  BY <1>1, SMT
<1>3. Range(t) = Range(s) \cup {x}
  BY <1>1, <1>2, SMT DEF Range
<1>4. IsInjective(s) /\ x \notin Range(s) => IsInjective(t)
  BY <1>1, <1>2, SMT DEF Range, IsInjective
<1> QED BY <1>1, <1>3, <1>4 DEF t

(* What is in two queues, one after the other. *)
LEMMA InConcat ==
  ASSUME NEW S, NEW s \in Seq(S), NEW t \in Seq(S)
  PROVE  /\ s \o t \in Seq(S)
         /\ Range(s \o t) = Range(s) \cup Range(t)
         /\ IsInjective(s) /\ IsInjective(t) /\ Range(s) \cap Range(t) = {} => IsInjective(s \o t)
<1> DEFINE u == s \o t
           M == Len(s)
           N == Len(t)
<1>1. u \in Seq(S) /\ DOMAIN u = 1 .. M + N /\ DOMAIN s = 1 .. M /\ DOMAIN t = 1 .. N
  BY SMT
<1>2. (\A i \in 1 .. M : u[i] = s[i]) /\ (\A i \in 1 .. N : u[M + i] = t[i])
  BY SMT
<1>3. M \in Nat /\ N \in Nat
  BY SMT
<1> HIDE DEF u, M, N
<1>4. \A i \in 1 .. M + N : i \in 1 .. M \/ \E j \in 1 .. N : i = M + j
  <2> SUFFICES ASSUME NEW i \in 1 .. M + N, i \notin 1 .. M PROVE \E j \in 1 .. N : i = M + j
    OBVIOUS
  <2>1. i - M \in 1 .. N /\ i = M + (i - M)
    BY <1>3, SMT
  <2> QED BY <2>1
<1>5. \A i \in 1 .. N : M + i \in 1 .. M + N
  BY <1>3, SMT
<1>6. \A i \in 1 .. M : i \in 1 .. M + N
  BY <1>3, SMT
<1>7. Range(u) = Range(s) \cup Range(t)
  <2>1. ASSUME NEW i \in DOMAIN u PROVE u[i] \in Range(s) \cup Range(t)
    <3>1. CASE i \in 1 .. M
      BY <3>1, <1>1, <1>2 DEF Range
    <3>2. CASE \E j \in 1 .. N : i = M + j
      BY <3>2, <1>1, <1>2 DEF Range
    <3> QED BY <3>1, <3>2, <1>1, <1>4
  <2>2. \A i \in DOMAIN s : s[i] \in Range(u)
    BY <1>1, <1>2, <1>6 DEF Range
  <2>3. \A i \in DOMAIN t : t[i] \in Range(u)
    BY <1>1, <1>2, <1>5 DEF Range
  <2> QED BY <2>1, <2>2, <2>3 DEF Range
<1>8. ASSUME IsInjective(s), IsInjective(t), Range(s) \cap Range(t) = {} PROVE IsInjective(u)
  <2> SUFFICES ASSUME NEW a \in DOMAIN u, NEW b \in DOMAIN u, u[a] = u[b] PROVE a = b
    BY DEF IsInjective
  <2>1. CASE a \in 1 .. M /\ b \in 1 .. M
    BY <2>1, <1>1, <1>2, <1>8 DEF IsInjective
  <2>2. ASSUME NEW i \in 1 .. N, NEW j \in 1 .. N, a = M + i, b = M + j PROVE a = b
    <3>1. t[i] = t[j]
      BY <2>2, <1>2
    <3>2. i = j
      BY <3>1, <1>1, <1>8 DEF IsInjective
    <3> QED BY <3>2, <2>2
  <2>3. ASSUME NEW x \in 1 .. M, NEW j \in 1 .. N, s[x] = t[j] PROVE FALSE
    <3>1. s[x] \in Range(s) /\ t[j] \in Range(t)
      BY <1>1 DEF Range
    <3> QED BY <3>1, <2>3, <1>8
  <2>4. (a \in 1 .. M \/ \E i \in 1 .. N : a = M + i)
          /\ (b \in 1 .. M \/ \E i \in 1 .. N : b = M + i)
    BY <1>1, <1>4
  <2> QED BY <2>1, <2>2, <2>3, <2>4, <1>2, SMT
<1> QED BY <1>1, <1>7, <1>8 DEF u

(* The first k of a queue and the others *)
LEMMA InParts ==
  ASSUME NEW S, NEW s \in Seq(S), NEW k \in 0 .. Len(s)
  PROVE  LET front == SubSeq(s, 1, k)
             rest == SubSeq(s, k + 1, Len(s))
         IN /\ front \in Seq(S) /\ rest \in Seq(S)
            /\ Range(s) = Range(front) \cup Range(rest)
            /\ IsInjective(s) => IsInjective(rest) /\ Range(front) \cap Range(rest) = {}
            /\ k = Len(s) => rest = << >>
<1> DEFINE front == SubSeq(s, 1, k)
           rest == SubSeq(s, k + 1, Len(s))
           M == Len(s) - k
<1>1. front \in Seq(S) /\ rest \in Seq(S) /\ (k = Len(s) => rest = << >>)
  BY SMT
<1>2. DOMAIN front = 1 .. k /\ DOMAIN rest = 1 .. M /\ DOMAIN s = 1 .. k + M
  BY SMT
<1>3. (\A i \in 1 .. k : front[i] = s[i]) /\ (\A i \in 1 .. M : rest[i] = s[k + i])
  BY SMT
<1>4. M \in Nat /\ k \in Nat
  BY SMT
<1> HIDE DEF front, rest, M
<1>5. \A i \in 1 .. k + M : i \in 1 .. k \/ \E j \in 1 .. M : i = k + j
  <2> SUFFICES ASSUME NEW i \in 1 .. k + M, i \notin 1 .. k PROVE \E j \in 1 .. M : i = k + j
    OBVIOUS
  <2>1. i - k \in 1 .. M /\ i = k + (i - k)
    BY <1>4, SMT
  <2> QED BY <2>1
<1>6. \A i \in 1 .. M : k + i \in 1 .. k + M
  BY <1>4, SMT
<1>7. \A i \in 1 .. k : i \in 1 .. k + M
  BY <1>4, SMT
<1>8. \A i \in 1 .. k, j \in 1 .. M : i # k + j
  BY <1>4, SMT
<1>9. \A i, j \in 1 .. M : k + i = k + j => i = j
  BY <1>4, SMT
<1>10. Range(s) = Range(front) \cup Range(rest)
  <2>1. ASSUME NEW i \in DOMAIN s PROVE s[i] \in Range(front) \cup Range(rest)
    <3>1. CASE i \in 1 .. k
      BY <3>1, <1>2, <1>3 DEF Range
    <3>2. CASE \E j \in 1 .. M : i = k + j
      BY <3>2, <1>2, <1>3 DEF Range
    <3> QED BY <3>1, <3>2, <1>2, <1>5
  <2>2. \A i \in DOMAIN front : front[i] \in Range(s)
    BY <1>2, <1>3, <1>7 DEF Range
  <2>3. \A i \in DOMAIN rest : rest[i] \in Range(s)
    BY <1>2, <1>3, <1>6 DEF Range
  <2> QED BY <2>1, <2>2, <2>3 DEF Range
<1>11. ASSUME IsInjective(s) PROVE IsInjective(rest)
  <2> SUFFICES ASSUME NEW a \in 1 .. M, NEW b \in 1 .. M, rest[a] = rest[b] PROVE a = b
    BY <1>2 DEF IsInjective
  <2>1. s[k + a] = s[k + b]
    BY <1>3
  <2> QED BY <2>1, <1>2, <1>6, <1>9, <1>11 DEF IsInjective
<1>12. ASSUME IsInjective(s), NEW x \in Range(front), x \in Range(rest) PROVE FALSE
  <2>1. PICK a \in 1 .. k : x = s[a]
    BY <1>12, <1>2, <1>3 DEF Range
  <2>2. PICK b \in 1 .. M : x = s[k + b]
    BY <1>12, <1>2, <1>3 DEF Range
  <2> QED BY <2>1, <2>2, <1>2, <1>6, <1>7, <1>8, <1>12 DEF IsInjective
<1> QED BY <1>1, <1>10, <1>11, <1>12 DEF front, rest

(* What is in a queue without its first. *)
LEMMA InTail ==
  ASSUME NEW S, NEW s \in Seq(S), s # << >>
  PROVE  /\ Head(s) \in S /\ Tail(s) \in Seq(S) /\ Head(s) = s[1]
         /\ Range(s) = {Head(s)} \cup Range(Tail(s))
         /\ Len(Tail(s)) = Len(s) - 1 /\ Len(s) \in Nat
<1> DEFINE M == Len(s) - 1
           t == Tail(s)
<1>1. Head(s) \in S /\ Tail(s) \in Seq(S) /\ Len(Tail(s)) = Len(s) - 1 /\ Len(s) \in Nat
  BY SMT
<1>2. DOMAIN s = 1 .. M + 1 /\ DOMAIN t = 1 .. M /\ M \in Nat
  BY SMT
<1>3. Head(s) = s[1] /\ \A i \in 1 .. M : t[i] = s[i + 1]
  BY SMT
<1> HIDE DEF M, t
<1>4. \A i \in 1 .. M + 1 : i = 1 \/ \E j \in 1 .. M : i = j + 1
  <2> SUFFICES ASSUME NEW i \in 1 .. M + 1, i # 1 PROVE \E j \in 1 .. M : i = j + 1
    OBVIOUS
  <2>1. i - 1 \in 1 .. M /\ i = (i - 1) + 1
    BY <1>2, SMT
  <2> QED BY <2>1
<1>5. 1 \in 1 .. M + 1 /\ \A i \in 1 .. M : i + 1 \in 1 .. M + 1
  BY <1>2, SMT
<1>6. ASSUME NEW i \in DOMAIN s PROVE s[i] \in {Head(s)} \cup Range(t)
  <2>1. CASE i = 1
    BY <2>1, <1>3
  <2>2. CASE \E j \in 1 .. M : i = j + 1
    <3>1. PICK j \in 1 .. M : i = j + 1
      BY <2>2
    <3>2. s[i] = t[j] /\ j \in DOMAIN t
      BY <3>1, <1>2, <1>3
    <3> QED BY <3>2 DEF Range
  <2> QED BY <2>1, <2>2, <1>2, <1>4
<1>7. \A i \in DOMAIN t : t[i] \in Range(s)
  BY <1>2, <1>3, <1>5 DEF Range
<1>8. Head(s) \in Range(s)
  BY <1>2, <1>3, <1>5 DEF Range
<1>9. Range(s) = {Head(s)} \cup Range(t)
  BY <1>6, <1>7, <1>8 DEF Range
<1> QED BY <1>1, <1>3, <1>9 DEF t

(* Without takes out exactly the elements of X. *)
LEMMA InWithout ==
  ASSUME NEW S, NEW queue \in Seq(S), NEW X
  PROVE  /\ Without(queue, X) \in Seq(S)
         /\ Range(Without(queue, X)) = Range(queue) \ X
         /\ IsInjective(queue) => IsInjective(Without(queue, X))
<1> DEFINE N == Len(queue)
           First(n) == {queue[i] : i \in 1 .. n}
<1>1. N \in Nat /\ \A n \in 1 .. N : queue[n] \in S
  BY SMT
<1>20. PICK kept \in [0 .. Len(queue) -> Seq(S)] : Steps(queue, X, kept)
  BY WithoutSteps
<1>2. /\ kept \in [0 .. N -> Seq(S)] /\ kept[0] = << >>
      /\ \A n \in 1 .. N :
           kept[n] = IF queue[n] \in X THEN kept[n - 1] ELSE Append(kept[n - 1], queue[n])
      /\ Without(queue, X) = kept[N]
  BY <1>20 DEF Steps
<1>3. Range(queue) = First(N) /\ DOMAIN queue = 1 .. N
  BY InQueue
<1> HIDE DEF N
<1> DEFINE Good(n) == /\ Range(kept[n]) = First(n) \ X
                      /\ IsInjective(queue) => IsInjective(kept[n])
           T == {n \in Nat : n <= N => Good(n)}
<1>4. Good(0)
  <2>1. First(0) = {}
    BY SMT
  <2>2. Range(<< >>) = {} /\ IsInjective(<< >>)
    BY SMT DEF Range, IsInjective
  <2> QED BY <1>2, <2>1, <2>2
<1>5. ASSUME NEW n \in Nat, n + 1 <= N, Good(n) PROVE Good(n + 1)
  <2>1. n + 1 \in 1 .. N /\ (n + 1) - 1 = n /\ kept[n] \in Seq(S) /\ queue[n + 1] \in S
    BY <1>1, <1>5, SMT
  <2>2. First(n + 1) = First(n) \cup {queue[n + 1]}
    BY SMT
  <2>3. ASSUME IsInjective(queue) PROVE queue[n + 1] \notin First(n)
    <3>1. \A i \in 1 .. n : i \in 1 .. N /\ i # n + 1
      BY <1>1, <2>1, SMT
    <3> QED BY <1>3, <2>1, <2>3, <3>1 DEF IsInjective
  <2>4. CASE queue[n + 1] \in X
    <3>1. kept[n + 1] = kept[n]
      BY <1>2, <2>1, <2>4
    <3> HIDE DEF First
    <3> QED BY <3>1, <2>2, <2>4, <1>5
  <2>5. CASE queue[n + 1] \notin X
    <3>1. kept[n + 1] = Append(kept[n], queue[n + 1])
      BY <1>2, <2>1, <2>5
    <3> HIDE DEF First
    <3>2. Range(kept[n + 1]) = Range(kept[n]) \cup {queue[n + 1]}
      BY <3>1, <2>1, InAppend, SMT
    <3>3. IsInjective(queue) => IsInjective(kept[n + 1])
      BY <3>1, <2>1, <2>3, <1>5, InAppend, SMT
    <3> QED BY <3>2, <3>3, <2>2, <2>5, <1>5
  <2> QED BY <2>4, <2>5
<1> HIDE DEF Good
<1>6. \A n \in Nat : n \in T
  <2>1. 0 \in T
    BY <1>4
  <2>2. \A n \in Nat : n \in T => n + 1 \in T
    BY <1>1, <1>5, SMT
  <2> HIDE DEF T
  <2> QED BY <2>1, <2>2, Induction
<1>7. Good(N)
  BY <1>1, <1>6, SMT
<1>8. kept[N] \in Seq(S)
  BY <1>1, <1>2, SMT
<1> QED BY <1>2, <1>3, <1>7, <1>8 DEF Good

-----------------------------------------------------------------------------
(* what is in the queues of a connection and has a timeout *)
In(c) == Range(cli_in[c])
Out(c) == Range(cli_out[c])
Req(s) == Range(sev_in[s])
With(s) == Req(s) \cup tree[s]
Timers == Range(tmo)

(* The flags of a message *)
Flags(i) ==
  /\ msg[i].live => i <= msg_id /\ msg[i].owner \in Client
  /\ ~msg[i].live => msg[i] = NoMsg
  /\ msg[i].error => msg[i].done
  /\ msg[i].done => msg[i].live /\ ~msg[i].swallow
  /\ msg[i].swallow => msg[i].live

(* The place of a message, container by container *)
AtClient(i) ==
  \A c \in Client :
    /\ i \in In(c) <=> msg[i].live /\ ~msg[i].done /\ ~msg[i].swallow /\ c = msg[i].owner
    /\ i \in Out(c) <=> msg[i].done /\ c = msg[i].owner

AtServer(i) ==
  /\ \A s \in Server : i \in With(s) => msg[i].live /\ ~msg[i].done /\ link[s] # "closed"
  /\ \A s \in Server : i \notin Req(s) \cap tree[s]
  /\ \A s, t \in Server : i \in With(s) /\ i \in With(t) => s = t
  /\ msg[i].live /\ ~msg[i].done => \E s \in Server : i \in With(s)

Timed(i) ==
  /\ msg[i].live /\ ~msg[i].done /\ server_timeout > 0 => i \in Timers
  /\ i \in Timers => msg[i].live

Reachable(i) == msg[i].live /\ ~msg[i].swallow => Open(msg[i].owner)

Where(i) == Flags(i) /\ AtClient(i) /\ AtServer(i) /\ Timed(i) /\ Reachable(i)

(* No message is twice in a queue from which the first ones leave. *)
NoDuplicates ==
  /\ \A c \in Client : IsInjective(cli_out[c])
  /\ \A s \in Server : IsInjective(sev_in[s])

(* What is in the pool of server connections is open. *)
PoolOpen == \A s \in Range(s_conn_q) : link[s] # "closed"

(* A request in a queue of its client is the one the client waits for. *)
Awaited ==
  \A c \in Client : \A i \in Msg :
    i \in In(c) \cup Out(c) /\ msg[i].admin = "NOP" => waiting[c] = i

PlaceInv ==
  /\ TypeOK
  /\ \A i \in Msg : Where(i)
  /\ NoDuplicates
  /\ PoolOpen
  /\ Awaited
  /\ OwnAnswer
-----------------------------------------------------------------------------
(* The place of every message, container by container, is that of MessageInPlace. *)
LEMMA PlaceOfAll ==
  ASSUME PlaceInv PROVE MessageInPlace
<1> SUFFICES ASSUME NEW i \in Msg PROVE InPlace(i)
  BY DEF MessageInPlace
<1>1. Where(i)
  BY DEF PlaceInv
<1>2. /\ Asked(i) = {c \in Client : i \in In(c)} /\ Answered(i) = {c \in Client : i \in Out(c)}
      /\ Queued(i) = {s \in Server : i \in Req(s)}
  BY DEF Asked, Answered, Queued, In, Out, Req
<1>3. Queued(i) \cup Sent(i) = {s \in Server : i \in With(s)} /\ Queued(i) \cap Sent(i) = {}
  BY <1>1, <1>2 DEF Sent, With, Where, AtServer
<1>4. CASE ~msg[i].live
  <2>1. ~msg[i].done /\ ~msg[i].swallow
    BY <1>4, <1>1 DEF Where, Flags
  <2>2. Asked(i) = {} /\ Answered(i) = {}
    BY <1>4, <2>1, <1>1, <1>2 DEF Where, AtClient
  <2>3. Queued(i) = {} /\ Sent(i) = {}
    BY <1>4, <1>1, <1>3 DEF Where, AtServer
  <2> QED BY <1>4, <2>2, <2>3, <1>1 DEF InPlace, Where, Timed, Timers
<1>5. CASE msg[i].live /\ msg[i].done
  <2>1. msg[i].owner \in Client /\ ~msg[i].swallow /\ Open(msg[i].owner)
    BY <1>5, <1>1 DEF Where, Flags, Reachable
  <2>2. Asked(i) = {} /\ Answered(i) = {msg[i].owner}
    BY <1>5, <2>1, <1>1, <1>2 DEF Where, AtClient
  <2>3. Queued(i) = {} /\ Sent(i) = {}
    BY <1>5, <1>1, <1>3 DEF Where, AtServer
  <2> QED BY <1>5, <2>1, <2>2, <2>3 DEF InPlace
<1>6. CASE msg[i].live /\ ~msg[i].done
  <2>1. msg[i].owner \in Client /\ (msg[i].swallow \/ Open(msg[i].owner))
    BY <1>6, <1>1 DEF Where, Flags, Reachable
  <2>2. Asked(i) = (IF msg[i].swallow THEN {} ELSE {msg[i].owner}) /\ Answered(i) = {}
    BY <1>6, <2>1, <1>1, <1>2 DEF Where, AtClient
  <2>3. \E s \in Server : Queued(i) \cup Sent(i) = {s} /\ link[s] # "closed"
    <3>1. PICK s \in Server : i \in With(s)
      BY <1>6, <1>1 DEF Where, AtServer
    <3>2. Queued(i) \cup Sent(i) = {s} /\ link[s] # "closed"
      BY <3>1, <1>1, <1>3 DEF Where, AtServer
    <3> QED BY <3>2
  <2>4. server_timeout > 0 => i \in Range(tmo)
    BY <1>6, <1>1 DEF Where, Timed, Timers
  <2> QED BY <1>6, <2>1, <2>2, <2>3, <2>4, <1>3 DEF InPlace
<1> QED BY <1>4, <1>5, <1>6
-----------------------------------------------------------------------------
(* Message j stays in its containers, with its flags but for sending. *)
SameQueues(j) ==
  \A c \in Client : (j \in In(c)' <=> j \in In(c)) /\ (j \in Out(c)' <=> j \in Out(c))

SameServers(j) ==
  \A s \in Server : (j \in Req(s)' <=> j \in Req(s)) /\ (j \in tree'[s] <=> j \in tree[s])

SameFlags(j) ==
  \/ msg'[j] = msg[j]
  \/ msg[j].live /\ \E b \in BOOLEAN : msg'[j] = [msg[j] EXCEPT !.sending = b]

Untouched(j) == SameQueues(j) /\ SameServers(j) /\ (j \in Timers' <=> j \in Timers) /\ SameFlags(j)

(* The connections message j needs are open. *)
KeepsServer(j) == \A s \in Server : j \in With(s) => link'[s] # "closed"
KeepsOpen(j) == KeepsServer(j) /\ (msg[j].live /\ ~msg[j].swallow => stage'[msg[j].owner] # "closed")

(* A message that no step touches has its place still, as long as its connections are open. *)
LEMMA WhereUntouched ==
  ASSUME NEW j \in Msg, Where(j), Untouched(j), KeepsOpen(j), msg \in [Msg -> Message],
         msg_id \in Nat, msg_id' \in Nat, msg_id <= msg_id'
  PROVE  Where(j)'
<1>1. j \in Nat /\ Flags(j)
  BY SMT DEF Msg, Where
<1> DEFINE Same == /\ msg'[j].live = msg[j].live /\ msg'[j].done = msg[j].done
                   /\ msg'[j].error = msg[j].error /\ msg'[j].swallow = msg[j].swallow
                   /\ msg'[j].owner = msg[j].owner /\ (~msg[j].live => msg'[j] = msg[j])
<1>2. Same
  <2>1. CASE msg'[j] = msg[j]
    BY <2>1
  <2>2. ASSUME msg[j].live, NEW b \in BOOLEAN, msg'[j] = [msg[j] EXCEPT !.sending = b] PROVE Same
    BY <2>2, ZenonT(30) DEF Message
  <2> QED BY <2>1, <2>2 DEF Untouched, SameFlags
<1>3. Flags(j)'
  BY <1>1, <1>2, SMT DEF Flags
<1>4. AtClient(j)'
  BY <1>2, SMT DEF Where, AtClient, Untouched, SameQueues
<1>5. \A s \in Server : j \in With(s)' <=> j \in With(s)
  BY DEF Untouched, SameServers, With
<1>6. AtServer(j)'
  BY <1>2, <1>5 DEF Where, AtServer, Untouched, SameServers, KeepsOpen, KeepsServer
<1>7. Timed(j)'
  BY <1>2 DEF Where, Timed, Untouched
<1>8. Reachable(j)'
  BY <1>2 DEF Reachable, KeepsOpen, Open
<1> QED BY <1>3, <1>4, <1>6, <1>7, <1>8 DEF Where

(* What is open stays open. *)
StaysOpen ==
  /\ \A c \in Client : Open(c) => Open(c)'
  /\ \A s \in Server : link[s] # "closed" => link'[s] # "closed"

(* The same when no connection closes. *)
LEMMA WhereStays ==
  ASSUME NEW j \in Msg, Where(j), Untouched(j), StaysOpen, msg \in [Msg -> Message],
         msg_id \in Nat, msg_id' \in Nat, msg_id <= msg_id'
  PROVE  Where(j)'
<1>1. KeepsOpen(j)
  BY DEF KeepsOpen, KeepsServer, StaysOpen, Where, Flags, AtServer, Reachable, Open
<1> QED BY <1>1, WhereUntouched

(* Message j is given back and is in no container. *)
GivenBack(j) ==
  /\ msg'[j] = NoMsg
  /\ \A c \in Client : j \notin In(c)' /\ j \notin Out(c)'
  /\ \A s \in Server : j \notin Req(s)' /\ j \notin tree'[s]
  /\ j \notin Timers'

(* A message that was given back has its place: none. *)
LEMMA WhereGivenBack ==
  ASSUME NEW j \in Msg, GivenBack(j) PROVE Where(j)'
<1>1. ~msg'[j].live /\ ~msg'[j].done /\ ~msg'[j].swallow /\ ~msg'[j].error
  BY SMT DEF GivenBack, NoMsg
<1>2. Flags(j)'
  BY <1>1 DEF Flags, GivenBack
<1>3. AtClient(j)'
  BY <1>1 DEF AtClient, GivenBack
<1>4. \A s \in Server : j \notin With(s)'
  BY DEF GivenBack, With
<1>5. AtServer(j)'
  BY <1>1, <1>4 DEF AtServer, GivenBack
<1>6. Timed(j)' /\ Reachable(j)'
  BY <1>1 DEF Timed, Reachable, GivenBack
<1> QED BY <1>2, <1>3, <1>5, <1>6 DEF Where

(* Message j has no answer and its client no longer waits for one. *)
Swallowed(j) ==
  /\ msg[j].live /\ ~msg[j].done
  /\ msg'[j] = [msg[j] EXCEPT !.swallow = TRUE]
  /\ \A c \in Client : j \notin In(c)' /\ j \notin Out(c)'
  /\ SameServers(j) /\ KeepsServer(j)
  /\ server_timeout > 0 => j \in Timers'

(* A message that its client gave up has its place. *)
LEMMA WhereSwallowed ==
  ASSUME NEW j \in Msg, Where(j), Swallowed(j), msg \in [Msg -> Message], msg_id' = msg_id
  PROVE  Where(j)'
<1>1. /\ msg'[j].live = msg[j].live /\ msg'[j].done = msg[j].done /\ msg'[j].error = msg[j].error
      /\ msg'[j].swallow = TRUE /\ msg'[j].owner = msg[j].owner
  BY ZenonT(30) DEF Swallowed, Message
<1>2. Flags(j)'
  BY <1>1 DEF Where, Flags, Swallowed
<1>3. AtClient(j)'
  BY <1>1 DEF AtClient, Swallowed
<1>4. \A s \in Server : j \in With(s)' <=> j \in With(s)
  BY DEF Swallowed, SameServers, With
<1>5. AtServer(j)'
  BY <1>1, <1>4 DEF Where, AtServer, Swallowed, SameServers, KeepsServer
<1>6. Timed(j)' /\ Reachable(j)'
  BY <1>1 DEF Timed, Reachable, Swallowed
<1> QED BY <1>2, <1>3, <1>5, <1>6 DEF Where

(* Message j gets its answer and goes from the in queue of its client to the out queue. *)
Finished(j) ==
  /\ msg[j].live /\ ~msg[j].done /\ ~msg[j].swallow
  /\ \E e \in BOOLEAN : msg'[j] = [msg[j] EXCEPT !.done = TRUE, !.error = e]
  /\ \A c \in Client : j \notin In(c)' /\ (j \in Out(c)' <=> c = msg[j].owner)
  /\ \A s \in Server : j \notin Req(s)' /\ j \notin tree'[s]
  /\ stage'[msg[j].owner] # "closed"

(* A message that has its answer has its place. *)
LEMMA WhereFinished ==
  ASSUME NEW j \in Msg, Where(j), Finished(j), msg \in [Msg -> Message], msg_id' = msg_id
  PROVE  Where(j)'
<1>1. /\ msg'[j].live /\ msg'[j].done /\ ~msg'[j].swallow /\ msg'[j].owner = msg[j].owner
  <2>1. PICK e \in BOOLEAN : msg'[j] = [msg[j] EXCEPT !.done = TRUE, !.error = e]
    BY DEF Finished
  <2>2. /\ msg'[j].live = msg[j].live /\ msg'[j].done = TRUE /\ msg'[j].swallow = msg[j].swallow
        /\ msg'[j].owner = msg[j].owner
    BY <2>1, SMT DEF Message
  <2> QED BY <2>2 DEF Finished
<1>2. Flags(j)'
  BY <1>1 DEF Where, Flags, Finished
<1>3. AtClient(j)'
  BY <1>1 DEF AtClient, Finished
<1>4. \A s \in Server : j \notin With(s)'
  BY DEF Finished, With
<1>5. AtServer(j)'
  BY <1>1, <1>4 DEF AtServer, Finished
<1>6. Timed(j)' /\ Reachable(j)'
  BY <1>1 DEF Timed, Reachable, Finished, Open
<1> QED BY <1>2, <1>3, <1>5, <1>6, SMT DEF Where
-----------------------------------------------------------------------------
(* wait_send_queue with its flags *)
SendQ == {q \in [queue : Seq(Conn), cached : SUBSET Conn] : Len(q.queue) <= sum_nconn}

(* cache_send_event keeps to the room of wait_send_queue. *)
LEMMA CacheType ==
  ASSUME NEW q \in SendQ, NEW conn \in Conn
  PROVE  cache_send_event(q, conn) \in SendQ
<1>1. q.queue \in Seq(Conn) /\ q.cached \in SUBSET Conn /\ Len(q.queue) <= sum_nconn
  BY DEF SendQ
<1>2. sum_nconn \in Nat /\ Len(q.queue) \in Nat
  BY <1>1, AgentAssumption, SMT
<1>3. Append(q.queue, conn) \in Seq(Conn) /\ Len(Append(q.queue, conn)) = Len(q.queue) + 1
  BY <1>1, SMT
<1> QED BY <1>1, <1>2, <1>3, SMT DEF cache_send_event, SendQ

(* the flag of a connection is cleared *)
Uncached(q, conn) == [q EXCEPT !.cached = @ \ {conn}]

(* Clearing writecached changes no type. *)
LEMMA UncachedType ==
  ASSUME NEW q \in SendQ, NEW conn PROVE Uncached(q, conn) \in SendQ
<1>1. q.queue \in Seq(Conn) /\ q.cached \in SUBSET Conn /\ Len(q.queue) <= sum_nconn
  BY DEF SendQ
<1> QED BY <1>1 DEF SendQ, Uncached

(* One connection leaves wait_send_queue. *)
LEMMA SendQTail ==
  ASSUME NEW q \in SendQ, NEW conn, q.queue # << >>
  PROVE  [queue |-> Tail(q.queue), cached |-> q.cached \ {conn}] \in SendQ
<1>1. q.queue \in Seq(Conn) /\ q.cached \in SUBSET Conn /\ Len(q.queue) <= sum_nconn
  BY DEF SendQ
<1> DEFINE t == Tail(q.queue)
<1>2. t \in Seq(Conn) /\ Len(t) <= sum_nconn
  <2>1. Len(t) = Len(q.queue) - 1 /\ Len(q.queue) \in Nat /\ sum_nconn \in Nat
    BY <1>1, AgentAssumption, SMT
  <2> QED BY <1>1, <2>1, SMT
<1> HIDE DEF t
<1>3. [queue |-> t, cached |-> q.cached \ {conn}] \in SendQ
  BY <1>1, <1>2 DEF SendQ
<1> QED BY <1>3 DEF t
-----------------------------------------------------------------------------
(* The next message is not in any container yet. *)
LEMMA NextIsNew ==
  ASSUME PlaceInv, NEW i \in Msg, i = msg_id + 1
  PROVE  /\ ~msg[i].live /\ ~msg[i].done /\ i \notin Timers
         /\ \A c \in Client : i \notin In(c) /\ i \notin Out(c)
         /\ \A s \in Server : i \notin Req(s) /\ i \notin tree[s]
<1>1. Where(i) /\ msg_id \in 0 .. max_msg
  BY DEF PlaceInv, TypeOK
<1>2. ~msg[i].live
  BY <1>1, SMT DEF Where, Flags, Msg
<1>3. ~msg[i].done
  BY <1>1, <1>2 DEF Where, Flags
<1>4. \A s \in Server : i \notin With(s)
  BY <1>1, <1>2 DEF Where, AtServer
<1> QED BY <1>1, <1>2, <1>3, <1>4 DEF Where, AtClient, Timed, With

(* The out queues out hold the same messages as before, none of them twice. *)
SameOut(out) ==
  /\ out \in [Client -> Seq(Msg \cup {Greeting})]
  /\ \A d \in Client : IsInjective(out[d]) /\ \A j \in Msg : j \in Range(out[d]) <=> j \in Out(d)

(* A new message i of client c has entered no other queues of clients than those of c. *)
OnlyNew(c, i, admin) ==
  \A d \in Client, j \in Msg : j \in In(d)' \cup Out(d)' =>
    IF j = i THEN d = c /\ msg'[j].admin = admin ELSE j \in In(d) \cup Out(d) /\ msg'[j] = msg[j]

(* A new message that has its answer at once, an error or one of the agent itself, is put *)
(* in the out queue of its client.                                                        *)
Answers(c, i, m, out) ==
  /\ i = msg_id + 1 /\ msg_id' = i
  /\ m \in Message /\ m.live /\ m.owner = c /\ m.done /\ ~m.swallow
  /\ SameOut(out)
  /\ cli_out' = [out EXCEPT ![c] = Append(@, i)]
  /\ msg' = [msg EXCEPT ![i] = m]
  /\ UNCHANGED <<cli_in, sev_in, tree, tmo>>
  /\ StaysOpen /\ Open(c)'

(* A new message that has its answer at once has its place, and the others have theirs. *)
LEMMA NewAnswered ==
  ASSUME PlaceInv, NEW c \in Client, NEW i \in Msg, NEW m, NEW out, Answers(c, i, m, out)
  PROVE  /\ cli_out' \in [Client -> Seq(Msg \cup {Greeting})] /\ msg' \in [Msg -> Message]
         /\ \A j \in Msg : Where(j)'
         /\ NoDuplicates'
         /\ OnlyNew(c, i, m.admin)
<1> USE DEF Answers
<1>1. /\ msg \in [Msg -> Message] /\ msg_id \in Nat /\ NoDuplicates
      /\ \A j \in Msg : Where(j)
  BY SMT DEF PlaceInv, TypeOK
<1>2. /\ Append(out[c], i) \in Seq(Msg \cup {Greeting})
      /\ Range(Append(out[c], i)) = Range(out[c]) \cup {i}
      /\ IsInjective(out[c]) /\ i \notin Range(out[c]) => IsInjective(Append(out[c], i))
  <2>1. out[c] \in Seq(Msg \cup {Greeting}) /\ i \in Msg \cup {Greeting}
    BY DEF SameOut
  <2> QED BY <2>1, InAppend, SMTT(30)
<1>3. \A d \in Client : cli_out'[d] = IF d = c THEN Append(out[c], i) ELSE out[d]
  BY DEF SameOut
<1>4. cli_out' \in [Client -> Seq(Msg \cup {Greeting})]
  BY <1>2 DEF SameOut
<1>5. msg' \in [Msg -> Message] /\ msg'[i] = m /\ \A j \in Msg : j # i => msg'[j] = msg[j]
  BY <1>1
<1>6. \A d \in Client, j \in Msg : j \in Out(d)' <=> j \in Out(d) \/ (d = c /\ j = i)
  BY <1>2, <1>3 DEF SameOut, Out
<1>7. /\ \A d \in Client : In(d)' = In(d)
      /\ \A s \in Server : Req(s)' = Req(s) /\ tree'[s] = tree[s]
      /\ Timers' = Timers
  BY DEF In, Req, Timers
<1>8. Where(i)'
  <2>1. /\ i \notin Timers' /\ \A d \in Client : i \notin In(d)' /\ (i \in Out(d)' <=> d = c)
        /\ \A s \in Server : i \notin With(s)' /\ i \notin Req(s)'
    BY <1>6, <1>7, NextIsNew, SMT DEF With
  <2>2. Flags(i)'
    BY <1>5, SMT DEF Flags, Msg
  <2>3. AtClient(i)'
    BY <2>1, <1>5 DEF AtClient
  <2>4. AtServer(i)'
    BY <2>1, <1>5 DEF AtServer
  <2>5. Timed(i)' /\ Reachable(i)'
    BY <2>1, <1>5 DEF Timed, Reachable, Open
  <2> QED BY <2>2, <2>3, <2>4, <2>5 DEF Where
<1>9. ASSUME NEW j \in Msg, j # i PROVE Where(j)'
  <2>1. Untouched(j)
    BY <1>5, <1>6, <1>7, <1>9 DEF Untouched, SameQueues, SameServers, SameFlags
  <2>2. msg_id <= msg_id' /\ msg_id' \in Nat
    BY <1>1, SMT DEF Msg
  <2> QED BY <2>1, <2>2, <1>1, WhereStays
<1>10. NoDuplicates'
  <2>1. i \notin Range(out[c])
    BY NextIsNew DEF SameOut
  <2> QED BY <2>1, <1>1, <1>2, <1>3 DEF NoDuplicates, SameOut
<1>11. OnlyNew(c, i, m.admin)
  BY <1>5, <1>6, <1>7, NextIsNew, SMT DEF OnlyNew
<1> QED BY <1>4, <1>5, <1>8, <1>9, <1>10, <1>11

(* msg_tmo_insert gives no other message a timeout, and takes none away. *)
LEMMA TmoInsert ==
  ASSUME NEW timers \in Seq(Msg), NEW i \in Msg
  PROVE  /\ msg_tmo_insert(timers, i) \in Seq(Msg)
         /\ server_timeout > 0 => i \in Range(msg_tmo_insert(timers, i))
         /\ \A j \in Msg : j # i => (j \in Range(msg_tmo_insert(timers, i)) <=> j \in Range(timers))
<1>1. Append(timers, i) \in Seq(Msg) /\ Range(Append(timers, i)) = Range(timers) \cup {i}
  BY InAppend, SMT
<1>2. CASE server_timeout > 0
  <2>1. msg_tmo_insert(timers, i) = Append(timers, i)
    BY <1>2 DEF msg_tmo_insert
  <2> QED BY <2>1, <1>1
<1>3. CASE ~(server_timeout > 0)
  <2>1. msg_tmo_insert(timers, i) = timers
    BY <1>3 DEF msg_tmo_insert
  <2> QED BY <2>1, <1>3
<1> QED BY <1>2, <1>3

(* A new message that is forwarded is with its client, with an open connection to dtcd and *)
(* may have a timeout.                                                                     *)
Asks(c, i, m, s) ==
  /\ i = msg_id + 1 /\ msg_id' = i
  /\ m \in Message /\ m.live /\ m.owner = c /\ ~m.done /\ ~m.swallow /\ ~m.error
  /\ SameOut(cli_out')
  /\ cli_in' = [cli_in EXCEPT ![c] = Append(@, i)]
  /\ sev_in' = [sev_in EXCEPT ![s] = Append(@, i)]
  /\ tmo' = msg_tmo_insert(tmo, i)
  /\ msg' = [msg EXCEPT ![i] = m]
  /\ UNCHANGED tree
  /\ StaysOpen /\ Open(c)' /\ link'[s] # "closed"

(* A new message that waits for dtcd has its place, and the others have theirs. *)
LEMMA NewAsked ==
  ASSUME PlaceInv, NEW c \in Client, NEW s \in Server, NEW i \in Msg, NEW m, Asks(c, i, m, s)
  PROVE  /\ cli_out' \in [Client -> Seq(Msg \cup {Greeting})] /\ msg' \in [Msg -> Message]
         /\ cli_in' \in [Client -> Seq(Msg)] /\ sev_in' \in [Server -> Seq(Msg)]
              /\ tmo' \in Seq(Msg)
         /\ \A j \in Msg : Where(j)'
         /\ NoDuplicates'
         /\ OnlyNew(c, i, m.admin)
<1> USE DEF Asks
<1>1. /\ msg \in [Msg -> Message] /\ msg_id \in Nat /\ NoDuplicates
      /\ cli_in \in [Client -> Seq(Msg)] /\ sev_in \in [Server -> Seq(Msg)] /\ tmo \in Seq(Msg)
      /\ \A j \in Msg : Where(j)
  BY SMTT(30) DEF PlaceInv, TypeOK
<1>2. Append(cli_in[c], i) \in Seq(Msg) /\ Range(Append(cli_in[c], i)) = Range(cli_in[c]) \cup {i}
  BY <1>1, InAppend, SMT
<1>3. /\ Append(sev_in[s], i) \in Seq(Msg)
           /\ Range(Append(sev_in[s], i)) = Range(sev_in[s]) \cup {i}
      /\ IsInjective(sev_in[s]) /\ i \notin Range(sev_in[s]) => IsInjective(Append(sev_in[s], i))
  BY <1>1, InAppend, SMT
<1>4. /\ tmo' \in Seq(Msg) /\ (server_timeout > 0 => i \in Timers')
      /\ \A j \in Msg : j # i => (j \in Timers' <=> j \in Timers)
  BY <1>1, TmoInsert DEF Timers
<1>5. msg' \in [Msg -> Message] /\ msg'[i] = m /\ \A j \in Msg : j # i => msg'[j] = msg[j]
  BY <1>1
<1>6. /\ cli_in' \in [Client -> Seq(Msg)]
      /\ \A d \in Client : cli_in'[d] = IF d = c THEN Append(cli_in[c], i) ELSE cli_in[d]
  BY <1>1, <1>2
<1>7. /\ sev_in' \in [Server -> Seq(Msg)]
      /\ \A t \in Server : sev_in'[t] = IF t = s THEN Append(sev_in[s], i) ELSE sev_in[t]
  BY <1>1, <1>3
<1>8. \A d \in Client, j \in Msg : j \in In(d)' <=> j \in In(d) \/ (d = c /\ j = i)
  BY <1>2, <1>6 DEF In
<1>9. \A t \in Server, j \in Msg : j \in Req(t)' <=> j \in Req(t) \/ (t = s /\ j = i)
  BY <1>3, <1>7 DEF Req
<1>10. \A d \in Client, j \in Msg : j \in Out(d)' <=> j \in Out(d)
  BY DEF SameOut, Out
<1>11. Where(i)'
  <2>1. \A d \in Client : (i \in In(d)' <=> d = c) /\ i \notin Out(d)'
    BY <1>8, <1>10, NextIsNew
  <2>2. /\ server_timeout > 0 => i \in Timers'
        /\ \A t \in Server : (i \in With(t)' <=> t = s) /\ i \notin tree'[t]
    BY <1>4, <1>9, NextIsNew DEF With
  <2>3. Flags(i)'
    BY <1>5, SMT DEF Flags, Msg
  <2>4. AtClient(i)'
    BY <2>1, <1>5 DEF AtClient
  <2>5. AtServer(i)'
    BY <2>2, <1>5 DEF AtServer
  <2>6. Timed(i)' /\ Reachable(i)'
    BY <2>2, <1>5 DEF Timed, Reachable, Open
  <2> QED BY <2>3, <2>4, <2>5, <2>6 DEF Where
<1>12. ASSUME NEW j \in Msg, j # i PROVE Where(j)'
  <2>1. Untouched(j)
    BY <1>4, <1>5, <1>8, <1>9, <1>10, <1>12
       DEF Untouched, SameQueues, SameServers, SameFlags
  <2>2. msg_id <= msg_id' /\ msg_id' \in Nat
    BY <1>1, SMT DEF Msg
  <2> QED BY <2>1, <2>2, <1>1, WhereStays
<1>13. NoDuplicates'
  <2>1. i \notin Range(sev_in[s])
    BY NextIsNew DEF Req
  <2> QED BY <2>1, <1>1, <1>3, <1>7 DEF NoDuplicates, SameOut
<1>14. OnlyNew(c, i, m.admin)
  BY <1>5, <1>8, <1>10, NextIsNew DEF OnlyNew
<1> QED BY <1>4, <1>5, <1>6, <1>7, <1>11, <1>12, <1>13, <1>14 DEF SameOut

(* server_pool_conn returns an open connection of the instance. *)
LEMMA PoolConnOpen ==
  ASSUME PlaceInv, NEW s \in Server, NEW state, NEW on, NEW new,
    server_pool_conn(s, state, on, new),
         on \subseteq Conn, new \subseteq Conn
  PROVE  /\ state \in {"connecting", "connected"}
         /\ active' \subseteq Conn /\ fresh' \subseteq Conn
<1>1. s # None
  BY AgentAssumption
<1>2. CASE Len(s_conn_q) < Cardinality(Server)
  BY <1>1, <1>2 DEF server_pool_conn, Conn
<1>3. CASE ~(Len(s_conn_q) < Cardinality(Server))
  <2>1. s = Head(s_conn_q) /\ state = link[s] /\ active' = on /\ fresh' = new
    BY <1>3 DEF server_pool_conn
  <2>2. s_conn_q # << >>
    <3>1. Cardinality(Server) \in Nat /\ Cardinality(Server) # 0
      BY AgentAssumption, FS_CardinalityType, FS_EmptySet
    <3> QED BY <3>1, <1>3, SMT
  <2>3. s_conn_q \in Seq(Server) /\ link \in [Server -> {"closed", "connecting", "connected"}]
    BY DEF PlaceInv, TypeOK
  <2>4. s \in Range(s_conn_q)
    BY <2>1, <2>2, <2>3, InTail
  <2> QED BY <2>1, <2>3, <2>4 DEF PlaceInv, PoolOpen
<1> QED BY <1>2, <1>3
(* The types of what req_forward changes *)
ForwardTypes ==
  /\ link' \in [Server -> {"closed", "connecting", "connected"}]
  /\ s_conn_q' \in Seq(Server)
  /\ cli_in' \in [Client -> Seq(Msg)] /\ cli_out' \in [Client -> Seq(Msg \cup {Greeting})]
  /\ sev_in' \in [Server -> Seq(Msg)] /\ tmo' \in Seq(Msg) /\ msg' \in [Msg -> Message]
  /\ sendq' \in SendQ
  /\ active' \subseteq Conn /\ fresh' \subseteq Conn

Forwards(c, i, m, q, out, on, new) ==
  /\ i = msg_id + 1 /\ msg_id' = i
  /\ m \in Message /\ m.live /\ m.owner = c /\ ~m.done /\ ~m.swallow /\ ~m.error
  /\ q \in SendQ /\ SameOut(out) /\ on \subseteq Conn /\ new \subseteq Conn
  /\ req_forward(c, i, m, q, out, on, new)
  /\ UNCHANGED tree
  /\ Open(c)' /\ \A d \in Client : Open(d) => Open(d)'

(* req_forward, whether a connection to dtcd can be made or not, gives the new message its *)
(* place.                                                                                  *)
LEMMA ReqForward ==
  ASSUME PlaceInv, NEW c \in Client, NEW i \in Msg, NEW m, NEW q, NEW out, NEW on, NEW new,
         Forwards(c, i, m, q, out, on, new)
  PROVE  /\ ForwardTypes
         /\ \A j \in Msg : Where(j)'
         /\ NoDuplicates' /\ PoolOpen'
         /\ OnlyNew(c, i, m.admin)
<1> USE DEF Forwards
<1>1. PICK s \in Server \cup {None}, state \in {"closed", "connecting", "connected"} :
        /\ server_pool_conn(s, state, on, new)
        /\ IF s = None THEN forward_error(c, i, m, q, out)
                       ELSE enqueue_inq(c, i, m, q, out, s, state)
  BY DEF req_forward
<1>2. /\ link \in [Server -> {"closed", "connecting", "connected"}] /\ s_conn_q \in Seq(Server)
      /\ cli_in \in [Client -> Seq(Msg)] /\ sev_in \in [Server -> Seq(Msg)] /\ tmo \in Seq(Msg)
      /\ PoolOpen
  BY DEF PlaceInv, TypeOK
<1>3. CASE s = None
  <2>1. forward_error(c, i, m, q, out)
    BY <1>1, <1>3
  <2> DEFINE n == [m EXCEPT !.done = TRUE, !.error = TRUE]
  <2>2. n \in Message /\ n.live /\ n.owner = c /\ n.done /\ ~n.swallow
    <3>1. /\ n.live = m.live /\ n.owner = m.owner /\ n.done = TRUE /\ n.swallow = m.swallow
      BY DEF Message
    <3>2. n \in Message
      BY DEF Message
    <3> QED BY <3>1, <3>2
  <2>3. /\ msg' = [msg EXCEPT ![i] = n] /\ cli_out' = [out EXCEPT ![c] = Append(@, i)]
        /\ UNCHANGED <<link, s_conn_q, cli_in, sev_in, tmo>>
    BY <2>1 DEF forward_error
  <2>4. StaysOpen
    BY <2>3 DEF StaysOpen
  <2> HIDE DEF n
  <2>5. /\ cli_out' \in [Client -> Seq(Msg \cup {Greeting})] /\ msg' \in [Msg -> Message]
        /\ \A j \in Msg : Where(j)'
        /\ NoDuplicates' /\ OnlyNew(c, i, m.admin)
    <3>1. Answers(c, i, n, out)
      BY <2>2, <2>3, <2>4 DEF Answers
    <3>2. n.admin = m.admin
      BY DEF n, Message
    <3> QED BY <3>1, <3>2, NewAnswered
  <2>6. sendq' \in SendQ
    <3>1. sendq' = cache_send_event(q, c) /\ c \in Conn
      BY <2>1 DEF forward_error, Conn
    <3> QED BY <3>1, CacheType
  <2>7. active' \subseteq Conn /\ fresh' \subseteq Conn
    <3>1. \A t \in Range(s_conn_q) : t \in Server
      BY <1>2, InQueue
    <3>2. (active' = on /\ fresh' = new) \/ s \in Server
      BY <1>1 DEF server_pool_conn
    <3>3. s \notin Server
      BY <1>3, AgentAssumption
    <3> QED BY <3>2, <3>3
  <2>8. PoolOpen'
    BY <1>2, <2>3 DEF PoolOpen
  <2> QED BY <1>2, <2>3, <2>5, <2>6, <2>7, <2>8 DEF ForwardTypes
<1>4. CASE s # None
  <2>1. s \in Server /\ enqueue_inq(c, i, m, q, out, s, state)
    BY <1>1, <1>4
  <2>2. /\ state \in {"connecting", "connected"} /\ active' \subseteq Conn /\ fresh' \subseteq Conn
    BY <1>1, <2>1, PoolConnOpen
  <2>3. /\ link' = [link EXCEPT ![s] = state] /\ s_conn_q' = Append(Without(s_conn_q, {s}), s)
        /\ cli_in' = [cli_in EXCEPT ![c] = Append(@, i)] /\ cli_out' = out
        /\ sev_in' = [sev_in EXCEPT ![s] = Append(@, i)] /\ tmo' = msg_tmo_insert(tmo, i)
        /\ msg' = [msg EXCEPT ![i] = m]
    BY <2>1 DEF enqueue_inq
  <2>4. /\ link' \in [Server -> {"closed", "connecting", "connected"}] /\ link'[s] = state
        /\ \A t \in Server : t # s => link'[t] = link[t]
    BY <2>1, <2>2, <2>3, <1>2
  <2>5. StaysOpen /\ link'[s] # "closed"
    BY <2>2, <2>4 DEF StaysOpen
  <2>6. SameOut(cli_out')
    BY <2>3
  <2>7. /\ cli_out' \in [Client -> Seq(Msg \cup {Greeting})] /\ msg' \in [Msg -> Message]
        /\ cli_in' \in [Client -> Seq(Msg)] /\ sev_in' \in [Server -> Seq(Msg)] /\ tmo' \in Seq(Msg)
        /\ \A j \in Msg : Where(j)'
        /\ NoDuplicates' /\ OnlyNew(c, i, m.admin)
    <3>1. Asks(c, i, m, s)
      BY <2>1, <2>3, <2>5, <2>6 DEF Asks
    <3> QED BY <3>1, <2>1, NewAsked
  <2>8. sendq' \in SendQ
    <3> DEFINE r == IF link[s] = "closed" THEN Uncached(q, s) ELSE q
    <3>1. s \in Conn
      BY <2>1 DEF Conn
    <3>2. r \in SendQ
      BY UncachedType
    <3>3. sendq' = IF state = "connected" THEN cache_send_event(r, s) ELSE r
      BY <2>1 DEF enqueue_inq, Uncached
    <3> HIDE DEF r
    <3>4. cache_send_event(r, s) \in SendQ
      BY <3>1, <3>2, CacheType
    <3> QED BY <3>2, <3>3, <3>4
  <2>9. s_conn_q' \in Seq(Server) /\ Range(s_conn_q') = (Range(s_conn_q) \ {s}) \cup {s}
    <3> DEFINE w == Without(s_conn_q, {s})
    <3>1. w \in Seq(Server) /\ Range(w) = Range(s_conn_q) \ {s}
      BY <1>2, InWithout, SMT
    <3> HIDE DEF w
    <3>2. Append(w, s) \in Seq(Server) /\ Range(Append(w, s)) = Range(w) \cup {s}
      BY <3>1, <2>1, InAppend, SMT
    <3>3. s_conn_q' = Append(w, s)
      BY <2>3 DEF w
    <3> QED BY <3>1, <3>2, <3>3
  <2>10. PoolOpen'
    <3>1. \A t \in Range(s_conn_q) : t \in Server
      BY <1>2, InQueue, SMT
    <3> QED BY <3>1, <2>4, <2>5, <2>9, <1>2 DEF PoolOpen
  <2> QED BY <2>2, <2>4, <2>7, <2>8, <2>9, <2>10 DEF ForwardTypes
<1> QED BY <1>3, <1>4
-----------------------------------------------------------------------------
(* What listener_accept and req_process leave as it is *)
LEMMA SendQOfType ==
  ASSUME TypeOK PROVE sendq \in SendQ
BY DEF TypeOK, SendQ

(* A closed client has no message in its queues. *)
LEMMA ClosedIsEmpty ==
  ASSUME PlaceInv, NEW c \in Client, ~Open(c), NEW j \in Msg
  PROVE  j \notin In(c) /\ j \notin Out(c)
<1>1. Where(j)
  BY DEF PlaceInv
<1> QED BY <1>1 DEF Where, Flags, AtClient, Reachable

(* listener_accept: the greeting is no message, and the request for the key is forwarded. *)
LEMMA AcceptPlace ==
  ASSUME PlaceInv, NEW c \in Client, listener_accept(c) PROVE PlaceInv'
<1> DEFINE out == [cli_out EXCEPT ![c] = <<Greeting>>]
           q == cache_send_event([sendq EXCEPT !.cached = @ \ {c}], c)
           M == NewMsg(c, "KEY_DEFINE")
           on == active \cup {c}
           new == fresh \cup {c}
           i == msg_id + 1
<1>1. TypeOK /\ NoDuplicates /\ Awaited /\ PoolOpen /\ \A j \in Msg : Where(j)
  BY DEF PlaceInv
<1>2. /\ ~Open(c) /\ stage' = [stage EXCEPT ![c] = "LOGGING_IN"]
      /\ waiting' = [waiting EXCEPT ![c] = Greeting]
      /\ UNCHANGED <<tree, g_dtc_key_type, failed, phase, due, dtcd, stray>>
  BY DEF listener_accept
<1>3. /\ stage' \in [Client -> {"closed", "LOGGING_IN", "LOGGED_IN"}]
      /\ Open(c)' /\ \A d \in Client : Open(d) => Open(d)'
  BY <1>1, <1>2 DEF TypeOK, Open
<1>4. waiting' \in [Client -> Msg \cup {Greeting, None}] /\ \A d \in Client : d # c
        => waiting'[d] = waiting[d]
  BY <1>1, <1>2 DEF TypeOK
<1>5. c \in Conn /\ q \in SendQ /\ on \subseteq Conn /\ new \subseteq Conn
  <2>1. c \in Conn
    BY DEF Conn
  <2>2. Uncached(sendq, c) \in SendQ
    BY <1>1, SendQOfType, UncachedType
  <2>3. q = cache_send_event(Uncached(sendq, c), c)
    BY DEF Uncached
  <2> HIDE DEF q
  <2> QED BY <1>1, <2>1, <2>2, <2>3, CacheType DEF TypeOK
<1>6. SameOut(out)
  <2>1. cli_out \in [Client -> Seq(Msg \cup {Greeting})]
    BY <1>1 DEF TypeOK
  <2>2. <<Greeting>> \in Seq(Msg \cup {Greeting}) /\ Range(<<Greeting>>) = {Greeting}
    BY SMT DEF Range
  <2>3. IsInjective(<<Greeting>>)
    BY SMT DEF IsInjective
  <2>4. out \in [Client -> Seq(Msg \cup {Greeting})]
    BY <2>1, <2>2
  <2>5. out[c] = <<Greeting>> /\ \A d \in Client : d # c => out[d] = cli_out[d]
    BY <2>1
  <2> HIDE DEF out
  <2>6. \A j \in Msg : j \notin Out(c) /\ j # Greeting
    BY <1>2, ClosedIsEmpty, AgentAssumption DEF Msg
  <2> QED BY <1>1, <2>2, <2>3, <2>4, <2>5, <2>6 DEF SameOut, NoDuplicates, Out
<1>7. CASE g_dtc_key_type
  <2>1. /\ cli_out' = out /\ sendq' = q /\ active' = on /\ fresh' = new
        /\ UNCHANGED <<link, s_conn_q, cli_in, sev_in, tmo, msg, msg_id>>
    BY <1>7 DEF listener_accept
  <2> HIDE DEF out, q, on, new
  <2>2. TypeOK'
    BY <1>1, <1>2, <1>3, <1>4, <1>5, <1>6, <2>1 DEF TypeOK, SameOut, SendQ
  <2>3. \A d \in Client : In(d)' = In(d) /\ \A j \in Msg : j \in Out(d)' <=> j \in Out(d)
    BY <1>6, <2>1 DEF SameOut, In, Out
  <2>4. ASSUME NEW j \in Msg PROVE Where(j)'
    <3>1. Untouched(j)
      BY <1>2, <2>1, <2>3
         DEF Untouched, SameQueues, SameServers, SameFlags, Req, Timers
    <3>2. StaysOpen /\ msg_id \in Nat /\ msg_id' = msg_id
      BY <1>1, <1>3, <2>1, SMT DEF StaysOpen, TypeOK
    <3>3. msg \in [Msg -> Message]
      BY <1>1 DEF TypeOK
    <3> QED BY <1>1, <3>1, <3>2, <3>3, WhereStays, SMT
  <2>5. NoDuplicates'
    BY <1>1, <1>6, <2>1 DEF NoDuplicates, SameOut
  <2>6. Awaited'
    BY <1>1, <1>2, <1>4, <2>1, <2>3, ClosedIsEmpty, SMT DEF Awaited
  <2> QED BY <1>1, <1>2, <2>1, <2>2, <2>4, <2>5, <2>6
             DEF PlaceInv, PoolOpen, OwnAnswer
<1>8. CASE ~g_dtc_key_type
  <2>1. i \in Msg /\ msg_id' = i /\ req_forward(c, i, M, q, out, on, new)
    BY <1>1, <1>8, AgentAssumption, SMT DEF listener_accept, TypeOK, Msg
  <2>2. M \in Message /\ M.live /\ M.owner = c /\ ~M.done /\ ~M.swallow /\ ~M.error
          /\ M.admin = "KEY_DEFINE"
    BY DEF NewMsg, NoMsg, Message, Admin
  <2> HIDE DEF out, q, on, new, i, M
  <2>3. Forwards(c, i, M, q, out, on, new)
    <3>1. i = msg_id + 1
      BY DEF i
    <3> QED BY <1>2, <1>3, <1>5, <1>6, <2>1, <2>2, <3>1 DEF Forwards
  <2>4. /\ ForwardTypes
        /\ \A j \in Msg : Where(j)'
        /\ NoDuplicates' /\ PoolOpen'
        /\ OnlyNew(c, i, M.admin)
    BY <2>1, <2>3, ReqForward
  <2>5. TypeOK'
    <3>1. msg_id' \in 0 .. max_msg
      BY <2>1, SMT DEF Msg
    <3> QED BY <1>1, <1>2, <1>3, <1>4, <2>4, <3>1 DEF TypeOK, ForwardTypes, SendQ
  <2>6. Awaited'
    <3> SUFFICES ASSUME NEW d \in Client, NEW j \in Msg, j \in In(d)' \cup Out(d)',
          msg'[j].admin = "NOP"
                 PROVE  waiting'[d] = j
      BY DEF Awaited
    <3>1. j # i /\ j \in In(d) \cup Out(d) /\ msg'[j] = msg[j]
      BY <2>2, <2>4 DEF OnlyNew
    <3> QED BY <1>1, <1>2, <1>4, <3>1, ClosedIsEmpty DEF Awaited
  <2> QED BY <1>1, <1>2, <2>4, <2>5, <2>6 DEF PlaceInv, OwnAnswer
<1> QED BY <1>7, <1>8

(* The out queues as they are *)
LEMMA OutIsSame ==
  ASSUME PlaceInv PROVE SameOut(cli_out)
BY DEF PlaceInv, TypeOK, NoDuplicates, SameOut, Out

(* req_process: the request is answered by the agent or forwarded. *)
LEMMA ProcessPlace ==
  ASSUME PlaceInv, NEW c \in Client, req_process(c) PROVE PlaceInv'
<1> DEFINE i == msg_id + 1
           M == NewMsg(c, "NOP")
           D == [M EXCEPT !.done = TRUE]
<1>1. TypeOK /\ NoDuplicates /\ Awaited /\ PoolOpen /\ \A j \in Msg : Where(j)
  BY SMT DEF PlaceInv
<1>2. /\ Open(c) /\ waiting[c] = None /\ i \in Msg /\ msg_id' = i
      /\ waiting' = [waiting EXCEPT ![c] = i] /\ stage' = [stage EXCEPT ![c] = "LOGGED_IN"]
      /\ \/ req_make_loopback(c, i)
         \/ req_forward(c, i, M, sendq, cli_out, active, fresh)
      /\ UNCHANGED <<tree, g_dtc_key_type, failed, phase, due, dtcd, stray>>
  BY DEF req_process
<1>3. /\ M \in Message /\ M.live /\ M.owner = c /\ ~M.done /\ ~M.swallow /\ ~M.error
           /\ M.admin = "NOP"
  BY DEF NewMsg, NoMsg, Message, Admin
<1>4. D \in Message /\ D.live /\ D.owner = c /\ D.done /\ ~D.swallow /\ D.admin = "NOP"
  BY DEF NewMsg, NoMsg, Message, Admin
<1>5. i = msg_id + 1
  BY SMT
<1> HIDE DEF i
<1>6. /\ stage' \in [Client -> {"closed", "LOGGING_IN", "LOGGED_IN"}]
      /\ Open(c)' /\ \A d \in Client : Open(d) => Open(d)'
  BY <1>1, <1>2 DEF TypeOK, Open
<1>7. /\ waiting' \in [Client -> Msg \cup {Greeting, None}] /\ waiting'[c] = i
      /\ \A d \in Client : d # c => waiting'[d] = waiting[d]
  BY <1>1, <1>2 DEF TypeOK
<1>8. c \in Conn /\ sendq \in SendQ /\ active \subseteq Conn /\ fresh \subseteq Conn
        /\ msg_id' \in 0 .. max_msg
  BY <1>1, <1>2, SendQOfType, SMTT(30) DEF TypeOK, Conn, Msg
<1>9. /\ ForwardTypes
      /\ \A j \in Msg : Where(j)'
      /\ NoDuplicates' /\ PoolOpen'
      /\ OnlyNew(c, i, "NOP")
  <2>1. CASE req_make_loopback(c, i)
    <3>1. /\ msg' = [msg EXCEPT ![i] = D] /\ cli_out' = [cli_out EXCEPT ![c] = Append(@, i)]
          /\ sendq' = cache_send_event(sendq, c)
          /\ UNCHANGED <<link, s_conn_q, cli_in, sev_in, tmo, active, fresh>>
      BY <2>1 DEF req_make_loopback
    <3> HIDE DEF D, M
    <3>2. StaysOpen
      BY <1>6, <3>1 DEF StaysOpen
    <3>3. Answers(c, i, D, cli_out)
      BY <1>2, <1>4, <1>5, <1>6, <3>1, <3>2, OutIsSame DEF Answers
    <3>4. /\ cli_out' \in [Client -> Seq(Msg \cup {Greeting})] /\ msg' \in [Msg -> Message]
          /\ \A j \in Msg : Where(j)'
          /\ NoDuplicates' /\ OnlyNew(c, i, D.admin)
      BY <3>3, <1>2, NewAnswered
    <3>5. sendq' \in SendQ
      BY <3>1, <1>8, CacheType
    <3>6. ForwardTypes
      BY <1>1, <1>8, <3>1, <3>4, <3>5 DEF ForwardTypes, TypeOK
    <3> QED BY <1>1, <1>4, <3>1, <3>4, <3>6 DEF PoolOpen
  <2>2. CASE req_forward(c, i, M, sendq, cli_out, active, fresh)
    <3> HIDE DEF M
    <3>1. Forwards(c, i, M, sendq, cli_out, active, fresh)
      BY <1>2, <1>3, <1>5, <1>6, <1>8, <2>2, OutIsSame DEF Forwards
    <3> QED BY <1>2, <1>3, <3>1, ReqForward
  <2> QED BY <1>2, <2>1, <2>2
<1>10. TypeOK'
  BY <1>1, <1>2, <1>6, <1>7, <1>8, <1>9 DEF TypeOK, ForwardTypes, SendQ
<1>11. Awaited'
  <2> SUFFICES ASSUME NEW d \in Client, NEW j \in Msg, j \in In(d)' \cup Out(d)',
        msg'[j].admin = "NOP"
               PROVE  waiting'[d] = j
    BY SMT DEF Awaited
  <2>1. CASE j = i
    BY <2>1, <1>7, <1>9 DEF OnlyNew
  <2>2. CASE j # i
    <3>1. waiting[d] = j
      BY <2>2, <1>1, <1>9 DEF OnlyNew, Awaited
    <3>2. j # None
      BY AgentAssumption DEF Msg
    <3> QED BY <3>1, <3>2, <1>2, <1>7
  <2> QED BY <2>1, <2>2
<1> QED BY <1>2, <1>9, <1>10, <1>11 DEF PlaceInv, OwnAnswer
-----------------------------------------------------------------------------
(* Nothing about the messages changes. *)
LEMMA QuietPlace ==
  ASSUME PlaceInv, TypeOK', OwnAnswer',
         UNCHANGED <<link, stage, s_conn_q, cli_in, cli_out, sev_in, tree, tmo, msg, msg_id>>,
         Awaited'
  PROVE  PlaceInv'
<1>1. ASSUME NEW j \in Msg PROVE Where(j)'
  <2>1. Where(j) /\ msg_id \in Nat /\ msg \in [Msg -> Message]
    BY SMT DEF PlaceInv, TypeOK
  <2>2. Untouched(j) /\ StaysOpen
    BY DEF Untouched, SameQueues, SameServers, SameFlags, In, Out, Req, Timers,
           StaysOpen, Open
  <2> QED BY <2>1, <2>2, WhereStays, SMT
<1> QED BY <1>1 DEF PlaceInv, NoDuplicates, PoolOpen

(* What a client gives up is in no queue of it. *)
LEMMA GiveUpPlace ==
  ASSUME PlaceInv, NEW c \in Client, give_up(c) PROVE PlaceInv'
<1>1. /\ waiting[c] \in Msg /\ (~msg[waiting[c]].live \/ msg[waiting[c]].swallow)
      /\ waiting' = [waiting EXCEPT ![c] = None]
      /\ UNCHANGED <<stage, link, s_conn_q, cli_in, cli_out, sev_in, tree, tmo, msg, msg_id,
                     g_dtc_key_type, active, failed, sendq, turn, dtcd, stray>>
  BY DEF give_up
<1>2. TypeOK /\ Awaited /\ \A j \in Msg : Where(j)
  BY DEF PlaceInv
<1>3. TypeOK'
  BY <1>1, <1>2 DEF TypeOK, turn
<1>4. Awaited'
  <2> SUFFICES ASSUME NEW d \in Client, NEW j \in Msg, j \in In(d)' \cup Out(d)',
        msg'[j].admin = "NOP"
               PROVE  waiting'[d] = j
    BY SMT DEF Awaited
  <2>1. j \in In(d) \cup Out(d) /\ msg[j].admin = "NOP"
    BY <1>1 DEF In, Out
  <2>2. waiting[d] = j
    BY <1>2, <2>1 DEF Awaited
  <2>3. msg[j].live /\ ~msg[j].swallow
    BY <1>2, <2>1 DEF Where, AtClient, Flags
  <2>4. d # c
    BY <1>1, <2>2, <2>3
  <2> QED BY <1>1, <1>2, <2>2, <2>4 DEF TypeOK
<1> QED BY <1>1, <1>3, <1>4, QuietPlace DEF PlaceInv, OwnAnswer

(* The end of the events changes nothing about the messages. *)
LEMMA EventsDonePlace ==
  ASSUME PlaceInv, events_done PROVE PlaceInv'
<1>1. TypeOK' /\ Awaited' /\ OwnAnswer'
  BY DEF PlaceInv, TypeOK, events_done, Awaited, In, Out, OwnAnswer
<1> QED BY <1>1, QuietPlace DEF events_done

(* The end of the cached writes changes nothing about the messages. *)
LEMMA WritesDonePlace ==
  ASSUME PlaceInv, NEW n \in Nat, writes_done(n) PROVE PlaceInv'
<1>1. TypeOK' /\ Awaited' /\ OwnAnswer'
  BY DEF PlaceInv, TypeOK, writes_done, Awaited, In, Out, OwnAnswer
<1> QED BY <1>1, QuietPlace DEF writes_done
-----------------------------------------------------------------------------
(* req_put of some messages leaves the others and their timeouts. *)
LEMMA PutEffect ==
  ASSUME NEW flags \in [Msg -> Message], NEW timers \in Seq(Msg), NEW ids,
    req_put(flags, timers, ids)
  PROVE  /\ msg' \in [Msg -> Message] /\ tmo' \in Seq(Msg)
         /\ \A j \in Msg : msg'[j] = IF j \in ids THEN NoMsg ELSE flags[j]
         /\ Timers' = Range(timers) \ ids
<1>1. NoMsg \in Message
  BY DEF NoMsg, Message, Admin
<1>2. msg' \in [Msg -> Message] /\ \A j \in Msg : msg'[j] = IF j \in ids THEN NoMsg ELSE flags[j]
  BY <1>1 DEF req_put
<1>3. tmo' \in Seq(Msg) /\ Timers' = Range(timers) \ ids
  BY InWithout DEF req_put, Timers
<1> QED BY <1>2, <1>3

(* The same from the flags and timeouts as they are. *)
LEMMA PutOf ==
  ASSUME TypeOK, NEW ids, req_put(msg, tmo, ids)
  PROVE  /\ msg' \in [Msg -> Message] /\ tmo' \in Seq(Msg)
         /\ \A j \in Msg : msg'[j] = IF j \in ids THEN NoMsg ELSE msg[j]
         /\ Timers' = Timers \ ids
<1>1. msg \in [Msg -> Message] /\ tmo \in Seq(Msg)
  BY DEF TypeOK
<1> QED BY <1>1, PutEffect DEF Timers

(* client_close: what is done or waits to be sent is given back, the rest is swallowed *)
(* later.                                                                              *)
LEMMA ClientClosePlace ==
  ASSUME PlaceInv, NEW c \in Client, client_close(c) PROVE PlaceInv'
<1> DEFINE gone == (Range(cli_out[c]) \cup {i \in Range(cli_in[c]) : msg[i].done}) \ {Greeting}
           flags == client_close_flags(c, msg)
<1>1. TypeOK /\ NoDuplicates /\ Awaited /\ PoolOpen /\ \A j \in Msg : Where(j)
  BY SMT DEF PlaceInv
<1>2. /\ stage' = [stage EXCEPT ![c] = "closed"] /\ req_put(flags, tmo, gone)
      /\ cli_in' = [cli_in EXCEPT ![c] = << >>] /\ cli_out' = [cli_out EXCEPT ![c] = << >>]
      /\ active' = active \ {c} /\ failed' = failed \ {c}
      /\ waiting' = [waiting EXCEPT ![c] = None]
      /\ UNCHANGED <<link, s_conn_q, sev_in, tree, msg_id, g_dtc_key_type, sendq, turn, dtcd,
           stray>>
  BY DEF client_close
<1>3. /\ msg \in [Msg -> Message] /\ tmo \in Seq(Msg) /\ msg_id \in Nat
      /\ cli_in \in [Client -> Seq(Msg)] /\ cli_out \in [Client -> Seq(Msg \cup {Greeting})]
      /\ stage \in [Client -> {"closed", "LOGGING_IN", "LOGGED_IN"}]
  BY <1>1, SMT DEF TypeOK
<1>4. /\ flags \in [Msg -> Message]
      /\ \A j \in Msg : flags[j] = IF j \in In(c) /\ ~msg[j].done
           THEN [msg[j] EXCEPT !.swallow = TRUE] ELSE msg[j]
  <2>1. \A j \in Msg : [msg[j] EXCEPT !.swallow = TRUE] \in Message
    BY <1>3 DEF Message
  <2> QED BY <1>3, <2>1 DEF client_close_flags, In
<1>5. \A j \in Msg : j \in gone <=> j \in Out(c)
  <2>1. \A j \in Msg : j \in In(c) => ~msg[j].done
    BY <1>1 DEF Where, AtClient
  <2>2. \A j \in Msg : j # Greeting
    BY AgentAssumption DEF Msg
  <2> QED BY <2>1, <2>2 DEF In, Out
<1> HIDE DEF gone, flags
<1>6. /\ msg' \in [Msg -> Message] /\ tmo' \in Seq(Msg)
      /\ \A j \in Msg : msg'[j] = IF j \in gone THEN NoMsg ELSE flags[j]
      /\ Timers' = Timers \ gone
  BY <1>2, <1>3, <1>4, PutEffect DEF Timers
<1>7. /\ cli_in' \in [Client -> Seq(Msg)] /\ cli_out' \in [Client -> Seq(Msg \cup {Greeting})]
      /\ cli_in'[c] = << >> /\ cli_out'[c] = << >>
      /\ \A d \in Client : d # c => cli_in'[d] = cli_in[d] /\ cli_out'[d] = cli_out[d]
  BY <1>2, <1>3, SMT
<1>8. /\ In(c)' = {} /\ Out(c)' = {}
      /\ \A d \in Client : d # c => In(d)' = In(d) /\ Out(d)' = Out(d)
  <2>1. Range(<< >>) = {}
    BY SMT DEF Range
  <2> QED BY <2>1, <1>7 DEF In, Out
<1>9. /\ stage' \in [Client -> {"closed", "LOGGING_IN", "LOGGED_IN"}]
      /\ \A d \in Client : d # c => stage'[d] = stage[d]
  BY <1>2, <1>3
<1>10. \A s \in Server : Req(s)' = Req(s) /\ tree'[s] = tree[s] /\ link'[s] = link[s]
  BY <1>2 DEF Req
<1>11. ASSUME NEW j \in Msg PROVE Where(j)'
  <2>1. Where(j)
    BY <1>1
  <2>2. CASE j \in Out(c)
    <3>1. msg[j].done /\ c = msg[j].owner /\ msg[j].live
      BY <2>1, <2>2 DEF Where, AtClient, Flags
    <3>2. \A d \in Client : j \notin In(d)' /\ j \notin Out(d)'
      BY <2>1, <3>1, <1>8 DEF Where, AtClient
    <3>3. \A s \in Server : j \notin Req(s)' /\ j \notin tree'[s]
      BY <2>1, <3>1, <1>10 DEF Where, AtServer, With
    <3>4. GivenBack(j)
      BY <2>2, <3>2, <3>3, <1>5, <1>6 DEF GivenBack
    <3> QED BY <3>4, WhereGivenBack
  <2>3. CASE j \in In(c)
    <3>1. msg[j].live /\ ~msg[j].done /\ c = msg[j].owner /\ j \notin Out(c)
      BY <2>1, <2>3 DEF Where, AtClient
    <3>2. msg'[j] = [msg[j] EXCEPT !.swallow = TRUE] /\ (server_timeout > 0 => j \in Timers')
      BY <2>1, <2>3, <3>1, <1>4, <1>5, <1>6 DEF Where, Timed
    <3>3. \A d \in Client : j \notin In(d)' /\ j \notin Out(d)'
      BY <2>1, <3>1, <1>8 DEF Where, AtClient
    <3>4. SameServers(j) /\ KeepsServer(j)
      BY <2>1, <1>10 DEF SameServers, KeepsServer, Where, AtServer
    <3>5. Swallowed(j)
      BY <3>1, <3>2, <3>3, <3>4 DEF Swallowed
    <3> QED BY <3>5, <2>1, <1>2, <1>3, WhereSwallowed
  <2>4. CASE j \notin In(c) /\ j \notin Out(c)
    <3>1. msg[j].live /\ ~msg[j].swallow => msg[j].owner \in Client \ {c}
      BY <2>1, <2>4 DEF Where, Flags, AtClient
    <3>2. KeepsOpen(j)
      BY <2>1, <3>1, <1>9, <1>10
         DEF KeepsOpen, KeepsServer, Where, AtServer, Reachable, Open
    <3>3. SameQueues(j) /\ SameServers(j) /\ SameFlags(j)
      BY <2>4, <1>4, <1>5, <1>6, <1>8, <1>10 DEF SameQueues, SameServers, SameFlags
    <3>4. Untouched(j)
      BY <2>4, <3>3, <1>5, <1>6 DEF Untouched
    <3> QED BY <2>1, <3>2, <3>4, <1>2, <1>3, WhereUntouched, SMT
  <2> QED BY <2>2, <2>3, <2>4
<1>12. NoDuplicates'
  <2>1. IsInjective(<< >>)
    BY SMT DEF IsInjective
  <2> QED BY <2>1, <1>1, <1>2, <1>7 DEF NoDuplicates
<1>13. waiting' \in [Client -> Msg \cup {Greeting, None}] /\ \A d \in Client : d # c
         => waiting'[d] = waiting[d]
  BY <1>1, <1>2 DEF TypeOK
<1>14. Awaited'
  <2> SUFFICES ASSUME NEW d \in Client, NEW j \in Msg, j \in In(d)' \cup Out(d)',
        msg'[j].admin = "NOP"
               PROVE  waiting'[d] = j
    BY SMT DEF Awaited
  <2>1. d # c /\ j \in In(d) \cup Out(d)
    BY <1>8
  <2>2. Where(j)
    BY <1>1
  <2>3. j \notin In(c) /\ j \notin Out(c)
    BY <2>1, <2>2 DEF Where, AtClient
  <2>4. msg'[j] = msg[j]
    BY <2>3, <1>4, <1>5, <1>6
  <2> QED BY <2>1, <2>4, <1>1, <1>13 DEF Awaited
<1>15. TypeOK'
  BY <1>1, <1>2, <1>6, <1>7, <1>9, <1>13 DEF TypeOK, turn
<1> QED BY <1>1, <1>2, <1>11, <1>12, <1>14, <1>15 DEF PlaceInv, PoolOpen, OwnAnswer
-----------------------------------------------------------------------------
(* wait_send_queue after the first n of the messages ids *)
CacheSteps(q, ids, after) ==
  /\ after[0] = q
  /\ \A n \in 1 .. Len(ids) : after[n] = cache_send_event(after[n - 1], msg[ids[n]].owner)
  /\ cache_clients(q, ids) = after[Len(ids)]

(* the messages ids belong to clients *)
Owned(ids) == ids \in Seq(Msg) /\ \A j \in Range(ids) : msg[j].owner \in Client

(* The recursion of cache_clients has the values its steps give. *)
LEMMA CacheClientsSteps ==
  ASSUME NEW q \in SendQ, NEW ids, Owned(ids)
  PROVE  \E after \in [0 .. Len(ids) -> SendQ] : CacheSteps(q, ids, after)
<1> DEFINE N == Len(ids)
           One(n, r) == cache_send_event(r, msg[ids[n]].owner)
           step == [n \in 1 .. N |-> [r \in SendQ |-> One(n, r)]]
           Def(g) == [n \in 0 .. N |-> IF n = 0 THEN q ELSE One(n, g[n - 1])]
           after == CHOOSE g : g = Def(g)
<1>1. N \in Nat /\ ids \in Seq(Msg)
  BY SMT DEF Owned
<1>2. \A n \in 1 .. N : \A r \in SendQ : One(n, r) \in SendQ
  <2>1. \A n \in 1 .. N : msg[ids[n]].owner \in Conn
    BY <1>1, InQueue DEF Owned, Conn
  <2> QED BY <2>1, CacheType
<1>3. cache_clients(q, ids) = after[N]
  BY DEF cache_clients
<1> HIDE DEF N, One
<1>4. step \in [1 .. N -> [SendQ -> SendQ]]
  BY <1>2
<1>5. \A n \in 1 .. N : \A r \in SendQ : step[n][r] = One(n, r)
  OBVIOUS
<1> HIDE DEF step
<1>6. PICK f \in [0 .. N -> SendQ] : f[0] = q /\ \A n \in 1 .. N : f[n] = step[n][f[n - 1]]
  <2> DEFINE SS == SendQ
             a == q
  <2>1. a \in SS /\ N \in Nat /\ step \in [1 .. N -> [SS -> SS]]
    BY <1>1, <1>4
  <2> HIDE DEF SS, a
  <2>2. \E f \in [0 .. N -> SS] : f[0] = a /\ \A n \in 1 .. N : f[n] = step[n][f[n - 1]]
    BY <2>1, Iteration, SMT
  <2> QED BY <2>2 DEF SS, a
<1>7. \A n \in 0 .. N : n # 0 => n \in 1 .. N /\ n - 1 \in 0 .. N
  BY <1>1, SMT
<1>8. f = Def(f)
  <2>1. \A n \in 0 .. N : f[n] = IF n = 0 THEN q ELSE One(n, f[n - 1])
    BY <1>5, <1>6, <1>7
  <2> QED BY <2>1
<1>9. after = Def(after)
  BY <1>8
<1> HIDE DEF after
<1>10. \A n \in 0 .. N : after[n] = IF n = 0 THEN q ELSE One(n, after[n - 1])
  BY <1>9
<1>11. after = [n \in 0 .. N |-> after[n]]
  BY <1>9
<1> HIDE DEF Def
<1> DEFINE T == {n \in Nat : n <= N => after[n] \in SendQ}
<1>12. \A n \in Nat : n \in T
  <2>1. 0 \in T
    <3>1. 0 \in 0 .. N
      BY <1>1, SMT
    <3>2. after[0] = q
      BY <1>10, <3>1
    <3> QED BY <3>2
  <2>2. ASSUME NEW n \in Nat, n \in T PROVE n + 1 \in T
    <3> SUFFICES ASSUME n + 1 <= N PROVE after[n + 1] \in SendQ
      BY SMT
    <3>1. n + 1 \in 0 .. N /\ n + 1 # 0 /\ (n + 1) - 1 = n /\ n <= N /\ n + 1 \in 1 .. N
      BY <1>1, SMT
    <3>2. after[n] \in SendQ
      BY <2>2, <3>1
    <3>3. after[n + 1] = One(n + 1, after[n])
      BY <1>10, <3>1
    <3> QED BY <1>2, <3>1, <3>2, <3>3
  <2> HIDE DEF T
  <2> QED BY <2>1, <2>2, Induction
<1>13. \A n \in 0 .. N : after[n] \in SendQ
  BY <1>1, <1>12, SMT
<1>14. after \in [0 .. N -> SendQ]
  BY <1>11, <1>13
<1>15. after[0] = q /\ \A n \in 1 .. N : after[n] = One(n, after[n - 1])
  BY <1>1, <1>10, SMT
<1>16. CacheSteps(q, ids, after)
  BY <1>3, <1>15 DEF N, One, CacheSteps
<1> QED BY <1>14, <1>16 DEF N

(* cache_clients keeps to the room of wait_send_queue. *)
LEMMA CacheClientsType ==
  ASSUME NEW q \in SendQ, NEW ids, Owned(ids) PROVE cache_clients(q, ids) \in SendQ
<1>1. PICK after \in [0 .. Len(ids) -> SendQ] : CacheSteps(q, ids, after)
  BY CacheClientsSteps
<1>2. Len(ids) \in 0 .. Len(ids)
  BY SMT DEF Owned
<1> QED BY <1>1, <1>2 DEF CacheSteps

(* Messages that were in no out queue are forwarded to their clients. *)
Forwarded(ids) ==
  /\ Owned(ids) /\ IsInjective(ids)
  /\ rsp_forward(ids, cli_in, cli_out, sendq)
  /\ \A d \in Client : \A j \in Range(ids) : j \notin Out(d)

(* rsp_forward takes messages from the in queues of their clients to the out queues. *)
LEMMA ForwardEffect ==
  ASSUME TypeOK, NoDuplicates, NEW ids, Forwarded(ids)
  PROVE  /\ cli_in' \in [Client -> Seq(Msg)] /\ cli_out' \in [Client -> Seq(Msg \cup {Greeting})]
         /\ sendq' \in SendQ
         /\ \A d \in Client : In(d)' = In(d) \ Range(ids)
         /\ \A d \in Client, j \in Msg :
              j \in Out(d)' <=> j \in Out(d) \/ (j \in Range(ids) /\ msg[j].owner = d)
         /\ \A d \in Client : IsInjective(cli_out'[d])
<1> DEFINE mine(d) == Without(ids, {i \in Msg : msg[i].owner # d})
           R == Msg \cup {Greeting}
<1>1. /\ cli_in \in [Client -> Seq(Msg)] /\ cli_out \in [Client -> Seq(R)]
      /\ ids \in Seq(Msg) /\ IsInjective(ids)
      /\ cli_in' = [c \in Client |-> Without(cli_in[c], Range(ids))]
      /\ cli_out' = [c \in Client |-> cli_out[c] \o mine(c)]
      /\ sendq' = cache_clients(sendq, ids)
  BY DEF TypeOK, Forwarded, Owned, rsp_forward
<1>2. sendq' \in SendQ
  BY <1>1, SendQOfType, CacheClientsType DEF Forwarded
<1>3. \A d \in Client : Without(cli_in[d], Range(ids)) \in Seq(Msg)
        /\ Range(Without(cli_in[d], Range(ids))) = Range(cli_in[d]) \ Range(ids)
  BY <1>1, InWithout, SMT
<1>4. cli_in' \in [Client -> Seq(Msg)] /\ \A d \in Client : In(d)' = In(d) \ Range(ids)
  BY <1>1, <1>3 DEF In
<1>5. \A d \in Client : /\ mine(d) \in Seq(Msg) /\ IsInjective(mine(d))
                        /\ Range(mine(d)) = Range(ids) \ {i \in Msg : msg[i].owner # d}
  BY <1>1, InWithout
<1>6. \A d \in Client : mine(d) \in Seq(R)
  <2>1. \A q \in Seq(Msg) : q \in Seq(R)
    BY SMT
  <2> QED BY <1>5, <2>1
<1> HIDE DEF mine, R
<1>7. \A d \in Client : Range(cli_out[d]) \cap Range(mine(d)) = {} /\ IsInjective(cli_out[d])
  BY <1>5 DEF NoDuplicates, Forwarded, Out
<1>8. \A d \in Client : /\ cli_out[d] \o mine(d) \in Seq(R)
                        /\ Range(cli_out[d] \o mine(d)) = Range(cli_out[d]) \cup Range(mine(d))
                        /\ IsInjective(cli_out[d] \o mine(d))
  BY <1>1, <1>5, <1>6, <1>7, InConcat, SMT
<1>9. cli_out' \in [Client -> Seq(R)] /\ \A d \in Client : cli_out'[d] = cli_out[d] \o mine(d)
  BY <1>1, <1>8
<1>10. \A d \in Client : IsInjective(cli_out'[d]) /\ Out(d)' = Out(d) \cup Range(mine(d))
  BY <1>8, <1>9 DEF Out
<1>11. \A d \in Client, j \in Msg : j \in Range(mine(d)) <=> j \in Range(ids) /\ msg[j].owner = d
  BY <1>5
<1> QED BY <1>2, <1>4, <1>9, <1>10, <1>11, SMT DEF R

(* rsp_recv_done: the answer is for nobody, swallowed, the key of the table, or for a *)
(* client.                                                                            *)
LEMMA RecvPlace ==
  ASSUME PlaceInv, NEW s \in Server, NEW i \in Msg, NEW admin, rsp_recv_done(s, i, admin) PROVE PlaceInv'
<1>1. TypeOK /\ NoDuplicates /\ Awaited /\ PoolOpen /\ \A j \in Msg : Where(j)
  BY DEF PlaceInv
<1>2. /\ dtcd' = [dtcd EXCEPT ![s] = @ \ {i}] /\ tree' = [tree EXCEPT ![s] = @ \ {i}]
      /\ UNCHANGED <<stage, link, s_conn_q, sev_in, msg_id, active, failed, turn, waiting, stray>>
  BY DEF rsp_recv_done
<1>3. /\ msg \in [Msg -> Message] /\ tmo \in Seq(Msg) /\ msg_id \in Nat
      /\ cli_in \in [Client -> Seq(Msg)] /\ cli_out \in [Client -> Seq(Msg \cup {Greeting})]
      /\ tree \in [Server -> SUBSET Msg] /\ dtcd \in [Server -> SUBSET Msg] /\ sendq \in SendQ
  BY <1>1, SendQOfType, SMT DEF TypeOK
<1>4. /\ tree' \in [Server -> SUBSET Msg] /\ dtcd' \in [Server -> SUBSET Msg]
      /\ \A t \in Server : tree'[t] = IF t = s THEN tree[t] \ {i} ELSE tree[t]
  BY <1>2, <1>3
<1>5. \A t \in Server : Req(t)' = Req(t) /\ link'[t] = link[t]
  BY <1>2 DEF Req
<1>6. StaysOpen
  BY <1>2 DEF StaysOpen, Open
<1> DEFINE Types == /\ msg' \in [Msg -> Message] /\ tmo' \in Seq(Msg) /\ g_dtc_key_type' \in BOOLEAN
                    /\ cli_in' \in [Client -> Seq(Msg)]
                    /\ cli_out' \in [Client -> Seq(Msg \cup {Greeting})]
                    /\ sendq' \in SendQ
                    /\ \A d \in Client : IsInjective(cli_out'[d])
           Others == \A j \in Msg : j # i => /\ SameQueues(j)
                                             /\ msg'[j] = msg[j]
                                             /\ j \in Timers' <=> j \in Timers
           This == /\ Where(i)'
                   /\ \A d \in Client : i \in In(d)' \cup Out(d)' =>
                        i \in In(d) \cup Out(d) /\ msg'[i].admin = msg[i].admin
           Put == /\ msg' \in [Msg -> Message] /\ tmo' \in Seq(Msg)
                  /\ \A j \in Msg : msg'[j] = IF j \in {i} THEN NoMsg ELSE msg[j]
                  /\ Timers' = Timers \ {i}
<1>7. Types /\ Others /\ This
  <2>0. req_put(msg, tmo, {i}) => Put
    <3> DEFINE ids == {i}
    <3> HIDE DEF ids
    <3>1. req_put(msg, tmo, ids) =>
            /\ msg' \in [Msg -> Message] /\ tmo' \in Seq(Msg)
            /\ \A j \in Msg : msg'[j] = IF j \in ids THEN NoMsg ELSE msg[j]
            /\ Timers' = Timers \ ids
      BY <1>1, PutOf
    <3> QED BY <3>1 DEF ids
  <2>1. Where(i)
    BY <1>1
  <2>2. CASE i \notin tree[s]
    <3>1. UNCHANGED <<cli_in, cli_out, sendq, msg, tmo, g_dtc_key_type>>
      BY <2>2 DEF rsp_recv_done
    <3>2. \A t \in Server : tree'[t] = tree[t]
      BY <2>2, <1>4
    <3>3. Types
      BY <1>1, <1>3, <3>1 DEF TypeOK, NoDuplicates
    <3>4. \A j \in Msg : SameQueues(j) /\ SameServers(j) /\ SameFlags(j)
            /\ (j \in Timers' <=> j \in Timers)
      BY <3>1, <3>2, <1>5 DEF SameQueues, SameServers, SameFlags, In, Out, Timers
    <3>5. Untouched(i)
      BY <3>4 DEF Untouched
    <3>6. Where(i)'
      BY <3>5, <2>1, <1>2, <1>3, <1>6, WhereStays, SMT
    <3>7. This
      BY <3>1, <3>6 DEF In, Out
    <3> QED BY <3>1, <3>3, <3>4, <3>7
  <2>3. ASSUME i \in tree[s]
        PROVE  /\ msg[i].live /\ ~msg[i].done
               /\ \A t \in Server : i \notin Req(t)' /\ i \notin tree'[t]
    <3>1. i \in With(s)
      BY <2>3 DEF With
    <3>2. msg[i].live /\ ~msg[i].done
      BY <2>1, <3>1 DEF Where, AtServer
    <3>3. \A t \in Server : i \notin Req(t) /\ (i \in tree[t] => t = s)
      BY <2>1, <2>3, <3>1 DEF Where, AtServer, With
    <3> QED BY <3>2, <3>3, <1>4, <1>5
  <2>4. CASE i \in tree[s] /\ msg[i].swallow
    <3>1. req_put(msg, tmo, {i}) /\ UNCHANGED <<cli_in, cli_out, sendq, g_dtc_key_type>>
      BY <2>4 DEF rsp_recv_done
    <3>2. Put
      BY <3>1, <2>0
    <3>3. Types
      BY <1>1, <1>3, <3>1, <3>2 DEF TypeOK, NoDuplicates
    <3>4. \A d \in Client : In(d)' = In(d) /\ Out(d)' = Out(d)
      BY <3>1 DEF In, Out
    <3>5. Others
      BY <3>2, <3>4 DEF SameQueues
    <3>6. \A d \in Client : i \notin In(d) /\ i \notin Out(d)
      BY <2>1, <2>4 DEF Where, AtClient, Flags
    <3>7. GivenBack(i)
      BY <2>3, <2>4, <3>2, <3>4, <3>6 DEF GivenBack
    <3>8. This
      BY <3>4, <3>6, <3>7, WhereGivenBack
    <3> QED BY <3>3, <3>5, <3>8
  <2>5. CASE i \in tree[s] /\ ~msg[i].swallow /\ admin = "KEY_DEFINE"
    <3> DEFINE o == msg[i].owner
    <3>1. /\ req_put(msg, tmo, {i}) /\ UNCHANGED <<cli_out, sendq>> /\ g_dtc_key_type' = TRUE
          /\ cli_in' = [cli_in EXCEPT ![o] = Without(@, {i})]
      BY <2>5 DEF rsp_recv_done
    <3>2. Put
      BY <3>1, <2>0
    <3>3. o \in Client
      BY <2>1, <2>3, <2>5 DEF Where, Flags
    <3> HIDE DEF o
    <3>4. Without(cli_in[o], {i}) \in Seq(Msg)
            /\ Range(Without(cli_in[o], {i})) = Range(cli_in[o]) \ {i}
      BY <3>3, <1>3, InWithout, SMT
    <3>5. cli_in' \in [Client -> Seq(Msg)] /\ \A d \in Client : In(d)' = IF d = o
            THEN In(d) \ {i} ELSE In(d)
      BY <3>1, <3>3, <3>4, <1>3 DEF In
    <3>6. \A d \in Client : Out(d)' = Out(d)
      BY <3>1 DEF Out
    <3>7. Types
      BY <1>1, <1>3, <3>1, <3>2, <3>5 DEF TypeOK, NoDuplicates
    <3>8. Others
      BY <3>2, <3>5, <3>6 DEF SameQueues
    <3>9. \A d \in Client : (i \in In(d) => d = o) /\ i \notin Out(d)
      BY <2>1, <2>3, <2>5 DEF Where, AtClient, o
    <3>10. GivenBack(i)
      BY <2>3, <2>5, <3>2, <3>5, <3>6, <3>9 DEF GivenBack
    <3>11. \A d \in Client : i \notin In(d)' \cup Out(d)'
      BY <3>10 DEF GivenBack
    <3>12. This
      BY <3>10, <3>11, WhereGivenBack
    <3> QED BY <3>7, <3>8, <3>12, SMT
  <2>6. CASE i \in tree[s] /\ ~msg[i].swallow /\ admin # "KEY_DEFINE"
    <3>1. /\ msg' = [msg EXCEPT ![i].done = TRUE] /\ rsp_forward(<<i>>, cli_in, cli_out, sendq)
          /\ UNCHANGED <<tmo, g_dtc_key_type>>
      BY <2>6 DEF rsp_recv_done
    <3>2. msg[i].owner \in Client /\ Open(msg[i].owner)
      BY <2>1, <2>3, <2>6 DEF Where, Flags, Reachable
    <3>3. <<i>> \in Seq(Msg) /\ Range(<<i>>) = {i} /\ IsInjective(<<i>>)
      BY SMT DEF Range, IsInjective
    <3>4. \A d \in Client : i \notin Out(d)
      BY <2>1, <2>3, <2>6 DEF Where, AtClient
    <3>5. Forwarded(<<i>>)
      BY <3>1, <3>2, <3>3, <3>4 DEF Forwarded, Owned
    <3>6. /\ cli_in' \in [Client -> Seq(Msg)] /\ cli_out' \in [Client -> Seq(Msg \cup {Greeting})]
          /\ sendq' \in SendQ
          /\ \A d \in Client : In(d)' = In(d) \ {i}
          /\ \A d \in Client, j \in Msg : j \in Out(d)' <=> j \in Out(d)
               \/ (j \in {i} /\ msg[j].owner = d)
          /\ \A d \in Client : IsInjective(cli_out'[d])
      BY <1>1, <3>3, <3>5, ForwardEffect
    <3>7. /\ msg' \in [Msg -> Message] /\ msg'[i] = [msg[i] EXCEPT !.done = TRUE]
          /\ \A j \in Msg : j # i => msg'[j] = msg[j]
      BY <1>3, <3>1, ZenonT(30) DEF Message
    <3>8. msg'[i] = [msg[i] EXCEPT !.done = TRUE, !.error = msg[i].error]
            /\ msg[i].error \in BOOLEAN
      BY <1>3, <3>7 DEF Message
    <3>9. Types
      BY <1>1, <3>1, <3>6, <3>7, <1>3 DEF TypeOK
    <3>10. Others
      BY <3>1, <3>6, <3>7, SMT DEF SameQueues, Timers
    <3>11. stage'[msg[i].owner] # "closed"
      BY <3>2, <1>2 DEF Open
    <3>12. Finished(i)
      <4>1. \E e \in BOOLEAN : msg'[i] = [msg[i] EXCEPT !.done = TRUE, !.error = e]
        BY <3>8
      <4>2. \A d \in Client : i \notin In(d)' /\ (i \in Out(d)' <=> d = msg[i].owner)
        BY <3>4, <3>6
      <4> QED BY <2>3, <2>6, <3>11, <4>1, <4>2 DEF Finished
    <3>13. Where(i)'
      BY <3>12, <2>1, <1>2, <1>3, WhereFinished
    <3>14. i \in In(msg[i].owner)
      BY <2>1, <2>3, <2>6, <3>2 DEF Where, AtClient
    <3>15. msg'[i].admin = msg[i].admin
      BY <3>7, <1>3, SMT DEF Message
    <3>16. This
      BY <3>4, <3>6, <3>13, <3>14, <3>15
    <3> QED BY <3>9, <3>10, <3>16, SMT
  <2> QED BY <2>2, <2>4, <2>5, <2>6
<1> HIDE DEF Types, Others, This
<1>8. ASSUME NEW j \in Msg PROVE Where(j)'
  <2>1. CASE j = i
    BY <2>1, <1>7 DEF This
  <2>2. CASE j # i
    <3>1. SameServers(j)
      BY <2>2, <1>4, <1>5 DEF SameServers
    <3>2. Untouched(j)
      BY <2>2, <3>1, <1>7 DEF Others, Untouched, SameFlags
    <3> QED BY <3>2, <1>1, <1>2, <1>3, <1>6, WhereStays, SMT
  <2> QED BY <2>1, <2>2
<1>9. TypeOK'
  BY <1>1, <1>2, <1>4, <1>7 DEF TypeOK, Types, SendQ, turn
<1>10. NoDuplicates'
  BY <1>1, <1>2, <1>7 DEF NoDuplicates, Types
<1>11. Awaited'
  <2> SUFFICES ASSUME NEW d \in Client, NEW j \in Msg, j \in In(d)' \cup Out(d)',
        msg'[j].admin = "NOP"
               PROVE  waiting'[d] = j
    BY DEF Awaited
  <2>1. j \in In(d) \cup Out(d) /\ msg[j].admin = "NOP"
    BY <1>7 DEF Others, This, SameQueues
  <2> QED BY <2>1, <1>1, <1>2 DEF Awaited
<1> QED BY <1>1, <1>2, <1>8, <1>9, <1>10, <1>11 DEF PlaceInv, PoolOpen, OwnAnswer
-----------------------------------------------------------------------------
(* The messages of a tree in order are just these messages. *)
LEMMA InOrderEffect ==
  ASSUME NEW ids, ids \subseteq Msg
  PROVE  InOrder(ids) \in Seq(Msg) /\ Range(InOrder(ids)) = ids /\ IsInjective(InOrder(ids))
<1> DEFINE all == [i \in Msg |-> i]
<1>1. all \in Seq(Msg)
  <2>1. all \in [1 .. max_msg -> Msg] /\ max_msg \in Nat
    BY AgentAssumption DEF Msg
  <2> HIDE DEF all
  <2> QED BY <2>1, SMT
<1>2. Range(all) = Msg /\ IsInjective(all)
  BY DEF Range, IsInjective
<1>3. InOrder(ids) = Without(all, Msg \ ids)
  BY DEF InOrder
<1> HIDE DEF all
<1>4. /\ Without(all, Msg \ ids) \in Seq(Msg) /\ IsInjective(Without(all, Msg \ ids))
      /\ Range(Without(all, Msg \ ids)) = Range(all) \ (Msg \ ids)
  BY <1>1, <1>2, InWithout, SMT
<1> QED BY <1>2, <1>3, <1>4

(* server_close: what dtcd has not answered is given back or answered with an error. *)
LEMMA ServerClosePlace ==
  ASSUME PlaceInv, NEW s \in Server, server_close(s) PROVE PlaceInv'
<1> DEFINE open == sev_in[s] \o InOrder(tree[s])
           gone == {i \in Range(open) : msg[i].swallow}
           back == Without(open, gone)
           flags == [i \in Msg |-> IF i \in Range(back)
                                   THEN [msg[i] EXCEPT !.done = TRUE, !.error = TRUE] ELSE msg[i]]
<1>1. TypeOK /\ NoDuplicates /\ Awaited /\ PoolOpen /\ \A j \in Msg : Where(j)
  BY SMT DEF PlaceInv
<1>2. /\ link' = [link EXCEPT ![s] = "closed"] /\ s_conn_q' = Without(s_conn_q, {s})
      /\ req_put(flags, tmo, gone) /\ rsp_forward(back, cli_in, cli_out, sendq)
      /\ sev_in' = [sev_in EXCEPT ![s] = << >>] /\ tree' = [tree EXCEPT ![s] = {}]
      /\ active' = active \ {s} /\ failed' = failed \ {s} /\ dtcd' = [dtcd EXCEPT ![s] = {}]
      /\ UNCHANGED <<stage, msg_id, g_dtc_key_type, turn, waiting, stray>>
  BY DEF server_close
<1>3. /\ msg \in [Msg -> Message] /\ tmo \in Seq(Msg) /\ msg_id \in Nat
      /\ sev_in \in [Server -> Seq(Msg)] /\ tree \in [Server -> SUBSET Msg]
      /\ dtcd \in [Server -> SUBSET Msg] /\ s_conn_q \in Seq(Server)
      /\ link \in [Server -> {"closed", "connecting", "connected"}]
  BY <1>1, SMT DEF TypeOK
<1>4. open \in Seq(Msg) /\ Range(open) = With(s) /\ IsInjective(open)
  <2>1. InOrder(tree[s]) \in Seq(Msg) /\ Range(InOrder(tree[s])) = tree[s]
          /\ IsInjective(InOrder(tree[s]))
    BY <1>3, InOrderEffect
  <2>2. Range(sev_in[s]) \cap tree[s] = {}
    BY <1>1, <1>3 DEF Where, AtServer, Req
  <2> QED BY <1>1, <1>3, <2>1, <2>2, InConcat, SMT DEF NoDuplicates, With, Req
<1>5. back \in Seq(Msg) /\ IsInjective(back) /\ Range(back) = With(s) \ gone
  <2> HIDE DEF open, gone
  <2> QED BY <1>4, InWithout, SMT
<1>6. gone = {i \in With(s) : msg[i].swallow}
  BY <1>4
<1>7. \A j \in Msg : (j \in gone <=> j \in With(s) /\ msg[j].swallow)
        /\ (j \in Range(back) <=> j \in With(s) /\ ~msg[j].swallow)
  BY <1>5, <1>6
<1>8. flags \in [Msg -> Message] /\ \A j \in Msg : flags[j] = IF j \in Range(back)
        THEN [msg[j] EXCEPT !.done = TRUE, !.error = TRUE] ELSE msg[j]
  <2>1. ASSUME NEW j \in Msg PROVE [msg[j] EXCEPT !.done = TRUE, !.error = TRUE] \in Message
    <3> DEFINE m == msg[j]
    <3>1. m \in Message
      BY <1>3
    <3> HIDE DEF m
    <3>2. [m EXCEPT !.done = TRUE, !.error = TRUE] \in Message
      BY <3>1 DEF Message
    <3> QED BY <3>2 DEF m
  <2> HIDE DEF back
  <2> QED BY <1>3, <2>1
<1>9. \A j \in Msg : j \in With(s) => msg[j].live /\ ~msg[j].done /\ msg[j].owner \in Client
  BY <1>1 DEF Where, AtServer, Flags
<1> HIDE DEF open, gone, back, flags
<1>10. \A j \in Range(back) : j \in Msg
  BY <1>5, InQueue
<1>11. Forwarded(back)
  <2>1. Owned(back)
    BY <1>5, <1>7, <1>9, <1>10 DEF Owned
  <2>2. \A d \in Client : \A j \in Range(back) : j \notin Out(d)
    BY <1>1, <1>7, <1>9, <1>10 DEF Where, AtClient
  <2> QED BY <1>2, <1>5, <2>1, <2>2 DEF Forwarded
<1>12. /\ cli_in' \in [Client -> Seq(Msg)] /\ cli_out' \in [Client -> Seq(Msg \cup {Greeting})]
       /\ sendq' \in SendQ
       /\ \A d \in Client : In(d)' = In(d) \ Range(back)
       /\ \A d \in Client, j \in Msg :
            j \in Out(d)' <=> j \in Out(d) \/ (j \in Range(back) /\ msg[j].owner = d)
       /\ \A d \in Client : IsInjective(cli_out'[d])
  BY <1>1, <1>11, ForwardEffect
<1>13. /\ msg' \in [Msg -> Message] /\ tmo' \in Seq(Msg)
       /\ \A j \in Msg : msg'[j] = IF j \in gone THEN NoMsg ELSE flags[j]
       /\ Timers' = Timers \ gone
  BY <1>2, <1>3, <1>8, PutEffect, ZenonT(30) DEF Timers
<1>14. /\ sev_in' \in [Server -> Seq(Msg)] /\ tree' \in [Server -> SUBSET Msg]
       /\ dtcd' \in [Server -> SUBSET Msg]
       /\ link' \in [Server -> {"closed", "connecting", "connected"}]
       /\ sev_in'[s] = << >> /\ tree'[s] = {}
       /\ \A t \in Server : t # s => sev_in'[t] = sev_in[t] /\ tree'[t] = tree[t]
            /\ link'[t] = link[t]
  BY <1>2, <1>3, SMT
<1>15. /\ Req(s)' = {} /\ \A t \in Server : t # s => Req(t)' = Req(t)
  <2>1. Range(<< >>) = {}
    BY SMT DEF Range
  <2> QED BY <2>1, <1>14 DEF Req
<1>16. ASSUME NEW j \in Msg, j \in With(s) PROVE \A t \in Server : j \notin Req(t)'
         /\ j \notin tree'[t]
  <2>1. \A t \in Server : j \in With(t) => t = s
    BY <1>16, <1>1 DEF Where, AtServer
  <2>2. \A t \in Server : t # s => j \notin Req(t) /\ j \notin tree[t]
    BY <2>1 DEF With
  <2> QED BY <2>2, <1>14, <1>15
<1>17. ASSUME NEW j \in Msg PROVE Where(j)'
  <2>1. Where(j)
    BY <1>1, SMT
  <2>2. CASE j \in gone
    <3>1. j \in With(s) /\ msg[j].swallow /\ j \notin Range(back) /\ msg[j].live /\ ~msg[j].done
      BY <2>2, <1>7, <1>9
    <3>2. \A d \in Client : j \notin In(d)' /\ j \notin Out(d)'
      BY <2>1, <3>1, <1>12, SMT DEF Where, AtClient
    <3>3. GivenBack(j)
      BY <2>2, <3>1, <3>2, <1>13, <1>16 DEF GivenBack
    <3> QED BY <3>3, WhereGivenBack, SMT
  <2>3. CASE j \in Range(back)
    <3>1. j \in With(s) /\ ~msg[j].swallow /\ j \notin gone /\ msg[j].live /\ ~msg[j].done
            /\ msg[j].owner \in Client
      BY <2>3, <1>7, <1>9
    <3>2. \A d \in Client : j \notin In(d)' /\ (j \in Out(d)' <=> d = msg[j].owner)
      BY <2>1, <2>3, <3>1, <1>12, SMT DEF Where, AtClient
    <3>3. msg'[j] = [msg[j] EXCEPT !.done = TRUE, !.error = TRUE]
      BY <2>3, <3>1, <1>8, <1>13
    <3>4. \E e \in BOOLEAN : msg'[j] = [msg[j] EXCEPT !.done = TRUE, !.error = e]
      BY <3>3
    <3>5. stage'[msg[j].owner] # "closed"
      BY <2>1, <3>1, <1>2 DEF Where, Reachable, Open
    <3>6. Finished(j)
      BY <3>1, <3>2, <3>4, <3>5, <1>16 DEF Finished
    <3> QED BY <3>6, <2>1, <1>2, <1>3, WhereFinished
  <2>4. CASE j \notin With(s)
    <3>1. j \notin gone /\ j \notin Range(back)
      BY <2>4, <1>7
    <3>2. SameQueues(j) /\ SameFlags(j)
      <4>1. SameQueues(j)
        BY <3>1, <1>12, SMT DEF SameQueues
      <4>2. msg'[j] = msg[j]
        BY <3>1, <1>8, <1>13
      <4> QED BY <4>1, <4>2 DEF SameFlags
    <3>3. SameServers(j)
      BY <2>4, <1>14, <1>15 DEF SameServers, With
    <3>4. Untouched(j)
      BY <3>1, <3>2, <3>3, <1>13 DEF Untouched
    <3>5. KeepsOpen(j)
      BY <2>1, <2>4, <1>2, <1>14, SMT
         DEF KeepsOpen, KeepsServer, Where, AtServer, Reachable, Open
    <3> QED BY <2>1, <3>4, <3>5, <1>2, <1>3, WhereUntouched, SMT
  <2> QED BY <2>2, <2>3, <2>4, <1>7
<1>18. NoDuplicates'
  <2>1. IsInjective(<< >>)
    BY SMT DEF IsInjective
  <2> QED BY <2>1, <1>1, <1>12, <1>14 DEF NoDuplicates
<1>19. s_conn_q' \in Seq(Server) /\ PoolOpen'
  <2>1. s_conn_q' \in Seq(Server) /\ Range(s_conn_q') = Range(s_conn_q) \ {s}
    BY <1>2, <1>3, InWithout, SMT
  <2>2. Range(s_conn_q) \subseteq Server
    BY <1>3, InQueue
  <2> QED BY <2>1, <2>2, <1>1, <1>14 DEF PoolOpen
<1>20. Awaited'
  <2> SUFFICES ASSUME NEW d \in Client, NEW j \in Msg, j \in In(d)' \cup Out(d)',
        msg'[j].admin = "NOP"
               PROVE  waiting'[d] = j
    BY DEF Awaited
  <2>1. Where(j)
    BY <1>1
  <2>2. j \in In(d) \cup Out(d)
    <3>1. CASE j \in Range(back) /\ msg[j].owner = d
      BY <2>1, <3>1, <1>7, <1>9 DEF Where, AtClient
    <3> QED BY <3>1, <1>12, SMT
  <2>3. j \notin gone
    BY <2>1, <2>2, <1>7, <1>9 DEF Where, AtClient
  <2>4. msg'[j].admin = msg[j].admin
    <3>1. [msg[j] EXCEPT !.done = TRUE, !.error = TRUE].admin = msg[j].admin
      BY <1>3, SMT DEF Message
    <3> QED BY <2>3, <3>1, <1>8, <1>13
  <2> QED BY <2>2, <2>4, <1>1, <1>2 DEF Awaited
<1>21. TypeOK'
  BY <1>1, <1>2, <1>12, <1>13, <1>14, <1>19 DEF TypeOK, SendQ, turn
<1> QED BY <1>2, <1>17, <1>18, <1>19, <1>20, <1>21 DEF PlaceInv, OwnAnswer
-----------------------------------------------------------------------------
(* What a send leaves as it is *)
SendRest ==
  /\ UNCHANGED <<stage, s_conn_q, cli_in, msg_id, g_dtc_key_type, turn>>
  /\ active' \subseteq Conn /\ failed' \subseteq Conn /\ sendq' \in SendQ

(* rsp_send: what a client was sent is given back, and was its own answer. *)
LEMMA RspSendPlace ==
  ASSUME PlaceInv, NEW c \in Client, NEW k \in 0 .. Len(cli_out[c]), rsp_send(c, k), SendRest
  PROVE  PlaceInv'
<1> DEFINE R == Msg \cup {Greeting}
           sent == Range(SubSeq(cli_out[c], 1, k))
           rest == SubSeq(cli_out[c], k + 1, Len(cli_out[c]))
           ids == sent \ {Greeting}
<1>1. TypeOK /\ NoDuplicates /\ Awaited /\ PoolOpen /\ OwnAnswer /\ \A j \in Msg : Where(j)
  BY DEF PlaceInv
<1>2. /\ cli_out' = [cli_out EXCEPT ![c] = rest] /\ req_put(msg, tmo, ids)
      /\ waiting' = [waiting EXCEPT ![c] = IF @ \in sent THEN None ELSE @]
      /\ stray' = stray \cup {msg[i].admin : i \in sent \ {Greeting, waiting[c]}}
      /\ UNCHANGED <<link, sev_in, tree, dtcd>>
  BY DEF rsp_send
<1>3. /\ msg \in [Msg -> Message] /\ msg_id \in Nat /\ cli_out \in [Client -> Seq(R)]
  BY <1>1, SMT DEF TypeOK
<1>4. rest \in Seq(R) /\ Range(cli_out[c]) = sent \cup Range(rest) /\ IsInjective(rest)
        /\ sent \cap Range(rest) = {}
  <2>1. cli_out[c] \in Seq(R) /\ IsInjective(cli_out[c])
    BY <1>1, <1>3 DEF NoDuplicates
  <2> HIDE DEF R
  <2> QED BY <2>1, InParts, SMT
<1>5. \A j \in sent : j \in Msg \/ j = Greeting
  <2>1. cli_out[c] \in Seq(R)
    BY <1>3
  <2>2. Range(cli_out[c]) \subseteq R
    <3> HIDE DEF R
    <3> QED BY <2>1, InQueue
  <2> QED BY <2>2, <1>4
<1>6. \A j \in Msg : j # Greeting /\ j # None
  BY AgentAssumption DEF Msg
<1> HIDE DEF sent, rest
<1>7. \A j \in Msg : j \in ids <=> j \in sent
  BY <1>6
<1> HIDE DEF ids
<1>8. /\ msg' \in [Msg -> Message] /\ tmo' \in Seq(Msg)
      /\ \A j \in Msg : msg'[j] = IF j \in ids THEN NoMsg ELSE msg[j]
      /\ Timers' = Timers \ ids
  BY <1>1, <1>2, PutOf
<1>9. cli_out' \in [Client -> Seq(R)] /\ \A d \in Client : cli_out'[d] = IF d = c THEN rest
        ELSE cli_out[d]
  BY <1>2, <1>3, <1>4
<1>10. /\ Out(c) = sent \cup Out(c)' /\ sent \cap Out(c)' = {}
       /\ \A d \in Client : In(d)' = In(d) /\ (d # c => Out(d)' = Out(d))
  BY <1>4, <1>9 DEF Out, In, SendRest
<1>11. \A s \in Server : Req(s)' = Req(s) /\ tree'[s] = tree[s] /\ link'[s] = link[s]
  BY <1>2 DEF Req
<1>12. StaysOpen
  BY <1>11 DEF StaysOpen, Open, SendRest
<1>13. ASSUME NEW j \in Msg PROVE Where(j)'
  <2>1. Where(j)
    BY <1>1
  <2>2. CASE j \in sent
    <3>1. msg[j].done /\ c = msg[j].owner
      BY <2>1, <2>2, <1>10 DEF Where, AtClient
    <3>2. \A d \in Client : j \notin In(d)' /\ j \notin Out(d)'
      BY <2>1, <2>2, <3>1, <1>10, SMT DEF Where, AtClient
    <3>3. \A s \in Server : j \notin Req(s)' /\ j \notin tree'[s]
      BY <2>1, <3>1, <1>11 DEF Where, AtServer, With
    <3>4. GivenBack(j)
      BY <2>2, <3>2, <3>3, <1>7, <1>8 DEF GivenBack
    <3> QED BY <3>4, WhereGivenBack
  <2>3. CASE j \notin sent
    <3>1. SameQueues(j) /\ SameServers(j)
      BY <2>3, <1>10, <1>11 DEF SameQueues, SameServers
    <3>2. Untouched(j)
      BY <2>3, <3>1, <1>7, <1>8 DEF Untouched, SameFlags
    <3> QED BY <2>1, <3>2, <1>3, <1>12, WhereStays, SMT DEF SendRest
  <2> QED BY <2>2, <2>3
<1>14. NoDuplicates'
  BY <1>1, <1>2, <1>4, <1>9 DEF NoDuplicates
<1>15. /\ waiting' \in [Client -> Msg \cup {Greeting, None}]
       /\ \A d \in Client : waiting'[d] = IF d = c /\ waiting[c] \in sent THEN None ELSE waiting[d]
  BY <1>1, <1>2 DEF TypeOK
<1>16. Awaited'
  <2> SUFFICES ASSUME NEW d \in Client, NEW j \in Msg, j \in In(d)' \cup Out(d)',
        msg'[j].admin = "NOP"
               PROVE  waiting'[d] = j
    BY DEF Awaited
  <2>1. j \in In(d) \cup Out(d)
    BY <1>10
  <2>2. j \notin sent
    <3>1. Where(j)
      BY <1>1
    <3>2. CASE d = c
      BY <3>1, <3>2, <1>10 DEF Where, AtClient
    <3>3. CASE d # c
      BY <2>1, <3>1, <3>3, <1>10 DEF Where, AtClient
    <3> QED BY <3>2, <3>3
  <2>3. msg'[j] = msg[j]
    BY <2>2, <1>7, <1>8
  <2>4. waiting[d] = j
    BY <2>1, <2>3, <1>1 DEF Awaited
  <2> QED BY <2>2, <2>4, <1>15
<1>17. \A j \in sent \ {Greeting, waiting[c]} : j \in Msg /\ msg[j].admin \in {"KEY_DEFINE"}
  <2> SUFFICES ASSUME NEW j \in sent \ {Greeting, waiting[c]}
        PROVE j \in Msg /\ msg[j].admin = "KEY_DEFINE"
    OBVIOUS
  <2>1. j \in Msg /\ j \in Out(c)
    BY <1>5, <1>10
  <2>2. msg[j].admin # "NOP"
    BY <2>1, <1>1 DEF Awaited
  <2>3. msg[j].admin \in Admin
    BY <2>1, <1>3 DEF Message
  <2> QED BY <2>1, <2>2, <2>3 DEF Admin
<1>18. stray' \subseteq stray \cup {"KEY_DEFINE"}
  BY <1>2, <1>17
<1>19. TypeOK'
  BY <1>1, <1>2, <1>8, <1>9, <1>15, <1>18 DEF TypeOK, Admin, SendRest, SendQ, turn
<1>20. OwnAnswer' /\ PoolOpen'
  BY <1>1, <1>2, <1>18 DEF OwnAnswer, PoolOpen, SendRest
<1> QED BY <1>13, <1>14, <1>16, <1>19, <1>20 DEF PlaceInv
(* Message j goes from the in queue of a server connection to its tree. *)
Handed(j) ==
  /\ SameQueues(j) /\ SameFlags(j) /\ (j \in Timers' <=> j \in Timers)
  /\ \A t \in Server : (j \in With(t)' <=> j \in With(t)) /\ j \notin Req(t)' \cap tree'[t]

(* A message that dtcd has now has its place. *)
LEMMA WhereHanded ==
  ASSUME NEW j \in Msg, Where(j), Handed(j), StaysOpen, msg \in [Msg -> Message], msg_id' = msg_id
  PROVE  Where(j)'
<1> DEFINE Same == /\ msg'[j].live = msg[j].live /\ msg'[j].done = msg[j].done
                   /\ msg'[j].error = msg[j].error /\ msg'[j].swallow = msg[j].swallow
                   /\ msg'[j].owner = msg[j].owner /\ (~msg[j].live => msg'[j] = msg[j])
<1>1. Same
  <2>1. CASE msg'[j] = msg[j]
    BY <2>1
  <2>2. ASSUME msg[j].live, NEW b \in BOOLEAN, msg'[j] = [msg[j] EXCEPT !.sending = b] PROVE Same
    BY <2>2, ZenonT(30) DEF Message
  <2> QED BY <2>1, <2>2 DEF Handed, SameFlags
<1>2. Flags(j)'
  BY <1>1 DEF Where, Flags
<1>3. AtClient(j)'
  BY <1>1 DEF Where, AtClient, Handed, SameQueues
<1>4. AtServer(j)'
  BY <1>1 DEF Where, AtServer, Handed, StaysOpen
<1>5. Timed(j)'
  BY <1>1 DEF Where, Timed, Handed
<1>6. Reachable(j)'
  BY <1>1 DEF Where, Flags, Reachable, StaysOpen, Open
<1> QED BY <1>2, <1>3, <1>4, <1>5, <1>6 DEF Where

(* req_send: what was sent is in the tree of the connection, and no longer in its queue. *)
LEMMA ReqSendPlace ==
  ASSUME PlaceInv, NEW s \in Server, NEW k \in 0 .. Len(sev_in[s]), req_send(s, k), SendRest
  PROVE  PlaceInv'
<1> DEFINE sent == Range(SubSeq(sev_in[s], 1, k))
           rest == SubSeq(sev_in[s], k + 1, Len(sev_in[s]))
<1>1. TypeOK /\ NoDuplicates /\ Awaited /\ PoolOpen /\ OwnAnswer /\ \A j \in Msg : Where(j)
  BY SMT DEF PlaceInv
<1>2. /\ link' = [link EXCEPT ![s] = "connected"] /\ sev_in' = [sev_in EXCEPT ![s] = rest]
      /\ tree' = [tree EXCEPT ![s] = @ \cup sent] /\ dtcd' = [dtcd EXCEPT ![s] = @ \cup sent]
      /\ msg' = [i \in Msg |-> IF i \in sent \cup Range(rest)
                               THEN [msg[i] EXCEPT !.sending = i \notin sent] ELSE msg[i]]
      /\ UNCHANGED <<cli_out, tmo, waiting, stray>>
  BY DEF req_send
<1>3. /\ msg \in [Msg -> Message] /\ msg_id \in Nat /\ sev_in \in [Server -> Seq(Msg)]
      /\ tree \in [Server -> SUBSET Msg] /\ dtcd \in [Server -> SUBSET Msg]
      /\ link \in [Server -> {"closed", "connecting", "connected"}]
  BY <1>1, SMT DEF TypeOK
<1>4. /\ rest \in Seq(Msg) /\ Range(sev_in[s]) = sent \cup Range(rest) /\ IsInjective(rest)
      /\ sent \cap Range(rest) = {}
  BY <1>1, <1>3, InParts, SMT DEF NoDuplicates
<1>5. Req(s) \subseteq Msg
  BY <1>3, InQueue DEF Req
<1> HIDE DEF sent, rest
<1>6. sent \subseteq Req(s) /\ Req(s) = sent \cup Range(rest)
  BY <1>4 DEF Req
<1>7. /\ sev_in' \in [Server -> Seq(Msg)] /\ tree' \in [Server -> SUBSET Msg]
      /\ dtcd' \in [Server -> SUBSET Msg]
      /\ link' \in [Server -> {"closed", "connecting", "connected"}]
      /\ \A t \in Server : /\ sev_in'[t] = IF t = s THEN rest ELSE sev_in[t]
                           /\ tree'[t] = IF t = s THEN tree[s] \cup sent ELSE tree[t]
                           /\ link'[t] = IF t = s THEN "connected" ELSE link[t]
  BY <1>2, <1>3, <1>4, <1>5, <1>6
<1>8. \A t \in Server : Req(t)' = IF t = s THEN Range(rest) ELSE Req(t)
  BY <1>7 DEF Req
<1>9. \A t \in Server : With(t)' = With(t)
  BY <1>6, <1>7, <1>8, SMTT(30) DEF With
<1>10. StaysOpen /\ \A d \in Client : In(d)' = In(d) /\ Out(d)' = Out(d)
  BY <1>2, <1>7 DEF StaysOpen, Open, SendRest, In, Out
<1>11. Timers' = Timers
  BY <1>2 DEF Timers
<1>12. ASSUME NEW j \in Msg
       PROVE  SameFlags(j) /\ msg'[j] \in Message /\ msg'[j].admin = msg[j].admin
  <2>1. msg'[j] = IF j \in Req(s) THEN [msg[j] EXCEPT !.sending = j \notin sent] ELSE msg[j]
    BY <1>2, <1>6
  <2>2. CASE j \in Req(s)
    <3>1. msg[j].live
      BY <2>2, <1>1 DEF Where, AtServer, With
    <3>2. PICK b \in BOOLEAN : b = (j \notin sent)
      OBVIOUS
    <3>3. msg'[j] = [msg[j] EXCEPT !.sending = b]
      BY <2>1, <2>2, <3>2
    <3>4. msg'[j] \in Message /\ msg'[j].admin = msg[j].admin
      <4> DEFINE m == msg[j]
      <4>1. m \in Message /\ msg'[j] = [m EXCEPT !.sending = b]
        BY <3>3, <1>3
      <4> HIDE DEF m
      <4>2. [m EXCEPT !.sending = b] \in Message /\ [m EXCEPT !.sending = b].admin = m.admin
        BY <4>1 DEF Message
      <4> QED BY <4>1, <4>2 DEF m
    <3> QED BY <3>1, <3>3, <3>4 DEF SameFlags
  <2>3. CASE j \notin Req(s)
    BY <2>1, <2>3, <1>3 DEF SameFlags
  <2> QED BY <2>2, <2>3
<1>13. msg' \in [Msg -> Message]
  <2>1. msg' = [j \in Msg |-> msg'[j]]
    BY <1>2
  <2> QED BY <2>1, <1>12
<1>14. ASSUME NEW j \in Msg PROVE Where(j)'
  <2>1. Where(j)
    BY <1>1, SMT
  <2>2. \A t \in Server : j \notin Req(t)' \cap tree'[t]
    <3>1. \A t \in Server : j \notin Req(t) \cap tree[t]
      BY <2>1 DEF Where, AtServer
    <3> QED BY <3>1, <1>4, <1>6, <1>7, <1>8
  <2>3. Handed(j)
    BY <2>2, <1>9, <1>10, <1>11, <1>12 DEF Handed, SameQueues
  <2> QED BY <2>1, <2>3, <1>3, <1>10, WhereHanded DEF SendRest
<1>15. NoDuplicates'
  BY <1>1, <1>2, <1>4, <1>7 DEF NoDuplicates
<1>16. Awaited'
  BY <1>1, <1>2, <1>10, <1>12 DEF Awaited
<1>17. PoolOpen'
  <2>1. Range(s_conn_q) \subseteq Server
    BY <1>1, InQueue DEF TypeOK
  <2> QED BY <2>1, <1>1, <1>7 DEF PoolOpen, SendRest
<1>18. TypeOK'
  BY <1>1, <1>2, <1>7, <1>13 DEF TypeOK, SendRest, SendQ, turn
<1> QED BY <1>1, <1>2, <1>14, <1>15, <1>16, <1>17, <1>18 DEF PlaceInv, OwnAnswer

(* core_send to either side *)
LEMMA CoreSendPlace ==
  ASSUME PlaceInv, NEW conn \in Conn, NEW k \in 0 .. Len(Queue(conn)), NEW on, on \subseteq Conn,
         core_send(conn, k, on),
         UNCHANGED <<stage, s_conn_q, cli_in, msg_id, g_dtc_key_type, turn>>,
         failed' \subseteq Conn, sendq' \in SendQ
  PROVE  PlaceInv'
<1>1. SendRest
  BY DEF PlaceInv, TypeOK, core_send, SendRest
<1>2. CASE conn \in Client
  BY <1>1, <1>2, RspSendPlace DEF core_send, Queue
<1>3. CASE conn \notin Client
  <2>1. conn \in Server
    BY <1>3 DEF Conn
  <2> QED BY <1>1, <1>3, <2>1, ReqSendPlace DEF core_send, Queue
<1> QED BY <1>2, <1>3

(* EPOLLOUT on a connection *)
LEMMA SendEventPlace ==
  ASSUME PlaceInv, NEW conn \in Conn, NEW k \in Nat, send_event(conn, k) PROVE PlaceInv'
<1>1. /\ k <= Len(Queue(conn)) /\ core_send(conn, k, active)
      /\ UNCHANGED <<stage, s_conn_q, cli_in, msg_id, g_dtc_key_type, failed, sendq, turn>>
  BY DEF send_event
<1>2. TypeOK /\ sendq \in SendQ /\ active \subseteq Conn /\ failed \subseteq Conn
  BY SendQOfType DEF PlaceInv, TypeOK
<1>3. Len(Queue(conn)) \in Nat
  <2>1. conn \in Client => cli_out[conn] \in Seq(Msg \cup {Greeting})
    BY <1>2 DEF TypeOK
  <2>2. conn \in Server => sev_in[conn] \in Seq(Msg)
    BY <1>2 DEF TypeOK
  <2> QED BY <2>1, <2>2, SMT DEF Queue, Conn
<1>4. k \in 0 .. Len(Queue(conn))
  BY <1>1, <1>3, SMT
<1> QED BY <1>1, <1>2, <1>4, CoreSendPlace

(* process_cached_write_event, on a connection that was closed, that can send, or that *)
(* fails.                                                                              *)
LEMMA CachedWritePlace ==
  ASSUME PlaceInv, process_cached_write_event PROVE PlaceInv'
<1> DEFINE conn == Head(sendq.queue)
<1>1. /\ sendq.queue # << >>
      /\ sendq' = [queue |-> Tail(sendq.queue), cached |-> sendq.cached \ {conn}]
      /\ UNCHANGED <<stage, s_conn_q, cli_in, msg_id, g_dtc_key_type, turn>>
  BY DEF process_cached_write_event
<1>2. TypeOK /\ sendq \in SendQ /\ active \subseteq Conn /\ failed \subseteq Conn
  BY SendQOfType DEF PlaceInv, TypeOK
<1>3. conn \in Conn
  <2>1. sendq.queue \in Seq(Conn)
    BY <1>2 DEF SendQ
  <2> QED BY <1>1, <2>1, SMT
<1>4. sendq' \in SendQ
  BY <1>1, <1>2, SendQTail
<1>5. CASE Closed(conn)
  <2>1. UNCHANGED <<cli_out, msg, tmo, waiting, stray, link, sev_in, tree, dtcd, active, failed>>
    BY <1>5 DEF process_cached_write_event
  <2>2. TypeOK'
    BY <1>1, <1>2, <1>4, <2>1 DEF TypeOK, SendQ, turn
  <2>3. Awaited' /\ OwnAnswer'
    BY <1>1, <2>1 DEF PlaceInv, Awaited, In, Out, OwnAnswer
  <2> QED BY <1>1, <2>1, <2>2, <2>3, QuietPlace
<1> HIDE DEF conn
<1>6. ASSUME NEW k \in 0 .. Len(Queue(conn)), NEW on, on \subseteq Conn, core_send(conn, k, on),
             failed' \subseteq Conn
      PROVE  PlaceInv'
  BY <1>1, <1>3, <1>4, <1>6, CoreSendPlace
<1>7. CASE ~Closed(conn)
  <2>1. \/ (\E k \in 0 .. Len(Queue(conn)) : core_send(conn, k, active_after(conn)))
             /\ UNCHANGED failed
        \/ (\E k \in 0 .. Len(Queue(conn)) - 1 : core_send(conn, k, active))
             /\ failed' = failed \cup {conn}
    BY <1>7 DEF process_cached_write_event, conn
  <2>2. active_after(conn) \subseteq Conn
    BY <1>2, <1>3 DEF active_after
  <2>3. ASSUME NEW k \in 0 .. Len(Queue(conn)), core_send(conn, k, active_after(conn)),
          UNCHANGED failed
        PROVE  PlaceInv'
    BY <2>2, <2>3, <1>2, <1>6
  <2>4. ASSUME NEW k \in 0 .. Len(Queue(conn)) - 1, core_send(conn, k, active),
          failed' = failed \cup {conn}
        PROVE  PlaceInv'
    <3>1. Len(Queue(conn)) \in Nat
      <4>1. conn \in Client => cli_out[conn] \in Seq(Msg \cup {Greeting})
        BY <1>2 DEF TypeOK
      <4>2. conn \in Server => sev_in[conn] \in Seq(Msg)
        BY <1>2 DEF TypeOK
      <4> QED BY <1>3, <4>1, <4>2, SMT DEF Queue, Conn
    <3>2. k \in 0 .. Len(Queue(conn))
      BY <3>1, SMT
    <3> QED BY <2>4, <3>2, <1>2, <1>3, <1>6
  <2> QED BY <2>1, <2>3, <2>4
<1> QED BY <1>5, <1>7 DEF conn
-----------------------------------------------------------------------------
(* A message that is done needs no timeout. *)
LEMMA WhereUntimed ==
  ASSUME NEW j \in Msg, Where(j), SameQueues(j), SameServers(j), msg'[j] = msg[j], msg[j].done,
         StaysOpen, j \in Timers' => j \in Timers, msg_id' = msg_id
  PROVE  Where(j)'
<1>1. Flags(j)'
  BY DEF Where, Flags
<1>2. AtClient(j)'
  BY DEF Where, AtClient, SameQueues
<1>3. \A s \in Server : j \in With(s)' <=> j \in With(s)
  BY DEF SameServers, With
<1>4. AtServer(j)'
  BY <1>3 DEF Where, AtServer, SameServers
<1>5. Timed(j)'
  BY DEF Where, Timed, Flags
<1>6. Reachable(j)'
  BY DEF Where, Flags, Reachable, StaysOpen, Open
<1> QED BY <1>1, <1>2, <1>4, <1>5, <1>6 DEF Where

(* The first timeout is handled: message i leaves the containers it was in. *)
LEMMA TimeoutPlace ==
  ASSUME PlaceInv, core_timeout PROVE PlaceInv'
<1> DEFINE i == Head(tmo)
<1>1. TypeOK /\ NoDuplicates /\ Awaited /\ PoolOpen /\ OwnAnswer /\ \A j \in Msg : Where(j)
  BY DEF PlaceInv
<1>2. UNCHANGED <<stage, link, s_conn_q, cli_out, msg_id, g_dtc_key_type, active, failed, sendq,
                  fresh, dtcd, waiting, stray>>
  BY DEF core_timeout
<1>3. /\ msg \in [Msg -> Message] /\ tmo \in Seq(Msg) /\ msg_id \in Nat
      /\ cli_in \in [Client -> Seq(Msg)] /\ sev_in \in [Server -> Seq(Msg)]
      /\ tree \in [Server -> SUBSET Msg] /\ due \in Nat
  BY <1>1, SMT DEF TypeOK
<1>4. due' \in Nat
  <2>1. due > 0 => due - 1 \in Nat
    BY <1>3, SMT
  <2> QED BY <2>1 DEF core_timeout
<1>5. StaysOpen /\ \A d \in Client : Out(d)' = Out(d)
  BY <1>2 DEF StaysOpen, Open, Out
<1>6. tmo # << >> => i \in Msg /\ Timers = {i} \cup Range(Tail(tmo)) /\ Tail(tmo) \in Seq(Msg)
  BY <1>3, InTail DEF Timers
<1> DEFINE Types == /\ msg' \in [Msg -> Message] /\ tmo' \in Seq(Msg)
                    /\ cli_in' \in [Client -> Seq(Msg)] /\ sev_in' \in [Server -> Seq(Msg)]
                    /\ tree' \in [Server -> SUBSET Msg]
                    /\ phase' \in {"events", "write", "timeout"}
                    /\ \A s \in Server : IsInjective(sev_in'[s])
           Kept == \A j \in Msg, d \in Client : j \in In(d)' \cup Out(d)' =>
                     j \in In(d) \cup Out(d) /\ msg'[j].admin = msg[j].admin
           Placed == Types /\ Kept /\ \A j \in Msg : Where(j)'
<1>7. ASSUME UNCHANGED <<cli_in, sev_in, tree, msg>>
      PROVE  /\ \A j \in Msg : SameQueues(j) /\ SameServers(j) /\ msg'[j] = msg[j]
             /\ Kept
             /\ tmo' \in Seq(Msg) /\ phase' \in {"events", "write", "timeout"} => Types
  <2>1. \A d \in Client : In(d)' = In(d)
    BY <1>7 DEF In
  <2>2. \A s \in Server : Req(s)' = Req(s)
    BY <1>7 DEF Req
  <2>3. \A j \in Msg : SameQueues(j) /\ SameServers(j) /\ msg'[j] = msg[j]
    BY <2>1, <2>2, <1>5, <1>7 DEF SameQueues, SameServers
  <2>4. Kept
    BY <2>1, <1>5, <1>7
  <2>5. tmo' \in Seq(Msg) /\ phase' \in {"events", "write", "timeout"} => Types
    BY <1>1, <1>3, <1>7 DEF NoDuplicates
  <2> QED BY <2>3, <2>4, <2>5
<1>8. ASSUME tmo # << >> /\ (msg[i].done \/ msg[i].error) PROVE Placed
  <2>1. tmo' = Tail(tmo) /\ UNCHANGED <<cli_in, sev_in, tree, msg, phase>>
    BY <1>8 DEF core_timeout
  <2>2. i \in Msg /\ Timers = {i} \cup Timers' /\ tmo' \in Seq(Msg)
    BY <2>1, <1>6, <1>8 DEF Timers
  <2>3. msg[i].done
    BY <2>2, <1>1, <1>8 DEF Where, Flags
  <2> HIDE DEF i, Types, Kept
  <2>4. Types /\ Kept /\ \A j \in Msg : SameQueues(j) /\ SameServers(j) /\ msg'[j] = msg[j]
    BY <2>1, <2>2, <1>1, <1>7 DEF TypeOK
  <2>5. ASSUME NEW j \in Msg PROVE Where(j)'
    <3>1. CASE msg[j].done
      BY <3>1, <2>2, <2>4, <1>1, <1>2, <1>5, WhereUntimed
    <3>2. CASE ~msg[j].done
      <4>1. Untouched(j)
        BY <3>2, <2>2, <2>3, <2>4 DEF Untouched, SameFlags
      <4> QED BY <4>1, <1>1, <1>2, <1>3, <1>5, WhereStays, SMT
    <3> QED BY <3>1, <3>2
  <2> QED BY <2>4, <2>5
<1>9. ASSUME ~(tmo # << >> /\ (msg[i].done \/ msg[i].error)), ~(tmo # << >> /\ due > 0) PROVE Placed
  <2>1. phase' = "events" /\ UNCHANGED <<cli_in, sev_in, tree, msg, tmo>>
    BY <1>9 DEF core_timeout
  <2> HIDE DEF i, Types, Kept
  <2>2. Types /\ Kept /\ \A j \in Msg : SameQueues(j) /\ SameServers(j) /\ msg'[j] = msg[j]
    BY <2>1, <1>3, <1>7
  <2>3. ASSUME NEW j \in Msg PROVE Where(j)'
    <3>1. Untouched(j)
      BY <2>1, <2>2 DEF Untouched, SameFlags, Timers
    <3> QED BY <3>1, <1>1, <1>2, <1>3, <1>5, WhereStays, SMT
  <2> QED BY <2>2, <2>3, SMT
<1>10. ASSUME NEW x \in Msg, tmo # << >>, x = Head(tmo), ~(msg[x].done \/ msg[x].error), due > 0
       PROVE  Placed
  <2>1. /\ UNCHANGED phase /\ x \in Timers
        /\ IF msg[x].sending THEN reclaim_sending_msg(x) ELSE reclaim_timeout_msg(x)
    BY <1>6, <1>10 DEF core_timeout
  <2>2. msg[x].live /\ ~msg[x].done /\ Where(x)
    BY <2>1, <1>1, <1>10 DEF Where, Timed
  <2>3. LET after == msg_tmo_insert(Tail(tmo), x)
        IN /\ after \in Seq(Msg) /\ (server_timeout > 0 => x \in Range(after))
           /\ \A j \in Msg : j # x => (j \in Range(after) <=> j \in Timers)
    <3> DEFINE rest == Tail(tmo)
    <3>1. rest \in Seq(Msg) /\ Timers = {x} \cup Range(rest)
      BY <1>6, <1>10
    <3> HIDE DEF rest
    <3>2. /\ msg_tmo_insert(rest, x) \in Seq(Msg)
          /\ server_timeout > 0 => x \in Range(msg_tmo_insert(rest, x))
          /\ \A j \in Msg : j # x => (j \in Range(msg_tmo_insert(rest, x)) <=> j \in Timers)
      BY <3>1, <1>10, TmoInsert
    <3> QED BY <3>2 DEF rest
  <2>4. cli_in' = [c \in Client |-> Without(cli_in[c], {x})]
    BY <2>1 DEF reclaim_sending_msg, reclaim_timeout_msg
  <2>5. \A d \in Client : Without(cli_in[d], {x}) \in Seq(Msg)
          /\ Range(Without(cli_in[d], {x})) = Range(cli_in[d]) \ {x}
    BY <1>3, InWithout, SMT
  <2>6. cli_in' \in [Client -> Seq(Msg)] /\ \A d \in Client : In(d)' = In(d) \ {x}
    BY <2>4, <2>5 DEF In
  <2>7. \A d \in Client : x \notin In(d)' /\ x \notin Out(d)'
    BY <2>2, <2>6, <1>5 DEF Where, AtClient
  <2>8. \A j \in Msg : j # x => SameQueues(j)
    BY <2>6, <1>5 DEF SameQueues
  <2>9. CASE msg[x].sending
    <3>1. msg' = [msg EXCEPT ![x].swallow = TRUE] /\ tmo' = msg_tmo_insert(Tail(tmo), x)
            /\ UNCHANGED <<sev_in, tree>>
      BY <2>1, <2>9 DEF reclaim_sending_msg
    <3>2. /\ msg' \in [Msg -> Message] /\ msg'[x] = [msg[x] EXCEPT !.swallow = TRUE]
          /\ \A j \in Msg : j # x => msg'[j] = msg[j]
      BY <2>1, <3>1, <1>3, ZenonT(30) DEF Message
    <3>3. /\ tmo' \in Seq(Msg) /\ (server_timeout > 0 => x \in Timers')
          /\ \A j \in Msg : j # x => (j \in Timers' <=> j \in Timers)
      BY <2>3, <3>1 DEF Timers
    <3>4. \A j \in Msg : SameServers(j)
      BY <3>1 DEF SameServers, Req
    <3>5. KeepsServer(x)
      BY <2>2, <1>2 DEF KeepsServer, Where, AtServer
    <3>6. Swallowed(x)
      BY <2>1, <2>2, <2>7, <3>2, <3>3, <3>4, <3>5 DEF Swallowed
    <3>7. Where(x)'
      BY <2>1, <2>2, <3>6, <1>2, <1>3, WhereSwallowed
    <3>8. ASSUME NEW j \in Msg, j # x PROVE Where(j)'
      <4>1. Untouched(j)
        BY <2>8, <3>2, <3>3, <3>4, <3>8 DEF Untouched, SameFlags
      <4> QED BY <4>1, <1>1, <1>2, <1>3, <1>5, WhereStays, SMT
    <3>9. Types
      BY <1>1, <1>3, <2>1, <2>6, <3>1, <3>2, <3>3 DEF TypeOK, NoDuplicates
    <3>10. Kept
      <4>1. ASSUME NEW j \in Msg PROVE msg'[j].admin = msg[j].admin
        <5>1. msg[x] \in Message
          BY <1>3, <1>10
        <5>2. msg'[x].admin = msg[x].admin
          BY <3>2, <5>1, SMT DEF Message
        <5> QED BY <3>2, <5>2
      <4> QED BY <4>1, <2>6, <1>5
    <3> QED BY <3>7, <3>8, <3>9, <3>10
  <2>10. CASE ~msg[x].sending
    <3>1. /\ sev_in' = [s \in Server |-> Without(sev_in[s], {x})]
               /\ tree' = [s \in Server |-> tree[s] \ {x}]
          /\ req_put(msg, tmo, {x})
      BY <2>1, <2>10 DEF reclaim_timeout_msg
    <3>2. /\ msg' \in [Msg -> Message] /\ tmo' \in Seq(Msg)
          /\ \A j \in Msg : msg'[j] = IF j = x THEN NoMsg ELSE msg[j]
          /\ Timers' = Timers \ {x}
      <4> DEFINE ids == {x}
      <4>1. req_put(msg, tmo, ids)
        BY <3>1
      <4> HIDE DEF ids
      <4>2. /\ msg' \in [Msg -> Message] /\ tmo' \in Seq(Msg)
            /\ \A j \in Msg : msg'[j] = IF j \in ids THEN NoMsg ELSE msg[j]
            /\ Timers' = Timers \ ids
        BY <1>1, <4>1, PutOf
      <4> QED BY <4>2 DEF ids
    <3>3. \A s \in Server : /\ Without(sev_in[s], {x}) \in Seq(Msg)
                            /\ Range(Without(sev_in[s], {x})) = Range(sev_in[s]) \ {x}
                            /\ IsInjective(Without(sev_in[s], {x}))
      BY <1>1, <1>3, InWithout, SMT DEF NoDuplicates
    <3>4. /\ sev_in' \in [Server -> Seq(Msg)] /\ tree' \in [Server -> SUBSET Msg]
          /\ \A s \in Server : Req(s)' = Req(s) \ {x} /\ tree'[s] = tree[s] \ {x}
               /\ IsInjective(sev_in'[s])
      BY <1>3, <3>1, <3>3 DEF Req
    <3>5. GivenBack(x)
      BY <2>1, <2>7, <3>2, <3>4 DEF GivenBack
    <3>6. Where(x)'
      BY <2>1, <3>5, WhereGivenBack
    <3>7. ASSUME NEW j \in Msg, j # x PROVE Where(j)'
      <4>1. SameServers(j)
        BY <3>4, <3>7 DEF SameServers
      <4>2. Untouched(j)
        BY <2>8, <3>2, <3>7, <4>1 DEF Untouched, SameFlags
      <4> QED BY <4>2, <1>1, <1>2, <1>3, <1>5, WhereStays, SMT
    <3>8. Types
      BY <1>1, <2>1, <2>6, <3>2, <3>4 DEF TypeOK
    <3>9. Kept
      BY <2>6, <2>7, <3>2, <1>5
    <3> QED BY <3>6, <3>7, <3>8, <3>9, SMT
  <2> QED BY <2>9, <2>10
<1>11. Placed
  BY <1>6, <1>8, <1>9, <1>10
<1> HIDE DEF Types, Kept, i
<1>12. TypeOK'
  BY <1>1, <1>2, <1>4, <1>11 DEF TypeOK, Types
<1>13. NoDuplicates' /\ PoolOpen' /\ OwnAnswer'
  BY <1>1, <1>2, <1>11 DEF NoDuplicates, PoolOpen, OwnAnswer, Types
<1>14. Awaited'
  BY <1>1, <1>2, <1>11 DEF Awaited, Kept
<1> QED BY <1>11, <1>12, <1>13, <1>14 DEF PlaceInv
-----------------------------------------------------------------------------
(* In the first state no message exists. *)
LEMMA PlaceInit == Init => PlaceInv
<1> SUFFICES ASSUME Init PROVE PlaceInv
  OBVIOUS
<1>1. Range(<< >>) = {} /\ IsInjective(<< >>)
  BY SMT DEF Range, IsInjective
<1>2. /\ \A c \in Client : cli_in[c] = << >> /\ cli_out[c] = << >>
      /\ \A s \in Server : sev_in[s] = << >> /\ tree[s] = {}
      /\ tmo = << >> /\ s_conn_q = << >> /\ \A j \in Msg : msg[j] = NoMsg
  BY DEF Init
<1>3. TypeOK
  <2>1. NoMsg \in Message
    BY DEF NoMsg, Message, Admin
  <2>2. stage \in [Client -> {"closed", "LOGGING_IN", "LOGGED_IN"}]
    BY DEF Init
  <2>3. msg \in [Msg -> Message]
    BY <2>1 DEF Init
  <2>4. sendq \in [queue : Seq(Conn), cached : SUBSET Conn] /\ Len(sendq.queue) <= sum_nconn
    BY AgentAssumption, SMT DEF Init
  <2>5. msg_id \in 0 .. max_msg /\ g_dtc_key_type \in BOOLEAN
    BY AgentAssumption, SMT DEF Init
  <2> QED BY <2>2, <2>3, <2>4, <2>5, SMT DEF Init, TypeOK
<1>4. \A c \in Client : In(c) = {} /\ Out(c) = {}
  BY <1>1, <1>2 DEF In, Out
<1>5. \A s \in Server : With(s) = {} /\ Req(s) = {}
  BY <1>1, <1>2 DEF With, Req
<1>6. Timers = {}
  BY <1>1, <1>2 DEF Timers
<1>7. ASSUME NEW j \in Msg PROVE Where(j)
  <2>1. msg[j] = NoMsg
    BY <1>2
  <2>2. ~NoMsg.live /\ ~NoMsg.done /\ ~NoMsg.swallow /\ ~NoMsg.error
    BY DEF NoMsg
  <2> QED BY <2>1, <2>2, <1>4, <1>5, <1>6
             DEF Where, Flags, AtClient, AtServer, Timed, Reachable
<1>8. NoDuplicates /\ PoolOpen /\ Awaited /\ OwnAnswer
  BY <1>1, <1>2, <1>4 DEF Init, NoDuplicates, PoolOpen, Awaited, OwnAnswer
<1> QED BY <1>3, <1>7, <1>8 DEF PlaceInv

(* Every step of the agent keeps the invariant. *)
LEMMA PlaceNext == PlaceInv /\ [Next]_vars => PlaceInv'
<1> SUFFICES ASSUME PlaceInv, [Next]_vars PROVE PlaceInv'
  OBVIOUS
<1>1. ASSUME NEW c \in Client, listener_accept(c) PROVE PlaceInv'
  BY <1>1, AcceptPlace
<1>2. ASSUME NEW c \in Client, req_process(c) PROVE PlaceInv'
  BY <1>2, ProcessPlace, SMT
<1>3. ASSUME NEW c \in Client, client_close(c) PROVE PlaceInv'
  BY <1>3, ClientClosePlace, SMT
<1>4. ASSUME NEW c \in Client, give_up(c) PROVE PlaceInv'
  BY <1>4, GiveUpPlace, SMT
<1>5. ASSUME NEW s \in Server, server_close(s) PROVE PlaceInv'
  BY <1>5, ServerClosePlace, SMT
<1>6. ASSUME NEW s \in Server, NEW i \in Msg, NEW admin \in Admin, rsp_recv_done(s, i, admin)
      PROVE PlaceInv'
  BY <1>6, RecvPlace
<1>7. ASSUME NEW conn \in Conn, NEW k \in 0 .. max_msg + 1, send_event(conn, k) PROVE PlaceInv'
  BY <1>7, SendEventPlace, AgentAssumption, SMT
<1>8. ASSUME NEW n \in 0 .. Len(tmo), writes_done(n) PROVE PlaceInv'
  <2>1. n \in Nat
    BY SMT DEF PlaceInv, TypeOK
  <2> QED BY <1>8, <2>1, WritesDonePlace
<1>9. CASE UNCHANGED vars
  <2>1. TypeOK' /\ Awaited' /\ OwnAnswer'
    BY <1>9 DEF vars, PlaceInv, TypeOK, Awaited, In, Out, OwnAnswer
  <2> QED BY <1>9, <2>1, QuietPlace DEF vars
<1> QED BY <1>1, <1>2, <1>3, <1>4, <1>5, <1>6, <1>7, <1>8, <1>9, EventsDonePlace,
           CachedWritePlace, TimeoutPlace DEF Next

LEMMA PlaceAlways == Spec => [](TypeOK /\ MessageInPlace /\ OwnAnswer)
<1>1. PlaceInv => TypeOK /\ MessageInPlace /\ OwnAnswer
  BY PlaceOfAll DEF PlaceInv
<1> QED BY <1>1, PlaceInit, PlaceNext, PTL DEF Spec

(***************************************************************************)
(* With any number of clients, server connections and messages the         *)
(* variables of the agent have their types; in particular wait_send_queue  *)
(* is never written beyond its end.                                        *)
(***************************************************************************)
THEOREM AgentTypes == Spec => []TypeOK
BY PlaceAlways, PTL

(***************************************************************************)
(* A message that was given back is in no queue, tree or timeout, one with *)
(* an answer is with its connected client only, and one without is with    *)
(* one open connection to dtcd, and has a timeout if the pool of servers   *)
(* has one: no message that waits is out of the reach of an answer, of a   *)
(* close or of its timeout, whichever side closes or times out first.      *)
(***************************************************************************)
THEOREM MessagesPlaced == Spec => []MessageInPlace
BY PlaceAlways, PTL

(***************************************************************************)
(* The answer to a request goes only to the client that waits for it.      *)
(***************************************************************************)
THEOREM AnswerIsOwn == Spec => []OwnAnswer
BY PlaceAlways, PTL
-----------------------------------------------------------------------------
(***************************************************************************)
(* wait_send_queue of the agent: its length, and that what is queued on a  *)
(* connection will be sent.                                                *)
(***************************************************************************)
AtMostOnce(queue, conn) ==
  \A a, b \in DOMAIN queue : queue[a] = conn /\ queue[b] = conn => a = b

AtMostTwice(queue, conn) ==
  \A a, b, d \in DOMAIN queue :
    queue[a] = conn /\ queue[b] = conn /\ queue[d] = conn => a = b \/ a = d \/ b = d

Twice(queue) == \A conn \in Conn : AtMostTwice(queue, conn)

(* wait_send_queue with the connections new made in this turn: only such a one is twice *)
(* in it, the first time for the connection that had its place before                   *)
Entries(q, new) ==
  \A conn \in Conn :
    /\ conn \notin q.cached => AtMostOnce(q.queue, conn)
    /\ conn \notin new => /\ AtMostOnce(q.queue, conn)
                          /\ conn \in Range(q.queue) => conn \in q.cached

GoodQueue(q, new) ==
  /\ q \in SendQ
  /\ q.cached \subseteq Range(q.queue)
  /\ Twice(q.queue)
  /\ Entries(q, new)

TriggerInv ==
  /\ sendq.cached \subseteq Range(sendq.queue)
  /\ Twice(sendq.queue)
  /\ phase = "events" => Entries(sendq, fresh)
  /\ phase = "timeout" => sendq.queue = << >>
  /\ \A conn \in fresh : ~Closed(conn)
  /\ \A s \in Server : link[s] = "connecting" => s \in active

(* wait_send_queue is not full, or never will be *)
Roomy(q) == Len(q.queue) < sum_nconn \/ 2 * Cardinality(Conn) <= sum_nconn
-----------------------------------------------------------------------------
(* How often connections are in a queue after x was put in it *)
LEMMA TwiceAppend ==
  ASSUME NEW s \in Seq(Conn), NEW x \in Conn, NEW y \in Conn
  PROVE  /\ y # x /\ AtMostOnce(s, y) => AtMostOnce(Append(s, x), y)
         /\ x \notin Range(s) => AtMostOnce(Append(s, x), x)
         /\ y # x /\ AtMostTwice(s, y) => AtMostTwice(Append(s, x), y)
         /\ AtMostOnce(s, x) => AtMostTwice(Append(s, x), x)
<1> DEFINE t == Append(s, x)
           N == Len(s)
<1>1. /\ N \in Nat /\ DOMAIN s = 1 .. N /\ DOMAIN t = 1 .. N + 1 /\ t[N + 1] = x
      /\ \A a \in 1 .. N : t[a] = s[a]
  BY SMT
<1>2. \A a \in DOMAIN t : (a \in DOMAIN s /\ t[a] = s[a]) \/ (a = N + 1 /\ t[a] = x)
  BY <1>1, SMT
<1> HIDE DEF t, N
<1>3. y # x /\ AtMostOnce(s, y) => AtMostOnce(t, y)
  BY <1>2 DEF AtMostOnce
<1>4. x \notin Range(s) => AtMostOnce(t, x)
  BY <1>2 DEF AtMostOnce, Range
<1>5. y # x /\ AtMostTwice(s, y) => AtMostTwice(t, y)
  BY <1>2 DEF AtMostTwice
<1>6. AtMostOnce(s, x) => AtMostTwice(t, x)
  BY <1>2 DEF AtMostOnce, AtMostTwice
<1> QED BY <1>3, <1>4, <1>5, <1>6 DEF t

(* No connection is there more often after the first one has left. *)
LEMMA TwiceTail ==
  ASSUME NEW s \in Seq(Conn), s # << >>, Twice(s) PROVE Twice(Tail(s))
<1> DEFINE t == Tail(s)
           N == Len(s)
<1>1. /\ N \in Nat /\ DOMAIN s = 1 .. N /\ DOMAIN t = 1 .. N - 1
      /\ \A a \in 1 .. N - 1 : t[a] = s[a + 1]
  BY SMT
<1> HIDE DEF t, N
<1> SUFFICES ASSUME NEW x \in Conn, NEW a \in DOMAIN t, NEW b \in DOMAIN t, NEW d \in DOMAIN t,
                    t[a] = x, t[b] = x, t[d] = x
             PROVE  a = b \/ a = d \/ b = d
  BY SMT DEF Twice, AtMostTwice, t
<1>2. a + 1 \in DOMAIN s /\ b + 1 \in DOMAIN s /\ d + 1 \in DOMAIN s
  BY <1>1, SMT
<1>3. s[a + 1] = x /\ s[b + 1] = x /\ s[d + 1] = x
  BY <1>1
<1>4. a + 1 = b + 1 \/ a + 1 = d + 1 \/ b + 1 = d + 1
  BY <1>2, <1>3, SMT DEF Twice, AtMostTwice
<1> QED BY <1>1, <1>4, SMT

(* A queue in which no connection is three times is at most twice as long as there are *)
(* connections.                                                                         *)
LEMMA TwiceLength ==
  ASSUME NEW s \in Seq(Conn), Twice(s)
  PROVE  Len(s) <= 2 * Cardinality(Conn) /\ Cardinality(Conn) \in Nat
<1> DEFINE N == Len(s)
           Again(n) == \E m \in 1 .. N : m < n /\ s[m] = s[n]
           T == Conn \X {1, 2}
           f == [n \in 1 .. N |-> <<s[n], IF Again(n) THEN 2 ELSE 1>>]
<1>1. N \in Nat /\ DOMAIN s = 1 .. N /\ \A n \in 1 .. N : s[n] \in Conn
  BY SMT
<1>2. f \in [1 .. N -> T]
  BY <1>1
<1>3. \A n \in 1 .. N : f[n][1] = s[n] /\ (f[n][2] = 2 <=> Again(n))
  BY SMT
<1>4. ASSUME NEW n \in 1 .. N, NEW m \in 1 .. N, n < m, f[n] = f[m] PROVE FALSE
  <2>1. s[n] = s[m] /\ Again(m)
    BY <1>3, <1>4
  <2>2. Again(n)
    BY <1>3, <1>4, <2>1
  <2>3. PICK a \in 1 .. N : a < n /\ s[a] = s[n]
    BY <2>2
  <2>4. a = n \/ a = m \/ n = m
    BY <2>1, <2>3, <1>1 DEF Twice, AtMostTwice
  <2> QED BY <2>3, <2>4, <1>1, <1>4, SMT
<1> HIDE DEF f
<1>5. f \in Injection(1 .. N, T)
  <2>1. \A n, m \in 1 .. N : f[n] = f[m] => n = m
    BY <1>1, <1>4, SMT
  <2> QED BY <1>2, <2>1 DEF Injection, IsInjective
<1>0. ASSUME NEW b \in Nat PROVE IsFiniteSet(1 .. b) /\ Cardinality(1 .. b) = b
  <2>1. 1 \in Int /\ b \in Int
    BY SMT
  <2>2. IsFiniteSet(1 .. b) /\ Cardinality(1 .. b) = IF 1 > b THEN 0 ELSE b - 1 + 1
    BY <2>1, FS_Interval
  <2> QED BY <2>2, SMT
<1>6. IsFiniteSet(Conn) /\ IsFiniteSet({1, 2}) /\ Cardinality({1, 2}) = 2
  <2>1. IsFiniteSet(Conn)
    BY AgentAssumption, FS_Union DEF Conn
  <2>2. {1, 2} = 1 .. 2
    BY SMT
  <2>3. IsFiniteSet(1 .. 2) /\ Cardinality(1 .. 2) = 2
    BY <1>0
  <2> QED BY <2>1, <2>2, <2>3
<1>7. IsFiniteSet(T) /\ Cardinality(T) = Cardinality(Conn) * 2 /\ Cardinality(Conn) \in Nat
  BY <1>6, FS_Product, FS_CardinalityType
<1>8. Cardinality(1 .. N) <= Cardinality(T)
  BY <1>5, <1>7, FS_Injection, SMT
<1>9. Cardinality(1 .. N) = N
  BY <1>0, <1>1
<1> QED BY <1>7, <1>8, <1>9, SMT
-----------------------------------------------------------------------------
(* What cache_send_event keeps: the connections that were in wait_send_queue are in it *)
(* still, and with room so is the new one.                                              *)
Kept(q, r) == Range(q.queue) \subseteq Range(r.queue) /\ (Roomy(r) => Roomy(q))

(* cache_send_event keeps the order of wait_send_queue and its flags. *)
LEMMA CacheGood ==
  ASSUME NEW q, NEW new, GoodQueue(q, new), NEW conn \in Conn
  PROVE  LET r == cache_send_event(q, conn) IN
         GoodQueue(r, new) /\ Kept(q, r) /\ (Roomy(r) => conn \in Range(r.queue))
<1> DEFINE r == cache_send_event(q, conn)
<1>1. /\ q \in SendQ /\ q.queue \in Seq(Conn) /\ q.cached \in SUBSET Conn /\ sum_nconn \in Nat
      /\ Len(q.queue) \in Nat /\ Len(q.queue) <= sum_nconn
  BY AgentAssumption, SMT DEF GoodQueue, SendQ
<1>2. CASE conn \in q.cached
  <2>1. r = q
    BY <1>2 DEF cache_send_event
  <2> QED BY <1>2, <2>1 DEF GoodQueue, Kept
<1>3. CASE conn \notin q.cached
  <2> DEFINE t == Append(q.queue, conn)
  <2>1. t \in Seq(Conn) /\ Range(t) = Range(q.queue) \cup {conn} /\ Len(t) = Len(q.queue) + 1
    BY <1>1, InAppend, SMT
  <2>2. AtMostOnce(q.queue, conn)
    BY <1>3 DEF GoodQueue, Entries
  <2>3. Twice(t)
    BY <2>2, <1>1, TwiceAppend DEF GoodQueue, Twice
  <2>4. CASE Len(q.queue) < sum_nconn
    <3>1. r = [queue |-> t, cached |-> q.cached \cup {conn}]
      BY <1>3, <2>4 DEF cache_send_event
    <3>2. r \in SendQ /\ r.queue = t /\ r.cached = q.cached \cup {conn}
      <4>1. r \in SendQ
        BY <1>1, CacheType
      <4> HIDE DEF r, t
      <4>2. r.queue = t /\ r.cached = q.cached \cup {conn}
        BY <3>1
      <4> QED BY <4>1, <4>2
    <3> HIDE DEF r
    <3>3. ASSUME NEW x \in Conn
          PROVE  /\ x \notin r.cached => AtMostOnce(t, x)
                 /\ x \notin new => AtMostOnce(t, x) /\ (x \in Range(t) => x \in r.cached)
      <4>1. CASE x = conn
        <5>1. x \notin new => x \notin Range(q.queue)
          BY <1>3, <4>1 DEF GoodQueue, Entries
        <5>2. x \notin new => AtMostOnce(t, x)
          BY <5>1, <4>1, <1>1, TwiceAppend
        <5> QED BY <5>2, <4>1, <3>2
      <4>2. CASE x # conn
        <5>1. AtMostOnce(q.queue, x) => AtMostOnce(t, x)
          BY <4>2, <1>1, TwiceAppend
        <5> QED BY <5>1, <4>2, <3>2, <2>1 DEF GoodQueue, Entries
      <4> QED BY <4>1, <4>2
    <3>4. Entries(r, new)
      BY <3>2, <3>3 DEF Entries
    <3>5. GoodQueue(r, new)
      BY <3>2, <3>4, <2>1, <2>3 DEF GoodQueue
    <3>6. Kept(q, r) /\ conn \in Range(r.queue)
      BY <2>1, <2>4, <3>2 DEF Kept, Roomy
    <3> QED BY <3>5, <3>6 DEF r
  <2>5. CASE ~(Len(q.queue) < sum_nconn)
    <3>1. r = q
      BY <2>5 DEF cache_send_event
    <3>2. ~Roomy(q)
      <4>1. Len(t) <= 2 * Cardinality(Conn) /\ Cardinality(Conn) \in Nat
        BY <2>1, <2>3, TwiceLength
      <4> QED BY <1>1, <2>1, <2>5, <4>1, SMT DEF Roomy
    <3> QED BY <3>1, <3>2 DEF Kept
  <2> QED BY <2>4, <2>5
<1> QED BY <1>2, <1>3

(* A connection made anew has its flag cleared. *)
LEMMA UncachedGood ==
  ASSUME NEW q, NEW new, GoodQueue(q, new), NEW conn, conn \notin new
  PROVE  /\ GoodQueue(Uncached(q, conn), new \cup {conn}) /\ Uncached(q, conn).queue = q.queue
         /\ Kept(q, Uncached(q, conn))
<1>1. q \in SendQ /\ q.cached \in SUBSET Conn
  BY DEF GoodQueue, SendQ
<1> DEFINE r == Uncached(q, conn)
<1>2. r \in SendQ /\ r.queue = q.queue /\ r.cached = q.cached \ {conn}
  BY <1>1, UncachedType DEF Uncached, SendQ
<1> HIDE DEF r
<1>3. Entries(r, new \cup {conn})
  BY <1>2 DEF GoodQueue, Entries
<1>4. GoodQueue(r, new \cup {conn}) /\ Kept(q, r)
  BY <1>2, <1>3 DEF GoodQueue, Kept, Roomy
<1> QED BY <1>2, <1>4 DEF r

(* A connection made in this turn may be twice in the queue. *)
LEMMA GoodGrows ==
  ASSUME NEW q, NEW new, GoodQueue(q, new), NEW more, new \subseteq more PROVE GoodQueue(q, more)
BY DEF GoodQueue, Entries

(* The clients of several messages *)
LEMMA CacheClientsGood ==
  ASSUME NEW q, NEW new, GoodQueue(q, new), NEW ids, Owned(ids)
  PROVE  LET r == cache_clients(q, ids) IN
         /\ GoodQueue(r, new) /\ Kept(q, r)
         /\ Roomy(r) => \A j \in Range(ids) : msg[j].owner \in Range(r.queue)
<1> DEFINE N == Len(ids)
<1>1. PICK after \in [0 .. N -> SendQ] : CacheSteps(q, ids, after)
  BY CacheClientsSteps DEF GoodQueue
<1>2. N \in Nat /\ \A n \in 1 .. N : msg[ids[n]].owner \in Conn
  BY InQueue DEF Owned, Conn
<1> DEFINE Good(n) == /\ GoodQueue(after[n], new) /\ Kept(q, after[n])
                      /\ Roomy(after[n]) =>
                           \A m \in 1 .. n : msg[ids[m]].owner \in Range(after[n].queue)
           T == {n \in Nat : n <= N => Good(n)}
<1>3. Good(0)
  <2>1. after[0] = q /\ 1 .. 0 = {}
    BY <1>1, SMT DEF CacheSteps
  <2> QED BY <2>1 DEF Kept
<1>4. ASSUME NEW n \in Nat, n + 1 <= N, Good(n) PROVE Good(n + 1)
  <2> DEFINE conn == msg[ids[n + 1]].owner
             r == after[n]
             s == after[n + 1]
  <2>1. conn \in Conn /\ s = cache_send_event(r, conn)
    <3>1. n + 1 \in 1 .. N /\ (n + 1) - 1 = n
      BY <1>2, <1>4, SMT
    <3> QED BY <3>1, <1>1, <1>2 DEF CacheSteps
  <2>2. /\ GoodQueue(r, new) /\ Kept(q, r)
        /\ Roomy(r) => \A m \in 1 .. n : msg[ids[m]].owner \in Range(r.queue)
    BY <1>4
  <2>3. \A m \in 1 .. n + 1 : m \in 1 .. n \/ m = n + 1
    BY SMT
  <2> HIDE DEF conn, r, s
  <2>4. GoodQueue(s, new) /\ Kept(r, s) /\ (Roomy(s) => conn \in Range(s.queue))
    BY <2>1, <2>2, CacheGood
  <2>5. Kept(q, s)
    BY <2>2, <2>4 DEF Kept
  <2>6. ASSUME Roomy(s), NEW m \in 1 .. n + 1 PROVE msg[ids[m]].owner \in Range(s.queue)
    BY <2>2, <2>3, <2>4, <2>6 DEF Kept, conn
  <2> QED BY <2>4, <2>5, <2>6 DEF s
<1> HIDE DEF Good
<1>5. \A n \in Nat : n \in T
  <2>1. 0 \in T
    BY <1>3
  <2>2. ASSUME NEW n \in Nat, n \in T PROVE n + 1 \in T
    BY <1>2, <1>4, <2>2, SMT
  <2> HIDE DEF T
  <2> QED BY <2>1, <2>2, Induction
<1>6. Good(N)
  BY <1>2, <1>5, SMT
<1>7. cache_clients(q, ids) = after[N]
  BY <1>1 DEF CacheSteps
<1>8. \A j \in Range(ids) : \E m \in 1 .. N : ids[m] = j
  BY InQueue DEF Owned
<1> DEFINE r == after[N]
<1>9. /\ GoodQueue(r, new) /\ Kept(q, r)
      /\ Roomy(r) => \A m \in 1 .. N : msg[ids[m]].owner \in Range(r.queue)
  BY <1>6 DEF Good
<1> HIDE DEF N, r
<1>10. Roomy(r) => \A j \in Range(ids) : msg[j].owner \in Range(r.queue)
  BY <1>8, <1>9
<1> QED BY <1>7, <1>9, <1>10 DEF r
-----------------------------------------------------------------------------
(* the connections that will send: clients and servers apart *)
Wakes == active \cup failed \cup Range(sendq.queue)
ClientWakes(c) == stage[c] # "closed" /\ cli_out[c] # << >> => c \in Wakes
ServerWakes(s) == link[s] # "closed" /\ sev_in[s] # << >> => s \in Wakes

(* OutputHasTrigger for clients and servers apart *)
LEMMA TriggerParts ==
  OutputHasTrigger <=> (\A c \in Client : ClientWakes(c)) /\ (\A s \in Server : ServerWakes(s))
<1>1. /\ \A c \in Client : c \in Conn /\ (Closed(c) <=> stage[c] = "closed")
           /\ Queue(c) = cli_out[c]
      /\ \A s \in Server : s \in Conn /\ (Closed(s) <=> link[s] = "closed") /\ Queue(s) = sev_in[s]
      /\ \A conn \in Conn : conn \in Client \/ conn \in Server
  BY AgentAssumption DEF Conn, Closed, Queue, Open
<1> QED BY <1>1 DEF OutputHasTrigger, ClientWakes, ServerWakes, Wakes

(* A connection will send after the step if it did before, or is in wait_send_queue now. *)
KeepsActive(conn) == conn \in active \cup failed => conn \in active' \cup failed'
StillClient(c) ==
  Roomy(sendq') /\ stage'[c] # "closed" /\ cli_out'[c] # << >> =>
    c \in Wakes' \/ (stage[c] # "closed" /\ cli_out[c] # << >> /\ KeepsActive(c))
StillServer(s) ==
  Roomy(sendq') /\ link'[s] # "closed" /\ sev_in'[s] # << >> =>
    s \in Wakes' \/ (link[s] # "closed" /\ sev_in[s] # << >> /\ KeepsActive(s))
StillSends == (\A c \in Client : StillClient(c)) /\ (\A s \in Server : StillServer(s))

(* The step keeps the invariant and, with room in wait_send_queue, what is to be sent. *)
Triggered == TriggerInv' /\ (OutputHasTrigger /\ Roomy(sendq') => OutputHasTrigger')

(* Steps that keep what will be sent keep OutputHasTrigger. *)
LEMMA StillTriggers ==
  ASSUME StillSends, OutputHasTrigger, Roomy(sendq'),
    Range(sendq.queue) \subseteq Range(sendq'.queue)
  PROVE  OutputHasTrigger'
<1>1. (\A c \in Client : ClientWakes(c)) /\ (\A s \in Server : ServerWakes(s))
  BY TriggerParts
<1>2. \A conn : conn \in Wakes /\ KeepsActive(conn) => conn \in Wakes'
  BY DEF Wakes, KeepsActive
<1>3. \A c \in Client : ClientWakes(c)'
  BY <1>1, <1>2 DEF StillSends, StillClient, ClientWakes
<1>4. \A s \in Server : ServerWakes(s)'
  BY <1>1, <1>2 DEF StillSends, StillServer, ServerWakes
<1>5. (OutputHasTrigger <=> (\A c \in Client : ClientWakes(c))
        /\ (\A s \in Server : ServerWakes(s)))'
  BY TriggerParts, PTL
<1> QED BY <1>3, <1>4, <1>5

(* A step in the events of a turn *)
EventStep ==
  /\ phase = "events" /\ phase' = "events"
  /\ GoodQueue(sendq', fresh') /\ Kept(sendq, sendq')
  /\ \A conn \in fresh' : ~Closed(conn)'
  /\ \A s \in Server : link'[s] = "connecting" => s \in active'

(* The same for a step in the events of a turn, which may put connections in *)
(* wait_send_queue.                                                          *)
LEMMA EventTrigger ==
  ASSUME EventStep, StillSends PROVE Triggered
<1>1. TriggerInv'
  BY DEF EventStep, TriggerInv, GoodQueue
<1>2. OutputHasTrigger /\ Roomy(sendq') => OutputHasTrigger'
  BY StillTriggers DEF EventStep, Kept
<1> QED BY <1>1, <1>2 DEF Triggered

(* wait_send_queue at an event *)
LEMMA GoodBefore ==
  ASSUME PlaceInv, TriggerInv, phase = "events" PROVE GoodQueue(sendq, fresh)
BY SendQOfType DEF PlaceInv, TriggerInv, GoodQueue
-----------------------------------------------------------------------------
(* What req_forward does to the queues of what is to be sent *)
ForwardSends(c, q, out, on, new) ==
  /\ GoodQueue(sendq', fresh') /\ Kept(q, sendq')
  /\ \A conn \in fresh' : conn \in new \/ (conn \in Server /\ link'[conn] # "closed")
  /\ on \subseteq active'
  /\ \A s \in Server : link[s] # "closed" => link'[s] # "closed"
  /\ \A s \in Server : link'[s] = "connecting" => s \in active'
  /\ \A s \in Server : \/ Roomy(sendq') => s \in active' \cup Range(sendq'.queue)
                       \/ sev_in'[s] = sev_in[s] /\ link'[s] = link[s]
  /\ \A d \in Client : d # c => cli_out'[d] = out[d]
  /\ (Roomy(sendq') => c \in Range(sendq'.queue)) \/ cli_out'[c] = out[c]

(* req_forward: the connection to dtcd can send when it is connected, or epoll is asked; *)
(* the client that gets an error is in wait_send_queue.                                  *)
LEMMA ForwardTrigger ==
  ASSUME PlaceInv, NEW c \in Client, NEW i, NEW m, NEW q, NEW on, NEW new,
         NEW out \in [Client -> Seq(Msg \cup {Greeting})], GoodQueue(q, new),
         req_forward(c, i, m, q, out, on, new), on \subseteq Conn, new \subseteq Conn,
         \A s \in Server : link[s] = "connecting" => s \in on,
         \A s \in Server : link[s] = "closed" => s \notin new
  PROVE  ForwardSends(c, q, out, on, new)
<1>1. PICK s \in Server \cup {None}, state \in {"closed", "connecting", "connected"} :
        /\ server_pool_conn(s, state, on, new)
        /\ IF s = None THEN forward_error(c, i, m, q, out)
                       ELSE enqueue_inq(c, i, m, q, out, s, state)
  BY DEF req_forward
<1>2. /\ link \in [Server -> {"closed", "connecting", "connected"}]
      /\ sev_in \in [Server -> Seq(Msg)]
  BY DEF PlaceInv, TypeOK
<1>3. CASE s = None
  <2>1. s \notin Server /\ c \in Conn
    BY <1>3, AgentAssumption DEF Conn
  <2>2. active' = on /\ fresh' = new
    BY <1>1, <2>1 DEF server_pool_conn
  <2>3. /\ cli_out' = [out EXCEPT ![c] = Append(@, i)] /\ sendq' = cache_send_event(q, c)
        /\ UNCHANGED <<link, sev_in>>
    BY <1>1, <1>3 DEF forward_error
  <2>4. GoodQueue(sendq', new) /\ Kept(q, sendq') /\ (Roomy(sendq') => c \in Range(sendq'.queue))
    BY <2>1, <2>3, CacheGood
  <2>5. \A d \in Client : d # c => cli_out'[d] = out[d]
    BY <2>3
  <2> QED BY <2>2, <2>3, <2>4, <2>5 DEF ForwardSends
<1>4. CASE s # None
  <2>1. s \in Server /\ enqueue_inq(c, i, m, q, out, s, state) /\ s \in Conn
    BY <1>1, <1>4 DEF Conn
  <2>2. state \in {"connecting", "connected"}
    BY <1>1, <2>1, PoolConnOpen
  <2>3. /\ link' = [link EXCEPT ![s] = state] /\ cli_out' = out
        /\ sev_in' = [sev_in EXCEPT ![s] = Append(@, i)]
    BY <2>1 DEF enqueue_inq
  <2>4. /\ link'[s] = state
        /\ \A t \in Server : t # s => link'[t] = link[t] /\ sev_in'[t] = sev_in[t]
    BY <2>1, <2>3, <1>2
  <2>5. \/ active' = on \cup {s} /\ fresh' = new \cup {s}
        \/ active' = on /\ fresh' = new /\ state = link[s] /\ link[s] # "closed"
    BY <1>1, <1>4, <2>2 DEF server_pool_conn
  <2> DEFINE r == IF link[s] = "closed" THEN Uncached(q, s) ELSE q
  <2>6. sendq' = IF state = "connected" THEN cache_send_event(r, s) ELSE r
    BY <2>1 DEF enqueue_inq, Uncached
  <2>7. GoodQueue(r, fresh') /\ Kept(q, r)
    <3>1. CASE link[s] = "closed"
      <4>1. r = Uncached(q, s) /\ fresh' = new \cup {s} /\ s \notin new
        BY <2>1, <2>5, <3>1
      <4>2. GoodQueue(Uncached(q, s), new \cup {s}) /\ Kept(q, Uncached(q, s))
        BY <4>1, UncachedGood
      <4> HIDE DEF r
      <4> QED BY <4>1, <4>2
    <3>2. CASE link[s] # "closed"
      <4>1. new \subseteq fresh' /\ r = q
        BY <2>5, <3>2
      <4> QED BY <4>1, GoodGrows DEF Kept
    <3> QED BY <3>1, <3>2
  <2> HIDE DEF r
  <2>8. /\ GoodQueue(sendq', fresh') /\ Kept(q, sendq')
        /\ state = "connected" /\ Roomy(sendq') => s \in Range(sendq'.queue)
    <3>1. CASE state = "connected"
      <4>1. sendq' = cache_send_event(r, s)
        BY <2>6, <3>1
      <4>2. GoodQueue(sendq', fresh') /\ Kept(r, sendq')
              /\ (Roomy(sendq') => s \in Range(sendq'.queue))
        BY <4>1, <2>1, <2>7, CacheGood
      <4> QED BY <4>2, <2>7 DEF Kept
    <3>2. CASE state # "connected"
      BY <2>6, <2>7, <3>2
    <3> QED BY <3>1, <3>2
  <2>9. state = "connecting" => s \in active'
    BY <2>1, <2>5
  <2>10. \A t \in Server : \/ Roomy(sendq') => t \in active' \cup Range(sendq'.queue)
                           \/ sev_in'[t] = sev_in[t] /\ link'[t] = link[t]
    BY <2>2, <2>4, <2>8, <2>9
  <2>11. \A conn \in fresh' : conn \in new \/ (conn \in Server /\ link'[conn] # "closed")
    BY <2>1, <2>2, <2>4, <2>5
  <2>12. on \subseteq active' /\ \A t \in Server : link'[t] = "connecting" => t \in active'
    BY <2>4, <2>5, <2>9
  <2>13. \A t \in Server : link[t] # "closed" => link'[t] # "closed"
    BY <2>2, <2>4
  <2> QED BY <2>3, <2>8, <2>10, <2>11, <2>12, <2>13 DEF ForwardSends
<1> QED BY <1>3, <1>4
-----------------------------------------------------------------------------
(* listener_accept: the client that gets the greeting is in wait_send_queue. *)
LEMMA AcceptTrigger ==
  ASSUME PlaceInv, TriggerInv, NEW c \in Client, listener_accept(c) PROVE Triggered
<1> DEFINE out == [cli_out EXCEPT ![c] = <<Greeting>>]
           u == Uncached(sendq, c)
           q == cache_send_event(u, c)
           M == NewMsg(c, "KEY_DEFINE")
           on == active \cup {c}
           new == fresh \cup {c}
           i == msg_id + 1
<1>1. /\ phase = "events" /\ stage[c] = "closed" /\ stage' = [stage EXCEPT ![c] = "LOGGING_IN"]
      /\ UNCHANGED <<failed, phase>>
      /\ IF g_dtc_key_type
         THEN /\ cli_out' = out /\ sendq' = q /\ active' = on /\ fresh' = new
              /\ UNCHANGED <<link, sev_in>>
         ELSE req_forward(c, i, M, q, out, on, new)
  BY DEF listener_accept, Open, Uncached
<1>2. /\ cli_out \in [Client -> Seq(Msg \cup {Greeting})]
           /\ stage \in [Client -> {"closed", "LOGGING_IN", "LOGGED_IN"}]
      /\ fresh \subseteq Conn /\ active \subseteq Conn
  BY DEF PlaceInv, TypeOK
<1>3. c \in Conn /\ c \notin Server
  BY AgentAssumption DEF Conn
<1>4. c \notin fresh
  BY <1>1 DEF TriggerInv, Closed, Open
<1>5. GoodQueue(u, new) /\ Kept(sendq, u)
  <2>1. GoodQueue(sendq, fresh)
    BY <1>1, GoodBefore
  <2> QED BY <2>1, <1>4, UncachedGood
<1> HIDE DEF u
<1>6. GoodQueue(q, new) /\ Kept(sendq, q) /\ (Roomy(q) => c \in Range(q.queue))
  <2>1. GoodQueue(q, new) /\ Kept(u, q) /\ (Roomy(q) => c \in Range(q.queue))
    BY <1>3, <1>5, CacheGood
  <2> HIDE DEF q
  <2> QED BY <2>1, <1>5 DEF Kept
<1>7. out \in [Client -> Seq(Msg \cup {Greeting})] /\ \A d \in Client : d # c => out[d] = cli_out[d]
  <2>1. <<Greeting>> \in Seq(Msg \cup {Greeting})
    BY SMT
  <2> QED BY <1>2, <2>1
<1>8. /\ \A s \in Server : link[s] = "connecting" => s \in on
      /\ \A s \in Server : link[s] = "closed" => s \notin new
      /\ on \subseteq Conn /\ new \subseteq Conn
  BY <1>2, <1>3, AgentAssumption DEF TriggerInv, Closed
<1> HIDE DEF q, out, M, i
<1>9. ForwardSends(c, q, out, on, new)
  <2>1. CASE g_dtc_key_type
    BY <1>1, <1>6, <1>8, <2>1 DEF ForwardSends, Kept
  <2>2. CASE ~g_dtc_key_type
    <3>1. req_forward(c, i, M, q, out, on, new)
      BY <1>1, <2>2
    <3> HIDE DEF on, new
    <3> QED BY <1>6, <1>7, <1>8, <3>1, ForwardTrigger
  <2> QED BY <2>1, <2>2
<1>10. EventStep
  <2>1. Kept(sendq, sendq')
    BY <1>6, <1>9 DEF ForwardSends, Kept
  <2>2. ASSUME NEW conn \in fresh' PROVE ~Closed(conn)'
    <3>1. CASE conn = c
      BY <1>1, <1>2, <3>1 DEF Closed, Open
    <3>2. CASE conn \in Client /\ conn # c
      <4>1. conn \in fresh
        BY <1>9, <3>2, AgentAssumption DEF ForwardSends
      <4>2. stage[conn] # "closed"
        BY <4>1, <3>2 DEF TriggerInv, Closed, Open
      <4> QED BY <1>1, <1>2, <3>2, <4>2 DEF Closed, Open
    <3>3. CASE conn \notin Client
      <4>1. conn \in fresh \/ link'[conn] # "closed"
        BY <1>9, <3>3 DEF ForwardSends
      <4>2. conn \in fresh => conn \in Server /\ link[conn] # "closed"
        BY <1>2, <3>3 DEF TriggerInv, Closed, Conn
      <4> QED BY <1>9, <3>3, <4>1, <4>2 DEF Closed, ForwardSends
    <3> QED BY <3>1, <3>2, <3>3
  <2> QED BY <1>1, <1>9, <2>1, <2>2 DEF EventStep, ForwardSends
<1>11. StillSends
  <2>1. ASSUME NEW d \in Client PROVE StillClient(d)
    <3>1. CASE d = c
      BY <1>6, <1>9, <3>1 DEF StillClient, ForwardSends, Kept, Wakes
    <3>2. CASE d # c
      BY <1>1, <1>2, <1>7, <1>9, <3>2 DEF StillClient, ForwardSends, KeepsActive
    <3> QED BY <3>1, <3>2
  <2>2. ASSUME NEW s \in Server PROVE StillServer(s)
    BY <1>1, <1>9 DEF StillServer, ForwardSends, KeepsActive, Wakes
  <2> QED BY <2>1, <2>2 DEF StillSends
<1> QED BY <1>10, <1>11, EventTrigger

(* req_process: so is the client that gets an answer of the agent. *)
LEMMA ProcessTrigger ==
  ASSUME PlaceInv, TriggerInv, NEW c \in Client, req_process(c) PROVE Triggered
<1> DEFINE i == msg_id + 1
           M == NewMsg(c, "NOP")
<1>1. /\ phase = "events" /\ stage[c] # "closed" /\ stage' = [stage EXCEPT ![c] = "LOGGED_IN"]
      /\ UNCHANGED <<failed, phase>>
      /\ \/ req_make_loopback(c, i)
         \/ req_forward(c, i, M, sendq, cli_out, active, fresh)
  BY DEF req_process, EventOf, Open
<1>2. /\ cli_out \in [Client -> Seq(Msg \cup {Greeting})]
           /\ stage \in [Client -> {"closed", "LOGGING_IN", "LOGGED_IN"}]
      /\ fresh \subseteq Conn /\ active \subseteq Conn /\ c \in Conn
  BY DEF PlaceInv, TypeOK, Conn
<1>3. GoodQueue(sendq, fresh)
  BY <1>1, GoodBefore
<1>4. /\ \A s \in Server : link[s] = "connecting" => s \in active
      /\ \A s \in Server : link[s] = "closed" => s \notin fresh
  BY AgentAssumption DEF TriggerInv, Closed
<1> HIDE DEF M, i
<1>5. ForwardSends(c, sendq, cli_out, active, fresh)
  <2>1. CASE req_make_loopback(c, i)
    <3>1. /\ cli_out' = [cli_out EXCEPT ![c] = Append(@, i)] /\ sendq' = cache_send_event(sendq, c)
          /\ UNCHANGED <<link, sev_in, active, fresh>>
      BY <2>1 DEF req_make_loopback
    <3>2. GoodQueue(sendq', fresh) /\ Kept(sendq, sendq')
            /\ (Roomy(sendq') => c \in Range(sendq'.queue))
      BY <1>2, <1>3, <3>1, CacheGood
    <3>3. \A d \in Client : d # c => cli_out'[d] = cli_out[d]
      BY <1>2, <3>1
    <3> QED BY <1>4, <3>1, <3>2, <3>3 DEF ForwardSends
  <2>2. CASE req_forward(c, i, M, sendq, cli_out, active, fresh)
    BY <1>2, <1>3, <1>4, <2>2, ForwardTrigger
  <2> QED BY <1>1, <2>1, <2>2
<1>6. \A d \in Client : stage[d] # "closed" <=> stage'[d] # "closed"
  BY <1>1, <1>2
<1>7. EventStep
  <2>1. ASSUME NEW conn \in fresh' PROVE ~Closed(conn)'
    <3>1. CASE conn \in Client
      <4>1. conn \in fresh
        BY <1>5, <3>1, AgentAssumption DEF ForwardSends
      <4>2. stage[conn] # "closed"
        BY <4>1, <3>1 DEF TriggerInv, Closed, Open
      <4> QED BY <1>6, <3>1, <4>2 DEF Closed, Open
    <3>2. CASE conn \notin Client
      <4>1. conn \in fresh \/ link'[conn] # "closed"
        BY <1>5, <3>2 DEF ForwardSends
      <4>2. conn \in fresh => conn \in Server /\ link[conn] # "closed"
        BY <1>2, <3>2 DEF TriggerInv, Closed, Conn
      <4> QED BY <1>5, <3>2, <4>1, <4>2 DEF Closed, ForwardSends
    <3> QED BY <3>1, <3>2
  <2> QED BY <1>1, <1>5, <2>1 DEF EventStep, ForwardSends
<1>8. StillSends
  <2>1. ASSUME NEW d \in Client PROVE StillClient(d)
    BY <1>1, <1>5, <1>6 DEF StillClient, ForwardSends, KeepsActive, Wakes
  <2>2. ASSUME NEW s \in Server PROVE StillServer(s)
    BY <1>1, <1>5 DEF StillServer, ForwardSends, KeepsActive, Wakes
  <2> QED BY <2>1, <2>2, SMT DEF StillSends
<1> QED BY <1>7, <1>8, EventTrigger, SMT
-----------------------------------------------------------------------------
(* What the agent has made in this turn stays open. *)
LEMMA FreshStays ==
  ASSUME PlaceInv, TriggerInv, fresh' \subseteq fresh,
         \A c \in Client : c \in fresh /\ stage[c] # "closed" => stage'[c] # "closed",
         \A s \in Server : s \in fresh /\ link[s] # "closed" => link'[s] # "closed"
  PROVE  \A conn \in fresh' : ~Closed(conn)'
<1> SUFFICES ASSUME NEW conn \in fresh' PROVE ~Closed(conn)'
  OBVIOUS
<1>1. conn \in fresh /\ ~Closed(conn) /\ conn \in Conn
  BY DEF TriggerInv, PlaceInv, TypeOK
<1>2. CASE conn \in Client
  BY <1>1, <1>2 DEF Closed, Open
<1>3. CASE conn \notin Client
  BY <1>1, <1>3 DEF Closed, Conn
<1> QED BY <1>2, <1>3

(* client_close: nothing more is to be sent to this client. *)
LEMMA ClientCloseTrigger ==
  ASSUME PlaceInv, TriggerInv, NEW c \in Client, client_close(c) PROVE Triggered
<1>1. /\ phase = "events" /\ c \notin fresh /\ stage' = [stage EXCEPT ![c] = "closed"]
      /\ cli_out' = [cli_out EXCEPT ![c] = << >>] /\ active' = active \ {c}
           /\ failed' = failed \ {c}
      /\ UNCHANGED <<link, sev_in, sendq, fresh, phase>>
  BY DEF client_close, EventOf, turn
<1>2. /\ stage \in [Client -> {"closed", "LOGGING_IN", "LOGGED_IN"}]
      /\ cli_out \in [Client -> Seq(Msg \cup {Greeting})] /\ c \notin Server
  BY AgentAssumption DEF PlaceInv, TypeOK
<1>3. GoodQueue(sendq, fresh)
  BY <1>1, GoodBefore
<1>4. EventStep
  <2>1. \A conn \in fresh' : ~Closed(conn)'
    BY <1>1, <1>2, FreshStays
  <2>2. Kept(sendq, sendq') /\ GoodQueue(sendq', fresh')
    BY <1>1, <1>3 DEF Kept
  <2>3. \A s \in Server : link'[s] = "connecting" => s \in active'
    BY <1>1, <1>2 DEF TriggerInv
  <2> QED BY <1>1, <2>1, <2>2, <2>3 DEF EventStep
<1>5. StillSends
  <2>1. ASSUME NEW d \in Client PROVE StillClient(d)
    BY <1>1, <1>2 DEF StillClient, KeepsActive
  <2>2. ASSUME NEW s \in Server PROVE StillServer(s)
    BY <1>1, <1>2 DEF StillServer, KeepsActive
  <2> QED BY <2>1, <2>2, SMT DEF StillSends
<1> QED BY <1>4, <1>5, EventTrigger, SMT

(* rsp_forward: the clients that get something are in wait_send_queue. *)
LEMMA RspForwardTrigger ==
  ASSUME PlaceInv, NEW ids, Owned(ids), GoodQueue(sendq, fresh),
         rsp_forward(ids, cli_in, cli_out, sendq)
  PROVE  /\ GoodQueue(sendq', fresh) /\ Kept(sendq, sendq')
         /\ \A d \in Client : \/ Roomy(sendq') => d \in Range(sendq'.queue)
                              \/ cli_out'[d] # << >> => cli_out[d] # << >>
<1> DEFINE mine(d) == Without(ids, {i \in Msg : msg[i].owner # d})
<1>1. /\ cli_out' = [c \in Client |-> cli_out[c] \o mine(c)] /\ sendq' = cache_clients(sendq, ids)
      /\ ids \in Seq(Msg) /\ cli_out \in [Client -> Seq(Msg \cup {Greeting})]
  BY DEF rsp_forward, Owned, PlaceInv, TypeOK
<1>2. /\ GoodQueue(sendq', fresh) /\ Kept(sendq, sendq')
      /\ Roomy(sendq') => \A j \in Range(ids) : msg[j].owner \in Range(sendq'.queue)
  BY <1>1, CacheClientsGood
<1>3. ASSUME NEW d \in Client
      PROVE  \/ Roomy(sendq') => d \in Range(sendq'.queue)
             \/ cli_out'[d] # << >> => cli_out[d] # << >>
  <2>1. mine(d) \in Seq(Msg) /\ Range(mine(d)) = Range(ids) \ {i \in Msg : msg[i].owner # d}
    BY <1>1, InWithout
  <2>2. Range(mine(d)) = {} <=> mine(d) = << >>
    BY <2>1, InQueue, SMT
  <2>3. Range(ids) \subseteq Msg
    BY <1>1, InQueue
  <2>4. cli_out'[d] = cli_out[d] \o mine(d)
    BY <1>1
  <2> HIDE DEF mine
  <2>5. CASE mine(d) = << >>
    BY <2>4, <2>5, <1>1, SMT
  <2>6. CASE mine(d) # << >>
    <3>1. PICK j \in Range(ids) : msg[j].owner = d
      BY <2>1, <2>2, <2>3, <2>6
    <3> QED BY <3>1, <1>2
  <2> QED BY <2>5, <2>6
<1> QED BY <1>2, <1>3

(* rsp_recv_done: the client that gets the answer is in wait_send_queue. *)
LEMMA RecvTrigger ==
  ASSUME PlaceInv, TriggerInv, NEW s \in Server, NEW i \in Msg, NEW admin,
         rsp_recv_done(s, i, admin)
  PROVE  Triggered
<1>1. /\ phase = "events" /\ UNCHANGED <<stage, link, sev_in, active, failed, fresh, phase>>
  BY DEF rsp_recv_done, EventOf, turn
<1>2. GoodQueue(sendq, fresh)
  BY <1>1, GoodBefore
<1>3. /\ GoodQueue(sendq', fresh) /\ Kept(sendq, sendq')
      /\ \A d \in Client : \/ Roomy(sendq') => d \in Range(sendq'.queue)
                           \/ cli_out'[d] # << >> => cli_out[d] # << >>
  <2>1. CASE UNCHANGED <<cli_out, sendq>>
    BY <1>2, <2>1 DEF Kept
  <2>2. CASE i \in tree[s] /\ ~msg[i].swallow /\ rsp_forward(<<i>>, cli_in, cli_out, sendq)
    <3>1. i \in With(s) /\ Where(i)
      BY <2>2 DEF With, PlaceInv
    <3>2. msg[i].owner \in Client
      BY <3>1 DEF Where, Flags, AtServer
    <3>3. <<i>> \in Seq(Msg) /\ Range(<<i>>) = {i}
      BY SMT DEF Range
    <3>4. Owned(<<i>>)
      BY <3>2, <3>3 DEF Owned
    <3> DEFINE ids == <<i>>
    <3>5. Owned(ids) /\ rsp_forward(ids, cli_in, cli_out, sendq)
      BY <3>4, <2>2
    <3> HIDE DEF ids
    <3> QED BY <3>5, <1>2, RspForwardTrigger
  <2> QED BY <2>1, <2>2 DEF rsp_recv_done
<1>4. EventStep
  <2>1. \A conn \in fresh' : ~Closed(conn)'
    BY <1>1, FreshStays
  <2> QED BY <1>1, <1>3, <2>1 DEF EventStep, TriggerInv
<1>5. StillSends
  <2>1. ASSUME NEW d \in Client PROVE StillClient(d)
    BY <1>1, <1>3 DEF StillClient, KeepsActive, Wakes
  <2>2. ASSUME NEW t \in Server PROVE StillServer(t)
    BY <1>1 DEF StillServer, KeepsActive
  <2> QED BY <2>1, <2>2 DEF StillSends
<1> QED BY <1>4, <1>5, EventTrigger

(* server_close: so are the clients that get an error. *)
LEMMA ServerCloseTrigger ==
  ASSUME PlaceInv, TriggerInv, NEW s \in Server, server_close(s) PROVE Triggered
<1> DEFINE open == sev_in[s] \o InOrder(tree[s])
           gone == {i \in Range(open) : msg[i].swallow}
           back == Without(open, gone)
<1>1. /\ phase = "events" /\ s \notin fresh /\ link' = [link EXCEPT ![s] = "closed"]
      /\ sev_in' = [sev_in EXCEPT ![s] = << >>] /\ active' = active \ {s} /\ failed' = failed \ {s}
      /\ rsp_forward(back, cli_in, cli_out, sendq)
      /\ UNCHANGED <<stage, fresh, phase>>
  BY DEF server_close, EventOf, turn
<1>2. /\ link \in [Server -> {"closed", "connecting", "connected"}]
      /\ sev_in \in [Server -> Seq(Msg)] /\ tree \in [Server -> SUBSET Msg] /\ s \notin Client
  BY AgentAssumption DEF PlaceInv, TypeOK
<1>3. GoodQueue(sendq, fresh)
  BY <1>1, GoodBefore
<1>4. Owned(back)
  <2> DEFINE ord == InOrder(tree[s])
  <2>1. ord \in Seq(Msg) /\ Range(ord) = tree[s]
    BY <1>2, InOrderEffect
  <2> HIDE DEF ord
  <2>2. sev_in[s] \in Seq(Msg)
    BY <1>2
  <2>3. sev_in[s] \o ord \in Seq(Msg) /\ Range(sev_in[s] \o ord) = Range(sev_in[s]) \cup Range(ord)
    BY <2>1, <2>2, InConcat, SMT
  <2>4. open \in Seq(Msg) /\ Range(open) = With(s)
    BY <2>1, <2>3 DEF ord, With, Req
  <2> HIDE DEF open, gone
  <2>5. back \in Seq(Msg) /\ Range(back) = With(s) \ gone
    BY <2>4, InWithout, SMT
  <2>6. \A j \in With(s) : j \in Msg
    BY <2>4, InQueue, SMT
  <2>7. \A j \in With(s) : msg[j].owner \in Client
    BY <2>6 DEF PlaceInv, Where, Flags, AtServer
  <2> QED BY <2>5, <2>7 DEF Owned
<1> HIDE DEF back
<1>5. /\ GoodQueue(sendq', fresh) /\ Kept(sendq, sendq')
      /\ \A d \in Client : \/ Roomy(sendq') => d \in Range(sendq'.queue)
                           \/ cli_out'[d] # << >> => cli_out[d] # << >>
  BY <1>1, <1>3, <1>4, RspForwardTrigger
<1>6. EventStep
  <2>1. \A conn \in fresh' : ~Closed(conn)'
    BY <1>1, <1>2, FreshStays
  <2>2. \A t \in Server : link'[t] = "connecting" => t \in active'
    BY <1>1, <1>2 DEF TriggerInv
  <2> QED BY <1>1, <1>5, <2>1, <2>2 DEF EventStep
<1>7. StillSends
  <2>1. ASSUME NEW d \in Client PROVE StillClient(d)
    BY <1>1, <1>2, <1>5 DEF StillClient, KeepsActive, Wakes
  <2>2. ASSUME NEW t \in Server PROVE StillServer(t)
    BY <1>1, <1>2 DEF StillServer, KeepsActive
  <2> QED BY <2>1, <2>2, SMT DEF StillSends
<1> QED BY <1>6, <1>7, EventTrigger, SMT
-----------------------------------------------------------------------------
(* What core_send leaves to be sent *)
CoreSent(conn, on) ==
  /\ \A c \in Client : c # conn => cli_out'[c] = cli_out[c]
  /\ \A s \in Server : s # conn => sev_in'[s] = sev_in[s] /\ link'[s] = link[s]
  /\ conn \in Server => link'[conn] = "connected"
  /\ \/ active' = on
     \/ /\ active' = active \ {conn}
        /\ conn \in Client => cli_out'[conn] = << >>
        /\ conn \in Server => sev_in'[conn] = << >>

(* core_send leaves other connections alone, and stops asking epoll only when all was sent. *)
LEMMA CoreSendEffect ==
  ASSUME TypeOK, NEW conn \in Conn, NEW k \in Nat, k <= Len(Queue(conn)), NEW on,
         core_send(conn, k, on)
  PROVE  CoreSent(conn, on)
<1>1. /\ cli_out \in [Client -> Seq(Msg \cup {Greeting})] /\ sev_in \in [Server -> Seq(Msg)]
      /\ link \in [Server -> {"closed", "connecting", "connected"}]
  BY DEF TypeOK
<1>2. active' = on \/ (active' = active \ {conn} /\ k = Len(Queue(conn)))
  BY DEF core_send
<1>3. CASE conn \in Client
  <2>1. /\ cli_out' = [cli_out EXCEPT ![conn] = SubSeq(@, k + 1, Len(@))] /\ UNCHANGED <<link,
             sev_in>>
        /\ Queue(conn) = cli_out[conn] /\ conn \notin Server
    BY <1>3, AgentAssumption DEF core_send, rsp_send, Queue
  <2> DEFINE q == cli_out[conn]
  <2>2. q \in Seq(Msg \cup {Greeting}) /\ k \in 0 .. Len(q)
          /\ cli_out'[conn] = SubSeq(q, k + 1, Len(q))
    BY <1>1, <1>3, <2>1, SMT
  <2> HIDE DEF q
  <2>3. k = Len(q) => cli_out'[conn] = << >>
    BY <2>2, InParts
  <2>4. \A c \in Client : c # conn => cli_out'[c] = cli_out[c]
    BY <1>1, <2>1
  <2> QED BY <1>2, <2>1, <2>3, <2>4 DEF CoreSent, q
<1>4. CASE conn \in Server /\ conn \notin Client
  <2>1. /\ sev_in' = [sev_in EXCEPT ![conn] = SubSeq(sev_in[conn], k + 1, Len(sev_in[conn]))]
        /\ link' = [link EXCEPT ![conn] = "connected"] /\ UNCHANGED cli_out
        /\ Queue(conn) = sev_in[conn]
    BY <1>4 DEF core_send, req_send, Queue
  <2> DEFINE q == sev_in[conn]
  <2>2. q \in Seq(Msg) /\ k \in 0 .. Len(q) /\ sev_in'[conn] = SubSeq(q, k + 1, Len(q))
    BY <1>1, <1>4, <2>1, SMT
  <2> HIDE DEF q
  <2>3. k = Len(q) => sev_in'[conn] = << >>
    BY <2>2, InParts
  <2>4. /\ \A s \in Server : s # conn => sev_in'[s] = sev_in[s] /\ link'[s] = link[s]
        /\ link'[conn] = "connected"
    BY <1>1, <1>4, <2>1
  <2> QED BY <1>2, <1>4, <2>1, <2>3, <2>4 DEF CoreSent, q
<1> QED BY <1>3, <1>4 DEF Conn

(* EPOLLOUT: epoll is asked about the connection as long as something is left. *)
LEMMA SendEventTrigger ==
  ASSUME PlaceInv, TriggerInv, NEW conn \in Conn, NEW k \in Nat, send_event(conn, k) PROVE Triggered
<1>1. /\ phase = "events" /\ conn \in active /\ k <= Len(Queue(conn)) /\ core_send(conn, k, active)
      /\ UNCHANGED <<stage, failed, sendq, fresh, phase>>
  BY DEF send_event, EventOf, turn
<1>2. CoreSent(conn, active)
  BY <1>1, CoreSendEffect DEF PlaceInv
<1>3. GoodQueue(sendq, fresh)
  BY <1>1, GoodBefore
<1>4. EventStep
  <2>1. \A d \in fresh' : ~Closed(d)'
    BY <1>1, <1>2, FreshStays DEF CoreSent
  <2>2. \A s \in Server : link'[s] = "connecting" => s \in active'
    BY <1>2 DEF TriggerInv, CoreSent
  <2> QED BY <1>1, <1>3, <2>1, <2>2 DEF EventStep, Kept
<1>5. StillSends
  <2>1. ASSUME NEW d \in Client PROVE StillClient(d)
    BY <1>1, <1>2, SMT DEF StillClient, KeepsActive, CoreSent, Wakes
  <2>2. ASSUME NEW s \in Server PROVE StillServer(s)
    BY <1>1, <1>2, SMT DEF StillServer, KeepsActive, CoreSent, Wakes
  <2> QED BY <2>1, <2>2 DEF StillSends
<1> QED BY <1>4, <1>5, EventTrigger

(* process_cached_write_event: epoll is asked about what is left, or an error is to come. *)
LEMMA CachedWriteTrigger ==
  ASSUME PlaceInv, TriggerInv, process_cached_write_event PROVE Triggered
<1>1. /\ phase = "write" /\ sendq.queue # << >>
      /\ sendq' = [queue |-> Tail(sendq.queue), cached |-> sendq.cached \ {Head(sendq.queue)}]
      /\ UNCHANGED <<stage, fresh, phase>>
  BY DEF process_cached_write_event, turn
<1>2. sendq.queue \in Seq(Conn)
  BY DEF PlaceInv, TypeOK
<1>3. PICK conn \in Conn : conn = Head(sendq.queue)
  BY <1>1, <1>2, SMT
<1>4. /\ Range(sendq.queue) = {conn} \cup Range(sendq'.queue) /\ sendq'.queue = Tail(sendq.queue)
      /\ sendq'.cached = sendq.cached \ {conn}
  BY <1>1, <1>2, <1>3, InTail
<1>5. \/ /\ Closed(conn) /\ UNCHANGED <<cli_out, link, sev_in, active, failed>>
      \/ CoreSent(conn, active \cup {conn}) /\ UNCHANGED failed
      \/ CoreSent(conn, active) /\ failed' = failed \cup {conn}
  <2>1. Len(Queue(conn)) \in Nat
    BY SMT DEF PlaceInv, TypeOK, Queue, Conn
  <2>2. CASE Closed(conn)
    BY <1>3, <2>2 DEF process_cached_write_event
  <2>3. CASE ~Closed(conn)
    <3>1. CASE \E k \in 0 .. Len(Queue(conn)) : core_send(conn, k, active_after(conn))
            /\ UNCHANGED failed
      BY <2>1, <3>1, CoreSendEffect, SMT DEF active_after, PlaceInv
    <3>2. CASE \E k \in 0 .. Len(Queue(conn)) - 1 : core_send(conn, k, active)
            /\ failed' = failed \cup {conn}
      BY <2>1, <3>2, CoreSendEffect, SMT DEF PlaceInv
    <3> QED BY <1>3, <2>3, <3>1, <3>2 DEF process_cached_write_event
  <2> QED BY <2>2, <2>3
<1>6. /\ \A s \in Server : link[s] # "closed" => link'[s] # "closed"
      /\ \A s \in Server : link'[s] = "connecting" => s \in active'
  BY <1>5 DEF CoreSent, TriggerInv
<1>7. TriggerInv'
  <2>1. \A d \in fresh' : ~Closed(d)'
    BY <1>1, <1>6, FreshStays
  <2>2. Twice(sendq'.queue) /\ sendq'.cached \subseteq Range(sendq'.queue)
    BY <1>1, <1>2, <1>4, TwiceTail DEF TriggerInv
  <2> QED BY <1>1, <1>6, <2>1, <2>2 DEF TriggerInv
<1>8. ASSUME OutputHasTrigger PROVE OutputHasTrigger'
  <2>1. (\A c \in Client : ClientWakes(c)) /\ (\A s \in Server : ServerWakes(s))
    BY <1>8, TriggerParts
  <2>2. \A d : d # conn /\ d \in Wakes => d \in Wakes'
    BY <1>4, <1>5 DEF Wakes, CoreSent
  <2>3. ASSUME NEW c \in Client PROVE ClientWakes(c)'
    <3>1. CASE c # conn
      BY <1>1, <1>5, <2>1, <2>2, <3>1 DEF ClientWakes, CoreSent
    <3>2. CASE c = conn
      BY <1>1, <1>5, <3>2 DEF ClientWakes, CoreSent, Closed, Open, Wakes
    <3> QED BY <3>1, <3>2
  <2>4. ASSUME NEW s \in Server PROVE ServerWakes(s)'
    <3>1. CASE s # conn
      BY <1>1, <1>5, <2>1, <2>2, <3>1 DEF ServerWakes, CoreSent
    <3>2. CASE s = conn
      BY <1>1, <1>5, <3>2, AgentAssumption DEF ServerWakes, CoreSent, Closed, Wakes
    <3> QED BY <3>1, <3>2, SMT
  <2>5. (OutputHasTrigger <=> (\A c \in Client : ClientWakes(c))
          /\ (\A s \in Server : ServerWakes(s)))'
    BY TriggerParts, PTL
  <2> QED BY <2>3, <2>4, <2>5
<1> QED BY <1>7, <1>8 DEF Triggered

(* Nothing is added to what is to be sent. *)
LEMMA QuietTrigger ==
  ASSUME PlaceInv, TriggerInv, UNCHANGED <<stage, link, cli_out, active, failed, sendq>>,
         fresh' \subseteq fresh, \A s \in Server : sev_in'[s] # << >> => sev_in[s] # << >>,
         phase' = "events" => Entries(sendq, fresh'), phase' = "timeout" => sendq.queue = << >>
  PROVE  Triggered
<1>1. \A conn \in fresh' : ~Closed(conn)'
  BY FreshStays
<1>2. TriggerInv'
  BY <1>1 DEF TriggerInv
<1>3. StillSends
  BY DEF StillSends, StillClient, StillServer, KeepsActive
<1>4. OutputHasTrigger /\ Roomy(sendq') => OutputHasTrigger'
  BY <1>3, StillTriggers
<1> QED BY <1>2, <1>4 DEF Triggered

(* core_timeout only takes requests out of queues. *)
LEMMA TimeoutTrigger ==
  ASSUME PlaceInv, TriggerInv, core_timeout PROVE Triggered
<1>1. /\ phase = "timeout" /\ UNCHANGED <<stage, link, cli_out, active, failed, sendq, fresh>>
      /\ \/ UNCHANGED sev_in
         \/ \E i : sev_in' = [s \in Server |-> Without(sev_in[s], {i})]
  BY DEF core_timeout, reclaim_sending_msg, reclaim_timeout_msg
<1>2. sendq.queue = << >> /\ sendq.cached = {}
  BY <1>1, SMT DEF TriggerInv, Range
<1>3. Entries(sendq, fresh')
  BY <1>2, SMT DEF Entries, AtMostOnce, Range
<1>4. ASSUME NEW s \in Server, sev_in[s] = << >> PROVE sev_in'[s] = << >>
  <2>1. ASSUME NEW i, sev_in' = [t \in Server |-> Without(sev_in[t], {i})] PROVE sev_in'[s] = << >>
    <3> DEFINE w == Without(sev_in[s], {i})
    <3>1. sev_in[s] \in Seq(Msg) /\ Range(sev_in[s]) = {} /\ sev_in'[s] = w
      BY <1>4, <2>1, SMT DEF Range, PlaceInv, TypeOK
    <3>2. w \in Seq(Msg) /\ Range(w) = {}
      BY <3>1, InWithout, SMT
    <3> HIDE DEF w
    <3>3. w = << >>
      BY <3>2, InQueue, SMT
    <3> QED BY <3>1, <3>3
  <2> QED BY <1>1, <1>4, <2>1
<1> QED BY <1>1, <1>2, <1>3, <1>4, QuietTrigger
-----------------------------------------------------------------------------
(* In the first state nothing is to be sent. *)
LEMMA TriggerInit == Init => PlaceInv /\ TriggerInv /\ OutputHasTrigger
<1> SUFFICES ASSUME Init PROVE TriggerInv /\ OutputHasTrigger
  BY PlaceInit
<1>1. /\ sendq = [queue |-> << >>, cached |-> {}] /\ fresh = {} /\ phase = "events"
      /\ \A s \in Server : link[s] = "closed"
      /\ \A c \in Client : cli_out[c] = << >>
  BY DEF Init
<1>2. sendq.queue = << >> /\ sendq.cached = {}
  BY <1>1
<1>3. Twice(sendq.queue) /\ Entries(sendq, fresh)
  BY <1>2, SMT DEF Twice, AtMostTwice, Entries, AtMostOnce, Range
<1>4. TriggerInv
  BY <1>1, <1>2, <1>3 DEF TriggerInv
<1>5. OutputHasTrigger
  BY <1>1, TriggerParts DEF ClientWakes, ServerWakes
<1> QED BY <1>4, <1>5

(* Every step of the agent keeps the invariant, and OutputHasTrigger when there is room. *)
LEMMA TriggerNext ==
  ASSUME PlaceInv, TriggerInv, [Next]_vars PROVE Triggered
<1>1. ASSUME NEW c \in Client, listener_accept(c) PROVE Triggered
  BY <1>1, AcceptTrigger
<1>2. ASSUME NEW c \in Client, req_process(c) PROVE Triggered
  BY <1>2, ProcessTrigger, SMT
<1>3. ASSUME NEW c \in Client, client_close(c) PROVE Triggered
  BY <1>3, ClientCloseTrigger, SMT
<1>4. ASSUME NEW c \in Client, give_up(c) PROVE Triggered
  <2>1. UNCHANGED <<stage, link, cli_out, active, failed, sendq, fresh, phase, sev_in>>
    BY <1>4 DEF give_up, turn
  <2> QED BY <2>1, QuietTrigger DEF TriggerInv
<1>5. ASSUME NEW s \in Server, server_close(s) PROVE Triggered
  BY <1>5, ServerCloseTrigger, SMT
<1>6. ASSUME NEW s \in Server, NEW i \in Msg, NEW admin \in Admin, rsp_recv_done(s, i, admin)
      PROVE Triggered
  BY <1>6, RecvTrigger
<1>7. ASSUME NEW conn \in Conn, NEW k \in 0 .. max_msg + 1, send_event(conn, k) PROVE Triggered
  BY <1>7, SendEventTrigger, AgentAssumption, SMT
<1>8. ASSUME events_done PROVE Triggered
  <2>1. /\ UNCHANGED <<stage, link, cli_out, active, failed, sendq, sev_in>> /\ fresh' = {}
        /\ phase' = "write"
    BY <1>8 DEF events_done
  <2> QED BY <2>1, QuietTrigger
<1>9. ASSUME NEW n \in 0 .. Len(tmo), writes_done(n) PROVE Triggered
  <2>1. /\ UNCHANGED <<stage, link, cli_out, active, failed, sendq, sev_in, fresh>>
        /\ phase' = "timeout" /\ sendq.queue = << >>
    BY <1>9 DEF writes_done
  <2> QED BY <2>1, QuietTrigger
<1>10. CASE UNCHANGED vars
  <2>1. UNCHANGED <<stage, link, cli_out, active, failed, sendq, fresh, phase, sev_in>>
    BY <1>10 DEF vars
  <2> QED BY <2>1, QuietTrigger DEF TriggerInv
<1> QED BY <1>1, <1>2, <1>3, <1>4, <1>5, <1>6, <1>7, <1>8, <1>9, <1>10,
           CachedWriteTrigger,
           TimeoutTrigger DEF Next

(***************************************************************************)
(* Theorem: cache_send_event never has a connection more than twice in     *)
(* wait_send_queue, for all that a connection may be closed and made again *)
(* in one turn, which clears writecached.  Twice as many places as there   *)
(* are connections are enough.                                             *)
(***************************************************************************)
THEOREM SendQueueBounded == Spec => [](Len(sendq.queue) <= 2 * Cardinality(Conn))
<1>1. Init => PlaceInv /\ TriggerInv
  BY TriggerInit
<1>2. PlaceInv /\ TriggerInv /\ [Next]_vars => PlaceInv' /\ TriggerInv'
  BY PlaceNext, TriggerNext DEF Triggered
<1>3. PlaceInv /\ TriggerInv => Len(sendq.queue) <= 2 * Cardinality(Conn)
  BY TwiceLength DEF PlaceInv, TypeOK, TriggerInv
<1> QED BY <1>1, <1>2, <1>3, PTL DEF Spec

(* wait_send_queue is not full after a step, or has room for all *)
HasRoom == Len(sendq.queue) < sum_nconn \/ 2 * Cardinality(Conn) <= sum_nconn

(***************************************************************************)
(* Theorem: as long as wait_send_queue does not fill up, which it cannot   *)
(* when sum_nconn is twice the number of connections, whatever is queued   *)
(* on an open connection will be sent: the connection is in the queue, or  *)
(* epoll is asked about it, or it is to be closed.  (cache_send_event says *)
(* nothing when the queue is full.)                                        *)
(***************************************************************************)
THEOREM OutputTriggered == Spec /\ []HasRoom => []OutputHasTrigger
<1>1. Init => PlaceInv /\ TriggerInv /\ OutputHasTrigger
  BY TriggerInit
<1>2. PlaceInv /\ TriggerInv /\ OutputHasTrigger /\ [Next]_vars /\ HasRoom' =>
        PlaceInv' /\ TriggerInv' /\ OutputHasTrigger'
  BY PlaceNext, TriggerNext DEF Triggered, HasRoom, Roomy
<1> QED BY <1>1, <1>2, PTL DEF Spec

(* With room for twice the connections no condition on the run is needed. *)
COROLLARY RoomForAll ==
  ASSUME 2 * Cardinality(Conn) <= sum_nconn
  PROVE  Spec => []OutputHasTrigger
<1>1. HasRoom
  BY DEF HasRoom
<1> QED BY <1>1, OutputTriggered, PTL
====
