--------------------------- MODULE HeartbeatProofs ---------------------------
(***************************************************************************)
(* The session pool and one iteration of the heartbeat thread, whatever    *)
(* the environment put into the two channels.  Every operation of the pool *)
(* keeps its representation: the LRU list and the map hold the same ids,   *)
(* each once, and at most PoolMax.  Every step of the iteration keeps the  *)
(* types of its state, and is one of a few flows through the queues.  The  *)
(* compositions cite HeartbeatKeepsInv and TickFlow.                       *)
(***************************************************************************)
EXTENDS Heartbeat, FiniteSetTheorems, WellFoundedInduction, TLAPS

\* Pools as values: a map from ids to records of requests R, and a list.
PoolValue(p, R) ==
  /\ p \in [sessions : [Ids(p) -> SessionRecords(R)], lru : Seq(Nat)]
  /\ Ids(p) \subseteq Nat
  /\ IsFiniteSet(Ids(p))

-----------------------------------------------------------------------------
(* Lists: what they hold and in which order.                               *)

\* No element of s comes before one that R says it must not come before.
Apart(s, R) == \A i, j \in DOMAIN s : i < j => <<s[i], s[j]>> \notin R

(* What concatenation, a cut and the tail hold, position by position.      *)
LEMMA JoinItems ==
  ASSUME NEW S, NEW s \in Seq(S), NEW t \in Seq(S)
  PROVE  /\ s \o t \in Seq(S) /\ Len(s \o t) = Len(s) + Len(t)
         /\ \A i \in 1 .. Len(s) + Len(t) :
              (s \o t)[i] = IF i <= Len(s) THEN s[i] ELSE t[i - Len(s)]
  BY SMT, SMTT(60)

(* SubSeq of a sequence, within its bounds or empty.                       *)
LEMMA CutItems ==
  ASSUME NEW S, NEW s, NEW m \in Int, NEW n \in Int, \A i \in m .. n : s[i] \in S
  PROVE  /\ SubSeq(s, m, n) \in Seq(S)
         /\ Len(SubSeq(s, m, n)) = IF m <= n THEN n - m + 1 ELSE 0
         /\ \A i \in 1 .. n - m + 1 : SubSeq(s, m, n)[i] = s[m + i - 1]
  BY SMT, SMTT(60)

(* Joining three lists.                                                    *)
LEMMA JoinThree ==
  ASSUME NEW S, NEW s \in Seq(S), NEW t \in Seq(S), NEW u \in Seq(S)
  PROVE  (s \o t) \o u = s \o (t \o u)
  BY SMT, SMTT(60)

(* list::remove on a list that holds the id once: the others stay, once    *)
(* and in their order.                                                     *)
LEMMA RemoveFirstInjective ==
  ASSUME NEW s \in Seq(Nat), IsInjective(s), NEW e
  PROVE  /\ RemoveFirst(s, e) \in Seq(Nat)
         /\ IsInjective(RemoveFirst(s, e))
         /\ Range(RemoveFirst(s, e)) = Range(s) \ {e}
         /\ \A R : Apart(s, R) => Apart(RemoveFirst(s, e), R)
  <1>1. CASE \E i \in 1 .. Len(s) : s[i] = e
    <2>1. PICK k \in 1 .. Len(s) : s[k] = e
      BY <1>1
    <2>2. {i \in 1 .. Len(s) : s[i] = e} = {k}
      BY <2>1 DEF IsInjective
    <2>3. Min({k}) = k
      BY <2>1 DEF Min
    <2> DEFINE a == SubSeq(s, 1, k - 1)
               b == SubSeq(s, k + 1, Len(s))
               t == a \o b
    <2>a. a \in Seq(Nat) /\ Len(a) = k - 1 /\ \A i \in 1 .. k - 1 : a[i] = s[i]
      <3>1. \A i \in 1 .. k - 1 : s[i] \in Nat
        BY <2>1
      <3> QED
        BY <2>1, <3>1, CutItems
    <2>b. /\ b \in Seq(Nat) /\ Len(b) = Len(s) - k
          /\ \A i \in 1 .. Len(s) - k : b[i] = s[k + i]
      <3>1. \A i \in k + 1 .. Len(s) : s[i] \in Nat
        BY <2>1
      <3>2. /\ b \in Seq(Nat)
            /\ Len(b) = IF k + 1 <= Len(s) THEN Len(s) - (k + 1) + 1 ELSE 0
            /\ \A i \in 1 .. Len(s) - (k + 1) + 1 : b[i] = s[(k + 1) + i - 1]
        <4>1. k + 1 \in Int /\ Len(s) \in Int
          BY <2>1
        <4> QED
          BY <3>1, <4>1, CutItems
      <3> HIDE DEF b
      <3> QED
        BY <2>1, <3>2
    <2> HIDE DEF a, b
    <2>e. /\ t \in Seq(Nat) /\ Len(t) = Len(a) + Len(b)
          /\ \A i \in 1 .. Len(a) + Len(b) : t[i] = IF i <= Len(a) THEN a[i] ELSE b[i - Len(a)]
      BY ZenonT(60), <2>a, <2>b, JoinItems
    <2>5. t \in Seq(Nat) /\ Len(t) = Len(s) - 1 /\ DOMAIN t = 1 .. Len(s) - 1
      <3>1. Len(a) + Len(b) = Len(s) - 1
        BY <2>1, <2>a, <2>b
      <3> HIDE DEF t
      <3> QED
        BY <2>e, <3>1
    <2>6. ASSUME NEW i \in 1 .. Len(s) - 1 PROVE t[i] = IF i < k THEN s[i] ELSE s[i + 1]
      <3> HIDE DEF t
      <3>1. CASE i < k
        <4>1. i \in 1 .. Len(a) + Len(b) /\ i <= Len(a) /\ i \in 1 .. k - 1
          BY <2>1, <2>a, <2>b, <3>1
        <4> QED
          BY ZenonT(60), <2>a, <2>e, <3>1, <4>1
      <3>2. CASE ~(i < k)
        <4>1. /\ i \in 1 .. Len(a) + Len(b) /\ ~(i <= Len(a)) /\ i - Len(a) \in 1 .. Len(s) - k
              /\ k + (i - Len(a)) = i + 1
          BY <2>1, <2>a, <2>b, <3>2
        <4>2. t[i] = b[i - Len(a)]
          BY ZenonT(60), <2>e, <4>1
        <4>3. b[i - Len(a)] = s[k + (i - Len(a))]
          BY ZenonT(60), <2>b, <4>1
        <4> QED
          BY ZenonT(60), <3>2, <4>1, <4>2, <4>3
      <3> QED
        BY <3>1, <3>2
    <2>d. DOMAIN s = 1 .. Len(s) /\ Len(s) \in Nat
      OBVIOUS
    <2>c. RemoveFirst(s, e) = t
      BY ZenonT(60), <1>1, <2>2, <2>3 DEF RemoveFirst, a, b
    <2> HIDE DEF t
    <2> DEFINE g(i) == IF i < k THEN i ELSE i + 1
    <2>f. \A i \in DOMAIN t : t[i] = s[g(i)] /\ g(i) \in DOMAIN s
      BY SMT, SMTT(60), <2>1, <2>5, <2>6, <2>d
    <2>7. IsInjective(t)
      <3>2. ASSUME NEW i \in 1 .. Len(s) - 1, NEW j \in 1 .. Len(s) - 1, g(i) = g(j)
            PROVE  i = j
        BY SMT, SMTT(60), <2>1, <2>d, <3>2
      <3> HIDE DEF g
      <3> QED
        BY ZenonT(60), <2>5, <2>f, <3>2 DEF IsInjective
    <2>g. ASSUME NEW R, Apart(s, R) PROVE Apart(t, R)
      <3>1. ASSUME NEW i \in DOMAIN t, NEW j \in DOMAIN t, i < j PROVE g(i) < g(j)
        BY SMT, SMTT(60), <2>1, <2>5, <3>1
      <3> HIDE DEF g
      <3> QED
        BY ZenonT(60), <2>f, <2>g, <3>1 DEF Apart
    <2>8. Range(t) \subseteq Range(s) \ {e}
      <3> SUFFICES ASSUME NEW i \in 1 .. Len(s) - 1 PROVE t[i] \in Range(s) \ {e}
        BY ZenonT(60), <2>5 DEF Range
      <3>1. PICK j \in 1 .. Len(s) : t[i] = s[j] /\ j # k
        BY SMT, SMTT(60), <2>1, <2>6, <2>d
      <3> QED
        BY ZenonT(60), <2>1, <2>d, <3>1 DEF Range, IsInjective
    <2>9. ASSUME NEW x \in Range(s) \ {e} PROVE x \in Range(t)
      <3>1. PICK j \in 1 .. Len(s) : s[j] = x /\ j # k
        BY <2>1, <2>9, <2>d DEF Range
      <3>2. CASE j < k
        <4>1. j \in 1 .. Len(s) - 1 /\ t[j] = x
          BY <2>1, <2>6, <3>1, <3>2
        <4> QED
          BY ZenonT(60), <2>5, <4>1 DEF Range
      <3>3. CASE j > k
        <4>1. j - 1 \in 1 .. Len(s) - 1 /\ ~(j - 1 < k) /\ (j - 1) + 1 = j
          BY <2>1, <3>1, <3>3
        <4>2. t[j - 1] = x
          BY ZenonT(60), <2>6, <3>1, <4>1
        <4> QED
          BY ZenonT(60), <2>5, <4>1, <4>2 DEF Range
      <3> QED
        BY SMT, SMTT(60), <2>1, <3>1, <3>2, <3>3
    <2> QED
      <3>1. Range(t) = Range(s) \ {e}
        BY ZenonT(60), <2>8, <2>9
      <3> QED
        BY ZenonT(60), <2>5, <2>7, <2>c, <2>g, <3>1
  <1>2. CASE ~ \E i \in 1 .. Len(s) : s[i] = e
    <2>1. RemoveFirst(s, e) = s
      BY ZenonT(60), <1>2 DEF RemoveFirst
    <2> QED
      BY <1>2, <2>1 DEF Range
  <1> QED
    BY <1>1, <1>2

(* list::push_front of a new id.                                           *)
LEMMA PushFrontInjective ==
  ASSUME NEW s \in Seq(Nat), IsInjective(s), NEW e \in Nat, e \notin Range(s)
  PROVE  /\ <<e>> \o s \in Seq(Nat)
         /\ IsInjective(<<e>> \o s)
         /\ Range(<<e>> \o s) = Range(s) \cup {e}
  <1> DEFINE t == <<e>> \o s
  <1>1. /\ t \in Seq(Nat) /\ Len(t) = Len(s) + 1 /\ t[1] = e
        /\ DOMAIN t = 1 .. Len(s) + 1 /\ DOMAIN s = 1 .. Len(s) /\ Len(s) \in Nat
    OBVIOUS
  <1>2. \A i \in 2 .. Len(s) + 1 : t[i] = s[i - 1] /\ i - 1 \in 1 .. Len(s)
    OBVIOUS
  <1>3. \A i \in 1 .. Len(s) : t[i + 1] = s[i] /\ i + 1 \in 1 .. Len(s) + 1
    OBVIOUS
  <1> HIDE DEF t
  <1>4. ASSUME NEW i \in DOMAIN t
        PROVE  \/ i = 1 /\ t[i] = e
               \/ i # 1 /\ i - 1 \in DOMAIN s /\ t[i] = s[i - 1] /\ t[i] # e
    <2>1. CASE i = 1
      BY <1>1, <2>1
    <2>2. CASE i # 1
      <3>1. i \in 2 .. Len(s) + 1
        BY <1>1, <2>2
      <3>2. i - 1 \in DOMAIN s /\ t[i] = s[i - 1]
        BY ZenonT(60), <1>1, <1>2, <3>1
      <3> QED
        BY <2>2, <3>2 DEF Range
    <2> QED
      BY <2>1, <2>2
  <1>5. IsInjective(t)
    <2> SUFFICES ASSUME NEW i \in DOMAIN t, NEW j \in DOMAIN t, t[i] = t[j] PROVE i = j
      BY DEF IsInjective
    <2>1. CASE i = 1 \/ j = 1
      BY <1>4, <2>1
    <2>2. CASE i # 1 /\ j # 1
      <3>1. i - 1 = j - 1
        BY <1>4, <2>2 DEF IsInjective
      <3> QED
        BY <1>1, <3>1
    <2> QED
      BY <2>1, <2>2
  <1>6. Range(t) \subseteq Range(s) \cup {e}
    BY <1>4 DEF Range
  <1>7. ASSUME NEW x \in Range(s) \cup {e} PROVE x \in Range(t)
    <2>1. CASE x = e
      <3>1. 1 \in DOMAIN t
        BY <1>1
      <3> QED
        BY <1>1, <2>1, <3>1 DEF Range
    <2>2. CASE x \in Range(s)
      <3>1. PICK i \in DOMAIN s : s[i] = x
        BY <2>2 DEF Range
      <3>2. i + 1 \in DOMAIN t /\ t[i + 1] = x
        BY <1>1, <1>3, <3>1
      <3> QED
        BY <3>2 DEF Range
    <2> QED
      BY <2>1, <2>2
  <1> QED
    BY <1>1, <1>5, <1>6, <1>7 DEF t

(* The first element leaves.                                               *)
LEMMA TailHolds ==
  ASSUME NEW T, NEW s \in Seq(T), s # <<>>
  PROVE  /\ Tail(s) \in Seq(T) /\ Head(s) \in T
         /\ Range(s) = Range(Tail(s)) \cup {Head(s)}
         /\ \A R : Apart(s, R) =>
              Apart(Tail(s), R) /\ \A y \in Range(Tail(s)) : <<Head(s), y>> \notin R
  <1> DEFINE t == Tail(s)
             n == Len(s)
  <1>1. /\ t \in Seq(T) /\ Head(s) \in T /\ Head(s) = s[1] /\ n \in Nat /\ n >= 1
        /\ DOMAIN s = 1 .. n /\ DOMAIN t = 1 .. n - 1
        /\ \A i \in 1 .. n - 1 : t[i] = s[i + 1]
    BY SMT, SMTT(60)
  <1> HIDE DEF t, n
  <1>2. ASSUME NEW y \in Range(t) PROVE \E j \in DOMAIN s : 1 < j /\ s[j] = y
    <2>1. PICK i \in DOMAIN t : t[i] = y
      BY ZenonT(60) DEF Range
    <2>2. i + 1 \in DOMAIN s /\ 1 < i + 1 /\ s[i + 1] = y
      BY SMT, SMTT(60), <1>1, <2>1
    <2> QED
      BY ZenonT(60), <2>2
  <1>3. Range(s) = Range(t) \cup {Head(s)}
    <2>1. ASSUME NEW i \in DOMAIN s, i # 1 PROVE s[i] \in Range(t)
      <3>1. i - 1 \in DOMAIN t /\ t[i - 1] = s[i]
        BY SMT, SMTT(60), <1>1, <2>1
      <3> QED
        BY ZenonT(60), <3>1 DEF Range
    <2>2. Range(s) \subseteq Range(t) \cup {Head(s)}
      BY ZenonT(60), <1>1, <2>1 DEF Range
    <2>3. 1 \in DOMAIN s
      BY <1>1
    <2>4. Head(s) \in Range(s) /\ Range(t) \subseteq Range(s)
      BY ZenonT(60), <1>1, <1>2, <2>3 DEF Range
    <2> QED
      BY ZenonT(60), <2>2, <2>4
  <1>4. ASSUME NEW R, Apart(s, R)
        PROVE  Apart(t, R) /\ \A y \in Range(t) : <<Head(s), y>> \notin R
    <2>1. ASSUME NEW i \in DOMAIN t, NEW j \in DOMAIN t, i < j PROVE <<t[i], t[j]>> \notin R
      <3>1. i + 1 \in DOMAIN s /\ j + 1 \in DOMAIN s /\ i + 1 < j + 1
            /\ t[i] = s[i + 1] /\ t[j] = s[j + 1]
        BY SMT, SMTT(60), <1>1, <2>1
      <3> QED
        BY ZenonT(60), <1>4, <3>1 DEF Apart
    <2>2. 1 \in DOMAIN s
      BY <1>1
    <2>3. \A y \in Range(t) : <<Head(s), y>> \notin R
      BY ZenonT(60), <1>1, <1>2, <1>4, <2>2 DEF Apart
    <2> QED
      BY ZenonT(60), <2>1, <2>3 DEF Apart
  <1> QED
    BY <1>1, <1>3, <1>4 DEF t

(* Two lists are joined.                                                   *)
LEMMA JoinHolds ==
  ASSUME NEW T, NEW s \in Seq(T), NEW t \in Seq(T)
  PROVE  /\ s \o t \in Seq(T)
         /\ Range(s \o t) = Range(s) \cup Range(t)
         /\ \A R : Apart(s, R) /\ Apart(t, R)
                   /\ (\A x \in Range(s), y \in Range(t) : <<x, y>> \notin R)
              => Apart(s \o t, R)
  <1> DEFINE u == s \o t
             m == Len(s)
             n == Len(t)
  <1>1. /\ u \in Seq(T) /\ m \in Nat /\ n \in Nat
        /\ DOMAIN s = 1 .. m /\ DOMAIN t = 1 .. n /\ DOMAIN u = 1 .. m + n
        /\ \A i \in 1 .. m + n : u[i] = IF i <= m THEN s[i] ELSE t[i - m]
    BY SMT, SMTT(60), JoinItems
  <1> HIDE DEF u, m, n
  <1>2. \A i \in DOMAIN u : \/ i \in DOMAIN s /\ u[i] = s[i]
                            \/ i - m \in DOMAIN t /\ u[i] = t[i - m] /\ i > m
    BY SMT, SMTT(60), <1>1
  <1>3. \A i \in DOMAIN s : i \in DOMAIN u /\ u[i] = s[i]
    BY SMT, SMTT(60), <1>1
  <1>4. \A i \in DOMAIN t : i + m \in DOMAIN u /\ u[i + m] = t[i]
    BY SMT, SMTT(60), <1>1
  <1>5. Range(u) = Range(s) \cup Range(t)
    <2>1. Range(u) \subseteq Range(s) \cup Range(t)
      BY ZenonT(60), <1>2 DEF Range
    <2>2. Range(s) \subseteq Range(u)
      BY ZenonT(60), <1>3 DEF Range
    <2>3. Range(t) \subseteq Range(u)
      BY ZenonT(60), <1>4 DEF Range
    <2> QED
      BY <2>1, <2>2, <2>3
  <1>6. ASSUME NEW R, Apart(s, R), Apart(t, R),
               \A x \in Range(s), y \in Range(t) : <<x, y>> \notin R,
               NEW i \in DOMAIN u, NEW j \in DOMAIN u, i < j
        PROVE  <<u[i], u[j]>> \notin R
    <2>1. CASE i \in DOMAIN s /\ j \in DOMAIN s
      BY ZenonT(60), <1>3, <1>6, <2>1 DEF Apart
    <2>2. CASE i \in DOMAIN s /\ j - m \in DOMAIN t /\ u[j] = t[j - m]
      BY ZenonT(60), <1>3, <1>6, <2>2 DEF Range
    <2>3. CASE /\ i - m \in DOMAIN t /\ j - m \in DOMAIN t
               /\ u[i] = t[i - m] /\ u[j] = t[j - m]
      <3>1. i - m < j - m
        BY <1>1, <1>6
      <3> QED
        BY ZenonT(60), <1>6, <2>3, <3>1 DEF Apart
    <2>4. i > m => j \notin DOMAIN s
      BY <1>1, <1>6
    <2> QED
      BY ZenonT(60), <1>2, <1>6, <2>1, <2>2, <2>3, <2>4
  <1>7. \A R : Apart(s, R) /\ Apart(t, R)
               /\ (\A x \in Range(s), y \in Range(t) : <<x, y>> \notin R)
          => Apart(u, R)
    BY ZenonT(60), <1>6 DEF Apart
  <1> QED
    BY <1>1, <1>5, <1>7 DEF u

(* One and two elements.                                                   *)
LEMMA ShortHolds ==
  ASSUME NEW T, NEW x \in T, NEW y \in T
  PROVE  /\ <<x>> \in Seq(T) /\ <<x, y>> \in Seq(T)
         /\ Range(<<>>) = {} /\ Range(<<x>>) = {x} /\ Range(<<x, y>>) = {x, y}
         /\ \A R : Apart(<<>>, R) /\ Apart(<<x>>, R) /\ (<<x, y>> \notin R => Apart(<<x, y>>, R))
  <1>1. DOMAIN <<>> = {} /\ DOMAIN <<x>> = {1} /\ DOMAIN <<x, y>> = {1, 2}
    OBVIOUS
  <1>2. Range(<<>>) = {}
    BY ZenonT(60), <1>1 DEF Range
  <1>3. Range(<<x>>) = {x}
    BY SMT, SMTT(60), <1>1 DEF Range
  <1>4. Range(<<x, y>>) = {x, y}
    BY SMT, SMTT(60), <1>1 DEF Range
  <1>5. \A R : Apart(<<>>, R) /\ Apart(<<x>>, R)
    BY SMT, SMTT(60), <1>1 DEF Apart
  <1>6. ASSUME NEW R, <<x, y>> \notin R PROVE Apart(<<x, y>>, R)
    <2> DEFINE s == <<x, y>>
    <2>1. s[1] = x /\ s[2] = y /\ DOMAIN s = {1, 2}
      OBVIOUS
    <2> HIDE DEF s
    <2>2. ASSUME NEW i \in DOMAIN s, NEW j \in DOMAIN s, i < j PROVE <<s[i], s[j]>> \notin R
      <3>1. i = 1 /\ j = 2
        BY <2>1, <2>2
      <3> QED
        BY ZenonT(60), <1>6, <2>1, <3>1 DEF s
    <2> QED
      BY ZenonT(60), <2>2 DEF Apart, s
  <1> QED
    BY <1>2, <1>3, <1>4, <1>5, <1>6

(* A non-empty set of list positions has a last one.                       *)
LEMMA MaxOfPositions ==
  ASSUME NEW n \in Nat, NEW S \in SUBSET (1 .. n), S # {}
  PROVE  Max(S) \in S /\ \A y \in S : Max(S) >= y
  <1> DEFINE T == {n - i : i \in S}
  <1>1. T \subseteq Nat /\ T # {}
    <2>1. \A i \in S : n - i \in Nat
      OBVIOUS
    <2>2. PICK i \in S : n - i \in T
      BY ZenonT(60)
    <2> QED
      BY <2>1, <2>2
  <1>2. PICK x \in T : \A y \in T : ~(<<y, x>> \in OpToRel(<, Nat))
    BY ZenonT(60), <1>1, NatLessThanWellFounded, WFMin
  <1>3. \A y \in T : ~(y < x)
    BY ZenonT(60), <1>1, <1>2 DEF OpToRel
  <1>4. PICK m \in S : x = n - m
    BY ZenonT(60), <1>2
  <1>5. \A y \in S : m >= y
    BY SMT, SMTT(60), <1>3, <1>4
  <1> QED
    BY ZenonT(60), <1>4, <1>5 DEF Max

-----------------------------------------------------------------------------
(* The operations.                                                         *)

(* find_idle_least_recently_used returns a Ready session or none.          *)
LEMMA FindIdleFinds ==
  ASSUME NEW p, NEW R, PoolValue(p, R),
         FindIdleLeastRecentlyUsed(p) # NoSession
  PROVE  /\ FindIdleLeastRecentlyUsed(p) \in Ids(p)
         /\ p.sessions[FindIdleLeastRecentlyUsed(p)].state = "Ready"
  <1> DEFINE ready == {i \in DOMAIN p.lru : /\ p.lru[i] \in Ids(p)
                                            /\ p.sessions[p.lru[i]].state = "Ready"}
  <1>1. ready # {} /\ FindIdleLeastRecentlyUsed(p) = p.lru[Max(ready)]
    BY DEF FindIdleLeastRecentlyUsed
  <1>2. Len(p.lru) \in Nat /\ DOMAIN p.lru = 1 .. Len(p.lru)
    BY DEF PoolValue
  <1>3. ready \in SUBSET (1 .. Len(p.lru))
    BY ZenonT(60), <1>2
  <1>4. Max(ready) \in ready
    BY ZenonT(60), <1>1, <1>2, <1>3, MaxOfPositions
  <1> QED
    BY ZenonT(60), <1>1, <1>4

(* add of an id that is not pooled, into a pool that is not full.          *)
LEMMA AddKeepsPool ==
  ASSUME NEW p, NEW R, PoolValue(p, R), PoolOK(p), ~PoolFull(p),
         NEW id \in Nat, id \notin Ids(p), NEW rec \in SessionRecords(R)
  PROVE  /\ PoolValue(Add(p, id, rec), R)
         /\ PoolOK(Add(p, id, rec))
         /\ Ids(Add(p, id, rec)) = Ids(p) \cup {id}
  <1> DEFINE q == Add(p, id, rec)
  <1>1. Ids(q) = Ids(p) \cup {id} /\ q.lru = <<id>> \o p.lru
    BY DEF Add, Ids
  <1>2. /\ q.lru \in Seq(Nat) /\ IsInjective(q.lru)
        /\ Range(q.lru) = Ids(q)
    BY <1>1, PushFrontInjective DEF PoolValue, PoolOK
  <1>3. IsFiniteSet(Ids(q)) /\ Cardinality(Ids(q)) <= PoolMax
    <2>1. /\ IsFiniteSet(Ids(p) \cup {id})
          /\ Cardinality(Ids(p) \cup {id}) = Cardinality(Ids(p)) + 1
      BY ZenonT(60), FS_AddElement DEF PoolValue
    <2>2. Cardinality(Ids(p)) \in Nat
      BY FS_CardinalityType DEF PoolValue
    <2> QED
      BY SMT, SMTT(60), <1>1, <2>1, <2>2, PoolAssumption DEF PoolFull
  <1>4. q \in [sessions : [Ids(q) -> SessionRecords(R)], lru : Seq(Nat)]
    <2>1. \A x \in Ids(p) : p.sessions[x] \in SessionRecords(R)
      BY DEF PoolValue
    <2>2. q.sessions \in [Ids(p) \cup {id} -> SessionRecords(R)]
      BY <2>1 DEF Add
    <2>3. q = [sessions |-> q.sessions, lru |-> q.lru]
      BY DEF Add
    <2> HIDE DEF q
    <2> QED
      BY ZenonT(60), <1>1, <1>2, <2>2, <2>3
  <1> QED
    BY ZenonT(60), <1>1, <1>2, <1>3, <1>4 DEF PoolValue, PoolOK

(* mark_active and mark_ready.                                             *)
LEMMA TouchKeepsPool ==
  ASSUME NEW p, NEW R, PoolValue(p, R), PoolOK(p),
         NEW id, NEW state \in SessionStates, NEW clock \in Nat
  PROVE  /\ PoolValue(Touch(p, id, state, clock), R)
         /\ PoolOK(Touch(p, id, state, clock))
         /\ Ids(Touch(p, id, state, clock)) = Ids(p)
  <1> DEFINE q == Touch(p, id, state, clock)
  <1>1. CASE id \in Ids(p)
    <2>1. /\ q.sessions = [p.sessions EXCEPT ![id].state = state, ![id].last_active_at = clock]
          /\ q.lru = MoveToFront(p.lru, id)
          /\ q = [sessions |-> q.sessions, lru |-> q.lru]
      BY <1>1 DEF Touch
    <2> HIDE DEF q
    <2>2. p.sessions \in [Ids(p) -> SessionRecords(R)]
      BY DEF PoolValue
    <2>3. q.sessions \in [Ids(p) -> SessionRecords(R)]
      BY ZenonT(60), <2>1, <2>2 DEF SessionRecords
    <2>4. Ids(q) = Ids(p)
      BY <2>3 DEF Ids
    <2>5. /\ q.lru \in Seq(Nat) /\ IsInjective(q.lru)
          /\ Range(q.lru) = (Range(p.lru) \ {id}) \cup {id}
      <3> DEFINE t == RemoveFirst(p.lru, id)
      <3>1. t \in Seq(Nat) /\ IsInjective(t) /\ Range(t) = Range(p.lru) \ {id}
        BY RemoveFirstInjective DEF PoolValue, PoolOK
      <3>2. id \in Nat
        BY <1>1 DEF PoolValue
      <3> HIDE DEF t
      <3>3. /\ <<id>> \o t \in Seq(Nat) /\ IsInjective(<<id>> \o t)
            /\ Range(<<id>> \o t) = Range(t) \cup {id}
        BY <3>1, <3>2, PushFrontInjective
      <3> QED
        BY <2>1, <3>1, <3>3 DEF MoveToFront, t
    <2>6. PoolValue(q, R)
      BY ZenonT(60), <2>1, <2>3, <2>4, <2>5 DEF PoolValue
    <2>7. PoolOK(q)
      BY <1>1, <2>4, <2>5 DEF PoolOK
    <2> QED
      BY ZenonT(60), <2>4, <2>6, <2>7 DEF q
  <1>2. CASE id \notin Ids(p)
    BY <1>2 DEF Touch
  <1> QED
    BY ZenonT(60), <1>1, <1>2

(* Writes to one record: mark_draining, mark_errored.                      *)
LEMMA SetStateKeepsPool ==
  ASSUME NEW p, NEW R, PoolValue(p, R), PoolOK(p),
         NEW id, NEW state \in SessionStates
  PROVE  /\ PoolValue(SetSessionState(p, id, state), R)
         /\ PoolOK(SetSessionState(p, id, state))
         /\ Ids(SetSessionState(p, id, state)) = Ids(p)
  <1> DEFINE q == SetSessionState(p, id, state)
  <1>1. CASE id \in Ids(p)
    <2>1. /\ q.sessions = [p.sessions EXCEPT ![id].state = state]
          /\ q.lru = p.lru
          /\ q = [sessions |-> q.sessions, lru |-> q.lru]
      BY ZenonT(60), <1>1 DEF SetSessionState, PoolValue
    <2> HIDE DEF q
    <2>2. p.sessions \in [Ids(p) -> SessionRecords(R)]
      BY DEF PoolValue
    <2>3. q.sessions \in [Ids(p) -> SessionRecords(R)]
      BY ZenonT(60), <2>1, <2>2 DEF SessionRecords
    <2>4. Ids(q) = Ids(p)
      BY <2>3 DEF Ids
    <2> QED
      BY ZenonT(60), <2>1, <2>3, <2>4 DEF PoolValue, PoolOK, q
  <1>2. CASE id \notin Ids(p)
    BY <1>2 DEF SetSessionState
  <1> QED
    BY <1>1, <1>2

(* current_request_id, written through the pointer.                        *)
LEMMA SetRequestKeepsPool ==
  ASSUME NEW p, NEW R, PoolValue(p, R), PoolOK(p), NEW id, NEW rid \in R
  PROVE  /\ PoolValue(SetCurrentRequest(p, id, rid), R)
         /\ PoolOK(SetCurrentRequest(p, id, rid))
         /\ Ids(SetCurrentRequest(p, id, rid)) = Ids(p)
  <1> DEFINE q == SetCurrentRequest(p, id, rid)
  <1>1. CASE id \in Ids(p)
    <2>1. /\ q.sessions = [p.sessions EXCEPT ![id].current_request_id = rid]
          /\ q.lru = p.lru
          /\ q = [sessions |-> q.sessions, lru |-> q.lru]
      BY ZenonT(60), <1>1 DEF SetCurrentRequest, PoolValue
    <2> HIDE DEF q
    <2>2. p.sessions \in [Ids(p) -> SessionRecords(R)]
      BY DEF PoolValue
    <2>3. q.sessions \in [Ids(p) -> SessionRecords(R)]
      BY ZenonT(60), <2>1, <2>2 DEF SessionRecords
    <2>4. Ids(q) = Ids(p)
      BY <2>3 DEF Ids
    <2> QED
      BY ZenonT(60), <2>1, <2>3, <2>4 DEF PoolValue, PoolOK, q
  <1>2. CASE id \notin Ids(p)
    BY <1>2 DEF SetCurrentRequest
  <1> QED
    BY <1>1, <1>2

(* A new session together with the request it is made for.                 *)
LEMMA BindNewKeepsPool ==
  ASSUME NEW p, NEW R, PoolValue(p, R), PoolOK(p), ~PoolFull(p),
         NEW id \in Nat, id \notin Ids(p), NEW rid \in R
  PROVE  LET q == SetCurrentRequest(Add(p, id, SessionRecord(id)), id, rid)
         IN PoolValue(q, R) /\ PoolOK(q) /\ Ids(q) = Ids(p) \cup {id}
  <1> DEFINE rec == [SessionRecord(id) EXCEPT !.current_request_id = rid]
             a   == Add(p, id, SessionRecord(id))
             q   == SetCurrentRequest(a, id, rid)
  <1>1. rec \in SessionRecords(R)
    BY DEF SessionRecord, SessionRecords, SessionStates
  <1>2. Ids(a) = Ids(p) \cup {id}
    BY DEF Add, Ids
  <1>3. q = [a EXCEPT !.sessions[id].current_request_id = rid]
    BY <1>2 DEF SetCurrentRequest
  <1>4. q = Add(p, id, rec)
    BY ZenonT(60), <1>2, <1>3 DEF Add, SessionRecord
  <1> HIDE DEF rec, q
  <1>5. PoolValue(q, R) /\ PoolOK(q) /\ Ids(q) = Ids(p) \cup {id}
    BY <1>1, <1>4, AddKeepsPool
  <1> QED
    BY <1>5 DEF q, a

(* mark_closed, of an id in the pool or not.                               *)
LEMMA CloseKeepsPool ==
  ASSUME NEW p, NEW R, PoolValue(p, R), PoolOK(p), NEW id
  PROVE  /\ PoolValue(MarkClosed(p, id), R)
         /\ PoolOK(MarkClosed(p, id))
         /\ Ids(MarkClosed(p, id)) = Ids(p) \ {id}
  <1> DEFINE q == MarkClosed(p, id)
  <1>1. /\ q.sessions = [x \in Ids(p) \ {id} |-> p.sessions[x]]
        /\ q.lru = RemoveFirst(p.lru, id)
        /\ q = [sessions |-> q.sessions, lru |-> q.lru]
    BY DEF MarkClosed
  <1> HIDE DEF q
  <1>2. p.sessions \in [Ids(p) -> SessionRecords(R)]
    BY DEF PoolValue
  <1>3. q.sessions \in [Ids(p) \ {id} -> SessionRecords(R)]
    BY <1>1, <1>2
  <1>4. Ids(q) = Ids(p) \ {id}
    BY <1>3 DEF Ids
  <1>5. /\ q.lru \in Seq(Nat) /\ IsInjective(q.lru)
        /\ Range(q.lru) = Range(p.lru) \ {id}
    BY <1>1, RemoveFirstInjective DEF PoolValue, PoolOK
  <1>6. IsFiniteSet(Ids(q)) /\ Cardinality(Ids(q)) <= PoolMax
    <2>1. /\ IsFiniteSet(Ids(p) \ {id})
          /\ Cardinality(Ids(p) \ {id}) <= Cardinality(Ids(p))
      BY FS_Subset DEF PoolValue
    <2>2. Cardinality(Ids(p)) \in Nat /\ Cardinality(Ids(p) \ {id}) \in Nat
      BY ZenonT(60), <2>1, FS_CardinalityType DEF PoolValue
    <2> QED
      BY <1>4, <2>1, <2>2, PoolAssumption DEF PoolOK
  <1> QED
    BY <1>1, <1>3, <1>4, <1>5, <1>6 DEF PoolValue, PoolOK, q

(* mark_active and mark_ready write the state and the time of one session. *)
LEMMA TouchFields ==
  ASSUME NEW p, NEW R, PoolValue(p, R), NEW id, NEW state, NEW clock,
         NEW q, q = Touch(p, id, state, clock)
  PROVE  /\ Ids(q) = Ids(p)
         /\ \A s \in Ids(p) :
              /\ q.sessions[s].current_request_id = p.sessions[s].current_request_id
              /\ q.sessions[s].created_at = p.sessions[s].created_at
              /\ q.sessions[s].state = IF s = id THEN state ELSE p.sessions[s].state
              /\ q.sessions[s].last_active_at =
                   IF s = id THEN clock ELSE p.sessions[s].last_active_at
  <1> DEFINE rec == [p.sessions[id] EXCEPT !.state = state, !.last_active_at = clock]
  <1>1. \A s \in Ids(p) :
          DOMAIN p.sessions[s] = {"state", "created_at", "last_active_at", "current_request_id"}
    BY DEF PoolValue, SessionRecords
  <1>2. CASE id \in Ids(p)
    <2>1. q.sessions = [p.sessions EXCEPT ![id] = rec]
      BY ZenonT(60), <1>1, <1>2 DEF Touch, Ids
    <2>2. /\ rec.current_request_id = p.sessions[id].current_request_id
          /\ rec.created_at = p.sessions[id].created_at
          /\ rec.state = state /\ rec.last_active_at = clock
      BY ZenonT(60), <1>1, <1>2
    <2> HIDE DEF rec
    <2>3. Ids(q) = Ids(p)
      BY <2>1 DEF Ids
    <2>4. \A s \in Ids(p) : q.sessions[s] = IF s = id THEN rec ELSE p.sessions[s]
      BY <2>1 DEF Ids
    <2> QED
      BY ZenonT(60), <2>2, <2>3, <2>4
  <1>3. CASE id \notin Ids(p)
    BY ZenonT(60), <1>3 DEF Touch
  <1> QED
    BY <1>2, <1>3

(* mark_draining and mark_errored write the state of one session.          *)
LEMMA SetSessionFields ==
  ASSUME NEW p, NEW R, PoolValue(p, R), NEW id, NEW state,
         NEW q, q = SetSessionState(p, id, state)
  PROVE  /\ Ids(q) = Ids(p) /\ q.lru = p.lru
         /\ \A s \in Ids(p) :
              /\ q.sessions[s].current_request_id = p.sessions[s].current_request_id
              /\ q.sessions[s].created_at = p.sessions[s].created_at
              /\ q.sessions[s].state = IF s = id THEN state ELSE p.sessions[s].state
              /\ q.sessions[s].last_active_at = p.sessions[s].last_active_at
  <1> DEFINE rec == [p.sessions[id] EXCEPT !.state = state]
  <1>1. /\ \A s \in Ids(p) :
             DOMAIN p.sessions[s] = {"state", "created_at", "last_active_at", "current_request_id"}
        /\ DOMAIN p = {"sessions", "lru"}
    BY DEF PoolValue, SessionRecords
  <1>2. CASE id \in Ids(p)
    <2>1. q.sessions = [p.sessions EXCEPT ![id] = rec] /\ q.lru = p.lru
      BY ZenonT(60), <1>1, <1>2 DEF SetSessionState, Ids
    <2>2. /\ rec.current_request_id = p.sessions[id].current_request_id
          /\ rec.created_at = p.sessions[id].created_at
          /\ rec.state = state /\ rec.last_active_at = p.sessions[id].last_active_at
      BY ZenonT(60), <1>1, <1>2
    <2> HIDE DEF rec
    <2>3. Ids(q) = Ids(p)
      BY <2>1 DEF Ids
    <2>4. \A s \in Ids(p) : q.sessions[s] = IF s = id THEN rec ELSE p.sessions[s]
      BY <2>1 DEF Ids
    <2> QED
      BY ZenonT(60), <2>1, <2>2, <2>3, <2>4
  <1>3. CASE id \notin Ids(p)
    BY ZenonT(60), <1>3 DEF SetSessionState
  <1> QED
    BY <1>2, <1>3

(* The request of a session is written through the pointer get returns.    *)
LEMMA SetRequestFields ==
  ASSUME NEW p, NEW R, PoolValue(p, R), NEW id, NEW rid,
         NEW q, q = SetCurrentRequest(p, id, rid)
  PROVE  /\ Ids(q) = Ids(p) /\ q.lru = p.lru
         /\ \A s \in Ids(p) :
              /\ q.sessions[s].current_request_id =
                   IF s = id THEN rid ELSE p.sessions[s].current_request_id
              /\ q.sessions[s].created_at = p.sessions[s].created_at
              /\ q.sessions[s].state = p.sessions[s].state
              /\ q.sessions[s].last_active_at = p.sessions[s].last_active_at
  <1> DEFINE rec == [p.sessions[id] EXCEPT !.current_request_id = rid]
  <1>1. /\ \A s \in Ids(p) :
             DOMAIN p.sessions[s] = {"state", "created_at", "last_active_at", "current_request_id"}
        /\ DOMAIN p = {"sessions", "lru"}
    BY DEF PoolValue, SessionRecords
  <1>2. CASE id \in Ids(p)
    <2>1. q.sessions = [p.sessions EXCEPT ![id] = rec] /\ q.lru = p.lru
      BY ZenonT(60), <1>1, <1>2 DEF SetCurrentRequest, Ids
    <2>2. /\ rec.current_request_id = rid
          /\ rec.created_at = p.sessions[id].created_at
          /\ rec.state = p.sessions[id].state
          /\ rec.last_active_at = p.sessions[id].last_active_at
      BY ZenonT(60), <1>1, <1>2
    <2> HIDE DEF rec
    <2>3. Ids(q) = Ids(p)
      BY <2>1 DEF Ids
    <2>4. \A s \in Ids(p) : q.sessions[s] = IF s = id THEN rec ELSE p.sessions[s]
      BY <2>1 DEF Ids
    <2> QED
      BY ZenonT(60), <2>1, <2>2, <2>3, <2>4
  <1>3. CASE id \notin Ids(p)
    BY <1>3 DEF SetCurrentRequest
  <1> QED
    BY <1>2, <1>3

(* mark_closed leaves the other sessions as they are.                      *)
LEMMA CloseFields ==
  \A p, id : /\ Ids(MarkClosed(p, id)) = Ids(p) \ {id}
             /\ \A s \in Ids(p) \ {id} : MarkClosed(p, id).sessions[s] = p.sessions[s]
  BY DEF MarkClosed, Ids

-----------------------------------------------------------------------------
(* The heartbeat.                                                          *)

\* What a step of the heartbeat needs and keeps.
HbInv == HbTypeOK /\ PoolOK(pool)

\* HbTypeOK, the pool left out.
RestOK ==
  /\ phase \in Phases
  /\ request_channel \in Seq(Messages)
  /\ ws_event_channel \in Seq(Messages)
  /\ batch \in Seq(Messages)
  /\ changed_sessions \subseteq Nat
  /\ cs \in ChangeSets
  /\ next_sid \in Nat \ {0}
  /\ pending \in [DOMAIN pending -> PendingRequests(Audio)]
  /\ DOMAIN pending \subseteq Rids
  /\ inflight \in 0 .. Modulus - 1
  /\ refused \subseteq Rids
  /\ backend \in [Rids -> Backends]
  /\ now \in Nat

\* The pool's part of HbInv.
PoolInv ==
  /\ PoolValue(pool, Rids)
  /\ PoolOK(pool)
  /\ Ids(pool) \subseteq 1 .. next_sid - 1

(* HbInv in two parts; the session ids drawn so far are finitely many.     *)
LEMMA HbInvParts == HbInv <=> RestOK /\ PoolInv
  <1>1. ASSUME HbInv PROVE RestOK /\ PoolInv
    <2>1. next_sid - 1 \in Int /\ 1 .. next_sid - 1 \subseteq Nat
      BY SMT, SMTT(60), <1>1 DEF HbInv, HbTypeOK
    <2>2. IsFiniteSet(1 .. next_sid - 1)
      BY SMT, SMTT(60), <2>1, FS_Interval
    <2>3. IsFiniteSet(Ids(pool)) /\ Ids(pool) \subseteq Nat
      BY ZenonT(60), <1>1, <2>1, <2>2, FS_Subset DEF HbInv, HbTypeOK
    <2>4. PoolInv
      BY ZenonT(60), <1>1, <2>3 DEF HbInv, HbTypeOK, PoolInv, PoolValue
    <2> QED
      BY <1>1, <2>4 DEF HbInv, HbTypeOK, RestOK
  <1>2. ASSUME RestOK, PoolInv PROVE HbInv
    BY <1>2 DEF HbInv, HbTypeOK, RestOK, PoolInv, PoolValue
  <1> QED
    BY <1>1, <1>2

(* The same of the next state.                                             *)
LEMMA HbInvPartsNext == HbInv' <=> RestOK' /\ PoolInv'
  BY HbInvParts, PTL

-----------------------------------------------------------------------------
(* Values that pass through the tick.                                      *)

(* What the handlers read from the message they dispatch on.               *)
LEMMA MessageFields ==
  ASSUME NEW m \in Messages
  PROVE  /\ m.type # "TtsResponse" => m.rid \in Rids
         /\ m.type = "TtsResponse" => /\ m.session \in Nat
                                      /\ m.audio \in Audio
                                      /\ m.is_final \in BOOLEAN
  BY DEF Messages

(* The unsigned counter stays in its width.                                *)
LEMMA ModRange ==
  ASSUME NEW a \in Int
  PROVE  a % Modulus \in 0 .. Modulus - 1
  <1>1. Modulus \in Nat /\ Modulus > 0
    BY HeartbeatAssumption
  <1> QED
    BY <1>1

(* ChangeSetBuilder: one more write, frames, a job, or closed sessions.    *)
LEMMA ChangeSetGrows ==
  ASSUME NEW c \in ChangeSets
  PROVE  /\ \A w \in ClientWrites :
              [c EXCEPT !.client_writes = Append(@, w)] \in ChangeSets
         /\ \A f \in Seq(OutWsFrames) :
              [c EXCEPT !.ws_frames = @ \o f] \in ChangeSets
         /\ \A r \in Rids : [c EXCEPT !.local_jobs = Append(@, r)] \in ChangeSets
         /\ \A S \in SUBSET CloseSessions :
              [c EXCEPT !.close_sessions = @ \cup S] \in ChangeSets
  <1>1. /\ c.ws_frames \in Seq(OutWsFrames) /\ c.client_writes \in Seq(ClientWrites)
        /\ c.close_sessions \in SUBSET CloseSessions /\ c.local_jobs \in Seq(Rids)
    BY DEF ChangeSets
  <1>2. ASSUME NEW w \in ClientWrites
        PROVE  [c EXCEPT !.client_writes = Append(@, w)] \in ChangeSets
    <2> DEFINE T == Append(c.client_writes, w)
    <2>1. T \in Seq(ClientWrites)
      BY <1>1
    <2> HIDE DEF T
    <2>2. [c EXCEPT !.client_writes = T] \in ChangeSets
      BY ZenonT(60), <2>1 DEF ChangeSets
    <2> QED
      BY <2>2 DEF T
  <1>3. ASSUME NEW f \in Seq(OutWsFrames)
        PROVE  [c EXCEPT !.ws_frames = @ \o f] \in ChangeSets
    <2> DEFINE T == c.ws_frames \o f
    <2>1. T \in Seq(OutWsFrames)
      BY <1>1
    <2> HIDE DEF T
    <2>2. [c EXCEPT !.ws_frames = T] \in ChangeSets
      BY ZenonT(60), <2>1 DEF ChangeSets
    <2> QED
      BY <2>2 DEF T
  <1>4. ASSUME NEW r \in Rids
        PROVE  [c EXCEPT !.local_jobs = Append(@, r)] \in ChangeSets
    <2> DEFINE T == Append(c.local_jobs, r)
    <2>1. T \in Seq(Rids)
      BY <1>1
    <2> HIDE DEF T
    <2>2. [c EXCEPT !.local_jobs = T] \in ChangeSets
      BY ZenonT(60), <2>1 DEF ChangeSets
    <2> QED
      BY <2>2 DEF T
  <1>5. ASSUME NEW S \in SUBSET CloseSessions
        PROVE  [c EXCEPT !.close_sessions = @ \cup S] \in ChangeSets
    <2> DEFINE T == c.close_sessions \cup S
    <2>1. T \in SUBSET CloseSessions
      BY <1>1
    <2> HIDE DEF T
    <2>2. [c EXCEPT !.close_sessions = T] \in ChangeSets
      BY ZenonT(60), <2>1 DEF ChangeSets
    <2> QED
      BY <2>2 DEF T
  <1> QED
    BY ZenonT(60), <1>2, <1>3, <1>4, <1>5

(* PendingRequestStore::add and remove.                                    *)
LEMMA StoreAddRemove ==
  ASSUME NEW st, st \in [DOMAIN st -> PendingRequests(Audio)],
         NEW S
  PROVE  /\ \A r : \A p \in PendingRequests(Audio) :
              PendingAdd(st, r, p) \in [DOMAIN st \cup {r} -> PendingRequests(Audio)]
         /\ PendingRemove(st, S) \in [DOMAIN st \ S -> PendingRequests(Audio)]
  BY DEF PendingAdd, PendingRemove

(* PendingRequestStore::set_state.                                         *)
LEMMA StoreSetState ==
  ASSUME NEW st, st \in [DOMAIN st -> PendingRequests(Audio)],
         NEW S, NEW s \in PendingStates
  PROVE  SetPendingState(st, S, s) \in [DOMAIN st -> PendingRequests(Audio)]
  <1> SUFFICES ASSUME NEW x \in DOMAIN st
               PROVE  (IF x \in S THEN [st[x] EXCEPT !.state = s] ELSE st[x])
                        \in PendingRequests(Audio)
    BY DEF SetPendingState
  <1>1. st[x] \in PendingRequests(Audio)
    OBVIOUS
  <1> QED
    BY <1>1 DEF PendingRequests

(* PendingRequestStore::append_chunk.                                      *)
LEMMA StoreAppend ==
  ASSUME NEW st, st \in [DOMAIN st -> PendingRequests(Audio)],
         NEW r, NEW a \in Audio, NEW f \in BOOLEAN
  PROVE  AppendChunk(st, r, a, f) \in [DOMAIN st -> PendingRequests(Audio)]
  <1>1. CASE r \in DOMAIN st
    <2>1. st[r] \in PendingRequests(Audio)
      BY <1>1
    <2> DEFINE rec == [st[r] EXCEPT !.accumulated_audio = Append(@, a),
                                    !.final_received = @ \/ f]
    <2>2. rec \in PendingRequests(Audio)
      <3> DEFINE b == st[r].final_received \/ f
      <3>1. b \in BOOLEAN
        OBVIOUS
      <3>2. rec = [st[r] EXCEPT !.accumulated_audio = Append(@, a), !.final_received = b]
        BY <2>1 DEF PendingRequests
      <3>3. Append(st[r].accumulated_audio, a) \in Seq(Audio)
        BY SMT, SMTT(60), <2>1 DEF PendingRequests
      <3> HIDE DEF b, rec
      <3> QED
        BY ZenonT(60), <2>1, <3>1, <3>2, <3>3 DEF PendingRequests
    <2>3. AppendChunk(st, r, a, f) = [st EXCEPT ![r] = rec]
      BY ZenonT(60), <1>1, <2>1 DEF AppendChunk, PendingRequests
    <2> HIDE DEF rec
    <2> QED
      BY ZenonT(60), <2>2, <2>3
  <1>2. CASE r \notin DOMAIN st
    BY <1>2 DEF AppendChunk
  <1> QED
    BY ZenonT(60), <1>1, <1>2

-----------------------------------------------------------------------------
(* A handler consumes one message and leaves the rest of the queues alone. *)
LEMMA HandlingTypes ==
  ASSUME RestOK, NEW type, Handling(type)
  PROVE  /\ Head(batch) \in Messages /\ Head(batch).type = type
         /\ batch' \in Seq(Messages)
         /\ phase' \in Phases
         /\ request_channel' \in Seq(Messages) /\ ws_event_channel' \in Seq(Messages)
         /\ backend' \in [Rids -> Backends] /\ now' \in Nat
  <1>1. batch \in Seq(Messages) /\ batch # <<>>
    BY DEF RestOK, Handling
  <1>2. Head(batch) \in Messages /\ Tail(batch) \in Seq(Messages)
    BY <1>1
  <1> QED
    BY <1>2 DEF RestOK, Handling, channels

(* bind_request and the rest of handle_request, for either kind of session. *)
LEMMA BindToTypes ==
  ASSUME RestOK, NEW r \in Rids, NEW sid \in Nat, NEW p, NEW frames \in Seq(OutWsFrames),
         BindTo(r, sid, p, frames)
  PROVE  /\ pending' \in [DOMAIN pending' -> PendingRequests(Audio)]
         /\ DOMAIN pending' \subseteq Rids
         /\ inflight' \in 0 .. Modulus - 1
         /\ changed_sessions' \subseteq Nat
         /\ cs' \in ChangeSets
         /\ refused' \subseteq Rids
  <1>1. PendingRequest(sid, "AwaitingSession") \in PendingRequests(Audio)
    BY DEF PendingRequest, PendingRequests, PendingStates
  <1>2. pending' \in [DOMAIN pending \cup {r} -> PendingRequests(Audio)]
    BY ZenonT(60), <1>1, StoreAddRemove DEF RestOK, BindTo
  <1>3. inflight' \in 0 .. Modulus - 1
    <2>1. inflight + 1 \in Int
      BY SMT, SMTT(60), HeartbeatAssumption DEF RestOK
    <2> QED
      BY <2>1, ModRange DEF BindTo, IncInflight
  <1>4. cs' \in ChangeSets
    BY ZenonT(60), ChangeSetGrows DEF RestOK, BindTo
  <1> QED
    BY ZenonT(60), <1>2, <1>3, <1>4 DEF RestOK, BindTo

(* handle_local_complete and handle_local_failed.                          *)
LEMMA LocalDoneTypes ==
  ASSUME RestOK, NEW w \in ClientWrites, LocalDone(w)
  PROVE  /\ pending' \in [DOMAIN pending' -> PendingRequests(Audio)]
         /\ DOMAIN pending' \subseteq Rids
         /\ inflight' \in 0 .. Modulus - 1
         /\ cs' \in ChangeSets
  <1>1. pending' \in [DOMAIN pending \ {w.rid} -> PendingRequests(Audio)]
    BY ZenonT(60), StoreAddRemove DEF RestOK, LocalDone
  <1>2. inflight' \in 0 .. Modulus - 1
    <2>1. inflight - 1 \in Int
      BY HeartbeatAssumption DEF RestOK
    <2> QED
      BY <2>1, ModRange DEF LocalDone, DecInflight
  <1>3. cs' \in ChangeSets
    BY ZenonT(60), ChangeSetGrows DEF RestOK, LocalDone
  <1> QED
    BY <1>1, <1>2, <1>3 DEF RestOK

(* handle_request keeps the invariant on each of its paths.                *)
LEMMA RequestKeepsInv ==
  ASSUME RestOK, PoolInv,
         \/ RequestDenied \/ RequestLocal \/ RequestReusesSession
         \/ RequestCreatesSession \/ RequestNoSession
  PROVE  RestOK' /\ PoolInv'
  <1> DEFINE r == Head(batch).rid
  <1>a. Handling("TtsRequest")
    BY DEF RequestDenied, RequestLocal, RequestReusesSession, RequestCreatesSession,
           RequestNoSession
  <1>b. r \in Rids
    BY SMT, SMTT(60), <1>a, HandlingTypes, MessageFields
  <1>c. next_sid \in Nat \ {0} /\ Ids(pool) \subseteq 1 .. next_sid - 1
    BY DEF RestOK, PoolInv
  <1> HIDE DEF r
  <1>1. CASE RequestDenied
    BY ZenonT(60), <1>1, <1>a, <1>b, HandlingTypes DEF RequestDenied, RestOK, PoolInv, r
  <1>2. CASE RequestLocal
    <2>1. pending' \in [DOMAIN pending' -> PendingRequests(Audio)] /\ DOMAIN pending' \subseteq Rids
      <3>1. CASE r \in DOMAIN pending
        <4>1. pending' = SetPendingState(pending, {r}, "Streaming")
          BY ZenonT(60), <1>2, <3>1 DEF RequestLocal, r
        <4>2. pending' \in [DOMAIN pending -> PendingRequests(Audio)]
          BY ZenonT(60), <4>1, StoreSetState DEF RestOK, PendingStates
        <4> QED
          BY ZenonT(60), <4>2 DEF RestOK
      <3>2. CASE r \notin DOMAIN pending
        <4>1. pending' = PendingAdd(pending, r, PendingRequest(NoSession, "Streaming"))
          BY ZenonT(60), <1>2, <3>2 DEF RequestLocal, r
        <4>2. PendingRequest(NoSession, "Streaming") \in PendingRequests(Audio)
          BY DEF PendingRequest, PendingRequests, PendingStates, NoSession
        <4>3. pending' \in [DOMAIN pending \cup {r} -> PendingRequests(Audio)]
          BY ZenonT(60), <4>1, <4>2, StoreAddRemove DEF RestOK
        <4> QED
          BY <1>b, <4>3 DEF RestOK
      <3> QED
        BY <3>1, <3>2
    <2>2. inflight' \in 0 .. Modulus - 1
      <3>1. inflight + 1 \in Int
        BY SMT, SMTT(60), HeartbeatAssumption DEF RestOK
      <3> QED
        BY <1>2, <3>1, ModRange DEF RequestLocal, IncInflight
    <2>3. cs' \in ChangeSets
      BY ZenonT(60), <1>2, <1>b, ChangeSetGrows DEF RequestLocal, RestOK, r
    <2> QED
      BY ZenonT(60), <1>2, <1>a, <2>1, <2>2, <2>3, HandlingTypes DEF RequestLocal, RestOK, PoolInv
  <1>3. CASE RequestReusesSession
    <2> DEFINE sid    == FindIdleLeastRecentlyUsed(pool)
               p      == MarkActive(pool, sid, now)
               frames == <<OutWsFrame(sid, "TaskContinue", r)>>
    <2>1. BindTo(r, sid, p, frames) /\ next_sid' = next_sid /\ sid # NoSession
      BY <1>3 DEF RequestReusesSession, r
    <2>2. sid \in Ids(pool)
      BY ZenonT(60), <2>1, FindIdleFinds DEF PoolInv
    <2>3. sid \in Nat
      BY ZenonT(60), <2>2 DEF PoolInv, PoolValue
    <2>4. frames \in Seq(OutWsFrames)
      BY SMT, SMTT(60), <1>b, <2>3 DEF OutWsFrame, OutWsFrames
    <2> HIDE DEF sid, frames
    <2>5. PoolValue(p, Rids) /\ PoolOK(p) /\ Ids(p) = Ids(pool)
      <3>1. "Streaming" \in SessionStates /\ now \in Nat
        BY DEF SessionStates, RestOK
      <3>2. PoolValue(pool, Rids) /\ PoolOK(pool)
        BY DEF PoolInv
      <3> QED
        BY ZenonT(60), <3>1, <3>2, TouchKeepsPool DEF MarkActive
    <2> HIDE DEF p
    <2>6. pool' = SetCurrentRequest(p, sid, r)
      BY ZenonT(60), <2>1 DEF BindTo
    <2>7. PoolValue(pool', Rids) /\ PoolOK(pool') /\ Ids(pool') = Ids(p)
      BY ZenonT(60), <1>b, <2>5, <2>6, SetRequestKeepsPool
    <2>8. PoolInv'
      BY ZenonT(60), <2>1, <2>5, <2>7 DEF PoolInv
    <2>9. RestOK'
      BY ZenonT(60), <1>a, <1>b, <1>c, <2>1, <2>3, <2>4, HandlingTypes, BindToTypes DEF RestOK
    <2> QED
      BY ZenonT(60), <2>8, <2>9
  <1>4. CASE RequestCreatesSession
    <2> DEFINE sid    == next_sid
               p      == Add(pool, sid, SessionRecord(sid))
               frames == <<OutWsFrame(sid, "TaskStart", r), OutWsFrame(sid, "TaskContinue", r)>>
    <2>1. BindTo(r, sid, p, frames) /\ next_sid' = next_sid + 1 /\ ~PoolFull(pool)
      BY ZenonT(60), <1>4 DEF RequestCreatesSession, r
    <2>2. sid \in Nat /\ sid \notin Ids(pool)
      BY SMT, SMTT(60), <1>c
    <2>3. frames \in Seq(OutWsFrames)
      BY SMT, SMTT(60), <1>b, <2>2 DEF OutWsFrame, OutWsFrames
    <2>4. pool' = SetCurrentRequest(p, sid, r)
      BY ZenonT(60), <2>1 DEF BindTo
    <2>5. PoolValue(pool', Rids) /\ PoolOK(pool') /\ Ids(pool') = Ids(pool) \cup {sid}
      BY ZenonT(60), <1>b, <2>1, <2>2, <2>4, BindNewKeepsPool DEF PoolInv
    <2>6. Ids(pool') \subseteq 1 .. next_sid' - 1
      BY SMT, SMTT(60), <1>c, <2>1, <2>5
    <2> HIDE DEF p, frames, sid
    <2>7. RestOK'
      <3>1. next_sid' \in Nat \ {0}
        BY SMT, SMTT(60), <1>c, <2>1
      <3> QED
        BY ZenonT(60), <1>a, <1>b, <2>1, <2>2, <2>3, <3>1, HandlingTypes, BindToTypes DEF RestOK
    <2> QED
      BY ZenonT(60), <2>5, <2>6, <2>7 DEF PoolInv
  <1>5. CASE RequestNoSession
    <2>1. Ids(pool) \subseteq 1 .. next_sid' - 1 /\ next_sid' \in Nat \ {0}
      BY SMT, SMTT(60), <1>5, <1>c DEF RequestNoSession
    <2> QED
      BY ZenonT(60), <1>5, <1>a, <1>b, <2>1, HandlingTypes DEF RequestNoSession, RestOK, PoolInv, r
  <1> QED
    BY ZenonT(60), <1>1, <1>2, <1>3, <1>4, <1>5

(* The answers of the local engine and a cancellation.                     *)
LEMMA LocalAnswerKeepsInv ==
  ASSUME RestOK, PoolInv, HandleLocalComplete \/ HandleLocalFailed \/ HandleCancel
  PROVE  RestOK' /\ PoolInv'
  <1> DEFINE r == Head(batch).rid
  <1>1. CASE HandleLocalComplete
    <2>1. Handling("LocalComplete") /\ LocalDone(WriteToClient(r, <<r>>, TRUE, "ok"))
      BY ZenonT(60), <1>1 DEF HandleLocalComplete
    <2>2. r \in Rids
      BY SMT, SMTT(60), <2>1, HandlingTypes, MessageFields
    <2> HIDE DEF r
    <2>3. WriteToClient(r, <<r>>, TRUE, "ok") \in ClientWrites
      BY SMT, SMTT(60), <2>2 DEF WriteToClient, ClientWrites, Audio
    <2> QED
      BY ZenonT(60), <2>1, <2>3, HandlingTypes, LocalDoneTypes DEF LocalDone, RestOK, PoolInv
  <1>2. CASE HandleLocalFailed
    <2>1. Handling("LocalFailed") /\ LocalDone(WriteToClient(r, <<>>, TRUE, "failed"))
      BY ZenonT(60), <1>2 DEF HandleLocalFailed
    <2>2. r \in Rids
      BY SMT, SMTT(60), <2>1, HandlingTypes, MessageFields
    <2> HIDE DEF r
    <2>3. WriteToClient(r, <<>>, TRUE, "failed") \in ClientWrites
      BY <2>2 DEF WriteToClient, ClientWrites
    <2> QED
      BY ZenonT(60), <2>1, <2>3, HandlingTypes, LocalDoneTypes DEF LocalDone, RestOK, PoolInv
  <1>3. CASE HandleCancel
    <2>1. Handling("Cancel") /\ pending' = SetPendingState(pending, {r}, "Cancelled")
      BY <1>3 DEF HandleCancel
    <2>2. pending' \in [DOMAIN pending -> PendingRequests(Audio)]
      BY ZenonT(60), <2>1, StoreSetState DEF RestOK, PendingStates
    <2> QED
      BY ZenonT(60), <1>3, <2>1, <2>2, HandlingTypes DEF HandleCancel, RestOK, PoolInv
  <1> QED
    BY ZenonT(60), <1>1, <1>2, <1>3

(* handle_response.                                                        *)
LEMMA ResponseKeepsInv ==
  ASSUME RestOK, PoolInv,
         \/ HandleConnected \/ HandleTaskStarted \/ HandleAudioChunk
         \/ HandleTaskFinished \/ HandleTaskFailed \/ HandleDisconnected
  PROVE  RestOK' /\ PoolInv'
  <1> DEFINE m   == Head(batch)
             sid == m.session
             failed == SetPendingState(pending, CollectBySession(pending, sid), "Failed")
  <1>a. Handling("TtsResponse") /\ UNCHANGED <<cs, next_sid, inflight, refused>>
    BY ZenonT(60) DEF HandleConnected, HandleTaskStarted, HandleAudioChunk, HandleTaskFinished,
           HandleTaskFailed, HandleDisconnected, Response
  <1>b. sid \in Nat /\ m.audio \in Audio /\ m.is_final \in BOOLEAN
    BY ZenonT(60), <1>a, HandlingTypes, MessageFields
  <1>c. failed \in [DOMAIN pending -> PendingRequests(Audio)]
    BY ZenonT(60), StoreSetState DEF RestOK, PendingStates
  <1>d. /\ PoolValue(pool, Rids) /\ PoolOK(pool) /\ now \in Nat
        /\ "Ready" \in SessionStates /\ "Errored" \in SessionStates
    BY ZenonT(60) DEF PoolInv, RestOK, SessionStates
  <1> HIDE DEF m, sid, failed
  <1>1. CASE HandleConnected
    <2>1. pool' = Touch(pool, sid, "Ready", now)
      BY ZenonT(60), <1>1 DEF HandleConnected, MarkReady, sid, m
    <2>2. PoolValue(pool', Rids) /\ PoolOK(pool') /\ Ids(pool') = Ids(pool)
      BY ZenonT(60), <1>d, <2>1, TouchKeepsPool
    <2>3. pending' = pending /\ changed_sessions' = changed_sessions \cup {sid}
      BY ZenonT(60), <1>1 DEF HandleConnected, sid, m
    <2> QED
      BY ZenonT(60), <1>a, <1>b, <2>2, <2>3, HandlingTypes DEF RestOK, PoolInv
  <1>2. CASE HandleTaskStarted
    BY ZenonT(60), <1>2, <1>a, HandlingTypes DEF HandleTaskStarted, RestOK, PoolInv
  <1>3. CASE HandleAudioChunk
    <2>1. /\ pending' = AppendChunk(pending, CurrentRequest(pool, sid), m.audio, m.is_final)
          /\ UNCHANGED <<changed_sessions, pool>>
      BY ZenonT(60), <1>3 DEF HandleAudioChunk, sid, m
    <2>2. pending' \in [DOMAIN pending -> PendingRequests(Audio)]
      BY ZenonT(60), <1>b, <2>1, StoreAppend DEF RestOK
    <2> QED
      BY ZenonT(60), <1>a, <2>1, <2>2, HandlingTypes DEF RestOK, PoolInv
  <1>4. CASE HandleTaskFinished
    <2>1. /\ changed_sessions' = changed_sessions \cup {sid}
          /\ UNCHANGED <<pool, pending>>
      BY <1>4 DEF HandleTaskFinished, sid, m
    <2> QED
      BY ZenonT(60), <1>a, <1>b, <2>1, HandlingTypes DEF RestOK, PoolInv
  <1>5. CASE HandleTaskFailed
    <2>1. /\ pool' = SetSessionState(pool, sid, "Errored")
          /\ pending' = failed /\ changed_sessions' = changed_sessions \cup {sid}
      BY ZenonT(60), <1>5 DEF HandleTaskFailed, MarkErrored, sid, m, failed
    <2>2. PoolValue(pool', Rids) /\ PoolOK(pool') /\ Ids(pool') = Ids(pool)
      BY ZenonT(60), <1>d, <2>1, SetStateKeepsPool
    <2> QED
      BY ZenonT(60), <1>a, <1>b, <1>c, <2>1, <2>2, HandlingTypes DEF RestOK, PoolInv
  <1>6. CASE HandleDisconnected
    <2>1. /\ pool' = MarkClosed(pool, sid)
          /\ pending' = failed /\ changed_sessions' = changed_sessions \cup {sid}
      BY ZenonT(60), <1>6 DEF HandleDisconnected, sid, m, failed
    <2>2. PoolValue(pool', Rids) /\ PoolOK(pool') /\ Ids(pool') \subseteq Ids(pool)
      BY ZenonT(60), <1>d, <2>1, CloseKeepsPool
    <2> QED
      BY ZenonT(60), <1>a, <1>b, <1>c, <2>1, <2>2, HandlingTypes DEF RestOK, PoolInv
  <1> QED
    BY ZenonT(60), <1>1, <1>2, <1>3, <1>4, <1>5, <1>6

(* emit_completed and evolve.                                              *)
LEMMA EmitEvolveKeepsInv ==
  ASSUME RestOK, PoolInv,
         \/ \E r \in Rids : EmitCompleted(r)
         \/ \E id \in Ids(pool) : EvolveCloses(id)
         \/ EvolveRequests
  PROVE  RestOK' /\ PoolInv'
  <1>a. /\ PoolValue(pool, Rids) /\ PoolOK(pool) /\ "Draining" \in SessionStates
        /\ Ids(pool) \subseteq Nat
    BY DEF PoolInv, PoolValue, SessionStates
  <1>1. ASSUME NEW r \in Rids, EmitCompleted(r) PROVE RestOK' /\ PoolInv'
    <2> DEFINE p == pending[r]
               w == WriteToClient(r, p.accumulated_audio, p.final_received, "ok")
    <2>1. /\ r \in DOMAIN pending
          /\ cs' = [cs EXCEPT !.client_writes = Append(@, w)]
          /\ pool' = SetSessionState(pool, p.session_id, "Draining")
          /\ changed_sessions' = changed_sessions \cup {p.session_id}
          /\ pending' = PendingRemove(pending, {r})
          /\ inflight' = (inflight - 1) % Modulus
          /\ UNCHANGED <<phase, channels, batch, next_sid, refused, backend, now>>
      BY <1>1 DEF EmitCompleted, FindReadyToEmit, MarkDraining, DecInflight
    <2>2. p \in PendingRequests(Audio)
      BY ZenonT(60), <2>1 DEF RestOK
    <2>3. w \in ClientWrites /\ p.session_id \in Nat
      BY ZenonT(60), <2>2 DEF PendingRequests, WriteToClient, ClientWrites
    <2> HIDE DEF p, w
    <2>4. cs' \in ChangeSets
      BY ZenonT(60), <2>1, <2>3, ChangeSetGrows DEF RestOK
    <2>5. PoolValue(pool', Rids) /\ PoolOK(pool') /\ Ids(pool') = Ids(pool)
      BY <1>a, <2>1, SetStateKeepsPool
    <2>6. pending' \in [DOMAIN pending \ {r} -> PendingRequests(Audio)]
      BY ZenonT(60), <2>1, StoreAddRemove DEF RestOK
    <2>7. inflight' \in 0 .. Modulus - 1
      <3>1. inflight - 1 \in Int
        BY SMT, SMTT(60), HeartbeatAssumption DEF RestOK
      <3> QED
        BY ZenonT(60), <2>1, <3>1, ModRange
    <2> QED
      BY ZenonT(60), <2>1, <2>3, <2>4, <2>5, <2>6, <2>7 DEF RestOK, PoolInv, channels
  <1>2. ASSUME NEW id \in Ids(pool), EvolveCloses(id) PROVE RestOK' /\ PoolInv'
    <2> DEFINE c == [session |-> id, reason |-> CloseReason(id)]
    <2>1. /\ pool' = MarkClosed(pool, id)
          /\ cs' = [cs EXCEPT !.close_sessions = @ \cup {c}]
          /\ UNCHANGED <<phase, channels, batch, changed_sessions, next_sid, pending,
                         inflight, refused, backend, now>>
      BY ZenonT(60), <1>2 DEF EvolveCloses
    <2>2. {c} \in SUBSET CloseSessions
      <3>1. id \in Nat
        BY ZenonT(60), <1>a
      <3>2. CloseReason(id) \in CloseReasons
        BY ZenonT(60), <1>2 DEF EvolveCloses, CloseReason, CloseReasons
      <3> QED
        BY SMT, SMTT(60), <3>1, <3>2 DEF CloseSessions
    <2> HIDE DEF c
    <2>3. cs' \in ChangeSets
      BY ZenonT(60), <2>1, <2>2, ChangeSetGrows DEF RestOK
    <2>4. PoolValue(pool', Rids) /\ PoolOK(pool') /\ Ids(pool') \subseteq Ids(pool)
      BY ZenonT(60), <1>a, <2>1, CloseKeepsPool
    <2> QED
      BY ZenonT(60), <2>1, <2>3, <2>4 DEF RestOK, PoolInv, channels
  <1>3. CASE EvolveRequests
    <2> DEFINE done == CollectTerminal(pending)
               S == {[session |-> pending[r].session_id,
                      reason  |-> "request_failed_or_cancelled"] : r \in done}
    <2>1. /\ pending' = PendingRemove(pending, done)
          /\ cs' = [cs EXCEPT !.close_sessions = @ \cup S]
          /\ changed_sessions' = {} /\ phase' = "dispatch"
          /\ UNCHANGED <<channels, batch, pool, next_sid, inflight, refused, backend, now>>
      BY ZenonT(60), <1>3 DEF EvolveRequests
    <2>2. S \in SUBSET CloseSessions
      <3>1. \A r \in done : pending[r] \in PendingRequests(Audio)
        BY DEF CollectTerminal, RestOK
      <3>2. \A r \in done : pending[r].session_id \in Nat
        BY ZenonT(60), <3>1 DEF PendingRequests
      <3>3. \A r \in done : [session |-> pending[r].session_id,
                             reason  |-> "request_failed_or_cancelled"] \in CloseSessions
        BY ZenonT(60), <3>2 DEF CloseSessions, CloseReasons
      <3> HIDE DEF done
      <3> QED
        BY ZenonT(60), <3>3
    <2> HIDE DEF S, done
    <2>3. cs' \in ChangeSets
      BY ZenonT(60), <2>1, <2>2, ChangeSetGrows DEF RestOK
    <2>4. pending' \in [DOMAIN pending \ done -> PendingRequests(Audio)]
      BY ZenonT(60), <2>1, StoreAddRemove DEF RestOK
    <2> QED
      BY ZenonT(60), <2>1, <2>3, <2>4 DEF RestOK, PoolInv, channels, Phases
  <1> QED
    BY ZenonT(60), <1>1, <1>2, <1>3

(* main.cpp's loop over the local jobs.                                    *)
LEMMA JobsKeepInv ==
  ASSUME RestOK, PoolInv, RunLocalJob \/ EndIteration
  PROVE  RestOK' /\ PoolInv'
  <1>1. CASE RunLocalJob
    <2>1. cs.local_jobs \in Seq(Rids) /\ cs.local_jobs # <<>>
      BY ZenonT(60), <1>1 DEF RunLocalJob, RestOK, ChangeSets
    <2>2. Head(cs.local_jobs) \in Rids /\ Tail(cs.local_jobs) \in Seq(Rids)
      BY SMT, SMTT(60), <2>1
    <2>3. cs' \in ChangeSets
      BY ZenonT(60), <1>1, <2>2 DEF RunLocalJob, RestOK, ChangeSets
    <2>4. request_channel' \in Seq(Messages)
      <3>1. PICK answer \in {LocalSynthCompleteMsg(Head(cs.local_jobs)),
                             LocalSynthFailedMsg(Head(cs.local_jobs))} :
               request_channel' = Append(request_channel, answer)
        BY ZenonT(60), <1>1 DEF RunLocalJob
      <3>2. answer \in Messages
        BY SMT, SMTT(60), <2>2, <3>1 DEF Messages, LocalSynthCompleteMsg, LocalSynthFailedMsg
      <3> QED
        BY <3>1, <3>2 DEF RestOK
    <2> QED
      BY ZenonT(60), <1>1, <2>3, <2>4 DEF RunLocalJob, RestOK, PoolInv, board
  <1>2. CASE EndIteration
    <2>1. EmptyChangeSet \in ChangeSets
      BY DEF EmptyChangeSet, ChangeSets
    <2> QED
      BY ZenonT(60), <1>2, <2>1 DEF EndIteration, RestOK, PoolInv, board, channels, Phases
  <1> QED
    BY <1>1, <1>2

(* Every step of the heartbeat thread keeps the invariant.                 *)
LEMMA HeartbeatKeepsInv ==
  ASSUME HbInv, Tick \/ RunLocalJob \/ EndIteration
  PROVE  HbInv'
  <1>a. RestOK /\ PoolInv
    BY ZenonT(60), HbInvParts
  <1>1. ASSUME DrainRequests \/ DrainWsEvents \/ BatchHandled \/ AllEmitted
        PROVE  RestOK' /\ PoolInv'
    <2>1. batch \o ws_event_channel \in Seq(Messages) /\ <<>> \in Seq(Messages)
      BY SMT, SMTT(60), <1>a DEF RestOK
    <2> QED
      BY ZenonT(60), <1>a, <1>1, <2>1 DEF DrainRequests, DrainWsEvents, BatchHandled, AllEmitted,
                              RestOK, PoolInv, board, channels, Phases
  <1>2. RestOK' /\ PoolInv'
    BY ZenonT(60), <1>a, <1>1, RequestKeepsInv, LocalAnswerKeepsInv, ResponseKeepsInv,
       EmitEvolveKeepsInv, JobsKeepInv DEF Tick
  <1> QED
    BY ZenonT(60), <1>2, HbInvPartsNext

-----------------------------------------------------------------------------
(* Local and upstream work do not mix.                                     *)

LocalRids == {r \in Rids : ShouldUseLocal(r)}

\* What request_channel carries, and what ws_event_channel carries.
RequestSide ==
  [type : {"TtsRequest", "Cancel"}, rid : Rids]
  \cup [type : {"LocalComplete", "LocalFailed"}, rid : LocalRids]

WsSide ==
  [type : {"TtsResponse"}, session : Nat, kind : WsEventKinds,
   audio : Audio, is_final : BOOLEAN]

QueuesOK ==
  /\ phase \notin {"drain_ws", "handle"} => batch = <<>>
  /\ request_channel \in Seq(RequestSide)
  /\ ws_event_channel \in Seq(WsSide)
  /\ batch \in Seq(RequestSide \cup WsSide)
  /\ cs.local_jobs \in Seq(LocalRids)

\* Sessions work for upstream requests, and only these receive audio.
UpstreamOK ==
  /\ PoolValue(pool, Rids \ LocalRids)
  /\ \A r \in DOMAIN pending : pending[r].final_received => r \notin LocalRids

WorkOK == QueuesOK /\ UpstreamOK

(* The engine a request goes to is decided once.                           *)
LEMMA LocalRidsFixed ==
  ASSUME UNCHANGED backend
  PROVE  LocalRids' = LocalRids /\ RequestSide' = RequestSide
  BY DEF LocalRids, ShouldUseLocal, RequestSide

(* set_state changes neither the session nor the final_received of a       *)
(* record.                                                                 *)
LEMMA SetStateFields ==
  ASSUME NEW st, st \in [DOMAIN st -> PendingRequests(Audio)], NEW S, NEW s
  PROVE  /\ DOMAIN SetPendingState(st, S, s) = DOMAIN st
         /\ \A x \in DOMAIN st :
              /\ SetPendingState(st, S, s)[x].session_id = st[x].session_id
              /\ SetPendingState(st, S, s)[x].final_received = st[x].final_received
  <1>1. \A x \in DOMAIN st :
          DOMAIN st[x] = {"session_id", "state", "accumulated_audio", "final_received"}
    BY DEF PendingRequests
  <1>2. ASSUME NEW x \in DOMAIN st
        PROVE  /\ SetPendingState(st, S, s)[x].session_id = st[x].session_id
               /\ SetPendingState(st, S, s)[x].final_received = st[x].final_received
    <2>1. SetPendingState(st, S, s)[x] \in {st[x], [st[x] EXCEPT !.state = s]}
      BY DEF SetPendingState
    <2> QED
      BY ZenonT(60), <1>1, <2>1
  <1>3. DOMAIN SetPendingState(st, S, s) = DOMAIN st
    BY DEF SetPendingState
  <1> QED
    BY <1>2, <1>3

(* append_chunk writes one record, and not its session.                    *)
LEMMA AppendFields ==
  ASSUME NEW st, st \in [DOMAIN st -> PendingRequests(Audio)], NEW r, NEW a, NEW f
  PROVE  /\ DOMAIN AppendChunk(st, r, a, f) = DOMAIN st
         /\ \A x \in DOMAIN st :
              /\ AppendChunk(st, r, a, f)[x].session_id = st[x].session_id
              /\ x # r => AppendChunk(st, r, a, f)[x] = st[x]
  <1>a. \A x \in DOMAIN st :
          DOMAIN st[x] = {"session_id", "state", "accumulated_audio", "final_received"}
    BY DEF PendingRequests
  <1>1. CASE r \in DOMAIN st
    <2> DEFINE rec == [st[r] EXCEPT !.accumulated_audio = Append(@, a), !.final_received = @ \/ f]
    <2>1. AppendChunk(st, r, a, f) = [st EXCEPT ![r] = rec]
      BY ZenonT(60), <1>1, <1>a DEF AppendChunk
    <2>2. rec.session_id = st[r].session_id
      BY ZenonT(60), <1>1, <1>a
    <2> HIDE DEF rec
    <2> QED
      BY ZenonT(60), <1>1, <2>1, <2>2
  <1>2. CASE r \notin DOMAIN st
    BY ZenonT(60), <1>2 DEF AppendChunk
  <1> QED
    BY <1>1, <1>2

(* The messages a handler meets, and what it leaves in the batch.          *)
LEMMA HandlingQueues ==
  ASSUME RestOK, QueuesOK, NEW type, Handling(type)
  PROVE  /\ Head(batch) \in RequestSide \cup WsSide /\ Head(batch).type = type
         /\ LocalRids' = LocalRids
         /\ phase' = "handle"
         /\ request_channel' \in Seq(RequestSide)' /\ ws_event_channel' \in Seq(WsSide)
         /\ batch' \in Seq(RequestSide \cup WsSide)'
  <1>1. batch \in Seq(RequestSide \cup WsSide) /\ batch # <<>>
    BY DEF QueuesOK, Handling
  <1>2. Head(batch) \in RequestSide \cup WsSide /\ Tail(batch) \in Seq(RequestSide \cup WsSide)
    BY <1>1
  <1>3. LocalRids' = LocalRids /\ RequestSide' = RequestSide
    BY LocalRidsFixed DEF Handling
  <1> QED
    BY ZenonT(60), <1>2, <1>3 DEF QueuesOK, Handling, channels, WsSide

-----------------------------------------------------------------------------
(* What a step of the tick does to the work in hand, by kind.              *)

Jobs == cs.local_jobs
Writes == cs.client_writes

\* handle_request takes a request on for a session.
Binds == RequestReusesSession \/ RequestCreatesSession

\* A message that leaves the work as it is.
Discards ==
  /\ \E type \in {"TtsRequest", "Cancel", "TtsResponse"} : Handling(type)
  /\ UNCHANGED <<Jobs, Writes, inflight>>
  /\ DOMAIN pending' = DOMAIN pending

\* A request is taken on, by the local engine or for a session.
Takes(r) ==
  /\ Handling("TtsRequest") /\ Admit /\ IncInflight
  /\ r = Head(batch).rid
  /\ Jobs' = IF r \in LocalRids THEN Append(Jobs, r) ELSE Jobs
  /\ UNCHANGED Writes
  /\ DOMAIN pending' = DOMAIN pending \cup {r}

\* The local engine has answered.
Answers(w) ==
  /\ \E type \in {"LocalComplete", "LocalFailed"} : Handling(type)
  /\ DecInflight
  /\ w \in ClientWrites /\ w.rid = Head(batch).rid
  /\ UNCHANGED Jobs
  /\ Writes' = Append(Writes, w)
  /\ DOMAIN pending' = DOMAIN pending \ {w.rid}

\* A request whose final chunk has come is written to its client.
Emits(w) ==
  /\ phase = "emit"
  /\ DecInflight
  /\ w \in ClientWrites /\ w.rid \in DOMAIN pending /\ pending[w.rid].final_received
  /\ UNCHANGED <<phase, channels, batch, backend, Jobs>>
  /\ Writes' = Append(Writes, w)
  /\ DOMAIN pending' = DOMAIN pending \ {w.rid}

\* The end of a loop, or a session that closes.
Pauses ==
  /\ phase \in {"handle", "emit", "evolve"} /\ phase' \in {"emit", "evolve"}
  /\ phase = "handle" => batch = <<>>
  /\ UNCHANGED <<channels, batch, pending, inflight, backend, Jobs, Writes>>

\* Terminal requests leave the store.
Drops ==
  /\ phase = "evolve" /\ phase' = "dispatch"
  /\ UNCHANGED <<channels, batch, inflight, backend, Jobs, Writes>>
  /\ DOMAIN pending' = DOMAIN pending \ CollectTerminal(pending)

(* Every step of the tick is of one of these kinds.                        *)
LEMMA TickFlow ==
  ASSUME RestOK, Tick
  PROVE  \/ DrainRequests \/ DrainWsEvents \/ Discards
         \/ (\E r \in Rids : Takes(r)) \/ (\E w : Answers(w)) \/ (\E w : Emits(w))
         \/ Pauses \/ Drops
  <1>a. cs \in ChangeSets /\ pending \in [DOMAIN pending -> PendingRequests(Audio)]
    BY DEF RestOK
  <1>b. ASSUME NEW type, type # "TtsResponse", Handling(type) PROVE Head(batch).rid \in Rids
    BY SMT, SMTT(60), <1>b, HandlingTypes, MessageFields
  <1>c. /\ \A x : [cs EXCEPT !.ws_frames = x].local_jobs = Jobs
        /\ \A x : [cs EXCEPT !.ws_frames = x].client_writes = Writes
        /\ \A x : [cs EXCEPT !.local_jobs = x].local_jobs = x
        /\ \A x : [cs EXCEPT !.local_jobs = x].client_writes = Writes
        /\ \A x : [cs EXCEPT !.client_writes = x].local_jobs = Jobs
        /\ \A x : [cs EXCEPT !.client_writes = x].client_writes = x
        /\ \A x : [cs EXCEPT !.close_sessions = x].local_jobs = Jobs
        /\ \A x : [cs EXCEPT !.close_sessions = x].client_writes = Writes
    BY ZenonT(60), <1>a DEF ChangeSets, Jobs, Writes
  <1>d. /\ \A S, x : DOMAIN SetPendingState(pending, S, x) = DOMAIN pending
        /\ \A r, x : DOMAIN PendingAdd(pending, r, x) = DOMAIN pending \cup {r}
        /\ \A S : DOMAIN PendingRemove(pending, S) = DOMAIN pending \ S
    BY DEF SetPendingState, PendingAdd, PendingRemove
  <1>e. \A r, x, f : DOMAIN AppendChunk(pending, r, x, f) = DOMAIN pending
    BY ZenonT(60) DEF AppendChunk
  <1>1. CASE DrainRequests \/ DrainWsEvents
    BY ZenonT(60), <1>1
  <1>2. CASE RequestDenied \/ RequestNoSession
    BY <1>2 DEF RequestDenied, RequestNoSession, Discards, Jobs, Writes
  <1>3. CASE RequestLocal
    <2> DEFINE r == Head(batch).rid
    <2>1. Handling("TtsRequest") /\ Admit /\ IncInflight /\ ShouldUseLocal(r)
      BY <1>3 DEF RequestLocal
    <2>2. r \in Rids /\ r \in LocalRids
      BY <1>b, <2>1 DEF LocalRids
    <2>3. Jobs' = Append(Jobs, r) /\ Writes' = Writes
      <3>1. cs' = [cs EXCEPT !.local_jobs = Append(Jobs, r)]
        BY ZenonT(60), <1>3 DEF RequestLocal, Jobs
      <3> HIDE DEF r
      <3> QED
        BY ZenonT(60), <1>c, <3>1 DEF Jobs, Writes
    <2>4. DOMAIN pending' = DOMAIN pending \cup {r}
      <3>1. \/ r \in DOMAIN pending /\ pending' = SetPendingState(pending, {r}, "Streaming")
            \/ pending' = PendingAdd(pending, r, PendingRequest(NoSession, "Streaming"))
        BY ZenonT(60), <1>3 DEF RequestLocal
      <3> HIDE DEF r
      <3>2. CASE r \in DOMAIN pending /\ pending' = SetPendingState(pending, {r}, "Streaming")
        <4>1. DOMAIN pending' = DOMAIN pending
          BY ZenonT(60), <1>d, <3>2
        <4> QED
          BY <4>1, <3>2
      <3>3. CASE pending' = PendingAdd(pending, r, PendingRequest(NoSession, "Streaming"))
        BY ZenonT(60), <1>d, <3>3
      <3> QED
        BY ZenonT(60), <3>1, <3>2, <3>3
    <2> QED
      BY ZenonT(60), <2>1, <2>2, <2>3, <2>4 DEF Takes
  <1>4. ASSUME NEW sid, NEW p, NEW frames, Handling("TtsRequest"), Admit,
               ~ShouldUseLocal(Head(batch).rid), BindTo(Head(batch).rid, sid, p, frames)
        PROVE  \E r \in Rids : Takes(r)
    <2> DEFINE r == Head(batch).rid
    <2>1. r \in Rids /\ r \notin LocalRids
      BY ZenonT(60), <1>b, <1>4 DEF LocalRids
    <2>2. Jobs' = Jobs /\ Writes' = Writes
      BY ZenonT(60), <1>4, <1>c DEF BindTo, Jobs, Writes
    <2>3. DOMAIN pending' = DOMAIN pending \cup {r} /\ IncInflight
      BY ZenonT(60), <1>4, <1>d DEF BindTo
    <2> QED
      BY ZenonT(60), <1>4, <2>1, <2>2, <2>3 DEF Takes
  <1>5. CASE RequestReusesSession \/ RequestCreatesSession
    BY ZenonT(60), <1>4, <1>5 DEF RequestReusesSession, RequestCreatesSession
  <1>6. ASSUME NEW w, NEW type \in {"LocalComplete", "LocalFailed"}, Handling(type),
               LocalDone(w), w \in ClientWrites, w.rid = Head(batch).rid
        PROVE  Answers(w)
    <2>1. Jobs' = Jobs /\ Writes' = Append(Writes, w)
      BY ZenonT(60), <1>6, <1>c DEF LocalDone, Jobs, Writes
    <2>2. DOMAIN pending' = DOMAIN pending \ {w.rid} /\ DecInflight
      BY ZenonT(60), <1>6, <1>d DEF LocalDone
    <2> QED
      BY ZenonT(60), <1>6, <2>1, <2>2 DEF Answers
  <1>7. CASE HandleLocalComplete
    <2> DEFINE r == Head(batch).rid
               w == WriteToClient(r, <<r>>, TRUE, "ok")
    <2>1. Handling("LocalComplete") /\ LocalDone(w)
      BY ZenonT(60), <1>7 DEF HandleLocalComplete
    <2>2. r \in Rids
      BY ZenonT(60), <1>b, <2>1
    <2> HIDE DEF r
    <2>3. w \in ClientWrites /\ w.rid = r
      BY SMT, SMTT(60), <2>2 DEF WriteToClient, ClientWrites, Audio
    <2> HIDE DEF w
    <2> QED
      BY ZenonT(60), <1>6, <2>1, <2>3 DEF r
  <1>8. CASE HandleLocalFailed
    <2> DEFINE r == Head(batch).rid
               w == WriteToClient(r, <<>>, TRUE, "failed")
    <2>1. Handling("LocalFailed") /\ LocalDone(w)
      BY ZenonT(60), <1>8 DEF HandleLocalFailed
    <2>2. r \in Rids
      BY ZenonT(60), <1>b, <2>1
    <2> HIDE DEF r
    <2>3. w \in ClientWrites /\ w.rid = r
      BY SMT, SMTT(60), <2>2 DEF WriteToClient, ClientWrites
    <2> HIDE DEF w
    <2> QED
      BY ZenonT(60), <1>6, <2>1, <2>3 DEF r
  <1>9. CASE HandleCancel
    BY ZenonT(60), <1>9, <1>d DEF HandleCancel, Discards, Jobs, Writes
  <1>10. CASE \/ HandleConnected \/ HandleTaskStarted \/ HandleAudioChunk
              \/ HandleTaskFinished \/ HandleTaskFailed \/ HandleDisconnected
    <2>1. Handling("TtsResponse") /\ UNCHANGED <<cs, inflight>>
      BY ZenonT(60), <1>10 DEF HandleConnected, HandleTaskStarted, HandleAudioChunk, HandleTaskFinished,
                   HandleTaskFailed, HandleDisconnected, Response
    <2>2. CASE HandleConnected \/ HandleTaskStarted \/ HandleTaskFinished
      BY ZenonT(60), <2>1, <2>2 DEF HandleConnected, HandleTaskStarted, HandleTaskFinished,
                        Discards, Jobs, Writes
    <2>3. CASE HandleAudioChunk
      <3>1. DOMAIN pending' = DOMAIN pending
        BY ZenonT(60), <1>e, <2>3 DEF HandleAudioChunk
      <3> QED
        BY ZenonT(60), <2>1, <3>1 DEF Discards, Jobs, Writes
    <2>4. CASE HandleTaskFailed \/ HandleDisconnected
      <3>a. PICK S : pending' = SetPendingState(pending, S, "Failed")
        BY ZenonT(60), <2>4 DEF HandleTaskFailed, HandleDisconnected
      <3>b. DOMAIN SetPendingState(pending, S, "Failed") = DOMAIN pending
        BY ZenonT(60), <1>d
      <3>1. DOMAIN pending' = DOMAIN pending
        BY <3>a, <3>b
      <3> QED
        BY <2>1, <3>1 DEF Discards, Jobs, Writes
    <2> QED
      BY ZenonT(60), <1>10, <2>2, <2>3, <2>4
  <1>11. ASSUME NEW r \in Rids, EmitCompleted(r) PROVE \E w : Emits(w)
    <2> DEFINE p == pending[r]
               w == WriteToClient(r, p.accumulated_audio, p.final_received, "ok")
    <2>1. /\ phase = "emit" /\ r \in DOMAIN pending /\ p.final_received /\ DecInflight
          /\ cs' = [cs EXCEPT !.client_writes = Append(Writes, w)]
          /\ pending' = PendingRemove(pending, {r})
          /\ UNCHANGED <<phase, channels, batch, backend>>
      BY <1>11 DEF EmitCompleted, FindReadyToEmit, Writes
    <2>2. p \in PendingRequests(Audio)
      BY ZenonT(60), <1>a, <2>1
    <2>3. w \in ClientWrites /\ w.rid = r
      BY ZenonT(60), <2>2 DEF PendingRequests, WriteToClient, ClientWrites
    <2> HIDE DEF w
    <2>4. Jobs' = Jobs /\ Writes' = Append(Writes, w) /\ DOMAIN pending' = DOMAIN pending \ {r}
      BY ZenonT(60), <2>1, <1>c, <1>d DEF Jobs, Writes
    <2> QED
      BY ZenonT(60), <2>1, <2>3, <2>4 DEF Emits
  <1>12. CASE BatchHandled \/ AllEmitted
    BY ZenonT(60), <1>12 DEF BatchHandled, AllEmitted, Pauses, Jobs, Writes, board
  <1>13. ASSUME NEW id, EvolveCloses(id) PROVE Pauses
    <2>1. Jobs' = Jobs /\ Writes' = Writes
      BY ZenonT(60), <1>13, <1>c DEF EvolveCloses, Jobs, Writes
    <2> QED
      BY ZenonT(60), <1>13, <2>1 DEF EvolveCloses, Pauses
  <1>14. CASE EvolveRequests
    <2>1. Jobs' = Jobs /\ Writes' = Writes
      BY ZenonT(60), <1>14, <1>c DEF EvolveRequests, Jobs, Writes
    <2> QED
      BY ZenonT(60), <1>14, <1>d, <2>1 DEF EvolveRequests, Drops
  <1> QED
    BY ZenonT(60), <1>1, <1>2, <1>3, <1>5, <1>7, <1>8, <1>9, <1>10, <1>11, <1>12, <1>13, <1>14
       DEF Tick

(* The decision for the local engine holds through a step of the tick.     *)
LEMMA FlowFixed ==
  ASSUME RestOK, Tick \/ RunLocalJob \/ EndIteration
  PROVE  LocalRids' = LocalRids /\ RequestSide' = RequestSide
  <1>1. CASE Tick
    BY ZenonT(60), <1>1, TickFlow, LocalRidsFixed
       DEF DrainRequests, DrainWsEvents, Discards, Takes, Answers, Emits, Pauses, Drops, Handling
  <1>2. CASE RunLocalJob \/ EndIteration
    BY <1>2, LocalRidsFixed DEF RunLocalJob, EndIteration
  <1> QED
    BY <1>1, <1>2

=============================================================================
