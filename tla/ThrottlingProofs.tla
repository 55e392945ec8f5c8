-------------------------- MODULE ThrottlingProofs --------------------------
(***************************************************************************)
(* Theorems about Throttling, for every number of processes and threads,   *)
(* every rate and every window.                                            *)
(***************************************************************************)
EXTENDS Throttling, SumProofs

-----------------------------------------------------------------------------
(* The inductive invariant.                                                *)

\* A history is kept newest entry first; popping from its end removes all that expired.
Sorted(ages) == \A i, j \in DOMAIN ages : i <= j => ages[i] <= ages[j]

\* A request is about to ask a throttle that it has, and carries a history of that one.
RequestOK(r) ==
  /\ r \in Requests /\ Sorted(r.read)
  /\ Len(r.read) <= Rate[Head(r.todo)]
  /\ known => Head(r.todo) = "user"

HistoryOK(ages, s) == ages \in Seq(Ages) /\ Sorted(ages) /\ Len(ages) <= Rate[s]

\* TypeOK, and every history is in order.
Shapes ==
  /\ process \in Deployments /\ known \in BOOLEAN
  /\ cache \in [Processes -> [Scopes -> Seq(Ages)]]
  /\ \A p \in Processes, s \in Scopes : HistoryOK(cache[p][s], s)
  /\ req \in [Threads -> {Idle} \cup Requests]
  /\ \A t \in Threads : req[t] = Idle \/ RequestOK(req[t])
  /\ allowed \in Seq(Ages) /\ Sorted(allowed) /\ blind \in 0 .. Window

\* The threads of a process that are about to write the history that counts.
Storing(t) == req[t].at = "store" /\ Scope(t) = Limit
Storers(p) == {t \in Threads : process[t] = p /\ Storing(t)}

\* The history a process will have when they are done: that of one of them.
Effective(p) ==
  IF Storers(p) = {} THEN cache[p][Limit] ELSE req[CHOOSE t \in Storers(p) : TRUE].read

UpTo(ages, a) == Cardinality({i \in DOMAIN ages : ages[i] <= a})

\* The ages of what was allowed after the last loss.
Clear(a) == a \in Ages /\ a + blind < Window

\* What was allowed since the last loss is in the histories of the processes.
Remembered(a) ==
  UpTo(allowed, a) <= SumFunctionOnSet([p \in Processes |-> UpTo(Effective(p), a)], Range(process))

\* Threads that overwrite each other's history both hold old ones.
OverwritesAreOld ==
  \A p \in Processes : \A t, u \in Storers(p) :
    t # u => \A a \in Ages : Clear(a) => UpTo(req[t].read, a) = 0

IInv ==
  /\ Shapes
  /\ OverwritesAreOld
  /\ \A a \in Ages : Clear(a) => Remembered(a)

-----------------------------------------------------------------------------
(* Lemmas about histories.                                                 *)

\* A set of numbers with a bound has a greatest one: the one after which fewest numbers
\* up to the bound come.
LEMMA GreatestExists ==
  ASSUME NEW n \in Nat, NEW N \in SUBSET (0 .. n), N # {}
  PROVE  \E m \in N : \A k \in N : k <= m
<1> DEFINE Rests == {m .. n : m \in N}
<1>1. IsWellFoundedOn(StrictSubsetOrdering(0 .. n), SUBSET (0 .. n))
  <2>1. IsFiniteSet(0 .. n)
    BY FS_Interval
  <2> QED
    BY <2>1, FS_StrictSubsetOrderingWellFounded, FS_FiniteSubsetsOfFinite
<1>2. Rests # {} /\ Rests \subseteq SUBSET (0 .. n)
  <2>1. \A m \in N : m .. n \subseteq 0 .. n
    OBVIOUS
  <2> QED
    BY <2>1, Zenon
<1>3. PICK T \in Rests : \A U \in Rests : <<U, T>> \notin StrictSubsetOrdering(0 .. n)
  BY <1>1, <1>2, WFMin
<1>4. PICK m \in N : T = m .. n
  OBVIOUS
<1>5. ASSUME NEW k \in N, ~(k <= m) PROVE FALSE
  <2>1. k .. n \in Rests /\ k .. n \subseteq m .. n /\ m \in m .. n /\ m \notin k .. n
    BY <1>5
  <2>2. <<k .. n, T>> \in StrictSubsetOrdering(0 .. n)
    BY <1>2, <1>4, <2>1 DEF StrictSubsetOrdering
  <2> QED
    BY <1>3, <2>1, <2>2
<1> QED
  BY <1>5

\* Ages are natural numbers, the age of a new entry is one of them.
LEMMA AgesAreNumbers == Ages \subseteq Nat /\ 0 \in Ages /\ Window - 1 \in Ages
  BY RateAssumption DEF Ages

\* What a history is.
LEMMA HistoryShape ==
  ASSUME NEW S, NEW s \in Seq(S)
  PROVE  DOMAIN s = 1 .. Len(s) /\ Len(s) \in Nat /\ \A i \in 1 .. Len(s) : s[i] \in S
  OBVIOUS

\* A sequence whose elements are in a set is one over that set.
LEMMA SeqOfElements ==
  ASSUME NEW T, NEW s \in Seq(T), NEW S, \A i \in 1 .. Len(s) : s[i] \in S
  PROVE  s \in Seq(S)
  OBVIOUS

\* Popping expired entries ends at an entry that has not expired, or at none.
LEMMA RecentLengthChosen ==
  ASSUME NEW s \in Seq(Nat)
  PROVE  /\ RecentLength(s) \in 0 .. Len(s)
         /\ RecentLength(s) = 0 \/ s[RecentLength(s)] < Window
         /\ \A i \in RecentLength(s) + 1 .. Len(s) : s[i] >= Window
<1> DEFINE N == {n \in 0 .. Len(s) : n = 0 \/ s[n] < Window}
<1>1. Len(s) \in Nat /\ 0 \in N /\ N \in SUBSET (0 .. Len(s))
  OBVIOUS
<1>2. PICK m \in N : \A k \in N : k <= m
  BY <1>1, GreatestExists
<1>3. \A i \in m + 1 .. Len(s) : s[i] >= Window
  <2> SUFFICES ASSUME NEW i \in m + 1 .. Len(s), ~(s[i] >= Window) PROVE FALSE
    OBVIOUS
  <2>1. i \in 1 .. Len(s) /\ s[i] \in Nat /\ i > m
    BY <1>1, <1>2
  <2>2. s[i] < Window
    BY <2>1, RateAssumption
  <2> QED
    BY <1>2, <2>1, <2>2
<1>4. \E n \in 0 .. Len(s) : /\ n = 0 \/ s[n] < Window
                             /\ \A i \in n + 1 .. Len(s) : s[i] >= Window
  BY <1>2, <1>3
<1> QED
  BY <1>4 DEF RecentLength

\* A history has as many indices as entries.
LEMMA IndicesCount ==
  ASSUME NEW S, NEW s \in Seq(S)
  PROVE  IsFiniteSet(1 .. Len(s)) /\ Cardinality(1 .. Len(s)) = Len(s)
<1>1. Len(s) \in Nat
  OBVIOUS
<1> QED
  BY <1>1, FS_Interval

\* Counting entries gives a number, at most all of them.
LEMMA UpToType ==
  ASSUME NEW s \in Seq(Nat), NEW a \in Nat
  PROVE  UpTo(s, a) \in 0 .. Len(s)
<1>1. {i \in DOMAIN s : s[i] <= a} \in SUBSET (1 .. Len(s))
  OBVIOUS
<1>2. IsFiniteSet(1 .. Len(s)) /\ Cardinality(1 .. Len(s)) = Len(s)
  BY IndicesCount
<1>3. IsFiniteSet({i \in DOMAIN s : s[i] <= a}) /\ UpTo(s, a) <= Len(s)
  BY <1>1, <1>2, FS_Subset DEF UpTo
<1>4. UpTo(s, a) \in Nat
  BY <1>3, FS_CardinalityType DEF UpTo
<1>5. Len(s) \in Nat
  OBVIOUS
<1> QED
  BY <1>3, <1>4, <1>5

\* No entry of a history is older than the window.
LEMMA UpToAll ==
  ASSUME NEW s \in Seq(Ages)
  PROVE  UpTo(s, Window - 1) = Len(s)
<1>1. {i \in DOMAIN s : s[i] <= Window - 1} = 1 .. Len(s)
  BY RateAssumption DEF Ages
<1> QED
  BY <1>1, IndicesCount DEF UpTo

\* Nothing is counted in a history without entries.
LEMMA UpToEmpty == \A a : UpTo(<<>>, a) = 0
<1>1. \A a : {i \in DOMAIN <<>> : <<>>[i] <= a} = {}
  OBVIOUS
<1> QED
  BY <1>1, FS_EmptySet DEF UpTo

\* The front part of a history is one, and has no more entries of an age.
LEMMA PrefixProperties ==
  ASSUME NEW S \in SUBSET Nat, NEW s \in Seq(S), NEW n \in 0 .. Len(s)
  PROVE  /\ SubSeq(s, 1, n) \in Seq(S) /\ Len(SubSeq(s, 1, n)) = n
         /\ \A i \in 1 .. n : SubSeq(s, 1, n)[i] = s[i]
         /\ Sorted(s) => Sorted(SubSeq(s, 1, n))
         /\ \A a \in Nat : UpTo(SubSeq(s, 1, n), a) <= UpTo(s, a)
<1> DEFINE r == SubSeq(s, 1, n)
<1>1. Len(s) \in Nat /\ \A i \in 1 .. n : s[i] \in S
  OBVIOUS
<1>2. r \in Seq(S) /\ Len(r) = n /\ \A i \in 1 .. n : r[i] = s[i]
  OBVIOUS
<1> HIDE DEF r
<1>3. DOMAIN r = 1 .. n /\ DOMAIN s = 1 .. Len(s) /\ 1 .. n \subseteq 1 .. Len(s)
  BY <1>2
<1>4. Sorted(s) => Sorted(r)
  BY <1>2, <1>3 DEF Sorted
<1>5. ASSUME NEW a \in Nat PROVE UpTo(r, a) <= UpTo(s, a)
  <2>1. {i \in DOMAIN r : r[i] <= a} \in SUBSET {i \in DOMAIN s : s[i] <= a}
    BY <1>2, <1>3
  <2>2. IsFiniteSet({i \in DOMAIN s : s[i] <= a})
    <3>1. {i \in DOMAIN s : s[i] <= a} \in SUBSET (1 .. Len(s))
      BY <1>3
    <3> QED
      BY <3>1, IndicesCount, FS_Subset
  <2> QED
    BY <2>1, <2>2, FS_Subset DEF UpTo
<1> QED
  BY <1>2, <1>4, <1>5 DEF r

\* A tick later the entries are one older and the expired ones are gone.
LEMMA OlderProperties ==
  ASSUME NEW s \in Seq(Ages), Sorted(s)
  PROVE  /\ Older(s) \in Seq(Ages) /\ Sorted(Older(s)) /\ Len(Older(s)) <= Len(s)
         /\ \A a \in Ages : UpTo(Older(s), a) = IF a = 0 THEN 0 ELSE UpTo(s, a - 1)
<1> DEFINE aged == [i \in DOMAIN s |-> s[i] + 1]
           n == RecentLength(aged)
           r == SubSeq(aged, 1, n)
<1>1. DOMAIN s = 1 .. Len(s) /\ Len(s) \in Nat /\ \A i \in 1 .. Len(s) : s[i] \in Ages /\ s[i] \in Nat
  BY AgesAreNumbers, HistoryShape
<1>2. aged \in Seq(Nat) /\ Len(aged) = Len(s) /\ \A i \in 1 .. Len(s) : aged[i] = s[i] + 1
  BY <1>1
<1>3. Older(s) = r
  BY DEF Older, Recent
<1> HIDE DEF aged
<1>4. DOMAIN aged = 1 .. Len(s)
  BY <1>2
<1>5. Sorted(aged)
  BY <1>1, <1>2, <1>4 DEF Sorted
<1>6. /\ n \in 0 .. Len(s) /\ (n = 0 \/ aged[n] < Window)
      /\ \A i \in n + 1 .. Len(s) : aged[i] >= Window
  BY <1>2, RecentLengthChosen
<1> HIDE DEF n
<1>7. r \in Seq(Nat) /\ Len(r) = n /\ Sorted(r) /\ \A i \in 1 .. n : r[i] = aged[i]
  BY <1>2, <1>5, <1>6, PrefixProperties
<1> HIDE DEF r
<1>8. \A i \in 1 .. n : r[i] \in Ages
  <2> TAKE i \in 1 .. n
  <2>1. n \in 1 .. Len(s) /\ i \in 1 .. Len(s) /\ i <= n /\ aged[n] < Window
    BY <1>1, <1>6
  <2>2. aged[i] <= aged[n] /\ aged[i] \in Nat /\ aged[n] \in Nat
    BY <1>2, <1>4, <1>5, <2>1 DEF Sorted
  <2> QED
    BY <1>7, <2>1, <2>2, RateAssumption DEF Ages
<1>9. r \in Seq(Ages)
  BY <1>7, <1>8, SeqOfElements
<1>10. ASSUME NEW a \in Ages PROVE UpTo(r, a) = IF a = 0 THEN 0 ELSE UpTo(s, a - 1)
  <2>1. DOMAIN r = 1 .. n /\ 1 .. n \subseteq 1 .. Len(s) /\ a \in Nat /\ a < Window
    BY <1>1, <1>6, <1>7, RateAssumption DEF Ages
  <2>2. \A i \in 1 .. n : r[i] = s[i] + 1
    BY <1>2, <1>7, <2>1
  <2>3. \A i \in 1 .. Len(s) : i \in 1 .. n \/ s[i] + 1 >= Window
    BY <1>1, <1>2, <1>6
  <2>4. CASE a = 0
    <3>1. {i \in DOMAIN r : r[i] <= a} = {}
      BY <1>1, <2>1, <2>2, <2>4
    <3> QED
      BY <2>4, <3>1, FS_EmptySet DEF UpTo
  <2>5. CASE a # 0
    <3>1. \A i \in 1 .. n : r[i] <= a <=> s[i] <= a - 1
      BY <1>1, <2>1, <2>2
    <3>2. \A i \in 1 .. Len(s) : s[i] <= a - 1 => i \in 1 .. n
      BY <1>1, <2>1, <2>3, RateAssumption
    <3>3. {i \in DOMAIN r : r[i] <= a} = {i \in DOMAIN s : s[i] <= a - 1}
      BY <1>1, <2>1, <3>1, <3>2
    <3> QED
      BY <2>5, <3>3 DEF UpTo
  <2> QED
    BY <2>4, <2>5
<1> QED
  BY <1>1, <1>3, <1>6, <1>7, <1>9, <1>10

\* The history with a new entry in front.
LEMMA PrependProperties ==
  ASSUME NEW s \in Seq(Ages), Sorted(s)
  PROVE  /\ << 0 >> \o s \in Seq(Ages) /\ Len(<< 0 >> \o s) = Len(s) + 1 /\ Sorted(<< 0 >> \o s)
         /\ \A a \in Nat : UpTo(<< 0 >> \o s, a) = UpTo(s, a) + 1
<1> DEFINE r == << 0 >> \o s
<1>1. 0 \in Ages
  BY RateAssumption DEF Ages
<1>2. DOMAIN s = 1 .. Len(s) /\ Len(s) \in Nat /\ \A i \in 1 .. Len(s) : s[i] \in Nat
  BY AgesAreNumbers, HistoryShape
<1>3. /\ r \in Seq(Ages) /\ Len(r) = Len(s) + 1 /\ r[1] = 0
      /\ \A i \in 2 .. Len(s) + 1 : r[i] = s[i - 1]
  BY <1>1
<1> HIDE DEF r
<1>4. DOMAIN r = 1 .. Len(s) + 1
  BY <1>3
<1>5. Sorted(r)
  <2> SUFFICES ASSUME NEW i \in 1 .. Len(s) + 1, NEW j \in 1 .. Len(s) + 1, i <= j PROVE r[i] <= r[j]
    BY <1>4 DEF Sorted
  <2>1. CASE i = 1 /\ j = 1
    BY <1>3, <2>1
  <2>2. CASE i = 1 /\ j # 1
    <3>1. j \in 2 .. Len(s) + 1 /\ j - 1 \in 1 .. Len(s)
      BY <1>2, <2>2
    <3> QED
      BY <1>2, <1>3, <2>2, <3>1
  <2>3. CASE i # 1
    <3>1. /\ i \in 2 .. Len(s) + 1 /\ j \in 2 .. Len(s) + 1
          /\ i - 1 \in 1 .. Len(s) /\ j - 1 \in 1 .. Len(s) /\ i - 1 <= j - 1
      BY <1>2, <2>3
    <3>2. s[i - 1] <= s[j - 1]
      BY <1>2, <3>1 DEF Sorted
    <3> QED
      BY <1>3, <3>1, <3>2
  <2> QED
    BY <2>1, <2>2, <2>3
<1>6. ASSUME NEW a \in Nat PROVE UpTo(r, a) = UpTo(s, a) + 1
  <2> DEFINE I == {i \in DOMAIN s : s[i] <= a}
             J == {i \in DOMAIN r : r[i] <= a}
             b == [i \in I |-> i + 1]
  <2>1. J = {1} \cup {i + 1 : i \in I}
    <3>1. \A j \in J : j = 1 \/ j - 1 \in I
      BY <1>2, <1>3, <1>4
    <3>2. \A i \in I : i + 1 \in J
      BY <1>2, <1>3, <1>4
    <3>3. 1 \in J
      BY <1>2, <1>3, <1>4
    <3>4. \A j \in J : j \in Int /\ j = (j - 1) + 1
      BY <1>4
    <3> HIDE DEF I, J
    <3> QED
      BY <3>1, <3>2, <3>3, <3>4
  <2>2. I \in SUBSET (1 .. Len(s))
    BY <1>2
  <2>3. IsFiniteSet(I)
    BY <2>2, IndicesCount, FS_Subset
  <2>4. b \in Bijection(I, {i + 1 : i \in I})
    <3>1. \A i, j \in I : b[i] = b[j] => i = j
      BY <2>2
    <3>2. b \in [I -> {i + 1 : i \in I}] /\ \A k \in {i + 1 : i \in I} : \E i \in I : b[i] = k
      OBVIOUS
    <3> HIDE DEF I, b
    <3> QED
      BY <3>1, <3>2, Fun_IsBij
  <2>5. IsFiniteSet({i + 1 : i \in I}) /\ Cardinality({i + 1 : i \in I}) = Cardinality(I)
    BY <2>3, <2>4, FS_Bijection DEF ExistsBijection
  <2>6. 1 \notin {i + 1 : i \in I}
    BY <2>2
  <2>7. Cardinality(J) = Cardinality(I) + 1
    <3> HIDE DEF I, J
    <3>1. J = {i + 1 : i \in I} \cup {1}
      BY <2>1
    <3> QED
      BY <2>5, <2>6, <3>1, FS_AddElement
  <2> QED
    BY <2>7 DEF UpTo
<1> QED
  BY <1>3, <1>5, <1>6 DEF r

-----------------------------------------------------------------------------
(* Lemmas about requests and processes.                                    *)

\* In those shapes every variable holds a value of its kind.
LEMMA ShapesAreTyped == Shapes => TypeOK
<1> SUFFICES ASSUME Shapes PROVE TypeOK
  OBVIOUS
<1>1. \A p \in Processes, s \in Scopes : Len(cache[p][s]) <= Rate[s]
  BY DEF Shapes, HistoryOK
<1>2. ASSUME NEW t \in Threads, req[t] # Idle
      PROVE  Len(req[t].read) <= Rate[Scope(t)] /\ (known => Scope(t) = "user")
  BY <1>2 DEF Shapes, RequestOK, Scope
<1> QED
  BY <1>1, <1>2 DEF Shapes, TypeOK

\* The narrower throttle of a client.
LEMMA LimitIs == Limit \in Scopes /\ Limit = IF known THEN "user" ELSE "anon"
<1>1. CASE known
  BY <1>1 DEF Limit, Throttles, Scopes
<1>2. CASE ~known
  BY <1>2 DEF Limit, Throttles, Scopes
<1> QED
  BY <1>1, <1>2

\* The throttles a request may still have to ask.
LEMMA TodoIs ==
  ASSUME NEW r \in Requests
  PROVE  /\ r.todo = <<"anon", "user">> \/ r.todo = <<"user">>
         /\ Head(r.todo) \in Scopes /\ r.read \in Seq(Ages) /\ r.at \in {"lookup", "store"}
<1>1. /\ r.todo \in {<<"anon", "user">>, <<"user">>} /\ r.read \in Seq(Ages)
      /\ r.at \in {"lookup", "store"}
  BY DEF Requests
<1>2. Head(<<"anon", "user">>) = "anon" /\ Head(<<"user">>) = "user"
  OBVIOUS
<1>3. Head(r.todo) \in {"anon", "user"}
  BY <1>1, <1>2
<1> QED
  BY <1>1, <1>3 DEF Scopes

\* A request that has asked a throttle has the other one to ask, or none.
LEMMA AfterThrottleIs ==
  ASSUME NEW r \in Requests
  PROVE  \/ AfterThrottle(r) = Idle
         \/ /\ AfterThrottle(r).at = "lookup" /\ RequestOK(AfterThrottle(r))
<1>1. CASE r.todo = <<"user">>
  <2>1. Len(r.todo) = 1
    BY <1>1
  <2> QED
    BY <2>1 DEF AfterThrottle
<1>2. CASE r.todo = <<"anon", "user">>
  <2>1. Len(r.todo) = 2 /\ Tail(r.todo) = <<"user">> /\ Head(<<"user">>) = "user"
    BY <1>2
  <2> DEFINE q == [r EXCEPT !.at = "lookup", !.todo = Tail(@), !.read = <<>>]
  <2>2. AfterThrottle(r) = q
    BY <2>1 DEF AfterThrottle
  <2>3. q.at = "lookup" /\ q.todo = <<"user">> /\ q.read = <<>>
    BY <2>1 DEF Requests
  <2>4. <<>> \in Seq(Ages) /\ Len(<<>>) = 0 /\ Sorted(<<>>)
    BY DEF Sorted
  <2>5. q \in Requests
    BY <2>1, <2>4 DEF Requests
  <2> HIDE DEF q
  <2>6. Len(q.read) <= Rate["user"] /\ Head(q.todo) = "user"
    BY <2>1, <2>3, <2>4, RateAssumption DEF Scopes
  <2>7. RequestOK(q)
    BY <2>3, <2>4, <2>5, <2>6 DEF RequestOK
  <2> QED
    BY <2>2, <2>3, <2>7
<1> QED
  BY <1>1, <1>2, TodoIs

\* A step of one thread leaves the requests of the others as they should be.
LEMMA ThreadsStay ==
  ASSUME Shapes, known' = known, NEW t \in Threads, NEW r, r = Idle \/ RequestOK(r),
         req' = [req EXCEPT ![t] = r]
  PROVE  /\ req' \in [Threads -> {Idle} \cup Requests]
         /\ \A u \in Threads : req'[u] = Idle \/ RequestOK(req[u])'
<1>1. r \in {Idle} \cup Requests
  BY DEF RequestOK
<1>2. req' \in [Threads -> {Idle} \cup Requests]
  BY <1>1 DEF Shapes
<1>3. ASSUME NEW u \in Threads PROVE req'[u] = Idle \/ RequestOK(req[u])'
  <2>1. req'[u] = Idle \/ req'[u] = r \/ req'[u] = req[u]
    BY DEF Shapes
  <2>2. req[u] = Idle \/ RequestOK(req[u])
    BY DEF Shapes
  <2> QED
    BY <2>1, <2>2 DEF RequestOK
<1> QED
  BY <1>2, <1>3

\* The history a process will have is one.
LEMMA EffectiveIs ==
  ASSUME Shapes, NEW p \in Processes
  PROVE  HistoryOK(Effective(p), Limit)
<1>1. CASE Storers(p) = {}
  <2>1. Effective(p) = cache[p][Limit]
    BY <1>1 DEF Effective
  <2> QED
    BY <2>1, LimitIs DEF Shapes
<1>2. CASE Storers(p) # {}
  <2> DEFINE t == CHOOSE u \in Storers(p) : TRUE
  <2>1. t \in Threads /\ Storing(t) /\ Effective(p) = req[t].read
    BY <1>2 DEF Effective, Storers
  <2> HIDE DEF t
  <2>2. req[t] # Idle
    BY <2>1 DEF Storing, Idle
  <2>3. RequestOK(req[t]) /\ Head(req[t].todo) = Limit
    BY <2>1, <2>2 DEF Shapes, Storing, Scope
  <2>4. req[t].read \in Seq(Ages)
    BY <2>3 DEF RequestOK, Requests
  <2> QED
    BY <2>1, <2>3, <2>4 DEF RequestOK, HistoryOK
<1> QED
  BY <1>1, <1>2

\* How much a process remembers is a number.
LEMMA EffectiveUpTo ==
  ASSUME Shapes, NEW p \in Processes, NEW a \in Ages
  PROVE  UpTo(Effective(p), a) \in 0 .. Rate[Limit] /\ UpTo(Effective(p), a) \in Nat
<1> DEFINE s == Effective(p)
<1>1. s \in Seq(Ages) /\ Len(s) <= Rate[Limit] /\ Rate[Limit] \in Nat
  BY EffectiveIs, LimitIs, RateAssumption DEF HistoryOK
<1> HIDE DEF s
<1>2. s \in Seq(Nat) /\ a \in Nat /\ Len(s) \in Nat
  BY <1>1, AgesAreNumbers, SeqOfElements, HistoryShape
<1>3. UpTo(s, a) \in 0 .. Len(s)
  BY <1>2, UpToType
<1>4. UpTo(s, a) \in 0 .. Rate[Limit] /\ UpTo(s, a) \in Nat
  BY <1>1, <1>2, <1>3
<1> QED
  BY <1>4 DEF s

\* A service has finitely many processes that run a thread.
LEMMA ProcessesFinite ==
  ASSUME Shapes
  PROVE  IsFiniteSet(Range(process)) /\ Range(process) \subseteq Processes
<1>1. process \in [Threads -> Processes]
  BY DeploymentsAssumption DEF Shapes
<1>2. process \in Surjection(Threads, Range(process))
  BY <1>1 DEF Range, Surjection
<1> QED
  BY <1>1, <1>2, ThreadsAssumption, FS_Surjection DEF Range

\* What all processes remember together is a number.
LEMMA TogetherIs ==
  ASSUME Shapes, NEW a \in Ages
  PROVE  SumFunctionOnSet([p \in Processes |-> UpTo(Effective(p), a)], Range(process)) \in Nat
<1> DEFINE f == [p \in Processes |-> UpTo(Effective(p), a)]
<1>1. \A p \in Range(process) : f[p] \in Nat
  BY ProcessesFinite, EffectiveUpTo
<1> HIDE DEF f
<1>2. SumFunctionOnSet(f, Range(process)) \in Nat
  BY <1>1, ProcessesFinite, SumType
<1> QED
  BY <1>2 DEF f

\* After a loss nothing is known to be remembered yet.
LEMMA LossStep ==
  ASSUME blind' = Window
  PROVE  OverwritesAreOld' /\ \A a \in Ages : Clear(a)' => Remembered(a)'
<1>1. \A a \in Ages : ~Clear(a)'
  BY AgesAreNumbers, RateAssumption DEF Clear
<1> QED
  BY <1>1 DEF OverwritesAreOld

\* What changes no history that counts keeps what is remembered.
LEMMA KeepStep ==
  ASSUME IInv, Shapes, UNCHANGED <<process, known, allowed, blind>>,
         \A q \in Processes : /\ Storers(q)' \subseteq Storers(q) /\ Effective(q)' = Effective(q)
                              /\ \A u \in Storers(q)' : req'[u].read = req[u].read
  PROVE  OverwritesAreOld' /\ \A a \in Ages : Clear(a)' => Remembered(a)'
<1>1. \A a \in Ages : Clear(a)' => Clear(a)
  BY DEF Clear
<1>2. OverwritesAreOld'
  <2> SUFFICES ASSUME NEW p \in Processes, NEW t \in Storers(p)', NEW u \in Storers(p)', t # u,
                      NEW a \in Ages, Clear(a)'
               PROVE  UpTo(req'[t].read, a) = 0
    BY DEF OverwritesAreOld, UpTo
  <2>1. t \in Storers(p) /\ u \in Storers(p) /\ Clear(a) /\ req'[t].read = req[t].read
    BY <1>1
  <2> QED
    BY <2>1 DEF IInv, OverwritesAreOld
<1>3. ASSUME NEW a \in Ages, Clear(a)' PROVE Remembered(a)'
  <2>1. Remembered(a)
    BY <1>1, <1>3 DEF IInv
  <2>2. [p \in Processes |-> UpTo(Effective(p), a)]' = [p \in Processes |-> UpTo(Effective(p), a)]
    BY DEF UpTo
  <2> QED
    BY <2>1, <2>2 DEF Remembered, UpTo
<1> QED
  BY <1>2, <1>3

\* A step that neither loses nor decides about the history that counts.
LEMMA QuietStep ==
  ASSUME IInv, Shapes, UNCHANGED <<process, known, allowed, blind>>,
         \A q \in Processes : /\ Storers(q)' = Storers(q)
                              /\ Storers(q) = {} => cache'[q][Limit] = cache[q][Limit]
                              /\ \A u \in Storers(q) : req'[u].read = req[u].read
  PROVE  OverwritesAreOld' /\ \A a \in Ages : Clear(a)' => Remembered(a)'
<1>1. Limit' = Limit
  BY DEF Limit, Throttles
<1>2. ASSUME NEW q \in Processes PROVE Effective(q)' = Effective(q)
  <2>1. CASE Storers(q) = {}
    BY <1>1, <2>1 DEF Effective
  <2>2. CASE Storers(q) # {}
    <3>1. (CHOOSE t \in Storers(q) : TRUE) \in Storers(q)
      BY <2>2
    <3> QED
      BY <2>2, <3>1 DEF Effective
  <2> QED
    BY <2>1, <2>2
<1> QED
  BY <1>2, KeepStep

\* Two sets that agree but for an element that is in neither are equal.
LEMMA SameWithout ==
  ASSUME NEW A, NEW B, NEW t, t \notin A, t \notin B, A \ {t} = B \ {t}
  PROVE  A = B
  OBVIOUS

\* The storing threads after a step of one thread.
LEMMA StorersStay ==
  ASSUME UNCHANGED <<process, known>>, NEW t \in Threads, \A u \in Threads \ {t} : req'[u] = req[u]
  PROVE  /\ \A q : Storers(q)' \ {t} = Storers(q) \ {t}
         /\ \A q : \A u \in Storers(q) \ {t} : req'[u].read = req[u].read
         /\ \A q : t \in Storers(q) <=> process[t] = q /\ Storing(t)
         /\ \A q : t \in Storers(q)' <=> process[t] = q /\ Storing(t)'
  BY DEF Storers, Storing, Scope, Limit, Throttles

-----------------------------------------------------------------------------
(* Each action keeps the invariant.                                        *)

\* A thread that does not write before and after a step leaves the histories alone.
LEMMA OtherStep ==
  ASSUME IInv, Shapes', UNCHANGED <<process, known, allowed, blind, cache>>,
         NEW t \in Threads, \A u \in Threads \ {t} : req'[u] = req[u],
         ~Storing(t), ~Storing(t)'
  PROVE  IInv'
<1>1. Shapes
  BY DEF IInv
<1>2. ASSUME NEW q \in Processes PROVE Storers(q)' = Storers(q) /\ \A u \in Storers(q) : req'[u].read = req[u].read
  <2>1. t \notin Storers(q) /\ t \notin Storers(q)'
    BY StorersStay
  <2>2. /\ Storers(q)' \ {t} = Storers(q) \ {t}
        /\ \A u \in Storers(q) \ {t} : req'[u].read = req[u].read
    BY StorersStay
  <2> QED
    BY <2>1, <2>2
<1>3. OverwritesAreOld' /\ \A a \in Ages : Clear(a)' => Remembered(a)'
  BY <1>1, <1>2, QuietStep
<1> QED
  BY <1>3 DEF IInv

\* A request arrives and is about to ask its first throttle.
LEMMA ArriveStep ==
  ASSUME IInv, NEW t \in Threads, Arrive(t)
  PROVE  IInv'
<1>1. Shapes
  BY DEF IInv
<1> DEFINE r == Request(Throttles)
<1>2. /\ UNCHANGED <<process, known, cache, allowed, blind>> /\ req[t] = Idle
      /\ req' = [req EXCEPT ![t] = r]
  BY DEF Arrive, settings
<1>3. RequestOK(r) /\ r.at = "lookup"
  <2>1. Throttles \in {<<"anon", "user">>, <<"user">>} /\ (known => Throttles = <<"user">>)
    BY DEF Throttles
  <2>2. <<>> \in Seq(Ages) /\ Len(<<>>) = 0 /\ Sorted(<<>>)
    BY DEF Sorted
  <2>3. r.read = <<>> /\ r.todo = Throttles /\ r \in Requests /\ r.at = "lookup"
    BY <2>1, <2>2 DEF Request, Requests
  <2> HIDE DEF r
  <2>4. Head(r.todo) \in Scopes
    BY <2>3, TodoIs
  <2>5. Len(r.read) <= Rate[Head(r.todo)]
    BY <2>2, <2>3, <2>4, RateAssumption
  <2>6. Head(<<"user">>) = "user"
    OBVIOUS
  <2> QED
    BY <2>1, <2>2, <2>3, <2>5, <2>6 DEF RequestOK
<1> HIDE DEF r
<1>4. req'[t] = r /\ \A u \in Threads \ {t} : req'[u] = req[u]
  BY <1>1, <1>2 DEF Shapes
<1>5. Shapes'
  <2>1. /\ req' \in [Threads -> {Idle} \cup Requests]
        /\ \A u \in Threads : req'[u] = Idle \/ RequestOK(req[u])'
    BY <1>1, <1>2, <1>3, ThreadsStay
  <2> QED
    BY <1>1, <1>2, <2>1 DEF Shapes, HistoryOK
<1>6. ~Storing(t) /\ ~Storing(t)'
  BY <1>2, <1>3, <1>4 DEF Storing, Idle
<1> QED
  BY <1>2, <1>4, <1>5, <1>6, OtherStep

\* A throttle that refuses: the request asks the next one, or ends with 429.
LEMMA RefusedStep ==
  ASSUME IInv, NEW t \in Threads, req[t].at = "lookup",
         req' = [req EXCEPT ![t] = AfterThrottle(@)], UNCHANGED <<process, known, cache, allowed, blind>>
  PROVE  IInv'
<1> DEFINE r == AfterThrottle(req[t])
<1>1. Shapes
  BY DEF IInv
<1>2. req[t] \in Requests
  BY <1>1 DEF Shapes, Idle
<1>3. r = Idle \/ (r.at = "lookup" /\ RequestOK(r))
  BY <1>2, AfterThrottleIs
<1>4. req' = [req EXCEPT ![t] = r]
  OBVIOUS
<1> HIDE DEF r
<1>5. req'[t] = r /\ \A u \in Threads \ {t} : req'[u] = req[u]
  BY <1>1, <1>4 DEF Shapes
<1>6. Shapes'
  <2>1. /\ req' \in [Threads -> {Idle} \cup Requests]
        /\ \A u \in Threads : req'[u] = Idle \/ RequestOK(req[u])'
    BY <1>1, <1>3, <1>4, ThreadsStay
  <2> QED
    BY <1>1, <2>1 DEF Shapes, HistoryOK
<1>7. ~Storing(t) /\ ~Storing(t)'
  BY <1>3, <1>5 DEF Storing, Idle
<1> QED
  BY <1>5, <1>6, <1>7, OtherStep

\* An allowed request holds the history it read, with itself in front.
LEMMA AllowedShapes ==
  ASSUME Shapes, NEW t \in Threads, req[t].at = "lookup", UNCHANGED <<process, known, cache>>,
         Allows(Scope(t), cache[process[t]][Scope(t)]),
         req' = [req EXCEPT ![t].at = "store", ![t].read = << 0 >> \o cache[process[t]][Scope(t)]],
         blind' \in 0 .. Window, allowed' \in Seq(Ages), Sorted(allowed')
  PROVE  /\ Shapes' /\ Scope(t) \in Scopes /\ process[t] \in Processes
         /\ req'[t].at = "store" /\ Scope(t)' = Scope(t)
         /\ req'[t].read = << 0 >> \o cache[process[t]][Scope(t)]
         /\ \A u \in Threads \ {t} : req'[u] = req[u]
<1> DEFINE p == process[t]
           s == Scope(t)
           h == cache[p][s]
           r == [req[t] EXCEPT !.at = "store", !.read = << 0 >> \o h]
<1>1. req[t] \in Requests /\ RequestOK(req[t])
  BY DEF Shapes, Idle
<1>2. s \in Scopes /\ p \in Processes /\ Head(req[t].todo) = s
  BY <1>1, TodoIs, DeploymentsAssumption DEF Shapes, Scope
<1>3. HistoryOK(h, s) /\ Len(h) < Rate[s]
  BY <1>2 DEF Shapes, Allows
<1>4. /\ << 0 >> \o h \in Seq(Ages) /\ Sorted(<< 0 >> \o h) /\ Len(<< 0 >> \o h) = Len(h) + 1
      /\ Len(h) \in Nat /\ Rate[s] \in Nat
  BY <1>2, <1>3, PrependProperties, HistoryShape, RateAssumption DEF HistoryOK
<1>5. req' = [req EXCEPT ![t] = r]
  OBVIOUS
<1> HIDE DEF h, s, p
<1>6. r \in Requests /\ r.at = "store" /\ r.todo = req[t].todo /\ r.read = << 0 >> \o h
  BY <1>1, <1>4 DEF Requests
<1>7. RequestOK(r)
  <2>1. Len(<< 0 >> \o h) <= Rate[s]
    BY <1>3, <1>4
  <2> QED
    BY <1>1, <1>2, <1>4, <1>6, <2>1 DEF RequestOK
<1> HIDE DEF r
<1>8. req'[t] = r /\ \A u \in Threads \ {t} : req'[u] = req[u]
  BY <1>5 DEF Shapes
<1>9. Shapes'
  <2>1. /\ req' \in [Threads -> {Idle} \cup Requests]
        /\ \A u \in Threads : req'[u] = Idle \/ RequestOK(req[u])'
    BY <1>5, <1>7, ThreadsStay
  <2> QED
    BY <2>1 DEF Shapes, HistoryOK
<1>10. Scope(t)' = Scope(t)
  BY <1>6, <1>8 DEF Scope
<1> QED
  BY <1>2, <1>6, <1>8, <1>9, <1>10 DEF p, s, h

\* The budget is a number.
LEMMA BudgetIs ==
  ASSUME Shapes
  PROVE  Budget \in Nat
<1>1. Rate[Limit] \in Nat /\ Cardinality(Range(process)) \in Nat
  BY LimitIs, RateAssumption, ProcessesFinite, FS_CardinalityType
<1> QED
  BY <1>1 DEF Budget

\* What the model forgets of the allowed requests only lowers their number.
LEMMA NewestIs ==
  ASSUME Shapes, NEW s \in Seq(Ages), Sorted(s)
  PROVE  /\ Newest(s) \in Seq(Ages) /\ Sorted(Newest(s))
         /\ \A a \in Ages : UpTo(Newest(s), a) <= UpTo(s, a)
<1>1. CASE Len(s) > Budget + 1
  <2>1. Newest(s) = SubSeq(s, 1, Budget + 1)
    BY <1>1 DEF Newest
  <2>2. Budget + 1 \in 0 .. Len(s)
    BY <1>1, BudgetIs, HistoryShape
  <2> QED
    BY <2>1, <2>2, PrefixProperties, AgesAreNumbers
<1>2. CASE ~(Len(s) > Budget + 1)
  <2>1. Newest(s) = s
    BY <1>2 DEF Newest
  <2>2. s \in Seq(Nat)
    BY HistoryShape, SeqOfElements, AgesAreNumbers
  <2>3. \A a \in Ages : UpTo(s, a) \in Nat
    BY <2>2, UpToType, HistoryShape, AgesAreNumbers
  <2>4. \A a \in Ages : UpTo(s, a) <= UpTo(s, a)
    BY <2>3
  <2> QED
    BY <2>1, <2>4
<1> QED
  BY <1>1, <1>2

\* A throttle that is not the narrower one allows: the history that counts stays.
LEMMA WiderAllowedStep ==
  ASSUME IInv, NEW t \in Threads, req[t].at = "lookup", UNCHANGED <<process, known, cache, allowed, blind>>,
         Allows(Scope(t), cache[process[t]][Scope(t)]), Scope(t) # Limit,
         req' = [req EXCEPT ![t].at = "store", ![t].read = << 0 >> \o cache[process[t]][Scope(t)]]
  PROVE  IInv'
<1>1. Shapes /\ blind' \in 0 .. Window /\ allowed' \in Seq(Ages) /\ Sorted(allowed')
  BY DEF IInv, Shapes
<1>2. Shapes' /\ Scope(t)' = Scope(t) /\ \A u \in Threads \ {t} : req'[u] = req[u]
  BY <1>1, AllowedShapes
<1>3. Limit' = Limit
  BY DEF Limit, Throttles
<1>4. ~Storing(t) /\ ~Storing(t)'
  BY <1>2, <1>3 DEF Storing
<1> QED
  BY <1>2, <1>4, OtherStep

\* The narrower throttle allows while no other thread is about to write its history.
LEMMA NarrowerAllowedStep ==
  ASSUME IInv, NEW t \in Threads, req[t].at = "lookup", UNCHANGED <<process, known, cache, blind>>,
         Allows(Limit, cache[process[t]][Limit]), Scope(t) = Limit, ~Contended(t),
         req' = [req EXCEPT ![t].at = "store", ![t].read = << 0 >> \o cache[process[t]][Limit]],
         allowed' = Newest(<< 0 >> \o allowed)
  PROVE  IInv'
<1> DEFINE p == process[t]
           h == cache[p][Limit]
<1>1. Shapes
  BY DEF IInv
<1>2. /\ << 0 >> \o allowed \in Seq(Ages) /\ Sorted(<< 0 >> \o allowed)
      /\ \A a \in Nat : UpTo(<< 0 >> \o allowed, a) = UpTo(allowed, a) + 1
  BY <1>1, PrependProperties DEF Shapes
<1>3. /\ allowed' \in Seq(Ages) /\ Sorted(allowed') /\ blind' \in 0 .. Window
      /\ \A a \in Ages : UpTo(allowed', a) <= UpTo(allowed, a) + 1
  <2>1. /\ Newest(<< 0 >> \o allowed) \in Seq(Ages) /\ Sorted(Newest(<< 0 >> \o allowed))
        /\ \A a \in Ages : UpTo(Newest(<< 0 >> \o allowed), a) <= UpTo(<< 0 >> \o allowed, a)
    BY <1>1, <1>2, NewestIs
  <2> QED
    BY <1>1, <1>2, <2>1, AgesAreNumbers DEF Shapes
<1>4. /\ Shapes' /\ p \in Processes /\ req'[t].at = "store" /\ Scope(t)' = Limit
      /\ req'[t].read = << 0 >> \o h /\ \A u \in Threads \ {t} : req'[u] = req[u]
  BY <1>1, <1>3, AllowedShapes
<1>5. Limit' = Limit
  BY DEF Limit, Throttles
<1>6. Storers(p) = {} /\ Storers(p)' = {t}
  <2>1. Storers(p) \ {t} = {} /\ ~Storing(t)
    BY DEF Contended, Storers, Storing
  <2>2. Storing(t)'
    BY <1>4, <1>5 DEF Storing
  <2>3. Storers(p)' \ {t} = Storers(p) \ {t} /\ t \notin Storers(p) /\ t \in Storers(p)'
    BY <1>4, <2>1, <2>2, StorersStay
  <2> QED
    BY <2>1, <2>3
<1>7. ASSUME NEW q \in Processes \ {p}
      PROVE  Storers(q)' = Storers(q) /\ \A u \in Storers(q) : req'[u].read = req[u].read
  <2>1. t \notin Storers(q) /\ t \notin Storers(q)'
    BY <1>4, StorersStay
  <2>2. /\ Storers(q)' \ {t} = Storers(q) \ {t}
        /\ \A u \in Storers(q) \ {t} : req'[u].read = req[u].read
    BY <1>4, StorersStay
  <2>3. Storers(q)' = Storers(q)
    BY <2>1, <2>2, SameWithout
  <2>4. \A u \in Storers(q) : u \in Storers(q) \ {t}
    BY <2>1
  <2> QED
    BY <2>2, <2>3, <2>4, Zenon
<1>8. Effective(p) = h /\ Effective(p)' = << 0 >> \o h
  BY <1>4, <1>6 DEF Effective
<1>9. ASSUME NEW q \in Processes \ {p} PROVE Effective(q)' = Effective(q)
  <2>1. CASE Storers(q) = {}
    BY <1>5, <1>7, <2>1 DEF Effective
  <2>2. CASE Storers(q) # {}
    <3>1. (CHOOSE u \in Storers(q) : TRUE) \in Storers(q)
      BY <2>2
    <3> QED
      BY <1>7, <2>2, <3>1 DEF Effective
  <2> QED
    BY <2>1, <2>2
<1>10. \A a : Clear(a)' => Clear(a)
  BY DEF Clear
<1>11. OverwritesAreOld'
  <2> SUFFICES ASSUME NEW q \in Processes, NEW u \in Storers(q)', NEW v \in Storers(q)', u # v,
                      NEW a \in Ages, Clear(a)'
               PROVE  UpTo(req'[u].read, a) = 0
    BY DEF OverwritesAreOld, UpTo
  <2>1. q # p
    BY <1>6
  <2>2. u \in Storers(q) /\ v \in Storers(q) /\ req'[u].read = req[u].read
    BY <1>7, <2>1
  <2> QED
    BY <1>10, <2>2 DEF IInv, OverwritesAreOld
<1>12. ASSUME NEW a \in Ages, Clear(a)' PROVE Remembered(a)'
  <2> DEFINE f == [q \in Processes |-> UpTo(Effective(q), a)]
             g == [q \in Processes |-> UpTo(Effective(q)', a)]
             S == Range(process)
  <2>1. p \in S /\ IsFiniteSet(S) /\ S \subseteq Processes
    <3>1. process \in [Threads -> Processes]
      BY <1>1, DeploymentsAssumption DEF Shapes
    <3> QED
      BY <1>1, <3>1, ProcessesFinite DEF Range
  <2>2. \A q \in S : f[q] \in Nat
    BY <1>1, <2>1, EffectiveUpTo
  <2>3. g[p] = f[p] + 1 /\ \A q \in S \ {p} : g[q] = f[q]
    <3>1. h \in Seq(Ages) /\ Sorted(h)
      BY <1>1, <1>4, LimitIs DEF Shapes, HistoryOK
    <3>2. UpTo(<< 0 >> \o h, a) = UpTo(h, a) + 1
      BY <3>1, PrependProperties, AgesAreNumbers
    <3> QED
      BY <1>4, <1>8, <1>9, <2>1, <3>2
  <2>4. UpTo(allowed, a) <= SumFunctionOnSet(f, S)
    BY <1>10, <1>12 DEF IInv, Remembered
  <2>5. (Remembered(a))' <=> UpTo(allowed', a) <= SumFunctionOnSet(g, S)
    BY DEF Remembered, UpTo
  <2>6. UpTo(allowed', a) <= UpTo(allowed, a) + 1 /\ UpTo(allowed', a) \in Nat /\ UpTo(allowed, a) \in Nat
    <3>1. allowed \in Seq(Ages) /\ allowed' \in Seq(Ages)
      BY <1>1, <1>3 DEF Shapes
    <3>2. allowed \in Seq(Nat) /\ allowed' \in Seq(Nat)
      BY <3>1, AgesAreNumbers, SeqOfElements, HistoryShape
    <3>3. UpTo(allowed, a) \in 0 .. Len(allowed) /\ UpTo(allowed', a) \in 0 .. Len(allowed')
      BY <3>2, AgesAreNumbers, UpToType
    <3> QED
      BY <1>3, <3>3
  <2> HIDE DEF f, g, S
  <2>7. g[p] \in Nat /\ f[p] \in Nat
    BY <2>1, <2>2, <2>3
  <2>8. /\ SumFunctionOnSet(g, S) \in Nat /\ SumFunctionOnSet(f, S) \in Nat
        /\ SumFunctionOnSet(g, S) + f[p] = SumFunctionOnSet(f, S) + g[p]
    BY <2>1, <2>2, <2>3, <2>7, SumChanges
  <2>9. UpTo(allowed', a) <= SumFunctionOnSet(g, S)
    BY <2>3, <2>4, <2>6, <2>7, <2>8
  <2> QED
    BY <2>5, <2>9
<1> QED
  BY <1>4, <1>11, <1>12 DEF IInv

\* A throttle reads the history, decides by its length, and refuses or allows.
LEMMA LookupStep ==
  ASSUME IInv, NEW t \in Threads, Lookup(t)
  PROVE  IInv'
<1> DEFINE h == cache[process[t]][Scope(t)]
<1>1. req[t].at = "lookup" /\ UNCHANGED <<process, known>>
  BY DEF Lookup, settings
<1>2. CASE /\ req' = [req EXCEPT ![t] = AfterThrottle(@)] /\ UNCHANGED <<allowed, blind>>
           /\ cache' = [cache EXCEPT ![process[t]][Scope(t)] = AfterRefusal(h)]
  <2>1. cache' = cache
    <3>1. AfterRefusal(h) = h
      BY DEF AfterRefusal
    <3>2. [cache EXCEPT ![process[t]][Scope(t)] = h] = cache
      BY DEF IInv, Shapes
    <3> QED
      BY <1>2, <3>1, <3>2
  <2> QED
    BY <1>1, <1>2, <2>1, RefusedStep
<1>3. CASE /\ Allows(Scope(t), h) /\ UNCHANGED cache
           /\ req' = [req EXCEPT ![t].at = "store", ![t].read = << 0 >> \o h]
           /\ allowed' = IF Scope(t) = Limit THEN Newest(<< 0 >> \o allowed) ELSE allowed
           /\ Blinds(Scope(t), Contended(t))
  <2>1. CASE Scope(t) # Limit
    <3>1. blind' = blind /\ allowed' = allowed
      BY <1>3, <2>1 DEF Blinds
    <3> QED
      BY <1>1, <1>3, <2>1, <3>1, WiderAllowedStep
  <2>2. CASE Scope(t) = Limit /\ ~Contended(t)
    <3>1. blind' = blind /\ allowed' = Newest(<< 0 >> \o allowed)
      BY <1>3, <2>2 DEF Blinds
    <3> QED
      BY <1>1, <1>3, <2>2, <3>1, NarrowerAllowedStep
  <2>3. CASE Scope(t) = Limit /\ Contended(t)
    <3>1. Shapes /\ blind' = Window /\ allowed' = Newest(<< 0 >> \o allowed)
      BY <1>3, <2>3 DEF Blinds, IInv
    <3>2. << 0 >> \o allowed \in Seq(Ages) /\ Sorted(<< 0 >> \o allowed)
      BY <3>1, PrependProperties DEF Shapes
    <3>3. allowed' \in Seq(Ages) /\ Sorted(allowed')
      BY <3>1, <3>2, NewestIs
    <3>4. blind' \in 0 .. Window
      BY <3>1, RateAssumption
    <3>5. Shapes'
      BY <1>1, <1>3, <3>1, <3>3, <3>4, AllowedShapes
    <3> QED
      BY <3>1, <3>5, LossStep DEF IInv
  <2> QED
    BY <2>1, <2>2, <2>3
<1> QED
  BY <1>2, <1>3 DEF Lookup

\* A throttle writes the history back. If another thread is about to write it too, one of
\* the two loses its entry.
LEMMA StoreStep ==
  ASSUME IInv, NEW t \in Threads, Store(t)
  PROVE  IInv'
<1> DEFINE p == process[t]
           s == Scope(t)
           h == req[t].read
           r == AfterThrottle(req[t])
<1>1. Shapes
  BY DEF IInv
<1>2. /\ req[t].at = "store" /\ UNCHANGED <<process, known, allowed>>
      /\ cache' = [cache EXCEPT ![p][s] = h] /\ Blinds(s, Contended(t))
      /\ req' = [req EXCEPT ![t] = r]
  BY DEF Store, settings
<1>3. req[t] \in Requests /\ RequestOK(req[t])
  BY <1>1, <1>2 DEF Shapes, Idle
<1>4. s \in Scopes /\ p \in Processes /\ HistoryOK(h, s)
  BY <1>1, <1>3, TodoIs, DeploymentsAssumption DEF Shapes, Scope, RequestOK, HistoryOK
<1>5. r = Idle \/ (r.at = "lookup" /\ RequestOK(r))
  BY <1>3, AfterThrottleIs
<1>6. Limit' = Limit /\ Limit \in Scopes
  BY <1>2, LimitIs DEF Limit, Throttles
<1> HIDE DEF p, s, h, r
<1>7. req'[t] = r /\ \A u \in Threads \ {t} : req'[u] = req[u]
  BY <1>1, <1>2 DEF Shapes
<1>8. /\ cache' \in [Processes -> [Scopes -> Seq(Ages)]]
      /\ \A q \in Processes, c \in Scopes : cache'[q][c] = IF q = p /\ c = s THEN h ELSE cache[q][c]
  <2>1. [cache[p] EXCEPT ![s] = h] \in [Scopes -> Seq(Ages)]
    BY <1>1, <1>4 DEF Shapes, HistoryOK
  <2> QED
    BY <1>1, <1>2, <1>4, <2>1 DEF Shapes
<1>9. \A q \in Processes, c \in Scopes : HistoryOK(cache[q][c], c)'
  BY <1>1, <1>4, <1>8 DEF Shapes, HistoryOK
<1>10. blind' \in {blind, Window} /\ blind' \in 0 .. Window
  BY <1>1, <1>2, RateAssumption DEF Blinds, Shapes
<1>11. Shapes'
  <2>1. /\ req' \in [Threads -> {Idle} \cup Requests]
        /\ \A u \in Threads : req'[u] = Idle \/ RequestOK(req[u])'
    BY <1>1, <1>2, <1>5, ThreadsStay
  <2> QED
    BY <1>1, <1>2, <1>8, <1>9, <1>10, <2>1 DEF Shapes
<1>12. ~Storing(t)'
  BY <1>5, <1>7 DEF Storing, Idle
<1>13. \A q : /\ Storers(q)' = Storers(q) \ {t}
              /\ \A u \in Storers(q) \ {t} : req'[u].read = req[u].read
  <2> TAKE q
  <2>1. t \notin Storers(q)'
    BY <1>2, <1>7, <1>12, StorersStay
  <2>2. /\ Storers(q)' \ {t} = Storers(q) \ {t}
        /\ \A u \in Storers(q) \ {t} : req'[u].read = req[u].read
    BY <1>2, <1>7, StorersStay
  <2>3. Storers(q)' = Storers(q) \ {t}
    BY <2>1, <2>2
  <2> QED
    BY <2>2, <2>3
<1>14. CASE s = Limit /\ Contended(t)
  <2>1. blind' = Window
    BY <1>2, <1>14 DEF Blinds
  <2> QED
    BY <1>11, <2>1, LossStep DEF IInv
<1>15. CASE s # Limit \/ ~Contended(t)
  <2>1. blind' = blind
    BY <1>2, <1>15 DEF Blinds
  <2>2. ASSUME NEW q \in Processes PROVE Effective(q)' = Effective(q)
    <3>1. CASE t \notin Storers(q)
      <4>1. Storers(q)' = Storers(q) /\ \A u \in Storers(q) : req'[u].read = req[u].read
        BY <1>13, <3>1
      <4>2. cache'[q][Limit] = cache[q][Limit]
        <5>1. ~(q = p /\ Limit = s)
          BY <1>2, <3>1 DEF Storers, Storing, p, s
        <5> QED
          BY <1>6, <1>8, <5>1
      <4>3. CASE Storers(q) = {}
        BY <1>6, <4>1, <4>2, <4>3 DEF Effective
      <4>4. CASE Storers(q) # {}
        <5>1. (CHOOSE u \in Storers(q) : TRUE) \in Storers(q)
          BY <4>4
        <5> QED
          BY <4>1, <4>4, <5>1 DEF Effective
      <4> QED
        BY <4>3, <4>4
    <3>2. CASE t \in Storers(q)
      <4>1. q = p /\ s = Limit /\ ~Contended(t)
        BY <1>15, <3>2 DEF Storers, Storing, p, s
      <4>2. Storers(q) = {t}
        <5>1. \A u \in Storers(q) : u = t
          BY <4>1 DEF Storers, Storing, Contended, p, s
        <5> QED
          BY <3>2, <5>1
      <4>3. Effective(q) = h
        BY <4>2 DEF Effective, h
      <4>4. Storers(q)' = {}
        BY <1>13, <4>2
      <4>5. Effective(q)' = cache'[q][Limit]
        BY <1>6, <4>4 DEF Effective
      <4> QED
        BY <1>6, <1>8, <4>1, <4>3, <4>5
    <3> QED
      BY <3>1, <3>2
  <2>3. \A q \in Processes : /\ Storers(q)' \subseteq Storers(q)
                             /\ \A u \in Storers(q)' : req'[u].read = req[u].read
    BY <1>13
  <2>4. OverwritesAreOld' /\ \A a \in Ages : Clear(a)' => Remembered(a)'
    BY <1>1, <1>2, <2>1, <2>2, <2>3, KeepStep
  <2> QED
    BY <1>11, <2>4 DEF IInv
<1> QED
  BY <1>14, <1>15

\* A history that does not exist is a history.
LEMMA NoHistoryIs == \A s \in Scopes : NoHistory[s] = <<>> /\ HistoryOK(NoHistory[s], s)
<1>1. <<>> \in Seq(Ages) /\ Len(<<>>) = 0 /\ Sorted(<<>>)
  BY DEF Sorted
<1>2. \A s \in Scopes : NoHistory[s] = <<>>
  BY DEF NoHistory
<1>3. \A s \in Scopes : 0 <= Rate[s]
  BY RateAssumption
<1>4. \A s \in Scopes : HistoryOK(<<>>, s)
  BY <1>1, <1>3 DEF HistoryOK
<1> QED
  BY <1>2, <1>4

\* A replaced process knows no history. That matters if it knew one.
LEMMA RestartStep ==
  ASSUME IInv, NEW p \in Processes, Restart(p)
  PROVE  IInv'
<1>1. Shapes
  BY DEF IInv
<1>2. /\ UNCHANGED <<process, known, allowed>> /\ cache' = [cache EXCEPT ![p] = NoHistory]
      /\ req' = [t \in Threads |-> IF process[t] = p THEN Idle ELSE req[t]]
      /\ Blinds(Limit, Knows(p, Limit))
  BY DEF Restart, settings
<1>3. NoHistory \in [Scopes -> Seq(Ages)]
  <2>1. \A s \in Scopes : <<>> \in Seq(Ages)
    OBVIOUS
  <2> QED
    BY <2>1 DEF NoHistory
<1>4. /\ cache' \in [Processes -> [Scopes -> Seq(Ages)]] /\ cache'[p] = NoHistory
      /\ \A q \in Processes \ {p} : cache'[q] = cache[q]
  BY <1>1, <1>2, <1>3 DEF Shapes
<1>5. ASSUME NEW q \in Processes, NEW s \in Scopes PROVE HistoryOK(cache[q][s], s)'
  <2>1. CASE q = p
    BY <1>4, <2>1, NoHistoryIs DEF HistoryOK
  <2>2. CASE q # p
    BY <1>1, <1>4, <2>2 DEF Shapes, HistoryOK
  <2> QED
    BY <2>1, <2>2
<1>6. req' \in [Threads -> {Idle} \cup Requests]
  BY <1>1, <1>2 DEF Shapes
<1>7. ASSUME NEW t \in Threads PROVE req'[t] = Idle \/ RequestOK(req[t])'
  BY <1>1, <1>2 DEF Shapes, RequestOK
<1>8. blind' \in {blind, Window} /\ blind' \in 0 .. Window
  BY <1>1, <1>2, RateAssumption DEF Blinds, Shapes
<1>9. Shapes'
  BY <1>1, <1>2, <1>4, <1>5, <1>6, <1>7, <1>8 DEF Shapes
<1>10. CASE Knows(p, Limit)
  <2>1. blind' = Window
    BY <1>2, <1>10 DEF Blinds
  <2> QED
    BY <1>9, <2>1, LossStep DEF IInv
<1>11. CASE ~Knows(p, Limit)
  <2>1. blind' = blind
    BY <1>2, <1>11 DEF Blinds
  <2>2. Limit' = Limit /\ Limit \in Scopes
    BY <1>2, LimitIs DEF Limit, Throttles
  <2>3. Storers(p) = {} /\ cache[p][Limit] = <<>>
    BY <1>11 DEF Knows, Storers, Storing
  <2>4. ASSUME NEW q \in Processes
        PROVE  /\ Storers(q)' = Storers(q)
               /\ Storers(q) = {} => cache'[q][Limit] = cache[q][Limit]
               /\ \A u \in Storers(q) : req'[u].read = req[u].read
    <3>1. CASE q = p
      <4>1. Storers(q)' = {}
        BY <1>2, <3>1 DEF Storers, Storing, Idle
      <4>2. cache'[q][Limit] = <<>>
        BY <1>4, <2>2, <3>1, NoHistoryIs
      <4> QED
        BY <2>3, <3>1, <4>1, <4>2
    <3>2. CASE q # p
      <4>1. \A t \in Threads : process[t] = q => req'[t] = req[t]
        BY <1>2, <3>2
      <4>2. Storers(q)' = Storers(q)
        BY <1>2, <2>2, <4>1 DEF Storers, Storing, Scope
      <4> QED
        BY <1>4, <3>2, <4>1, <4>2 DEF Storers
    <3> QED
      BY <3>1, <3>2
  <2>5. OverwritesAreOld' /\ \A a \in Ages : Clear(a)' => Remembered(a)'
    BY <1>1, <1>2, <2>1, <2>4, QuietStep
  <2> QED
    BY <1>9, <2>5 DEF IInv
<1> QED
  BY <1>10, <1>11

\* A history that was pushed out of the cache is lost.
LEMMA CullStep ==
  ASSUME IInv, NEW p \in Processes, NEW s \in Scopes, Cull(p, s)
  PROVE  IInv'
<1>1. Shapes
  BY DEF IInv
<1>2. /\ UNCHANGED <<process, known, req, allowed>> /\ Blinds(s, TRUE)
      /\ cache' = [cache EXCEPT ![p][s] = <<>>]
  BY DEF Cull, settings
<1>3. <<>> \in Seq(Ages) /\ Len(<<>>) = 0 /\ Sorted(<<>>)
  BY DEF Sorted
<1>4. /\ cache' \in [Processes -> [Scopes -> Seq(Ages)]]
      /\ \A q \in Processes, c \in Scopes : cache'[q][c] = IF q = p /\ c = s THEN <<>> ELSE cache[q][c]
  <2>1. [cache[p] EXCEPT ![s] = <<>>] \in [Scopes -> Seq(Ages)]
    BY <1>1, <1>3 DEF Shapes
  <2> QED
    BY <1>1, <1>2, <2>1 DEF Shapes
<1>5. ASSUME NEW q \in Processes, NEW c \in Scopes PROVE HistoryOK(cache[q][c], c)'
  <2>1. CASE q = p /\ c = s
    BY <1>3, <1>4, <2>1, RateAssumption DEF HistoryOK
  <2>2. CASE ~(q = p /\ c = s)
    BY <1>1, <1>4, <2>2 DEF Shapes, HistoryOK
  <2> QED
    BY <2>1, <2>2
<1>6. blind' \in {blind, Window} /\ blind' \in 0 .. Window
  BY <1>1, <1>2, RateAssumption DEF Blinds, Shapes
<1>7. Shapes'
  BY <1>1, <1>2, <1>4, <1>5, <1>6 DEF Shapes, RequestOK
<1>8. CASE s = Limit
  <2>1. blind' = Window
    BY <1>2, <1>8 DEF Blinds
  <2> QED
    BY <1>7, <2>1, LossStep DEF IInv
<1>9. CASE s # Limit
  <2>1. blind' = blind /\ Limit' = Limit /\ Limit \in Scopes
    BY <1>2, <1>9, LimitIs DEF Blinds, Limit, Throttles
  <2>2. \A q \in Processes : /\ Storers(q)' = Storers(q) /\ cache'[q][Limit] = cache[q][Limit]
                             /\ \A u \in Storers(q) : req'[u].read = req[u].read
    BY <1>2, <1>4, <1>9, <2>1 DEF Storers, Storing, Scope
  <2>3. OverwritesAreOld' /\ \A a \in Ages : Clear(a)' => Remembered(a)'
    BY <1>1, <1>2, <2>1, <2>2, QuietStep
  <2> QED
    BY <1>7, <2>3 DEF IInv
<1> QED
  BY <1>8, <1>9

\* The shapes a tick later.
LEMMA TickShapes ==
  ASSUME Shapes, Tick
  PROVE  /\ Shapes'
         /\ UNCHANGED <<process, known>> /\ allowed' = Older(allowed)
         /\ \A q \in Processes, s \in Scopes : cache'[q][s] = Older(cache[q][s])
         /\ \A t \in Threads : /\ Storing(t)' <=> Storing(t)
                               /\ Storing(t) => req'[t].read = Older(req[t].read)
         /\ blind' = IF blind = 0 THEN 0 ELSE blind - 1
<1>1. /\ UNCHANGED <<process, known>> /\ allowed' = Older(allowed)
      /\ cache' = [p \in Processes |-> [s \in Scopes |-> Older(cache[p][s])]]
      /\ blind' = IF blind = 0 THEN 0 ELSE blind - 1
      /\ req' = [t \in Threads |-> IF req[t].at = "store" THEN [req[t] EXCEPT !.read = Older(@)] ELSE req[t]]
  BY DEF Tick, settings
<1>2. \A q \in Processes, s \in Scopes : cache'[q][s] = Older(cache[q][s])
  BY <1>1
<1>3. ASSUME NEW q \in Processes, NEW s \in Scopes PROVE HistoryOK(cache[q][s], s)'
  <2> DEFINE h == cache[q][s]
  <2>1. h \in Seq(Ages) /\ Sorted(h) /\ Len(h) <= Rate[s] /\ Len(h) \in Nat /\ Rate[s] \in Nat
    BY RateAssumption, HistoryShape DEF Shapes, HistoryOK
  <2> HIDE DEF h
  <2>2. Older(h) \in Seq(Ages) /\ Sorted(Older(h)) /\ Len(Older(h)) <= Len(h)
    BY <2>1, OlderProperties
  <2>3. Len(Older(h)) \in Nat
    BY <2>2, HistoryShape
  <2>4. Len(Older(h)) <= Rate[s]
    BY <2>1, <2>2, <2>3
  <2> QED
    BY <1>2, <2>2, <2>4 DEF HistoryOK, h
<1>4. cache' \in [Processes -> [Scopes -> Seq(Ages)]]
  BY <1>1, <1>2, <1>3 DEF HistoryOK
<1>5. ASSUME NEW t \in Threads
      PROVE  /\ req'[t] = req[t] \/ (req'[t] \in Requests /\ RequestOK(req[t])')
             /\ Storing(t)' <=> Storing(t)
             /\ Storing(t) => req'[t].read = Older(req[t].read)
  <2>1. CASE req[t].at # "store"
    BY <1>1, <2>1 DEF Storing
  <2>2. CASE req[t].at = "store"
    <3> DEFINE h == req[t].read
               r == [req[t] EXCEPT !.read = Older(h)]
    <3>1. req[t] \in Requests /\ RequestOK(req[t])
      BY <2>2 DEF Shapes, Idle
    <3>2. h \in Seq(Ages) /\ Sorted(h) /\ Len(h) <= Rate[Head(req[t].todo)]
      BY <3>1 DEF RequestOK, Requests
    <3>3. Rate[Head(req[t].todo)] \in Nat
      BY <3>1, TodoIs, RateAssumption
    <3> HIDE DEF h
    <3>4. /\ Older(h) \in Seq(Ages) /\ Sorted(Older(h)) /\ Len(Older(h)) <= Len(h)
          /\ Len(h) \in Nat /\ Len(Older(h)) \in Nat
      BY <3>2, OlderProperties, HistoryShape
    <3>5. /\ r \in Requests /\ r.todo = req[t].todo /\ r.read = Older(h) /\ r.at = "store"
      BY <2>2, <3>1, <3>4 DEF Requests
    <3>6. req'[t] = r
      BY <1>1, <2>2 DEF h
    <3> HIDE DEF r
    <3>7. Len(r.read) <= Rate[Head(r.todo)]
      BY <3>2, <3>3, <3>4, <3>5
    <3>8. RequestOK(req[t])'
      BY <1>1, <3>1, <3>4, <3>5, <3>6, <3>7 DEF RequestOK
    <3>9. Scope(t)' = Scope(t) /\ Limit' = Limit
      BY <1>1, <3>5, <3>6 DEF Scope, Limit, Throttles
    <3> QED
      BY <2>2, <3>5, <3>6, <3>8, <3>9 DEF Storing, h
  <2> QED
    BY <2>1, <2>2
<1>6. req' \in [Threads -> {Idle} \cup Requests]
  BY <1>1, <1>5 DEF Shapes
<1>7. ASSUME NEW t \in Threads PROVE req'[t] = Idle \/ RequestOK(req[t])'
  BY <1>1, <1>5 DEF Shapes, RequestOK
<1>8. allowed' \in Seq(Ages) /\ Sorted(allowed')
  BY <1>1, OlderProperties DEF Shapes
<1>9. blind' \in 0 .. Window
  BY <1>1, RateAssumption DEF Shapes
<1>10. Shapes'
  BY <1>1, <1>3, <1>4, <1>6, <1>7, <1>8, <1>9 DEF Shapes
<1> QED
  BY <1>1, <1>2, <1>5, <1>10

\* A tick later the entries of a history that are not older than some age are those that
\* were not older than the age before; a tick after a loss one more age is clear of it.
LEMMA TickStep ==
  ASSUME IInv, Tick
  PROVE  IInv'
<1>1. Shapes
  BY DEF IInv
<1>2. /\ Shapes'
      /\ UNCHANGED <<process, known>> /\ allowed' = Older(allowed)
      /\ \A q \in Processes, s \in Scopes : cache'[q][s] = Older(cache[q][s])
      /\ \A t \in Threads : (Storing(t)' <=> Storing(t)) /\ (Storing(t) => req'[t].read = Older(req[t].read))
      /\ blind' = IF blind = 0 THEN 0 ELSE blind - 1
  BY <1>1, TickShapes
<1>3. \A q : /\ Storers(q)' = Storers(q)
             /\ \A u \in Storers(q) : u \in Threads /\ req'[u].read = Older(req[u].read)
  BY <1>2 DEF Storers
<1>4. ASSUME NEW q \in Processes PROVE Effective(q)' = Older(Effective(q))
  <2>1. Limit' = Limit /\ Limit \in Scopes
    BY <1>2, LimitIs DEF Limit, Throttles
  <2>2. CASE Storers(q) = {}
    BY <1>2, <1>3, <2>1, <2>2 DEF Effective
  <2>3. CASE Storers(q) # {}
    <3> DEFINE u == CHOOSE t \in Storers(q) : TRUE
    <3>1. u \in Storers(q)
      BY <2>3
    <3>2. Effective(q) = req[u].read /\ Effective(q)' = req'[u].read
      BY <1>3, <2>3 DEF Effective
    <3> HIDE DEF u
    <3> QED
      BY <1>3, <3>1, <3>2
  <2> QED
    BY <2>2, <2>3
<1>5. ASSUME NEW a \in Ages, Clear(a)', a # 0
      PROVE  a - 1 \in Ages /\ Clear(a - 1)
  <2>1. a + blind' < Window /\ a \in Nat /\ blind \in Nat /\ blind' \in Nat /\ Window \in Nat /\ a < Window
    BY <1>1, <1>2, <1>5, RateAssumption DEF Clear, Shapes, Ages
  <2>2. a - 1 \in Nat /\ a - 1 < Window /\ a - 1 + blind < Window
    BY <1>2, <1>5, <2>1
  <2> QED
    BY <2>1, <2>2 DEF Clear, Ages
<1>6. ASSUME NEW s \in Seq(Ages), Sorted(s), NEW a \in Ages
      PROVE  UpTo(Older(s), a) = IF a = 0 THEN 0 ELSE UpTo(s, a - 1)
  BY <1>6, OlderProperties
<1>7. OverwritesAreOld'
  <2> SUFFICES ASSUME NEW q \in Processes, NEW t \in Storers(q)', NEW u \in Storers(q)', t # u,
                      NEW a \in Ages, Clear(a)'
               PROVE  UpTo(req'[t].read, a) = 0
    BY DEF OverwritesAreOld, UpTo
  <2>1. t \in Storers(q) /\ u \in Storers(q) /\ t \in Threads /\ req'[t].read = Older(req[t].read)
    BY <1>3
  <2>2. req[t].read \in Seq(Ages) /\ Sorted(req[t].read)
    <3>1. req[t] # Idle
      BY <2>1 DEF Storers, Storing, Idle
    <3> QED
      BY <1>1, <2>1, <3>1 DEF Shapes, RequestOK, Requests
  <2>3. CASE a = 0
    BY <1>6, <2>1, <2>2, <2>3
  <2>4. CASE a # 0
    <3>1. UpTo(req[t].read, a - 1) = 0
      BY <1>5, <2>1, <2>4 DEF IInv, OverwritesAreOld
    <3> QED
      BY <1>6, <2>1, <2>2, <2>4, <3>1
  <2> QED
    BY <2>3, <2>4
<1>8. ASSUME NEW a \in Ages, Clear(a)' PROVE Remembered(a)'
  <2> DEFINE S == Range(process)
             g == [q \in Processes |-> UpTo(Effective(q)', a)]
  <2>1. Remembered(a)' <=> UpTo(allowed', a) <= SumFunctionOnSet(g, S)
    BY <1>2 DEF Remembered, UpTo
  <2>2. IsFiniteSet(S) /\ S \subseteq Processes
    BY <1>1, ProcessesFinite
  <2>3. allowed \in Seq(Ages) /\ Sorted(allowed) /\ \A q \in Processes : Effective(q) \in Seq(Ages) /\ Sorted(Effective(q))
    BY <1>1, EffectiveIs DEF Shapes, HistoryOK
  <2>4. CASE a = 0
    <3>1. UpTo(allowed', a) = 0
      BY <1>2, <1>6, <2>3, <2>4
    <3>2. \A q \in S : g[q] = 0
      BY <1>4, <1>6, <2>2, <2>3, <2>4
    <3> HIDE DEF g, S
    <3>3. SumFunctionOnSet(g, S) = 0
      BY <2>2, <3>2, SumOfZeros
    <3> QED
      BY <2>1, <3>1, <3>3
  <2>5. CASE a # 0
    <3> DEFINE f == [q \in Processes |-> UpTo(Effective(q), a - 1)]
    <3>1. a - 1 \in Ages /\ Remembered(a - 1)
      BY <1>5, <1>8, <2>5 DEF IInv
    <3>2. UpTo(allowed', a) = UpTo(allowed, a - 1)
      BY <1>2, <1>6, <2>3, <2>5
    <3>3. \A q \in S : g[q] = f[q]
      BY <1>4, <1>6, <2>2, <2>3, <2>5
    <3>4. \A q \in S : f[q] \in Nat
      BY <1>1, <2>2, <3>1, EffectiveUpTo
    <3>5. UpTo(allowed, a - 1) <= SumFunctionOnSet(f, S)
      BY <3>1 DEF Remembered
    <3> HIDE DEF f, g, S
    <3>6. SumFunctionOnSet(g, S) = SumFunctionOnSet(f, S)
      BY <2>2, <3>3, <3>4, SumSame
    <3> QED
      BY <2>1, <3>2, <3>5, <3>6
  <2> QED
    BY <2>4, <2>5
<1> QED
  BY <1>2, <1>7, <1>8 DEF IInv

\* Processes that have just started remember everything: nothing was allowed.
LEMMA InitInvariant == Init => IInv
<1> SUFFICES ASSUME Init PROVE IInv
  OBVIOUS
<1>1. <<>> \in Seq(Ages) /\ Sorted(<<>>)
  BY DEF Sorted
<1>2. NoHistory \in [Scopes -> Seq(Ages)]
  BY <1>1 DEF NoHistory
<1>3. Shapes
  <2>1. \A p \in Processes, s \in Scopes : HistoryOK(cache[p][s], s)
    BY NoHistoryIs DEF Init
  <2> QED
    BY <1>1, <1>2, <2>1, RateAssumption DEF Init, Shapes
<1>4. OverwritesAreOld
  BY DEF Init, OverwritesAreOld, Storers, Storing, Idle
<1>5. ASSUME NEW a \in Ages PROVE Remembered(a)
  <2> DEFINE f == [p \in Processes |-> UpTo(Effective(p), a)]
  <2>1. SumFunctionOnSet(f, Range(process)) \in Nat
    BY <1>3, TogetherIs
  <2>2. UpTo(allowed, a) = 0
    BY UpToEmpty DEF Init
  <2> HIDE DEF f
  <2>3. UpTo(allowed, a) <= SumFunctionOnSet(f, Range(process))
    BY <2>1, <2>2
  <2> QED
    BY <2>3 DEF Remembered, f
<1> QED
  BY <1>3, <1>4, <1>5 DEF IInv

-----------------------------------------------------------------------------
(* The theorems.                                                           *)

\* The inductive invariant holds in every state, for every service.
THEOREM Invariance == Spec => []IInv
<1>1. IInv /\ [Next]_vars => IInv'
  <2>1. IInv /\ UNCHANGED vars => IInv'
    <3> SUFFICES ASSUME IInv, UNCHANGED vars PROVE IInv'
      OBVIOUS
    <3>1. UNCHANGED <<process, known, cache, req, allowed, blind>>
      BY DEF vars, settings
    <3>2. Shapes /\ Shapes'
      BY <3>1 DEF IInv, Shapes, RequestOK, HistoryOK
    <3>3. \A q \in Processes : /\ Storers(q)' = Storers(q) /\ cache'[q][Limit] = cache[q][Limit]
                               /\ \A u \in Storers(q) : req'[u].read = req[u].read
      BY <3>1 DEF Storers, Storing, Scope, Limit, Throttles
    <3>4. OverwritesAreOld' /\ \A a \in Ages : Clear(a)' => Remembered(a)'
      BY <3>1, <3>2, <3>3, QuietStep
    <3> QED
      BY <3>2, <3>4 DEF IInv
  <2> QED
    BY <2>1, ArriveStep, LookupStep, StoreStep, RestartStep, CullStep, TickStep DEF Next, Proceed
<1> QED
  BY InitInvariant, <1>1, PTL DEF Spec

\* Every variable of Throttling keeps its type; no history is longer than its rate.
THEOREM TypeCorrect == Spec => []TypeOK
<1>1. IInv => TypeOK
  BY ShapesAreTyped DEF IInv
<1> QED
  BY Invariance, <1>1, PTL

\* base.py:175, .env.example:59: unless a history was lost within the window, a client is
\* allowed no more in any window than its rate by each of the processes that serve it.
THEOREM RateIsKept == Spec => []AllowedWithinRate
<1>1. IInv => AllowedWithinRate
  <2> SUFFICES ASSUME IInv, blind = 0 PROVE Len(allowed) <= Budget
    BY DEF AllowedWithinRate
  <2> DEFINE S == Range(process)
             f == [p \in Processes |-> UpTo(Effective(p), Window - 1)]
  <2>1. Shapes /\ IsFiniteSet(S) /\ S \subseteq Processes
    BY ProcessesFinite DEF IInv
  <2>2. Window - 1 \in Ages /\ Clear(Window - 1)
    BY AgesAreNumbers, RateAssumption DEF Clear
  <2>3. UpTo(allowed, Window - 1) = Len(allowed)
    BY <2>1, UpToAll DEF Shapes
  <2>4. Len(allowed) <= SumFunctionOnSet(f, S)
    BY <2>2, <2>3 DEF IInv, Remembered
  <2>5. Rate[Limit] \in Nat /\ \A p \in S : f[p] \in 0 .. Rate[Limit]
    BY <2>1, <2>2, EffectiveUpTo, LimitIs, RateAssumption
  <2>6. SumFunctionOnSet(f, S) \in Nat
    BY <2>1, <2>2, TogetherIs
  <2>7. Len(allowed) \in Nat /\ Budget \in Nat
    BY <2>1, BudgetIs, HistoryShape DEF Shapes
  <2> HIDE DEF f, S
  <2>8. SumFunctionOnSet(f, S) <= Rate[Limit] * Cardinality(S)
    BY <2>1, <2>5, SumBounded
  <2>9. SumFunctionOnSet(f, S) <= Budget
    BY <2>8 DEF Budget, S
  <2> QED
    BY <2>4, <2>6, <2>7, <2>9
<1> QED
  BY Invariance, <1>1, PTL
=============================================================================
