---------------------------- MODULE HoldingsProofs ----------------------------
(***************************************************************************)
(* Proofs about Holdings, for any accounts, mints, batch size, queries and *)
(* faults: whatever others do between the requests of a query, what it     *)
(* reports is the answer at one moment.  And about Amounts, for any radix, *)
(* u64, decimals and texts: what is typed is read as the value it denotes, *)
(* and what is printed is read back as the same amount and is shortest.    *)
(***************************************************************************)
EXTENDS Holdings, FiniteSetTheorems, FunctionTheorems, SequenceTheorems,
        WellFoundedInduction, TLAPS

-----------------------------------------------------------------------------
(* The inductive invariant.                                                *)

Chains == [ToSet(Addresses) -> Contents]

ReadingType ==
    /\ held \in Chains /\ then \in Chains
    /\ batch \in Nat \ {0} /\ faulty \in BOOLEAN

Mine(chain, owner) ==
    {a \in ToSet(Addresses) : chain[a] \in Holding /\ chain[a].owner = owner}

\* What a query has in hand is what stood on the chain when it looked, what it knows
\* of a mint are that mint's decimals, and it knows those of all the mints it has come
\* to unless an answer left one out.
FoundInv ==
    /\ at = "reading" => batch = 1 /\ DOMAIN known = {}
    /\ at = "mints" =>
           /\ query.cmd = "token_accounts"
           /\ found = [a \in Mine(then, query.owner) |-> then[a]]
           /\ \A m \in DOMAIN known : known[m] = DecimalsOf[m]
           /\ faulty \/ \A k \in 1..Len(Needed) : k < batch => Needed[k] \in DOMAIN known
    /\ at = "mint" =>
           /\ query.cmd = "token_account"
           /\ then[query.address] \in Holding
           /\ found = [a \in {query.address} |-> then[query.address]]
    /\ at = "own" => query.cmd = "token_balance" /\ IsMint(query.mint)

SessionInv == ReadingType /\ FoundInv /\ ReportIsSnapshot

-----------------------------------------------------------------------------
(* InOrder: an increasing enumeration of the places.                       *)

LEMMA InOrderFacts ==
    ASSUME NEW S, NEW s \in Seq(S), NEW A
    PROVE  /\ InOrder(s, A) \in Seq(S) /\ Len(InOrder(s, A)) \in Nat
           /\ \E e \in [1..Len(InOrder(s, A)) -> 1..Len(s)] :
                /\ \A k \in 1..Len(InOrder(s, A)) :
                       InOrder(s, A)[k] = s[e[k]] /\ s[e[k]] \in A
                /\ \A j, k \in 1..Len(InOrder(s, A)) : j < k => e[j] < e[k]
                /\ \A i \in 1..Len(s) : s[i] \in A =>
                       \E k \in 1..Len(InOrder(s, A)) : e[k] = i
<1> DEFINE P == {i \in DOMAIN s : s[i] \in A}
           n == Cardinality(P)
           Upto(i) == {j \in P : j <= i}
           R == [i \in P |-> Cardinality(Upto(i))]
           e == [k \in 1..n |-> CHOOSE i \in P : Cardinality(Upto(i)) = k]
           t == [k \in 1..n |-> s[e[k]]]
<1>1. Len(s) \in Nat /\ DOMAIN s = 1..Len(s) /\ P \subseteq 1..Len(s)
      /\ \A i \in P : i \in Nat /\ s[i] \in S
  OBVIOUS
<1>2. IsFiniteSet(P) /\ n \in Nat
  <2>1. IsFiniteSet(1..Len(s))
    BY <1>1, FS_Interval
  <2> HIDE DEF P
  <2>2. IsFiniteSet(P)
    BY <1>1, <2>1, FS_Subset
  <2> QED
    BY <2>2, FS_CardinalityType
<1>3. ASSUME NEW i \in P
      PROVE  IsFiniteSet(Upto(i)) /\ R[i] = Cardinality(Upto(i)) /\ R[i] \in 1..n
  <2>1. IsFiniteSet(Upto(i)) /\ Cardinality(Upto(i)) <= n
    BY <1>2, FS_Subset
  <2>2. Cardinality(Upto(i)) \in Nat
    BY <2>1, FS_CardinalityType
  <2>3. i \in Upto(i)
    BY <1>1
  <2>4. Cardinality(Upto(i)) # 0
    BY <2>1, <2>3, FS_EmptySet
  <2> QED
    BY <1>2, <2>1, <2>2, <2>4
<1>4. ASSUME NEW i \in P, NEW j \in P, i < j
      PROVE  R[i] < R[j]
  <2>1. Upto(i) \subseteq Upto(j) /\ j \in Upto(j) /\ j \notin Upto(i)
    BY <1>1, <1>4
  <2>2. Cardinality(Upto(i)) <= Cardinality(Upto(j))
        /\ Cardinality(Upto(i)) # Cardinality(Upto(j))
    BY <1>3, <2>1, FS_Subset
  <2> HIDE DEF P, n, R, Upto
  <2>3. R[i] \in 1..n /\ R[j] \in 1..n
        /\ R[i] = Cardinality(Upto(i)) /\ R[j] = Cardinality(Upto(j))
    BY <1>3
  <2> QED
    BY <2>2, <2>3
<1> HIDE DEF R, Upto
<1>5. \A i, j \in P : R[i] = R[j] => i = j
  <2> SUFFICES ASSUME NEW i \in P, NEW j \in P, R[i] = R[j], i # j PROVE FALSE
    OBVIOUS
  <2>1. i < j \/ j < i
    BY <1>1
  <2>2. R[i] \in Nat /\ R[j] \in Nat
    BY <1>2, <1>3
  <2> QED
    BY <1>4, <2>1, <2>2
<1>6. \A k \in 1..n : \E i \in P : R[i] = k
  <2>1. R \in [P -> 1..n]
    BY <1>3 DEF R
  <2>2. R \in Injection(P, 1..n)
    BY <1>5, <2>1, Fun_IsInj
  <2>3. IsFiniteSet(1..n) /\ Cardinality(1..n) = n
    BY <1>2, FS_Interval
  <2>4. R \in Surjection(P, 1..n)
    BY <2>2, <2>3, FS_Injection
  <2> HIDE DEF P, n
  <2>5. \A k \in 1..n : \E i \in P : R[i] = k
    BY <2>4, Fun_SurjectionProperties, Zenon
  <2> QED
    BY <2>5
<1>7. \A k \in 1..n : e[k] \in P /\ R[e[k]] = k
  <2> TAKE k \in 1..n
  <2>1. \E i \in P : Cardinality(Upto(i)) = k
    BY <1>3, <1>6
  <2>2. e[k] \in P /\ Cardinality(Upto(e[k])) = k
    BY <2>1
  <2> QED
    BY <1>3, <2>2
<1>8. ASSUME NEW j \in 1..n, NEW k \in 1..n, j < k
      PROVE  e[j] < e[k]
  <2>1. e[j] \in Nat /\ e[k] \in Nat /\ e[j] # e[k]
    <3>1. e[j] \in P /\ e[k] \in P /\ R[e[j]] = j /\ R[e[k]] = k
      BY <1>7
    <3>2. e[j] \in Nat /\ e[k] \in Nat
      <4> HIDE DEF P, e, n
      <4> QED
        BY <1>1, <3>1
    <3>3. j # k
      BY <1>2, <1>8
    <3> QED
      <4> HIDE DEF P, e, n
      <4> QED
        BY <3>1, <3>2, <3>3
  <2>2. ~(e[k] < e[j])
    <3> SUFFICES ASSUME e[k] < e[j] PROVE FALSE
      OBVIOUS
    <3>1. R[e[k]] < R[e[j]]
      BY <1>4, <1>7
    <3> QED
      BY <1>2, <1>7, <1>8, <3>1
  <2> QED
    BY <2>1, <2>2
<1>9. ASSUME NEW i \in 1..Len(s), s[i] \in A
      PROVE  \E k \in 1..n : e[k] = i
  <2>1. i \in P /\ R[i] \in 1..n
    BY <1>1, <1>3, <1>9
  <2>2. e[R[i]] = i
    BY <1>5, <1>7, <2>1
  <2> QED
    BY <2>1, <2>2
<1>10. InOrder(s, A) = t
  BY DEF InOrder, Upto
<1>11. e \in [1..n -> 1..Len(s)]
  BY <1>1, <1>7
<1>12. \A k \in 1..n : t[k] = s[e[k]] /\ s[e[k]] \in A /\ s[e[k]] \in S
  BY <1>1, <1>7
<1> HIDE DEF e, n
<1>13. t \in Seq(S) /\ Len(t) = n
  BY <1>2, <1>12
<1> HIDE DEF P, t
<1> QED
  BY <1>2, <1>8, <1>9, <1>10, <1>11, <1>12, <1>13

\* All of A that occurs in s, each once, in the order of s.
LEMMA InOrderLists ==
    ASSUME NEW S, NEW s \in Seq(S), NEW A, IsInjective(s)
    PROVE  LET t == InOrder(s, A)
           IN  /\ t \in Seq(S) /\ Len(t) \in Nat
               /\ ToSet(t) = ToSet(s) \cap A
               /\ \A j, k \in 1..Len(t) : t[j] = t[k] => j = k
               /\ \A j, k \in 1..Len(t) : j < k =>
                      \E m, n \in DOMAIN s : m < n /\ s[m] = t[j] /\ s[n] = t[k]
<1> DEFINE t == InOrder(s, A)
<1>1. t \in Seq(S) /\ Len(t) \in Nat /\ DOMAIN t = 1..Len(t)
      /\ Len(s) \in Nat /\ DOMAIN s = 1..Len(s)
  BY InOrderFacts
<1>2. PICK e \in [1..Len(t) -> 1..Len(s)] :
          /\ \A k \in 1..Len(t) : t[k] = s[e[k]] /\ s[e[k]] \in A
          /\ \A j, k \in 1..Len(t) : j < k => e[j] < e[k]
          /\ \A i \in 1..Len(s) : s[i] \in A => \E k \in 1..Len(t) : e[k] = i
  BY InOrderFacts
<1> HIDE DEF t
<1>3. ToSet(t) = ToSet(s) \cap A
  <2>1. ASSUME NEW x \in ToSet(t)
        PROVE  x \in ToSet(s) \cap A
    <3>1. PICK k \in 1..Len(t) : t[k] = x
      BY <1>1 DEF ToSet
    <3>2. e[k] \in DOMAIN s /\ s[e[k]] = x /\ x \in A
      BY <1>1, <1>2, <3>1
    <3> QED
      BY <3>2 DEF ToSet
  <2>2. ASSUME NEW x \in ToSet(s) \cap A
        PROVE  x \in ToSet(t)
    <3>1. PICK i \in 1..Len(s) : s[i] = x
      BY <1>1 DEF ToSet
    <3>2. PICK k \in 1..Len(t) : e[k] = i
      BY <1>2, <3>1
    <3>3. t[k] = x /\ k \in DOMAIN t
      BY <1>1, <1>2, <3>1, <3>2
    <3> QED
      BY <3>3 DEF ToSet
  <2> QED
    BY <2>1, <2>2
<1>4. ASSUME NEW j \in 1..Len(t), NEW k \in 1..Len(t), j < k
      PROVE  /\ t[j] # t[k]
             /\ \E m, n \in DOMAIN s : m < n /\ s[m] = t[j] /\ s[n] = t[k]
  <2>1. e[j] < e[k] /\ e[j] \in DOMAIN s /\ e[k] \in DOMAIN s
        /\ t[j] = s[e[j]] /\ t[k] = s[e[k]]
    BY <1>1, <1>2, <1>4
  <2>2. e[j] # e[k]
    BY <1>1, <2>1
  <2>3. s[e[j]] # s[e[k]]
    BY <2>1, <2>2 DEF IsInjective
  <2> QED
    BY <2>1, <2>3
<1>5. ASSUME NEW j \in 1..Len(t), NEW k \in 1..Len(t), t[j] = t[k]
      PROVE  j = k
  <2>1. ~(j < k) /\ ~(k < j)
    BY <1>4, <1>5
  <2> QED
    BY <1>1, <2>1
<1> QED
  BY <1>1, <1>3, <1>4, <1>5 DEF t

\* As many entries as values.
LEMMA DistinctCount ==
    ASSUME NEW n \in Nat, NEW f, DOMAIN f = 1..n, \A j, k \in 1..n : f[j] = f[k] => j = k
    PROVE  Cardinality(ToSet(f)) = n
<1>1. ToSet(f) = {f[i] : i \in 1..n}
  BY DEF ToSet
<1> DEFINE g == [i \in 1..n |-> f[i]]
<1>2. g \in [1..n -> ToSet(f)] /\ (\A j, k \in 1..n : g[j] = g[k] => j = k)
      /\ \A x \in ToSet(f) : \E i \in 1..n : g[i] = x
  BY <1>1
<1> HIDE DEF g
<1>3. g \in Bijection(1..n, ToSet(f))
  BY <1>2, Fun_IsBij
<1>4. ExistsBijection(1..n, ToSet(f))
  BY <1>3, Fun_ExistsBij
<1> QED
  BY <1>4, FS_CountingElements

-----------------------------------------------------------------------------
(* What a query has read.                                                  *)

LEMMA LineOf ==
    ASSUME NEW line
    PROVE  /\ ToSet(<<line>>) = {line} /\ Len(<<line>>) = Cardinality({line})
           /\ \A i, k \in DOMAIN <<line>> : ~(i < k)
<1>1. DOMAIN <<line>> = {1} /\ <<line>>[1] = line /\ Len(<<line>>) = 1
  OBVIOUS
<1>2. ToSet(<<line>>) = {line}
  BY <1>1 DEF ToSet
<1>3. Cardinality({line}) = 1
  BY FS_Singleton
<1> QED
  BY <1>1, <1>2, <1>3

LEMMA AccountsAnswer ==
    ASSUME NEW q, NEW chain, q.cmd = "token_accounts"
    PROVE  Answer(q, chain) =
               {Line(a, chain[a].amount, DecimalsOf[chain[a].mint]) : a \in Mine(chain, q.owner)}
BY DEF Answer, Mine

LEMMA AccountAnswer ==
    ASSUME NEW q, NEW chain, q.cmd = "token_account"
    PROVE  Answer(q, chain) =
               IF chain[q.address] \in Holding
               THEN {Line(q.address, chain[q.address].amount, DecimalsOf[chain[q.address].mint])}
               ELSE {}
BY DEF Answer

LEMMA BalanceAnswer ==
    ASSUME NEW q, NEW chain, q.cmd = "token_balance", IsMint(q.mint),
           chain[q.address] \in Contents
    PROVE  Answer(q, chain) =
               IF chain[q.address] # NoHolding =>
                      /\ chain[q.address] \in Holding
                      /\ chain[q.address].mint = q.mint /\ chain[q.address].owner = q.owner
               THEN {Line(q.address, chain[q.address].amount, DecimalsOf[q.mint])} ELSE {}
BY DEF Answer

\* The list of what was found is the answer, each account once and in order.
LEMMA ListIsAnswer ==
    ASSUME ReadingType, FoundInv, at = "mints",
           \A a \in DOMAIN found : found[a].mint \in DOMAIN known,
           lines' = [i \in DOMAIN Listed |-> LET h == found[Listed[i]]
                                            IN  Line(Listed[i], h.amount, known[h.mint])]
    PROVE  /\ ToSet(lines') = Answer(query, then)
           /\ Len(lines') = Cardinality(Answer(query, then))
           /\ \A i, k \in DOMAIN lines' : i < k =>
                  \E m, n \in DOMAIN Addresses : /\ m < n
                                                 /\ Addresses[m] = lines'[i].address
                                                 /\ Addresses[n] = lines'[k].address
<1> DEFINE M == Mine(then, query.owner)
           L == Listed
<1>1. query.cmd = "token_accounts" /\ found = [a \in M |-> then[a]] /\ DOMAIN found = M
      /\ M \subseteq ToSet(Addresses)
  BY DEF FoundInv, Mine
<1>2. Addresses \in Seq(ToSet(Addresses)) /\ IsInjective(Addresses)
  BY AddressesAssumption
<1>3. /\ L \in Seq(ToSet(Addresses)) /\ Len(L) \in Nat
      /\ ToSet(L) = M
      /\ \A j, k \in 1..Len(L) : L[j] = L[k] => j = k
      /\ \A j, k \in 1..Len(L) : j < k =>
             \E m, n \in DOMAIN Addresses : m < n /\ Addresses[m] = L[j] /\ Addresses[n] = L[k]
  <2>1. L = InOrder(Addresses, M)
    BY <1>1 DEF Listed
  <2>2. /\ InOrder(Addresses, M) \in Seq(ToSet(Addresses)) /\ Len(InOrder(Addresses, M)) \in Nat
        /\ ToSet(InOrder(Addresses, M)) = ToSet(Addresses) \cap M
        /\ \A j, k \in 1..Len(InOrder(Addresses, M)) :
               InOrder(Addresses, M)[j] = InOrder(Addresses, M)[k] => j = k
        /\ \A j, k \in 1..Len(InOrder(Addresses, M)) : j < k =>
               \E m, n \in DOMAIN Addresses :
                   m < n /\ Addresses[m] = InOrder(Addresses, M)[j]
                         /\ Addresses[n] = InOrder(Addresses, M)[k]
    BY <1>2, InOrderLists
  <2>3. ToSet(Addresses) \cap M = M
    BY <1>1
  <2> HIDE DEF L, M
  <2> QED
    BY <2>1, <2>2, <2>3
<1> HIDE DEF L, M
<1>4. DOMAIN L = 1..Len(L) /\ \A i \in 1..Len(L) : L[i] \in M
  BY <1>3 DEF ToSet
<1>5. /\ lines' = [i \in 1..Len(L) |->
                     Line(L[i], then[L[i]].amount, DecimalsOf[then[L[i]].mint])]
      /\ DOMAIN lines' = 1..Len(L) /\ \A i \in 1..Len(L) : lines'[i].address = L[i]
  <2>1. \A i \in 1..Len(L) : /\ found[L[i]] = then[L[i]]
                             /\ known[then[L[i]].mint] = DecimalsOf[then[L[i]].mint]
    BY <1>1, <1>4 DEF FoundInv
  <2> QED
    BY <1>4, <2>1 DEF L, Line
<1>6. Answer(query, then) = {Line(a, then[a].amount, DecimalsOf[then[a].mint]) : a \in M}
  BY <1>1, AccountsAnswer DEF M
<1>7. ToSet(lines') = Answer(query, then)
  <2>1. ToSet(lines') = {lines'[i] : i \in 1..Len(L)}
    BY <1>5 DEF ToSet
  <2>2. M = {L[i] : i \in 1..Len(L)}
    BY <1>3, <1>4 DEF ToSet
  <2> QED
    BY <1>5, <1>6, <2>1, <2>2
<1>8. \A j, k \in 1..Len(L) : lines'[j] = lines'[k] => j = k
  BY <1>3, <1>5
<1>9. Cardinality(ToSet(lines')) = Len(L)
  BY <1>3, <1>5, <1>8, DistinctCount
<1>10. Len(lines') = Len(L)
  BY <1>3, <1>5
<1>11. \A i, k \in DOMAIN lines' : i < k =>
           \E m, n \in DOMAIN Addresses : /\ m < n
                                          /\ Addresses[m] = lines'[i].address
                                          /\ Addresses[n] = lines'[k].address
  BY <1>3, <1>5
<1> QED
  BY <1>7, <1>9, <1>10, <1>11

\* Once all batches have been read, a mint is missing only if an answer was
\* incomplete.
LEMMA AllKnown ==
    ASSUME ReadingType, FoundInv, at = "mints", batch > Len(Needed), ~faulty
    PROVE  \A a \in DOMAIN found : found[a].mint \in DOMAIN known
<1> SUFFICES ASSUME NEW a \in DOMAIN found PROVE found[a].mint \in DOMAIN known
  OBVIOUS
<1> DEFINE W == {found[b].mint : b \in DOMAIN found}
           x == found[a].mint
<1>1. x \in ToSet(Mints)
  <2>1. a \in ToSet(Addresses) /\ found[a] = then[a] /\ then[a] \in Holding
    BY DEF FoundInv, Mine
  <2> QED
    BY <2>1 DEF Holding
<1>2. /\ ToSet(InOrder(Mints, W)) = ToSet(Mints) \cap W
      /\ InOrder(Mints, W) \in Seq(ToSet(Mints))
  BY AddressesAssumption, InOrderLists
<1>3. Needed = InOrder(Mints, W)
  BY DEF Needed
<1>4. x \in W
  OBVIOUS
<1> HIDE DEF W, x
<1>5. PICK k \in 1..Len(Needed) : Needed[k] = x
  BY <1>1, <1>2, <1>3, <1>4 DEF ToSet
<1>6. Len(Needed) \in Nat /\ k < batch
  BY <1>2, <1>3 DEF ReadingType
<1>7. Needed[k] \in DOMAIN known
  BY <1>5, <1>6 DEF FoundInv
<1> QED
  BY <1>5, <1>7 DEF x

LEMMA NeededType == Needed \in Seq(ToSet(Mints)) /\ Len(Needed) \in Nat
<1>1. InOrder(Mints, {found[a].mint : a \in DOMAIN found}) \in Seq(ToSet(Mints))
  BY AddressesAssumption, InOrderLists
<1> QED
  BY <1>1 DEF Needed

\* The batch goes as far as the next one begins, or to the end.
LEMMA BatchReaches ==
    ASSUME batch \in Nat \ {0}, batch <= Len(Needed)
    PROVE  /\ Len(Batch) \in Nat
           /\ \A k \in 1..Len(Needed) : batch <= k /\ k < batch + BatchSize =>
                  \E i \in 1..Len(Batch) : Needed[k] = Batch[i]
<1> DEFINE N == Len(Needed)
           hi == Min({batch + BatchSize - 1, N})
<1>1. N \in Nat /\ BatchSize \in Nat \ {0} /\ Needed \in Seq(ToSet(Mints))
  BY NeededType, HoldingsAssumption
<1>2. hi \in {batch + BatchSize - 1, N} /\ hi <= batch + BatchSize - 1 /\ hi <= N
  <2> DEFINE S == {batch + BatchSize - 1, N}
  <2>1. \E x \in S : \A y \in S : x <= y
    BY <1>1
  <2>2. Min(S) \in S /\ \A y \in S : Min(S) <= y
    BY <2>1 DEF Min
  <2> QED
    BY <2>2
<1> HIDE DEF hi
<1>3. Batch = SubSeq(Needed, batch, hi)
  BY DEF Batch, hi
<1>4. hi \in Nat /\ batch <= hi
  BY <1>1, <1>2
<1>5. Len(Batch) = hi - batch + 1 /\ \A i \in 1..hi - batch + 1 : Batch[i] = Needed[batch + i - 1]
  BY <1>1, <1>2, <1>3, <1>4, SubSeqProperties
<1>6. ASSUME NEW k \in 1..Len(Needed), batch <= k, k < batch + BatchSize
      PROVE  \E i \in 1..Len(Batch) : Needed[k] = Batch[i]
  <2> DEFINE i == k - batch + 1
  <2>1. k <= hi
    BY <1>1, <1>2, <1>6
  <2>2. i \in 1..Len(Batch) /\ batch + i - 1 = k
    BY <1>4, <1>5, <1>6, <2>1
  <2> QED
    BY <1>5, <2>2
<1> QED
  BY <1>4, <1>5, <1>6

-----------------------------------------------------------------------------
(* Each step.                                                              *)

LEMMA FetchAccountsStep ==
    ASSUME SessionInv, FetchAccounts
    PROVE  SessionInv'
<1>1. /\ at = "reading" /\ query.cmd = "token_accounts" /\ at' = "mints"
      /\ found' = [a \in OwnedBy(query.owner) |-> held[a]] /\ then' = held
      /\ UNCHANGED <<held, query, known, batch, lines, faulty, turns>>
  BY DEF FetchAccounts, Goto
<1>2. OwnedBy(query.owner) = Mine(then', query.owner)
  BY <1>1 DEF OwnedBy, Mine, IsToken
<1>3. ReadingType' /\ ReportIsSnapshot'
  BY <1>1 DEF SessionInv, ReadingType, ReportIsSnapshot
<1>4. batch = 1 /\ DOMAIN known = {}
  BY <1>1 DEF SessionInv, FoundInv
<1>5. Needed' \in Seq(ToSet(Mints)) /\ Len(Needed') \in Nat
  <2>1. InOrder(Mints, {found'[a].mint : a \in DOMAIN found'}) \in Seq(ToSet(Mints))
    BY AddressesAssumption, InOrderLists
  <2> QED
    BY <2>1 DEF Needed
<1>6. FoundInv'
  BY <1>1, <1>2, <1>4, <1>5 DEF FoundInv
<1> QED
  BY <1>3, <1>6 DEF SessionInv

\* Each address keeps the answer that was given for it.
LEMMA AnswerInserted ==
    ASSUME NEW n \in Nat, \A m \in DOMAIN known : known[m] = DecimalsOf[m],
           known' = Inserted([i \in 1..n |-> DecimalsOf[Batch[i]]])
    PROVE  /\ \A i \in 1..n : Batch[i] \in DOMAIN known'
           /\ DOMAIN known \subseteq DOMAIN known'
           /\ \A m \in DOMAIN known' : known'[m] = DecimalsOf[m]
<1> DEFINE infos == [i \in 1..n |-> DecimalsOf[Batch[i]]]
           asked == {Batch[i] : i \in 1..n}
           place(m) == CHOOSE i \in 1..n : Batch[i] = m
<1>1. known' = [m \in DOMAIN known \cup asked |->
                   IF m \in asked THEN infos[place(m)] ELSE known[m]]
  BY DEF Inserted, Zipped
<1>2. \A m \in asked : place(m) \in 1..n /\ Batch[place(m)] = m
  OBVIOUS
<1>3. \A m \in asked : infos[place(m)] = DecimalsOf[m]
  BY <1>2
<1>4. \A i \in 1..n : Batch[i] \in asked
  OBVIOUS
<1> HIDE DEF infos, asked, place
<1> QED
  BY <1>1, <1>3, <1>4

LEMMA FetchMintsStep ==
    ASSUME SessionInv, FetchMints
    PROVE  SessionInv'
<1>1. /\ at = "mints" /\ batch <= Len(Needed)
      /\ UNCHANGED <<held, query, found, lines, then, turns>>
  BY DEF FetchMints
<1>2. PICK n \in 0..Len(Batch), bad \in BOOLEAN :
         /\ IF bad THEN Fail /\ UNCHANGED <<known, batch>>
            ELSE /\ known' = Inserted([i \in 1..n |-> DecimalsOf[Batch[i]]])
                 /\ batch' = NextBatch
                 /\ UNCHANGED <<text, decimals, amount, shown, at>>
         /\ faulty' = (faulty \/ bad \/ n < Len(Batch))
  BY DEF FetchMints
<1>3. batch \in Nat \ {0} /\ BatchSize \in Nat \ {0} /\ Len(Needed) \in Nat /\ faulty \in BOOLEAN
  BY NeededType, HoldingsAssumption DEF SessionInv, ReadingType
<1>4. CASE bad
  <2>1. at' = "failed" /\ faulty' = TRUE /\ batch' = batch
    BY <1>2, <1>4 DEF Fail
  <2> QED
    BY <1>1, <1>3, <2>1 DEF SessionInv, ReadingType, FoundInv, ReportIsSnapshot
<1>5. CASE ~bad
  <2>1. /\ at' = "mints" /\ batch' = batch + BatchSize
        /\ known' = Inserted([i \in 1..n |-> DecimalsOf[Batch[i]]])
        /\ faulty' = (faulty \/ n < Len(Batch)) /\ faulty' \in BOOLEAN
    BY <1>1, <1>2, <1>3, <1>5 DEF NextBatch
  <2>6. /\ \A i \in 1..n : Batch[i] \in DOMAIN known'
        /\ DOMAIN known \subseteq DOMAIN known'
        /\ \A m \in DOMAIN known' : known'[m] = DecimalsOf[m]
    BY <1>1, <2>1, AnswerInserted DEF SessionInv, FoundInv
  <2>2. Needed' = Needed
    BY <1>1 DEF Needed
  <2>3. ASSUME ~faulty', NEW k \in 1..Len(Needed), k < batch'
        PROVE  Needed[k] \in DOMAIN known'
    <3>1. ~faulty /\ n = Len(Batch)
      <4>1. ~faulty /\ ~(n < Len(Batch))
        BY <2>1, <2>3, Zenon
      <4>2. Len(Batch) \in Nat
        BY <1>1, <1>3, BatchReaches
      <4> QED
        BY <4>1, <4>2
    <3>2. CASE k < batch
      <4>1. Needed[k] \in DOMAIN known
        BY <1>1, <2>3, <3>1, <3>2 DEF SessionInv, FoundInv
      <4> QED
        BY <2>6, <4>1
    <3>3. CASE ~(k < batch)
      <4>1. batch <= k /\ k < batch + BatchSize
        BY <1>3, <2>1, <2>3, <3>3
      <4>2. PICK i \in 1..Len(Batch) : Needed[k] = Batch[i]
        BY <1>1, <1>3, <4>1, BatchReaches
      <4> QED
        BY <2>6, <3>1, <4>2
    <3> QED
      BY <3>2, <3>3
  <2>4. FoundInv'
    BY <1>1, <2>1, <2>2, <2>3, <2>6 DEF SessionInv, FoundInv
  <2>5. ReadingType' /\ ReportIsSnapshot'
    BY <1>1, <1>3, <2>1 DEF SessionInv, ReadingType, ReportIsSnapshot
  <2> QED
    BY <2>4, <2>5 DEF SessionInv
<1> QED
  BY <1>4, <1>5

LEMMA AssembleStep ==
    ASSUME SessionInv, Assemble
    PROVE  SessionInv'
<1>1. /\ at = "mints" /\ batch > Len(Needed)
      /\ UNCHANGED <<held, query, found, known, batch, then, faulty, turns>>
  BY DEF Assemble
<1>2. ReadingType'
  BY <1>1 DEF SessionInv, ReadingType
<1>3. CASE \A a \in DOMAIN found : found[a].mint \in DOMAIN known
  <2>1. /\ lines' = [i \in DOMAIN Listed |-> LET h == found[Listed[i]]
                                            IN  Line(Listed[i], h.amount, known[h.mint])]
        /\ at' = "reported"
    BY <1>3 DEF Assemble, Goto
  <2>2. /\ ToSet(lines') = Answer(query, then)
        /\ Len(lines') = Cardinality(Answer(query, then))
        /\ \A i, k \in DOMAIN lines' : i < k =>
               \E m, n \in DOMAIN Addresses : /\ m < n
                                              /\ Addresses[m] = lines'[i].address
                                              /\ Addresses[n] = lines'[k].address
    BY <1>1, <1>3, <2>1, ListIsAnswer DEF SessionInv
  <2>3. ReportIsSnapshot'
    BY <1>1, <2>1, <2>2 DEF ReportIsSnapshot
  <2>4. FoundInv'
    BY <2>1 DEF FoundInv
  <2> QED
    BY <1>2, <2>3, <2>4 DEF SessionInv
<1>4. CASE ~ \A a \in DOMAIN found : found[a].mint \in DOMAIN known
  <2>1. at' = "failed" /\ faulty
    BY <1>1, <1>4, AllKnown DEF Assemble, Fail, SessionInv
  <2> QED
    BY <1>1, <1>2, <2>1 DEF SessionInv, FoundInv, ReportIsSnapshot
<1> QED
  BY <1>3, <1>4

LEMMA ReadAccountStep ==
    ASSUME SessionInv, ReadAccount
    PROVE  SessionInv'
<1>1. /\ at = "reading" /\ query.cmd = "token_account" /\ then' = held
      /\ UNCHANGED <<held, query, known, batch, lines, faulty, turns>>
  BY DEF ReadAccount
<1>2. ReadingType'
  BY <1>1 DEF SessionInv, ReadingType
<1>3. CASE held[query.address] \in Holding
  <2>1. at' = "mint" /\ found' = [a \in {query.address} |-> held[a]]
    BY <1>3 DEF ReadAccount, IsToken, Goto
  <2> QED
    BY <1>1, <1>2, <1>3, <2>1 DEF SessionInv, FoundInv, ReportIsSnapshot
<1>4. CASE held[query.address] \notin Holding
  <2>1. at' = "failed"
    BY <1>4 DEF ReadAccount, IsToken, Fail
  <2>2. Answer(query, held) = {}
    BY <1>1, <1>4, AccountAnswer
  <2>3. ReportIsSnapshot'
    BY <1>1, <2>1, <2>2 DEF ReportIsSnapshot
  <2> QED
    BY <1>2, <2>1, <2>3 DEF SessionInv, FoundInv
<1> QED
  BY <1>3, <1>4

\* A report of one line.
LEMMA OneLine ==
    ASSUME SessionInv, NEW line, lines' = <<line>>, at' = "reported",
           Answer(query, then)' = {line}, ReadingType'
    PROVE  SessionInv'
<1>1. ToSet(lines') = {line} /\ Len(lines') = Cardinality({line})
      /\ \A i, k \in DOMAIN lines' : ~(i < k)
  BY LineOf
<1>2. ReportIsSnapshot'
  BY <1>1 DEF ReportIsSnapshot
<1>3. FoundInv'
  BY DEF FoundInv
<1> QED
  BY <1>2, <1>3 DEF SessionInv

LEMMA ReadItsMintStep ==
    ASSUME SessionInv, ReadItsMint
    PROVE  SessionInv'
<1> DEFINE h == found[query.address]
           line == Line(query.address, h.amount, DecimalsOf[h.mint])
<1>1. /\ at = "mint" /\ query.cmd = "token_account" /\ at' = "reported"
      /\ lines' = <<line>>
      /\ UNCHANGED <<held, query, found, known, batch, then, faulty, turns>>
  BY DEF ReadItsMint, Goto
<1>2. h = then[query.address] /\ then[query.address] \in Holding
  BY <1>1 DEF SessionInv, FoundInv
<1>3. Answer(query, then) = {line}
  BY <1>1, <1>2, AccountAnswer
<1>4. ReadingType'
  BY <1>1 DEF SessionInv, ReadingType
<1>5. Answer(query, then)' = Answer(query, then)
  BY <1>1 DEF Answer
<1> HIDE DEF line
<1> QED
  BY <1>1, <1>3, <1>4, <1>5, OneLine

LEMMA ReadMintStep ==
    ASSUME SessionInv, ReadMint
    PROVE  SessionInv'
<1>1. /\ at = "reading" /\ query.cmd = "token_balance"
      /\ UNCHANGED <<held, query, found, known, batch, lines, then, faulty, turns>>
  BY DEF ReadMint, reading
<1>2. ReadingType'
  BY <1>1 DEF SessionInv, ReadingType
<1>3. CASE IsMint(query.mint)
  <2>1. at' = "own"
    BY <1>3 DEF ReadMint, Goto
  <2> QED
    BY <1>1, <1>2, <1>3, <2>1 DEF SessionInv, FoundInv, ReportIsSnapshot
<1>4. CASE ~IsMint(query.mint)
  <2>1. at' = "failed"
    BY <1>4 DEF ReadMint, Fail
  <2>2. Answer(query, then) = {}
    BY <1>1, <1>4 DEF Answer
  <2>3. ReportIsSnapshot'
    BY <1>1, <2>1, <2>2 DEF ReportIsSnapshot
  <2> QED
    BY <1>2, <2>1, <2>3 DEF SessionInv, FoundInv
<1> QED
  BY <1>3, <1>4

LEMMA ReadOwnStep ==
    ASSUME SessionInv, query \in Queries, ReadOwn
    PROVE  SessionInv'
<1> DEFINE h == held[query.address]
           line == Line(query.address, h.amount, DecimalsOf[query.mint])
<1>1. /\ at = "own" /\ then' = held
      /\ UNCHANGED <<held, query, found, known, batch, faulty, turns>>
  BY DEF ReadOwn
<1>2. query.cmd = "token_balance" /\ IsMint(query.mint)
  BY <1>1 DEF SessionInv, FoundInv
<1>3. h \in Contents
  BY <1>2, HoldingsAssumption DEF SessionInv, ReadingType, Chains
<1>4. ReadingType'
  BY <1>1 DEF SessionInv, ReadingType
<1>5. Answer(query, then)' = IF h # NoHolding => IsOwn(h) THEN {line} ELSE {}
  <2>1. Answer(query, held) = IF h # NoHolding => IsOwn(h) THEN {line} ELSE {}
    BY <1>2, <1>3, BalanceAnswer DEF IsOwn, IsToken
  <2>2. Answer(query, then)' = Answer(query, held)
    BY <1>1 DEF Answer
  <2> QED
    BY <2>1, <2>2
<1>6. CASE h # NoHolding => IsOwn(h)
  <2>1. at' = "reported" /\ lines' = <<line>>
    BY <1>6 DEF ReadOwn, Exists, Goto
  <2> HIDE DEF line, h
  <2> QED
    BY <1>4, <1>5, <1>6, <2>1, OneLine
<1>7. CASE ~(h # NoHolding => IsOwn(h))
  <2>1. at' = "failed" /\ query'.cmd # "token_accounts"
    BY <1>1, <1>2, <1>7 DEF ReadOwn, Exists, Fail
  <2>2. ReportIsSnapshot'
    BY <1>5, <1>7, <2>1 DEF ReportIsSnapshot
  <2> QED
    BY <1>4, <2>1, <2>2 DEF SessionInv, FoundInv
<1> QED
  BY <1>6, <1>7

LEMMA OtherStep ==
    ASSUME SessionInv, RequestFails \/ OthersAct \/ PrintLine \/ (Next /\ UNCHANGED reading)
    PROVE  SessionInv'
<1>1. CASE RequestFails
  <2>1. at' = "failed" /\ faulty' = TRUE
        /\ UNCHANGED <<held, query, found, known, batch, lines, then, turns>>
    BY <1>1 DEF RequestFails, Fail
  <2> QED
    BY <2>1 DEF SessionInv, ReadingType, FoundInv, ReportIsSnapshot
<1>2. CASE OthersAct
  <2>1. at \in {"reading", "mints", "mint", "own"} /\ UNCHANGED at
        /\ UNCHANGED <<query, found, known, batch, lines, then, faulty>>
    BY <1>2 DEF OthersAct, vars
  <2>2. PICK a \in ToSet(Addresses), h \in Contents :
            held' = [held EXCEPT ![a] = h]
    BY <1>2 DEF OthersAct
  <2>3. held' \in Chains
    BY <2>2 DEF SessionInv, ReadingType, Chains
  <2>4. Needed' = Needed
    BY <2>1 DEF Needed
  <2> QED
    BY <2>1, <2>3, <2>4 DEF SessionInv, ReadingType, FoundInv, ReportIsSnapshot
<1>3. CASE PrintLine
  BY <1>3 DEF PrintLine, reading, SessionInv, ReadingType, FoundInv, ReportIsSnapshot
<1>4. CASE Next /\ UNCHANGED reading
  <2>1. at' \in {"refused", "parsed", "shown", "typed"}
        /\ UNCHANGED <<held, query, found, known, batch, lines, then, faulty>>
    BY <1>4 DEF Next, Parse, Show, Retype, reading
  <2> QED
    BY <2>1 DEF SessionInv, ReadingType, FoundInv, ReportIsSnapshot
<1> QED
  BY <1>1, <1>2, <1>3, <1>4

-----------------------------------------------------------------------------
(* Theorems.                                                               *)

QueryInv == query \in Queries /\ SessionInv

LEMMA Fresh ==
    ASSUME held \in Chains, then \in Chains, batch = 1, faulty = FALSE
    PROVE  ReadingType
<1>1. faulty \in BOOLEAN
  BY Zenon
<1>2. batch \in Nat \ {0}
  OBVIOUS
<1> QED
  BY <1>1, <1>2 DEF ReadingType

LEMMA SessionInitially == SessionInit => QueryInv
<1> SUFFICES ASSUME SessionInit PROVE QueryInv
  OBVIOUS
<1>1. CASE ReadingInit
  <2>1. /\ at = "reading" /\ held \in InitialHoldings /\ then = held /\ query \in Queries
        /\ batch = 1 /\ faulty = FALSE /\ known = <<>> /\ DOMAIN known = {}
    BY <1>1 DEF ReadingInit, Blank
  <2>2. held \in Chains /\ then \in Chains
    BY <2>1, HoldingsAssumption DEF Chains
  <2>3. ReadingType
    BY <2>1, <2>2, Fresh
  <2> QED
    BY <2>1, <2>3 DEF QueryInv, SessionInv, FoundInv, ReportIsSnapshot
<1>2. CASE TypingInit
  <2>1. at \in {"typed", "parsed"}
    BY <1>2 DEF TypingInit, Init
  <2>2. held \in Chains /\ then \in Chains
    BY <1>2 DEF TypingInit, Chains, Contents
  <2>3. query \in Queries
    BY <1>2, HoldingsAssumption DEF TypingInit
  <2>4. ReadingType
    BY <1>2, <2>2, Fresh DEF TypingInit, Blank
  <2> QED
    BY <2>1, <2>3, <2>4 DEF QueryInv, SessionInv, FoundInv, ReportIsSnapshot
<1> QED
  BY <1>1, <1>2 DEF SessionInit

LEMMA SessionInductive == QueryInv /\ [SessionNext]_<<vars, reading>> => QueryInv'
<1> SUFFICES ASSUME QueryInv, [SessionNext]_<<vars, reading>> PROVE QueryInv'
  OBVIOUS
<1>1. CASE SessionNext
  <2>1. SessionInv'
    BY <1>1, FetchAccountsStep, FetchMintsStep, AssembleStep, ReadAccountStep,
       ReadItsMintStep, ReadMintStep, ReadOwnStep, OtherStep
       DEF QueryInv, SessionNext, Reading
  <2>2. UNCHANGED query
    BY <1>1 DEF SessionNext, Reading, FetchAccounts, FetchMints, Assemble, ReadAccount,
       ReadItsMint, ReadMint, ReadOwn, RequestFails, OthersAct, PrintLine, reading
  <2> QED
    BY <2>1, <2>2 DEF QueryInv
<1>2. CASE UNCHANGED <<vars, reading>>
  <2>1. UNCHANGED <<at, held, query, found, known, batch, lines, then, faulty>>
    BY <1>2 DEF vars, reading
  <2>2. Needed' = Needed
    BY <2>1 DEF Needed
  <2>3. ReadingType' /\ FoundInv'
    BY <2>1, <2>2 DEF QueryInv, SessionInv, ReadingType, FoundInv
  <2>4. ReportIsSnapshot'
    BY <2>1 DEF QueryInv, SessionInv, ReportIsSnapshot
  <2> QED
    BY <2>1, <2>3, <2>4 DEF QueryInv, SessionInv
<1> QED
  BY <1>1, <1>2

THEOREM SessionInvariant == SessionSpec => []QueryInv
BY SessionInitially, SessionInductive, PTL DEF SessionSpec

(* Whatever others do between its requests, a query reports the accounts   *)
(* as they stood together when it read them, and fails only for a reason.  *)
THEOREM ReportAlwaysSnapshot == SessionSpec => []ReportIsSnapshot
<1>1. QueryInv => ReportIsSnapshot
  BY DEF QueryInv, SessionInv
<1> QED
  BY <1>1, SessionInvariant, PTL

-----------------------------------------------------------------------------
(* Numbers and the texts of their digits: Value and Digits.                *)

(* What holds of 0 and passes from each number below n to the next holds   *)
(* of all up to n.                                                         *)
LEMMA Reaches ==
    ASSUME NEW n \in Nat, NEW S, 0 \in S, \A k \in 0..n : k < n /\ k \in S => k + 1 \in S
    PROVE  \A k \in 0..n : k \in S
<1> DEFINE R == {ss \in Nat \X Nat : ss[1] < ss[2]}
           Bad == {k \in 0..n : k \notin S}
<1>1. ASSUME NEW k \in Bad, \A l \in Bad : ~(<<l, k>> \in R)
      PROVE  FALSE
  <2> DEFINE l == k - 1
  <2>1. l \in 0..n /\ l < n /\ l \in Nat /\ <<l, k>> \in R
    OBVIOUS
  <2>2. l \in S
    BY <1>1, <2>1
  <2> QED
    BY <2>1, <2>2
<1>2. Bad = {}
  <2>1. IsWellFoundedOn(R, Nat)
    BY NatLessThanWellFounded DEF OpToRel
  <2>2. Bad \subseteq Nat
    OBVIOUS
  <2> HIDE DEF R, Bad
  <2> QED
    BY <1>1, <2>1, <2>2, WFMin
<1> QED
  BY <1>2

LEMMA Division ==
    ASSUME NEW m \in Nat
    PROVE  /\ m \div Base \in Nat /\ m % Base \in Digit
           /\ m = (m \div Base) * Base + (m % Base)
           /\ m >= Base => m \div Base < m /\ m \div Base > 0
<1>1. Base \in Int /\ Base > 0 /\ Base >= 2 /\ m \in Int /\ Base \in Nat
  BY AmountsAssumption
<1>2. m \div Base \in Nat
  BY <1>1
<1>3. m % Base \in 0..Base - 1
  BY <1>1
<1>4. m = Base * (m \div Base) + (m % Base)
  BY <1>1
<1>5. ASSUME m >= Base
      PROVE  m \div Base < m /\ m \div Base > 0
  <2>1. m \div Base < m
    BY <1>1, <1>5
  <2>2. m \div Base # 0
    <3>1. ASSUME m \div Base = 0
          PROVE  m = m % Base
      BY <1>1, <1>3, <1>4, <3>1
    <3> QED
      BY <1>1, <1>3, <1>5, <3>1
  <2> QED
    BY <1>2, <2>1, <2>2
<1> QED
  BY <1>1, <1>2, <1>3, <1>4, <1>5 DEF Digit

-----------------------------------------------------------------------------
(* What a sequence of digits is worth, digit by digit.                     *)

IsReading(read, digits, n) ==
    read = [k \in 0..n |-> IF k = 0 THEN 0 ELSE read[k - 1] * Base + digits[k]]

Reads(digits) == CHOOSE read : IsReading(read, digits, Len(digits))

LEMMA ReadingExists ==
    ASSUME NEW digits, NEW n \in Nat
    PROVE  \E read : IsReading(read, digits, n)
<1> DEFINE S == {k \in 0..n : \E read : IsReading(read, digits, k)}
<1>1. 0 \in S
  <2>1. IsReading([k \in 0..0 |-> 0], digits, 0)
    BY DEF IsReading
  <2> QED
    BY <2>1
<1>2. ASSUME NEW k \in 0..n, k < n, k \in S
      PROVE  k + 1 \in S
  <2>1. PICK read : IsReading(read, digits, k)
    BY <1>2
  <2> DEFINE longer == [j \in 0..k + 1 |-> IF j = 0 THEN 0 ELSE read[j - 1] * Base + digits[j]]
  <2>2. \A j \in 0..k + 1 : j # 0 => longer[j - 1] = read[j - 1]
    <3> SUFFICES ASSUME NEW j \in 0..k + 1, j # 0
                 PROVE  longer[j - 1] = read[j - 1]
      OBVIOUS
    <3> DEFINE i == j - 1
    <3>1. i \in 0..k /\ i \in 0..k + 1
      OBVIOUS
    <3> HIDE DEF i
    <3>2. read[i] = IF i = 0 THEN 0 ELSE read[i - 1] * Base + digits[i]
      BY <2>1, <3>1, Zenon DEF IsReading
    <3>3. longer[i] = IF i = 0 THEN 0 ELSE read[i - 1] * Base + digits[i]
      BY <3>1
    <3> QED
      BY <3>2, <3>3 DEF i
  <2>3. IsReading(longer, digits, k + 1)
    <3>1. \A j \in 0..k + 1 :
             (IF j = 0 THEN 0 ELSE read[j - 1] * Base + digits[j])
                = (IF j = 0 THEN 0 ELSE longer[j - 1] * Base + digits[j])
      <4> HIDE DEF longer
      <4> QED
        BY <2>2
    <3> QED
      BY <3>1 DEF IsReading
  <2> HIDE DEF longer
  <2> QED
    BY <1>2, <2>3
<1> HIDE DEF S
<1>3. n \in S
  BY <1>1, <1>2, Reaches
<1> QED
  BY <1>3 DEF S

LEMMA ReadsFacts ==
    ASSUME NEW digits \in Seq(Digit)
    PROVE  /\ Len(digits) \in Nat
           /\ Reads(digits)[0] = 0
           /\ \A k \in 1..Len(digits) :
                  /\ Reads(digits)[k] = Reads(digits)[k - 1] * Base + digits[k]
                  /\ Reads(digits)[k - 1] \in Nat /\ Reads(digits)[k] \in Nat
                  /\ digits[k] \in Digit /\ digits[k] \in Nat
           /\ \A k \in 0..Len(digits) : Reads(digits)[k] \in Nat
           /\ Value(digits) = Reads(digits)[Len(digits)]
           /\ Value(digits) \in Nat
<1> DEFINE read == Reads(digits)
<1>1. Len(digits) \in Nat /\ \A k \in 1..Len(digits) : digits[k] \in Digit
  OBVIOUS
<1>2. IsReading(read, digits, Len(digits))
  BY <1>1, ReadingExists DEF Reads
<1>3. Value(digits) = read[Len(digits)]
  BY Zenon DEF Value, IsReading, Reads
<1> HIDE DEF read
<1>4. read[0] = 0 /\ \A k \in 1..Len(digits) : read[k] = read[k - 1] * Base + digits[k]
  BY <1>1, <1>2 DEF IsReading
<1>5. Base \in Nat /\ Digit \subseteq Nat
  BY AmountsAssumption DEF Digit
<1> DEFINE S == {k \in 0..Len(digits) : read[k] \in Nat}
<1>6. 0 \in S
  BY <1>1, <1>4
<1>7. ASSUME NEW k \in 0..Len(digits), k < Len(digits), k \in S
      PROVE  k + 1 \in S
  <2> DEFINE j == k + 1
  <2>1. j \in 1..Len(digits) /\ j - 1 = k
    BY <1>1, <1>7
  <2>2. read[j] = read[k] * Base + digits[j] /\ read[k] \in Nat /\ digits[j] \in Nat
    BY <1>1, <1>4, <1>5, <1>7, <2>1
  <2> HIDE DEF j
  <2>3. read[j] \in Nat
    BY <1>5, <2>2
  <2> QED
    BY <2>1, <2>3 DEF j
<1> HIDE DEF S
<1>8. \A k \in 0..Len(digits) : k \in S
  BY <1>1, <1>6, <1>7, Reaches
<1>9. \A k \in 0..Len(digits) : read[k] \in Nat
  BY <1>8 DEF S
<1>10. \A k \in 1..Len(digits) : k \in 0..Len(digits) /\ k - 1 \in 0..Len(digits)
  BY <1>1
<1>11. Len(digits) \in 0..Len(digits)
  BY <1>1
<1> QED
  BY <1>1, <1>3, <1>4, <1>5, <1>9, <1>10, <1>11 DEF read

\* Sequences that begin alike are read alike.
LEMMA SameBeginning ==
    ASSUME NEW a \in Seq(Digit), NEW b \in Seq(Digit), NEW n \in Nat,
           n <= Len(a), n <= Len(b), \A i \in 1..n : a[i] = b[i]
    PROVE  \A k \in 0..n : Reads(a)[k] = Reads(b)[k]
<1> DEFINE S == {k \in 0..n : Reads(a)[k] = Reads(b)[k]}
<1>1. 0 \in S
  BY ReadsFacts
<1>2. ASSUME NEW k \in 0..n, k < n, k \in S
      PROVE  k + 1 \in S
  <2> DEFINE j == k + 1
  <2>1. j \in 1..n /\ j - 1 = k /\ j \in 0..n
    BY <1>2
  <2>2. Len(a) \in Nat /\ Len(b) \in Nat
    OBVIOUS
  <2>3. j \in 1..Len(a) /\ j \in 1..Len(b)
    BY <2>1, <2>2
  <2> HIDE DEF j
  <2>4. Reads(a)[j] = Reads(a)[j - 1] * Base + a[j] /\ Reads(b)[j] = Reads(b)[j - 1] * Base + b[j]
    BY <2>3, ReadsFacts
  <2>5. Reads(a)[j] = Reads(b)[j]
    BY <1>2, <2>1, <2>4
  <2> QED
    BY <2>1, <2>5 DEF j
<1> HIDE DEF S
<1>3. \A k \in 0..n : k \in S
  BY <1>1, <1>2, Reaches
<1> QED
  BY <1>3 DEF S

LEMMA ZeroBeginning ==
    ASSUME NEW a \in Seq(Digit), NEW n \in Nat, n <= Len(a), \A i \in 1..n : a[i] = 0
    PROVE  \A k \in 0..n : Reads(a)[k] = 0
<1> DEFINE S == {k \in 0..n : Reads(a)[k] = 0}
<1>1. 0 \in S
  BY ReadsFacts
<1>2. ASSUME NEW k \in 0..n, k < n, k \in S
      PROVE  k + 1 \in S
  <2> DEFINE j == k + 1
  <2>1. j \in 1..n /\ j - 1 = k /\ j \in 0..n
    BY <1>2
  <2>2. Len(a) \in Nat /\ Base \in Nat
    BY AmountsAssumption
  <2>3. j \in 1..Len(a)
    BY <2>1, <2>2
  <2> HIDE DEF j
  <2>4. Reads(a)[j] = Reads(a)[j - 1] * Base + a[j]
    BY <2>3, ReadsFacts
  <2>5. Reads(a)[j] = 0
    BY <1>2, <2>1, <2>2, <2>4
  <2> QED
    BY <2>1, <2>5 DEF j
<1> HIDE DEF S
<1>3. \A k \in 0..n : k \in S
  BY <1>1, <1>2, Reaches
<1> QED
  BY <1>3 DEF S

LEMMA LeadingZeros ==
    ASSUME NEW a \in Seq(Digit), NEW b \in Seq(Digit), NEW n \in Nat,
           Len(a) = n + Len(b), \A i \in 1..n : a[i] = 0,
           \A i \in 1..Len(b) : a[n + i] = b[i]
    PROVE  Value(a) = Value(b)
<1>1. Len(a) \in Nat /\ Len(b) \in Nat /\ n <= Len(a)
  OBVIOUS
<1> DEFINE S == {k \in 0..Len(b) : Reads(a)[n + k] = Reads(b)[k]}
<1>2. 0 \in S
  <2>1. Reads(a)[n] = 0
    BY <1>1, ZeroBeginning
  <2> QED
    BY <1>1, <2>1, ReadsFacts
<1>3. ASSUME NEW k \in 0..Len(b), k < Len(b), k \in S
      PROVE  k + 1 \in S
  <2> DEFINE j == k + 1
             l == n + j
  <2>1. j \in 1..Len(b) /\ j - 1 = k /\ j \in 0..Len(b)
    BY <1>1, <1>3
  <2>2. l \in 1..Len(a) /\ l - 1 = n + k
    BY <1>1, <2>1
  <2>3. a[l] = b[j]
    BY <2>1
  <2> HIDE DEF j, l
  <2>4. Reads(a)[l] = Reads(a)[l - 1] * Base + a[l] /\ Reads(b)[j] = Reads(b)[j - 1] * Base + b[j]
    BY <2>1, <2>2, ReadsFacts
  <2>5. Reads(a)[l] = Reads(b)[j]
    BY <1>3, <2>1, <2>2, <2>3, <2>4
  <2> QED
    BY <2>1, <2>5 DEF j, l
<1> HIDE DEF S
<1>4. \A k \in 0..Len(b) : k \in S
  BY <1>1, <1>2, <1>3, Reaches
<1>5. Reads(a)[n + Len(b)] = Reads(b)[Len(b)]
  BY <1>1, <1>4 DEF S
<1> QED
  BY <1>5, ReadsFacts

LEMMA NonzeroBeginning ==
    ASSUME NEW a \in Seq(Digit), Len(a) >= 1, a[1] # 0
    PROVE  \A k \in 1..Len(a) : Reads(a)[k] > 0
<1> DEFINE S == {k \in 0..Len(a) : k > 0 => Reads(a)[k] > 0}
<1>1. 0 \in S
  OBVIOUS
<1>2. ASSUME NEW k \in 0..Len(a), k < Len(a), k \in S
      PROVE  k + 1 \in S
  <2> DEFINE j == k + 1
  <2>1. j \in 1..Len(a) /\ j - 1 = k /\ j \in 0..Len(a)
    BY <1>2
  <2>2. Base \in Nat /\ Base > 0
    BY AmountsAssumption
  <2> HIDE DEF j
  <2>3. /\ Reads(a)[j] = Reads(a)[k] * Base + a[j]
        /\ Reads(a)[k] \in Nat /\ a[j] \in Nat
    BY <2>1, ReadsFacts
  <2>4. CASE k = 0
    <3>1. j = 1
      BY <2>1, <2>4
    <3>2. Reads(a)[k] = 0
      BY <2>4, ReadsFacts
    <3>3. Reads(a)[j] = a[1] /\ a[1] \in Nat
      BY <2>2, <2>3, <3>1, <3>2
    <3> QED
      BY <2>1, <3>3 DEF j
  <2>5. CASE k # 0
    <3>1. Reads(a)[k] > 0
      BY <1>2, <2>5
    <3> DEFINE x == Reads(a)[k]
    <3>2. x \in Nat /\ x > 0
      BY <2>3, <3>1
    <3> HIDE DEF x
    <3>3. x * Base > 0 /\ x * Base \in Nat
      BY <2>2, <3>2
    <3>4. Reads(a)[j] > 0
      BY <2>3, <3>3 DEF x
    <3> QED
      BY <2>1, <3>4 DEF j
  <2> QED
    BY <2>4, <2>5
<1> HIDE DEF S
<1>3. \A k \in 0..Len(a) : k \in S
  BY <1>1, <1>2, Reaches
<1> QED
  BY <1>3 DEF S

\* A number has one sequence of digits, but for zeros before it.
LEMMA SameEnding ==
    ASSUME NEW a \in Seq(Digit), NEW b \in Seq(Digit), Value(a) = Value(b),
           NEW n \in Nat, n <= Len(a), n <= Len(b)
    PROVE  /\ \A j \in 0..n : Reads(a)[Len(a) - j] = Reads(b)[Len(b) - j]
           /\ \A j \in 0..n - 1 : a[Len(a) - j] = b[Len(b) - j]
<1>1. Len(a) \in Nat /\ Len(b) \in Nat /\ Base \in Nat \ {0}
  BY AmountsAssumption
\* The last digit and what is before it.
<1>2. ASSUME NEW j \in 0..n - 1, Reads(a)[Len(a) - j] = Reads(b)[Len(b) - j]
      PROVE  /\ Reads(a)[Len(a) - (j + 1)] = Reads(b)[Len(b) - (j + 1)]
             /\ a[Len(a) - j] = b[Len(b) - j]
  <2> DEFINE k == Len(a) - j
             l == Len(b) - j
  <2>1. /\ k \in 1..Len(a) /\ l \in 1..Len(b)
        /\ k - 1 = Len(a) - (j + 1) /\ l - 1 = Len(b) - (j + 1)
    BY <1>1
  <2>2. Reads(a)[k] = Reads(b)[l]
    BY <1>2
  <2> HIDE DEF k, l
  <2>3. /\ Reads(a)[k] = Reads(a)[k - 1] * Base + a[k] /\ Reads(a)[k - 1] \in Nat /\ a[k] \in Digit
        /\ Reads(b)[l] = Reads(b)[l - 1] * Base + b[l] /\ Reads(b)[l - 1] \in Nat /\ b[l] \in Digit
    BY <2>1, ReadsFacts
  <2> DEFINE x == Reads(a)[k - 1]
             y == Reads(b)[l - 1]
             c == a[k]
             e == b[l]
  <2>4. /\ x \in Nat /\ y \in Nat /\ c \in 0..Base - 1 /\ e \in 0..Base - 1
        /\ x * Base + c = y * Base + e
    BY <2>2, <2>3 DEF Digit
  <2> HIDE DEF x, y, c, e
  <2>5. x = y /\ c = e
    BY <1>1, <2>4
  <2> QED
    BY <2>1, <2>5 DEF x, y, c, e, k, l
<1> DEFINE S == {j \in 0..n : Reads(a)[Len(a) - j] = Reads(b)[Len(b) - j]}
<1>3. 0 \in S
  BY <1>1, ReadsFacts
<1>4. ASSUME NEW j \in 0..n, j < n, j \in S
      PROVE  j + 1 \in S
  BY <1>2, <1>4
<1> HIDE DEF S
<1>5. \A j \in 0..n : j \in S
  BY <1>3, <1>4, Reaches
<1>6. \A j \in 0..n : Reads(a)[Len(a) - j] = Reads(b)[Len(b) - j]
  BY <1>5 DEF S
<1> QED
  BY <1>2, <1>6

-----------------------------------------------------------------------------
(* The digits of a number: repeated division.                              *)

IsWriting(written, n) ==
    written = [m \in 0..n |-> IF m < Base THEN <<m>>
                              ELSE Append(written[m \div Base], m % Base)]

LEMMA WritingExists ==
    ASSUME NEW n \in Nat
    PROVE  \E written : IsWriting(written, n)
<1> DEFINE S == {k \in 0..n : \E written : IsWriting(written, k)}
<1>0. \A m \in Nat : m >= Base => m \div Base \in Nat /\ m \div Base < m
  BY Division
<1>1. 0 \in S
  <2>1. 0 < Base /\ Base \in Nat
    BY AmountsAssumption
  <2>2. IsWriting([m \in 0..0 |-> <<m>>], 0)
    BY <2>1 DEF IsWriting
  <2> QED
    BY <2>2
<1>2. ASSUME NEW k \in 0..n, k < n, k \in S
      PROVE  k + 1 \in S
  <2>1. PICK written : IsWriting(written, k)
    BY <1>2
  <2> DEFINE longer == [m \in 0..k + 1 |-> IF m < Base THEN <<m>>
                                           ELSE Append(written[m \div Base], m % Base)]
  <2>2. \A m \in 0..k + 1 : ~(m < Base) => longer[m \div Base] = written[m \div Base]
    <3> SUFFICES ASSUME NEW m \in 0..k + 1, ~(m < Base)
                 PROVE  longer[m \div Base] = written[m \div Base]
      OBVIOUS
    <3> DEFINE i == m \div Base
    <3>1. m \in Nat /\ m >= Base /\ m <= k + 1
      BY AmountsAssumption
    <3>2. i \in Nat /\ i < m
      BY <1>0, <3>1
    <3> HIDE DEF i
    <3>3. i \in 0..k /\ i \in 0..k + 1
      BY <3>1, <3>2
    <3>4. written[i] = IF i < Base THEN <<i>> ELSE Append(written[i \div Base], i % Base)
      BY <2>1, <3>3, Zenon DEF IsWriting
    <3>5. longer[i] = IF i < Base THEN <<i>> ELSE Append(written[i \div Base], i % Base)
      BY <3>3, Zenon
    <3> QED
      BY <3>4, <3>5 DEF i
  <2>3. IsWriting(longer, k + 1)
    <3>1. \A m \in 0..k + 1 :
             (IF m < Base THEN <<m>> ELSE Append(written[m \div Base], m % Base))
                = (IF m < Base THEN <<m>> ELSE Append(longer[m \div Base], m % Base))
      <4> HIDE DEF longer
      <4> QED
        BY <2>2, Zenon
    <3> QED
      BY <3>1, Zenon DEF IsWriting
  <2> HIDE DEF longer
  <2> QED
    BY <1>2, <2>3
<1> HIDE DEF S
<1>3. n \in S
  BY <1>1, <1>2, Reaches
<1> QED
  BY <1>3 DEF S

LEMMA AppendWorth ==
    ASSUME NEW s \in Seq(Digit), NEW c \in Digit
    PROVE  /\ Append(s, c) \in Seq(Digit)
           /\ Value(Append(s, c)) = Value(s) * Base + c
<1> DEFINE a == Append(s, c)
           n == Len(s)
           l == n + 1
<1>1. /\ a \in Seq(Digit) /\ Len(a) = l /\ n \in Nat
      /\ \A i \in 1..n : a[i] = s[i]
      /\ a[l] = c
  OBVIOUS
<1> HIDE DEF a, n
<1>2. n = Len(s) /\ n <= Len(a) /\ l \in 1..Len(a) /\ l - 1 = n
  BY <1>1 DEF n
<1>3. Reads(a)[n] = Reads(s)[n]
  BY <1>1, <1>2, SameBeginning
<1> HIDE DEF l
<1>4. Reads(a)[l] = Reads(a)[l - 1] * Base + a[l]
  BY <1>1, <1>2, ReadsFacts
<1>5. Value(a) = Reads(a)[l] /\ Value(s) = Reads(s)[n]
  BY <1>1, <1>2, ReadsFacts
<1>6. Value(a) = Value(s) * Base + c
  BY <1>1, <1>2, <1>3, <1>4, <1>5
<1> QED
  BY <1>1, <1>6 DEF a

LEMMA DigitsFacts ==
    ASSUME NEW n \in Nat
    PROVE  /\ Digits(n) \in Seq(Digit) /\ Len(Digits(n)) >= 1
           /\ Value(Digits(n)) = n
           /\ n > 0 => Digits(n)[1] # 0
<1> DEFINE written == CHOOSE w : IsWriting(w, n)
           Right(m) == /\ written[m] \in Seq(Digit) /\ Len(written[m]) >= 1
                       /\ Value(written[m]) = m
                       /\ m > 0 => written[m][1] # 0
           S == {k \in 0..n : \A m \in 0..k : Right(m)}
<1>1. IsWriting(written, n)
  BY WritingExists
<1>2. Digits(n) = written[n]
  BY Zenon DEF Digits, IsWriting
<1> HIDE DEF written
<1>3. \A m \in 0..n : written[m] = IF m < Base THEN <<m>>
                                  ELSE Append(written[m \div Base], m % Base)
  BY <1>1, Zenon DEF IsWriting
<1>4. ASSUME NEW m \in 0..n, m < Base
      PROVE  Right(m)
  <2>1. written[m] = <<m>> /\ m \in Digit /\ m \in Nat
    <3>1. written[m] = <<m>>
      BY <1>3, <1>4
    <3> QED
      BY <1>4, <3>1, AmountsAssumption DEF Digit
  <2> DEFINE a == <<m>>
  <2>2. a \in Seq(Digit) /\ Len(a) = 1 /\ a[1] = m /\ 1 \in 1..Len(a) /\ 1 - 1 = 0
    BY <2>1
  <2> HIDE DEF a
  <2>3. Reads(a)[1] = Reads(a)[0] * Base + m /\ Reads(a)[0] = 0 /\ Value(a) = Reads(a)[1]
    BY <2>2, ReadsFacts
  <2>4. Value(a) = m
    BY <2>1, <2>3, AmountsAssumption
  <2>5. written[m] = a
    BY <2>1 DEF a
  <2>6. a \in Seq(Digit) /\ Len(a) >= 1 /\ (m > 0 => a[1] # 0)
    BY <2>1, <2>2
  <2> QED
    BY <2>4, <2>5, <2>6, Zenon
<1>5. ASSUME NEW m \in 0..n, ~(m < Base), Right(m \div Base)
      PROVE  Right(m)
  <2> DEFINE q == m \div Base
             c == m % Base
             s == written[q]
  <2>1. q \in Nat /\ c \in Digit /\ m = q * Base + c /\ q > 0
    <3>1. m \in Nat /\ m >= Base
      BY <1>5, AmountsAssumption
    <3> QED
      BY <3>1, Division
  <2>2. written[m] = Append(s, c)
    BY <1>3, <1>5
  <2>3. s \in Seq(Digit) /\ Len(s) >= 1 /\ Value(s) = q /\ s[1] # 0
    BY <1>5, <2>1
  <2> HIDE DEF q, c, s
  <2>4. Append(s, c) \in Seq(Digit) /\ Value(Append(s, c)) = m
    BY <2>1, <2>3, AppendWorth
  <2>5. Len(Append(s, c)) >= 1 /\ Append(s, c)[1] = s[1]
    BY <2>3
  <2> QED
    BY <2>2, <2>3, <2>4, <2>5
<1> HIDE DEF Right
<1>6. 0 \in S
  <2>1. 0 < Base /\ 0 \in 0..n
    BY AmountsAssumption
  <2>2. Right(0)
    BY <1>4, <2>1
  <2>3. \A m \in 0..0 : m = 0
    OBVIOUS
  <2> QED
    BY <2>1, <2>2, <2>3
<1>7. ASSUME NEW k \in 0..n, k < n, k \in S
      PROVE  k + 1 \in S
  <2> DEFINE m == k + 1
  <2>1. m \in 0..n /\ m \in Nat /\ k \in Nat
    BY <1>7
  <2>2. Right(m)
    <3>1. CASE m < Base
      BY <1>4, <2>1, <3>1
    <3>2. CASE ~(m < Base)
      <4>1. m >= Base
        BY <2>1, <3>2, AmountsAssumption
      <4>2. m \div Base \in Nat /\ m \div Base < m
        BY <2>1, <4>1, Division
      <4>3. m \div Base \in 0..k
        BY <2>1, <4>2
      <4>4. Right(m \div Base)
        BY <1>7, <4>3
      <4> HIDE DEF m
      <4> QED
        BY <1>5, <2>1, <3>2, <4>4
    <3> QED
      BY <3>1, <3>2
  <2>3. \A i \in 0..m : i \in 0..k \/ i = m
    BY <2>1
  <2> HIDE DEF m
  <2>4. \A i \in 0..m : Right(i)
    BY <1>7, <2>2, <2>3
  <2> QED
    BY <2>1, <2>4 DEF m
<1> HIDE DEF S
<1>8. \A k \in 0..n : k \in S
  BY <1>6, <1>7, Reaches
<1>9. Right(n)
  BY <1>8 DEF S
<1> QED
  BY <1>2, <1>9 DEF Right

-----------------------------------------------------------------------------
(* The powers of the radix.                                                *)

IsPower(p, n) == p = [k \in 0..n |-> IF k = 0 THEN 1 ELSE Base * p[k - 1]]

LEMMA PowerExists ==
    ASSUME NEW n \in Nat
    PROVE  \E p : IsPower(p, n)
<1> DEFINE S == {k \in 0..n : \E p : IsPower(p, k)}
<1>1. 0 \in S
  <2>1. IsPower([k \in 0..0 |-> 1], 0)
    BY DEF IsPower
  <2> QED
    BY <2>1
<1>2. ASSUME NEW k \in 0..n, k < n, k \in S
      PROVE  k + 1 \in S
  <2>1. PICK p : IsPower(p, k)
    BY <1>2
  <2> DEFINE longer == [j \in 0..k + 1 |-> IF j = 0 THEN 1 ELSE Base * p[j - 1]]
  <2>2. \A j \in 0..k + 1 : j # 0 => longer[j - 1] = p[j - 1]
    <3> SUFFICES ASSUME NEW j \in 0..k + 1, j # 0
                 PROVE  longer[j - 1] = p[j - 1]
      OBVIOUS
    <3> DEFINE i == j - 1
    <3>1. i \in 0..k /\ i \in 0..k + 1
      OBVIOUS
    <3> HIDE DEF i
    <3>2. p[i] = IF i = 0 THEN 1 ELSE Base * p[i - 1]
      BY <2>1, <3>1, Zenon DEF IsPower
    <3>3. longer[i] = IF i = 0 THEN 1 ELSE Base * p[i - 1]
      BY <3>1, Zenon
    <3> QED
      BY <3>2, <3>3 DEF i
  <2>3. IsPower(longer, k + 1)
    <3>1. \A j \in 0..k + 1 : (IF j = 0 THEN 1 ELSE Base * p[j - 1])
                                = (IF j = 0 THEN 1 ELSE Base * longer[j - 1])
      <4> HIDE DEF longer
      <4> QED
        BY <2>2, Zenon
    <3> QED
      BY <3>1, Zenon DEF IsPower
  <2> HIDE DEF longer
  <2> QED
    BY <1>2, <2>3
<1> HIDE DEF S
<1>3. n \in S
  BY <1>1, <1>2, Reaches
<1> QED
  BY <1>3 DEF S

LEMMA PowerAgrees ==
    ASSUME NEW n \in Nat, NEW m \in Nat, n <= m, NEW p, NEW q, IsPower(p, n), IsPower(q, m)
    PROVE  p[n] = q[n]
<1> DEFINE S == {k \in 0..n : p[k] = q[k]}
<1>1. \A k \in 0..n : /\ p[k] = IF k = 0 THEN 1 ELSE Base * p[k - 1]
                      /\ q[k] = IF k = 0 THEN 1 ELSE Base * q[k - 1]
  <2>1. \A k \in 0..n : k \in 0..m
    OBVIOUS
  <2> QED
    BY <2>1, Zenon DEF IsPower
<1>2. 0 \in S
  BY <1>1
<1>3. ASSUME NEW k \in 0..n, k < n, k \in S
      PROVE  k + 1 \in S
  <2>1. k + 1 \in 0..n /\ k + 1 # 0 /\ (k + 1) - 1 = k
    BY <1>3
  <2> QED
    BY <1>1, <1>3, <2>1
<1> HIDE DEF S
<1>4. n \in S
  BY <1>2, <1>3, Reaches
<1> QED
  BY <1>4 DEF S

LEMMA PowerFacts ==
    /\ Power[0] = 1
    /\ \A n \in Nat : Power[n] \in Nat /\ Power[n + 1] = Base * Power[n]
<1> DEFINE P(n) == CHOOSE p : IsPower(p, n)
           F == [n \in Nat |-> P(n)[n]]
<1>1. \A n \in Nat : IsPower(P(n), n)
  BY PowerExists
<1> HIDE DEF P
<1>2. ASSUME NEW n \in Nat
      PROVE  F[n] = IF n = 0 THEN 1 ELSE Base * F[n - 1]
  <2>1. n \in 0..n
    OBVIOUS
  <2>2. P(n)[n] = IF n = 0 THEN 1 ELSE Base * P(n)[n - 1]
    BY <1>1, <2>1, Zenon DEF IsPower
  <2>3. ASSUME n # 0
        PROVE  P(n)[n - 1] = F[n - 1]
    <3> DEFINE l == n - 1
    <3>1. l \in Nat /\ l <= n
      BY <2>3
    <3> HIDE DEF l
    <3>2. IsPower(P(l), l) /\ IsPower(P(n), n)
      BY <1>1, <3>1
    <3>3. P(l)[l] = P(n)[l]
      BY <3>1, <3>2, PowerAgrees
    <3> QED
      BY <3>1, <3>3 DEF l
  <2> QED
    BY <2>2, <2>3
<1>3. F = [n \in Nat |-> IF n = 0 THEN 1 ELSE Base * F[n - 1]]
  <2>1. F = [n \in Nat |-> F[n]]
    OBVIOUS
  <2> HIDE DEF F
  <2> QED
    BY <1>2, <2>1, Zenon
<1> HIDE DEF F
<1>4. Power = [n \in Nat |-> IF n = 0 THEN 1 ELSE Base * Power[n - 1]]
  BY <1>3, Zenon DEF Power
<1>5. Power[0] = 1
  BY <1>4
<1>6. ASSUME NEW n \in Nat
      PROVE  Power[n + 1] = Base * Power[n]
  <2> DEFINE m == n + 1
  <2>1. m \in Nat /\ m # 0 /\ m - 1 = n
    OBVIOUS
  <2> HIDE DEF m
  <2>2. Power[m] = IF m = 0 THEN 1 ELSE Base * Power[m - 1]
    BY <1>4, <2>1, Zenon
  <2> QED
    BY <2>1, <2>2 DEF m
<1>7. ASSUME NEW n \in Nat
      PROVE  Power[n] \in Nat
  <2> DEFINE S == {k \in 0..n : Power[k] \in Nat}
  <2>1. 0 \in S
    BY <1>5
  <2>2. ASSUME NEW k \in 0..n, k < n, k \in S
        PROVE  k + 1 \in S
    <3>1. k \in Nat /\ k + 1 \in 0..n
      BY <2>2
    <3>2. Power[k] \in Nat /\ Base \in Nat
      BY <2>2, AmountsAssumption
    <3>3. Base * Power[k] \in Nat
      BY <3>2
    <3>4. Power[k + 1] = Base * Power[k]
      BY <1>6, <3>1
    <3> QED
      BY <3>1, <3>3, <3>4
  <2> HIDE DEF S
  <2>3. n \in S
    BY <2>1, <2>2, Reaches
  <2> QED
    BY <2>3 DEF S
<1> QED
  BY <1>5, <1>6, <1>7

-----------------------------------------------------------------------------
(* The parts of a text.                                                    *)

LEMMA MinFacts ==
    ASSUME NEW S, S \subseteq Nat, S # {}
    PROVE  Min(S) \in S /\ \A i \in S : Min(S) <= i
<1> DEFINE R == {ss \in Nat \X Nat : ss[1] < ss[2]}
<1>1. \E i \in S : \A j \in S : ~(<<j, i>> \in R)
  <2>1. IsWellFoundedOn(R, Nat)
    BY NatLessThanWellFounded DEF OpToRel
  <2> HIDE DEF R
  <2> QED
    BY <2>1, WFMin
<1>2. PICK i \in S : \A j \in S : ~(<<j, i>> \in R)
  BY <1>1
<1>3. \A j \in S : i <= j
  <2> SUFFICES ASSUME NEW j \in S, ~(i <= j)
               PROVE  FALSE
    OBVIOUS
  <2>1. i \in Nat /\ j \in Nat
    OBVIOUS
  <2>2. <<j, i>> \in R
    BY <2>1
  <2> QED
    BY <1>2, <2>2
<1> QED
  BY <1>3 DEF Min

LEMMA SymbolFacts ==
    /\ Digit \subseteq Nat /\ 0 \in Digit /\ Base \in Nat /\ Base >= 2
    /\ Dot \notin Digit /\ Space \notin Digit /\ Dot # Space /\ Dot # 0 /\ Space # 0
    /\ Digit \subseteq Symbols /\ Dot \in Symbols /\ Symbols \subseteq Nat
BY AmountsAssumption DEF Digit, Dot, Space, Other, Symbols

LEMMA PointFacts ==
    ASSUME NEW s \in Seq(Symbols)
    PROVE  /\ Point(s) \in 1..Len(s) + 1
           /\ Dots(s) = {} => Point(s) = Len(s) + 1
           /\ Dots(s) # {} => Point(s) = Min(Dots(s)) /\ Point(s) \in Dots(s)
           /\ Point(s) <= Len(s) => Dots(s) # {}
           /\ \A i \in Dots(s) : i \in 1..Len(s) /\ Point(s) <= i
<1>1. Len(s) \in Nat /\ DOMAIN s = 1..Len(s)
  OBVIOUS
<1>2. \A i \in Dots(s) : i \in 1..Len(s)
  BY <1>1, Zenon DEF Dots
<1> DEFINE D == Dots(s)
           last == Len(s) + 1
<1>3. last \in Nat /\ \A i \in D : i \in Nat /\ i < last /\ i > 0
  BY <1>1, <1>2
<1> HIDE DEF D, last
<1>4. Min(D \cup {last}) \in D \cup {last} /\ \A i \in D \cup {last} : Min(D \cup {last}) <= i
  BY <1>3, MinFacts
<1>5. D # {} => Min(D) \in D /\ \A i \in D : Min(D) <= i
  BY <1>3, MinFacts
<1>6. Point(s) = Min(D \cup {last})
  BY DEF Point, D, last
<1>7. D # {} => Point(s) = Min(D) /\ Point(s) \in D
  <2> SUFFICES ASSUME D # {}
               PROVE  Point(s) = Min(D) /\ Point(s) \in D
    OBVIOUS
  <2>1. Min(D) \in D /\ \A i \in D : Min(D) <= i
    BY <1>5
  <2>2. Point(s) <= Min(D) /\ Point(s) \in D \cup {last}
    BY <1>4, <1>6, <2>1
  <2>3. Min(D) \in Nat /\ Min(D) < last /\ Point(s) \in Nat
    BY <1>3, <2>1, <2>2
  <2>4. Point(s) \in D
    BY <1>3, <2>2, <2>3
  <2> QED
    BY <2>1, <2>2, <2>3, <2>4
<1>8. D = {} => Point(s) = last
  BY <1>4, <1>6
<1>9. \A i \in D : Point(s) <= i
  BY <1>4, <1>6
<1>10. Point(s) \in 1..last
  <2>1. Point(s) \in D \cup {last}
    BY <1>4, <1>6
  <2>2. last > 0
    BY <1>1 DEF last
  <2> QED
    BY <1>3, <2>1, <2>2
<1> QED
  BY <1>1, <1>2, <1>7, <1>8, <1>9, <1>10 DEF D, last

LEMMA PartFacts ==
    ASSUME NEW s \in Seq(Symbols)
    PROVE  /\ Whole(s) \in Seq(Symbols) /\ Len(Whole(s)) = Point(s) - 1
           /\ \A i \in 1..Point(s) - 1 : Whole(s)[i] = s[i]
           /\ Fraction(s) \in Seq(Symbols)
           /\ Len(Fraction(s)) = IF Point(s) <= Len(s) THEN Len(s) - Point(s) ELSE 0
           /\ \A i \in 1..Len(Fraction(s)) : Fraction(s)[i] = s[Point(s) + i]
<1> DEFINE p == Point(s)
           n == Len(s)
<1>1. n \in Nat /\ p \in 1..n + 1
  BY PointFacts
<1>2. CASE Dots(s) = {}
  <2>1. p = n + 1
    BY <1>2, PointFacts
  <2>2. Whole(s) = s /\ Fraction(s) = <<>>
    BY <1>2 DEF Whole, Fraction
  <2> HIDE DEF p
  <2>3. ~(p <= n) /\ p - 1 = n
    BY <1>1, <2>1
  <2> QED
    BY <1>1, <2>2, <2>3 DEF p
<1>3. CASE Dots(s) # {}
  <2>1. p = Min(Dots(s)) /\ p \in Dots(s) /\ p \in 1..n
    BY <1>3, PointFacts
  <2> DEFINE w == SubSeq(s, 1, p - 1)
             f == SubSeq(s, p + 1, n)
  <2>2. Whole(s) = w /\ Fraction(s) = f
    BY <1>3, <2>1 DEF Whole, Fraction
  <2> HIDE DEF p, n
  <2>3. n = Len(s)
    BY DEF n
  <2>4. /\ w \in Seq(Symbols) /\ Len(w) = p - 1
        /\ \A i \in 1..p - 1 : w[i] = s[i]
    BY <1>1, <2>1, <2>3
  <2>5. /\ f \in Seq(Symbols) /\ Len(f) = n - p
        /\ \A i \in 1..n - p : f[i] = s[p + i]
    BY <1>1, <2>1, <2>3
  <2>6. p <= n
    BY <1>1, <2>1
  <2> HIDE DEF w, f
  <2> QED
    BY <2>2, <2>4, <2>5, <2>6, Zenon DEF p, n
<1> QED
  BY <1>2, <1>3

\* When parse_amount refuses a text for its form.
Malformed(s, d) ==
    \/ Cardinality(Dots(s)) > 1
    \/ Whole(s) = <<>> \/ ~AllDigits(Whole(s)) \/ ~AllDigits(Fraction(s))
    \/ Len(Fraction(s)) > d

LEMMA FormFacts ==
    ASSUME NEW s \in Seq(Symbols), NEW d \in Nat
    PROVE  Malformed(s, d) <=> ~IsAmount(s, d)
<1> DEFINE p == Point(s)
           n == Len(s)
           w == Whole(s)
           f == Fraction(s)
<1>1. n \in Nat /\ p \in 1..n + 1 /\ DOMAIN s = 1..n
  BY PointFacts
<1>2. /\ w \in Seq(Symbols) /\ Len(w) = p - 1 /\ \A i \in 1..p - 1 : w[i] = s[i]
      /\ f \in Seq(Symbols) /\ Len(f) = (IF p <= n THEN n - p ELSE 0)
      /\ \A i \in 1..Len(f) : f[i] = s[p + i]
  BY PartFacts
<1>3. DOMAIN w = 1..Len(w) /\ DOMAIN f = 1..Len(f)
  BY <1>2
<1>4. \A i \in Dots(s) : i \in DOMAIN s /\ s[i] = Dot
  BY DEF Dots
<1> HIDE DEF p, n, w, f
<1>5. w = <<>> <=> ~(p > 1)
  BY <1>1, <1>2
<1>6. Len(f) > d <=> ~(n <= p + d)
  BY <1>1, <1>2
<1>7. AllDigits(w) <=> \A i \in 1..n : i < p => s[i] \in Digit
  <2>1. \A i : i \in 1..p - 1 <=> i \in 1..n /\ i < p
    BY <1>1
  <2>2. DOMAIN w = 1..p - 1
    BY <1>2, <1>3
  <2> QED
    BY <1>2, <2>1, <2>2, Zenon DEF AllDigits
<1>8. AllDigits(f) <=> \A i \in 1..n : i > p => s[i] \in Digit
  <2>1. ASSUME AllDigits(f), NEW i \in 1..n, i > p
        PROVE  s[i] \in Digit
    <3> DEFINE j == i - p
    <3>1. j \in 1..Len(f) /\ i = p + j
      BY <1>1, <1>2, <2>1
    <3> HIDE DEF j
    <3>2. f[j] = s[i] /\ f[j] \in Digit
      BY <1>2, <1>3, <2>1, <3>1 DEF AllDigits
    <3> QED
      BY <3>2
  <2>2. ASSUME \A i \in 1..n : i > p => s[i] \in Digit, NEW j \in 1..Len(f)
        PROVE  f[j] \in Digit
    <3>1. p + j \in 1..n /\ p + j > p
      BY <1>1, <1>2
    <3> QED
      BY <1>2, <2>2, <3>1
  <2> QED
    BY <1>3, <2>1, <2>2 DEF AllDigits
<1>9. \A i \in 1..n : i < p \/ i = p \/ i > p
  BY <1>1
<1>10. ASSUME \A i \in DOMAIN s : s[i] \in Digit \/ i = p
       PROVE  ~(Cardinality(Dots(s)) > 1)
  <2>1. Dots(s) \subseteq {p}
    BY <1>4, <1>10, SymbolFacts
  <2>2. Dots(s) = {} \/ Dots(s) = {p}
    BY <2>1
  <2>3. Cardinality({}) = 0 /\ Cardinality({p}) = 1
    BY FS_EmptySet, FS_Singleton
  <2>4. Cardinality(Dots(s)) = 0 \/ Cardinality(Dots(s)) = 1
    BY <2>2, <2>3, Zenon
  <2> QED
    BY <2>4
<1>11. (\A i \in DOMAIN s : s[i] \in Digit \/ i = p)
          <=> AllDigits(w) /\ AllDigits(f)
  <2>1. \A i \in 1..n : ~(i < p /\ i = p) /\ ~(i > p /\ i = p)
    BY <1>1
  <2> QED
    BY <1>1, <1>7, <1>8, <1>9, <2>1, Zenon
<1> QED
  BY <1>5, <1>6, <1>10, <1>11, Zenon DEF Malformed, IsAmount, p, n, w, f

LEMMA RawFacts ==
    ASSUME NEW s \in Seq(Symbols), NEW d \in Nat, IsAmount(s, d)
    PROVE  LET p == Point(s)
               m == p - 1 + Len(Fraction(s))
               raw == Raw(s, d)
           IN  /\ raw \in Seq(Digit) /\ Len(raw) = p - 1 + d
               /\ p > 1 /\ Len(Fraction(s)) \in 0..d
               /\ \A i \in 1..p - 1 : raw[i] = s[i]
               /\ \A i \in p + 1..Len(s) : raw[i - 1] = s[i]
               /\ \A i \in m + 1..Len(raw) : raw[i] = 0
<1> DEFINE p == Point(s)
           n == Len(s)
           w == Whole(s)
           f == Fraction(s)
           z == Zeros(d - Len(f))
           raw == w \o f \o z
<1>1. n \in Nat /\ p \in 1..n + 1
  BY PointFacts
<1>2. /\ w \in Seq(Symbols) /\ Len(w) = p - 1 /\ \A i \in 1..p - 1 : w[i] = s[i]
      /\ f \in Seq(Symbols) /\ Len(f) = (IF p <= n THEN n - p ELSE 0)
      /\ \A i \in 1..Len(f) : f[i] = s[p + i]
  BY PartFacts
<1>3. ~Malformed(s, d)
  BY FormFacts
<1>4. AllDigits(w) /\ AllDigits(f) /\ Len(f) <= d /\ p > 1
  <2>1. w # <<>> /\ AllDigits(w) /\ AllDigits(f) /\ ~(Len(f) > d)
    BY <1>3, Zenon DEF Malformed
  <2>2. p > 1
    BY <1>1, <1>2, <2>1
  <2>3. Len(f) \in Nat
    BY <1>2
  <2> QED
    BY <2>1, <2>2, <2>3
<1>5. w \in Seq(Digit) /\ f \in Seq(Digit) /\ Len(f) \in Nat
  <2>1. w \in [1..Len(w) -> Digit] /\ f \in [1..Len(f) -> Digit]
    BY <1>2, <1>4 DEF AllDigits
  <2>2. Len(w) \in Nat /\ Len(f) \in Nat
    BY <1>2
  <2> QED
    BY <2>1, <2>2
<1>6. z \in Seq(Digit) /\ Len(z) = d - Len(f) /\ \A i \in 1..d - Len(f) : z[i] = 0
  <2>1. d - Len(f) \in Nat
    BY <1>4, <1>5
  <2>2. z \in [1..d - Len(f) -> Digit]
    BY SymbolFacts DEF Zeros
  <2>3. \A i \in 1..d - Len(f) : z[i] = 0
    BY DEF Zeros
  <2> DEFINE k == d - Len(f)
  <2> HIDE DEF z, k
  <2>4. k \in Nat /\ z \in [1..k -> Digit]
    BY <2>1, <2>2 DEF k
  <2>5. z \in Seq(Digit) /\ Len(z) = k
    BY <2>4
  <2> QED
    BY <2>3, <2>5 DEF k
<1> HIDE DEF w, f, z, p, n
<1>7. /\ raw \in Seq(Digit) /\ Len(raw) = Len(w) + Len(f) + Len(z)
      /\ \A i \in 1..Len(w) : raw[i] = w[i]
      /\ \A i \in 1..Len(f) : raw[Len(w) + i] = f[i]
      /\ \A i \in 1..Len(z) : raw[Len(w) + Len(f) + i] = z[i]
  <2> DEFINE wf == w \o f
  <2>1. /\ wf \in Seq(Digit) /\ Len(wf) = Len(w) + Len(f)
        /\ \A i \in 1..Len(w) : wf[i] = w[i]
        /\ \A i \in 1..Len(f) : wf[Len(w) + i] = f[i]
    BY <1>5
  <2>2. Len(w) \in Nat /\ Len(f) \in Nat
    BY <1>5
  <2> HIDE DEF wf
  <2>3. /\ wf \o z \in Seq(Digit) /\ Len(wf \o z) = Len(wf) + Len(z)
        /\ \A i \in 1..Len(wf) : (wf \o z)[i] = wf[i]
        /\ \A i \in 1..Len(z) : (wf \o z)[Len(wf) + i] = z[i]
    <3>1. wf \in Seq(Digit) /\ z \in Seq(Digit)
      BY <1>6, <2>1
    <3> QED
      BY <3>1
  <2>4. raw = wf \o z
    BY DEF wf
  <2> HIDE DEF raw
  <2>5. \A i \in 1..Len(w) : i \in 1..Len(wf)
    BY <2>1, <2>2
  <2>6. \A i \in 1..Len(f) : Len(w) + i \in 1..Len(wf)
    BY <2>1, <2>2
  <2> QED
    BY <2>1, <2>3, <2>4, <2>5, <2>6
<1>8. raw = Raw(s, d)
  BY DEF Raw, w, f, z
<1> HIDE DEF raw
<1>9. Len(raw) = p - 1 + d
  BY <1>1, <1>2, <1>4, <1>5, <1>6, <1>7
<1>10. \A i \in 1..p - 1 : raw[i] = s[i]
  BY <1>2, <1>7
<1>11. ASSUME NEW i \in p + 1..n
       PROVE  raw[i - 1] = s[i]
  <2> DEFINE j == i - p
  <2>1. j \in 1..Len(f) /\ i = p + j /\ i - 1 = Len(w) + j
    BY <1>1, <1>2
  <2> HIDE DEF j
  <2> QED
    BY <1>2, <1>7, <2>1
<1>12. ASSUME NEW i \in p - 1 + Len(f) + 1..Len(raw)
       PROVE  raw[i] = 0
  <2> DEFINE j == i - (p - 1 + Len(f))
  <2>1. j \in 1..Len(z) /\ i = Len(w) + Len(f) + j
    BY <1>1, <1>2, <1>4, <1>5, <1>6, <1>9
  <2> HIDE DEF j
  <2>2. raw[i] = z[j] /\ z[j] = 0
    BY <1>6, <1>7, <2>1
  <2> QED
    BY <2>2
<1> QED
  BY <1>4, <1>5, <1>7, <1>8, <1>9, <1>10, <1>11, <1>12 DEF p, n, f

-----------------------------------------------------------------------------
(* A text is read as what it denotes.                                      *)

IsSum(sum, s, d, n) ==
    sum = [k \in 0..n |-> IF k = 0 THEN 0 ELSE sum[k - 1] + Worth(s, d, k)]

Sums(s, d) == CHOOSE sum : IsSum(sum, s, d, Len(s))

LEMMA SumExists ==
    ASSUME NEW s, NEW d, NEW n \in Nat
    PROVE  \E sum : IsSum(sum, s, d, n)
<1> DEFINE S == {k \in 0..n : \E sum : IsSum(sum, s, d, k)}
<1>1. 0 \in S
  <2>1. IsSum([k \in 0..0 |-> 0], s, d, 0)
    BY DEF IsSum
  <2> QED
    BY <2>1
<1>2. ASSUME NEW k \in 0..n, k < n, k \in S
      PROVE  k + 1 \in S
  <2>1. PICK sum : IsSum(sum, s, d, k)
    BY <1>2
  <2> DEFINE longer == [j \in 0..k + 1 |-> IF j = 0 THEN 0 ELSE sum[j - 1] + Worth(s, d, j)]
  <2>2. \A j \in 0..k + 1 : j # 0 => longer[j - 1] = sum[j - 1]
    <3> SUFFICES ASSUME NEW j \in 0..k + 1, j # 0
                 PROVE  longer[j - 1] = sum[j - 1]
      OBVIOUS
    <3> DEFINE i == j - 1
    <3>1. i \in 0..k /\ i \in 0..k + 1
      OBVIOUS
    <3> HIDE DEF i
    <3>2. sum[i] = IF i = 0 THEN 0 ELSE sum[i - 1] + Worth(s, d, i)
      BY <2>1, <3>1, Zenon DEF IsSum
    <3>3. longer[i] = IF i = 0 THEN 0 ELSE sum[i - 1] + Worth(s, d, i)
      BY <3>1, Zenon
    <3> QED
      BY <3>2, <3>3 DEF i
  <2>3. IsSum(longer, s, d, k + 1)
    <3>1. \A j \in 0..k + 1 : (IF j = 0 THEN 0 ELSE sum[j - 1] + Worth(s, d, j))
                                = (IF j = 0 THEN 0 ELSE longer[j - 1] + Worth(s, d, j))
      <4> HIDE DEF longer
      <4> QED
        BY <2>2, Zenon
    <3> QED
      BY <3>1, Zenon DEF IsSum
  <2> HIDE DEF longer
  <2> QED
    BY <1>2, <2>3
<1> HIDE DEF S
<1>3. n \in S
  BY <1>1, <1>2, Reaches
<1> QED
  BY <1>3 DEF S

LEMMA SumFacts ==
    ASSUME NEW s \in Seq(Symbols), NEW d
    PROVE  /\ Sums(s, d)[0] = 0
           /\ \A k \in 1..Len(s) : Sums(s, d)[k] = Sums(s, d)[k - 1] + Worth(s, d, k)
           /\ Denotes(s, d) = Sums(s, d)[Len(s)]
<1>1. Len(s) \in Nat
  OBVIOUS
<1> DEFINE sum == Sums(s, d)
<1>2. IsSum(sum, s, d, Len(s))
  BY <1>1, SumExists DEF Sums
<1>3. Denotes(s, d) = sum[Len(s)]
  BY Zenon DEF Denotes, IsSum, Sums
<1> HIDE DEF sum
<1>4. sum[0] = 0
  BY <1>1, <1>2 DEF IsSum
<1>5. \A k \in 1..Len(s) : sum[k] = sum[k - 1] + Worth(s, d, k)
  <2>1. \A k \in 1..Len(s) : k \in 0..Len(s) /\ k # 0
    BY <1>1
  <2> QED
    BY <1>2, <2>1, Zenon DEF IsSum
<1> QED
  BY <1>3, <1>4, <1>5 DEF sum

LEMMA TrailingZeros ==
    ASSUME NEW a \in Seq(Digit), NEW m \in 0..Len(a), \A i \in m + 1..Len(a) : a[i] = 0
    PROVE  Value(a) = Reads(a)[m] * Power[Len(a) - m]
<1> DEFINE n == Len(a) - m
           r == Reads(a)[m]
           S == {j \in 0..n : Reads(a)[m + j] = r * Power[j]}
<1>1. n \in Nat /\ m \in Nat /\ Len(a) = m + n /\ m + 0 = m /\ Len(a) \in Nat
  OBVIOUS
<1>2. r \in Nat
  BY ReadsFacts
<1> HIDE DEF n, r
<1>3. 0 \in S
  <2>1. Reads(a)[m + 0] = r * 1
    BY <1>1, <1>2 DEF r
  <2>2. Power[0] = 1 /\ 0 \in 0..n
    BY <1>1, PowerFacts
  <2> QED
    BY <2>1, <2>2
<1>4. ASSUME NEW j \in 0..n, j < n, j \in S
      PROVE  j + 1 \in S
  <2> DEFINE k == m + (j + 1)
             p == Power[j]
  <2>1. k \in 1..Len(a) /\ k \in m + 1..Len(a) /\ k - 1 = m + j /\ j \in Nat /\ j + 1 \in 0..n
    BY <1>1, <1>4
  <2>2. p \in Nat /\ Power[j + 1] = Base * p
    BY <2>1, PowerFacts
  <2> HIDE DEF k, p
  <2>3. Reads(a)[k] = Reads(a)[k - 1] * Base + 0
    BY <2>1, ReadsFacts
  <2>4. Reads(a)[k - 1] = r * p
    BY <1>4, <2>1 DEF p
  <2>5. (r * p) * Base + 0 = r * (Base * p)
    BY <1>2, <2>2, SymbolFacts
  <2>6. Reads(a)[k] = r * Power[j + 1]
    BY <2>2, <2>3, <2>4, <2>5
  <2> QED
    BY <2>1, <2>6 DEF k
<1> HIDE DEF S
<1>5. n \in S
  <2>1. \A j \in 0..n : j \in S
    BY <1>1, <1>3, <1>4, Reaches
  <2> QED
    BY <1>1, <2>1
<1>6. Reads(a)[m + n] = r * Power[n]
  BY <1>5 DEF S
<1> QED
  BY <1>1, <1>6, ReadsFacts DEF n, r

\* The digits before the dot and behind it make one number, in units of the
\* last place.
LEMMA DenotesRaw ==
    ASSUME NEW s \in Seq(Symbols), NEW d \in Nat, IsAmount(s, d)
    PROVE  Denotes(s, d) = Value(Raw(s, d))
<1> DEFINE p == Point(s)
           n == Len(s)
           f == Len(Fraction(s))
           a == Raw(s, d)
           e == p - 1 + d
           Read(k) == IF k < p THEN k ELSE k - 1
           S == {k \in 0..n : Sums(s, d)[k] = Reads(a)[Read(k)] * Power[e - Read(k)]}
<1>1. n \in Nat /\ p \in 1..n + 1 /\ p > 1
  BY PointFacts, RawFacts
<1>2. /\ a \in Seq(Digit) /\ Len(a) = e
      /\ f \in 0..d /\ f = (IF p <= n THEN n - p ELSE 0)
      /\ \A i \in 1..p - 1 : a[i] = s[i]
      /\ \A i \in p + 1..n : a[i - 1] = s[i]
      /\ \A i \in p - 1 + f + 1..e : a[i] = 0
  BY RawFacts, PartFacts
<1>3. e \in Nat /\ n <= p + d
  BY <1>1, <1>2
<1>4. \A k : Worth(s, d, k) = IF k = p THEN 0
                             ELSE s[k] * Power[d + p - k - (IF k < p THEN 1 ELSE 0)]
  BY DEF Worth
<1> HIDE DEF p, n, f, a
<1>5. 0 \in S
  <2>1. Read(0) = 0
    BY <1>1
  <2>2. Reads(a)[0] = 0 /\ Power[e - 0] \in Nat
    <3>1. e - 0 \in Nat
      BY <1>3
    <3> HIDE DEF e
    <3> QED
      BY <1>2, <3>1, ReadsFacts, PowerFacts
  <2>3. Sums(s, d)[0] = 0
    BY SumFacts
  <2>4. 0 * Power[e - 0] = 0
    BY <2>2
  <2> QED
    BY <1>1, <2>1, <2>2, <2>3, <2>4
<1>6. ASSUME NEW k \in 0..n, k < n, k \in S
      PROVE  k + 1 \in S
  <2> DEFINE j == k + 1
  <2>1. j \in 1..n /\ j - 1 = k /\ j \in 0..n
    BY <1>1, <1>6
  <2>2. Sums(s, d)[j] = Sums(s, d)[k] + Worth(s, d, j)
    BY <2>1, SumFacts DEF n
  <2>3. Sums(s, d)[k] = Reads(a)[Read(k)] * Power[e - Read(k)]
    BY <1>6
  <2>4. CASE j = p
    <3>1. Read(j) = Read(k) /\ Worth(s, d, j) = 0 /\ Read(k) = k /\ k <= e
      BY <1>1, <1>3, <1>4, <2>1, <2>4
    <3>2. e - k \in Nat /\ k \in 0..e
      BY <1>3, <2>1, <3>1
    <3>3. Reads(a)[k] * Power[e - k] \in Nat
      <4>1. Reads(a)[k] \in Nat /\ Power[e - k] \in Nat
        BY <1>2, <3>2, ReadsFacts, PowerFacts
      <4> QED
        BY <4>1
    <3>4. Sums(s, d)[j] = Sums(s, d)[k]
      BY <2>2, <2>3, <3>1, <3>3
    <3> QED
      BY <2>1, <2>3, <3>1, <3>4
  <2>5. CASE j # p
    <3> DEFINE i == Read(j)
    <3>1. /\ i \in 1..e /\ i - 1 = Read(k) /\ a[i] = s[j]
          /\ e - i \in Nat /\ e - (i - 1) = (e - i) + 1
          /\ d + p - j - (IF j < p THEN 1 ELSE 0) = e - i
      <4>1. CASE j < p
        BY <1>1, <1>2, <1>3, <2>1, <4>1
      <4>2. CASE j > p
        BY <1>1, <1>2, <1>3, <2>1, <4>2
      <4> QED
        BY <1>1, <2>1, <2>5, <4>1, <4>2
    <3> HIDE DEF i
    <3>2. Worth(s, d, j) = a[i] * Power[e - i]
      BY <1>4, <2>5, <3>1
    <3> DEFINE x == Reads(a)[i - 1]
               c == a[i]
               q == Power[e - i]
    <3>3. /\ Reads(a)[i] = x * Base + c /\ x \in Nat /\ c \in Nat
          /\ q \in Nat /\ Power[(e - i) + 1] = Base * q
      BY <1>2, <3>1, ReadsFacts, PowerFacts
    <3> HIDE DEF x, c, q
    <3>4. x * (Base * q) + c * q = (x * Base + c) * q
      BY <3>3, SymbolFacts
    <3>5. Sums(s, d)[k] = x * (Base * q)
      BY <2>3, <3>1, <3>3 DEF x
    <3>6. Worth(s, d, j) = c * q
      BY <3>2 DEF c, q
    <3>7. Sums(s, d)[j] = Reads(a)[i] * Power[e - i]
      BY <2>2, <3>3, <3>4, <3>5, <3>6 DEF q
    <3> QED
      BY <2>1, <3>7 DEF i
  <2> QED
    BY <2>4, <2>5
<1> HIDE DEF S
<1>7. n \in S
  <2>1. \A k \in 0..n : k \in S
    BY <1>1, <1>5, <1>6, Reaches
  <2> QED
    BY <1>1, <2>1
<1> DEFINE m == Read(n)
<1>8. Sums(s, d)[n] = Reads(a)[m] * Power[e - m]
  BY <1>7 DEF S
<1>9. m = p - 1 + f /\ m \in 0..e
  BY <1>1, <1>2, <1>3
<1> HIDE DEF m
<1>10. Value(a) = Reads(a)[m] * Power[e - m]
  <2>1. m \in 0..Len(a) /\ \A i \in m + 1..Len(a) : a[i] = 0
    BY <1>2, <1>9
  <2> QED
    BY <1>2, <2>1, TrailingZeros
<1> QED
  BY <1>8, <1>10, SumFacts DEF n, a

\* parse_amount accepts exactly the amounts within u64.
LEMMA ParseFacts ==
    ASSUME NEW value, Trimmed(value) \in Seq(Symbols), NEW d \in Nat
    PROVE  LET s == Trimmed(value)
               n == ParseAmount(value, d)
           IN  /\ n \in 0..MaxAmount
               /\ n # 0 <=> IsAmount(s, d) /\ Denotes(s, d) \in 1..MaxAmount
               /\ n # 0 => n = Denotes(s, d) /\ n = Value(Raw(s, d))
<1> DEFINE s == Trimmed(value)
<1>1. s \in Seq(Symbols)
  OBVIOUS
<1>2. ParseAmount(value, d) = IF Malformed(s, d) THEN 0 ELSE ParsedAmount(Raw(s, d))
  BY Zenon DEF ParseAmount, Malformed
<1> HIDE DEF s
<1>3. Malformed(s, d) <=> ~IsAmount(s, d)
  BY <1>1, FormFacts
<1>4. MaxAmount \in Nat
  BY AmountsAssumption
<1>5. CASE ~IsAmount(s, d)
  <2>1. ParseAmount(value, d) = 0
    BY <1>2, <1>3, <1>5
  <2> QED
    BY <1>4, <1>5, <2>1 DEF s
<1>6. CASE IsAmount(s, d)
  <2> DEFINE v == Value(Raw(s, d))
  <2>1. v \in Nat /\ Denotes(s, d) = v
    BY <1>1, <1>6, RawFacts, ReadsFacts, DenotesRaw
  <2>2. ParseAmount(value, d) = IF v <= MaxAmount THEN v ELSE 0
    BY <1>2, <1>3, <1>6 DEF ParsedAmount
  <2> HIDE DEF v
  <2>3. /\ ParseAmount(value, d) \in 0..MaxAmount
        /\ ParseAmount(value, d) # 0 <=> v \in 1..MaxAmount
        /\ ParseAmount(value, d) # 0 => ParseAmount(value, d) = v
    BY <1>4, <2>1, <2>2
  <2> QED
    BY <1>6, <2>1, <2>3 DEF s, v
<1> QED
  BY <1>5, <1>6

-----------------------------------------------------------------------------
(* How an amount is printed.                                               *)

LEMMA MaxFacts ==
    ASSUME NEW top \in Nat, NEW S, S \subseteq 1..top, S # {}
    PROVE  Max(S) \in S /\ \A i \in S : i <= Max(S)
<1> DEFINE R == {top - i : i \in S}
<1>0. \A i \in S : i \in Nat /\ i <= top
  OBVIOUS
<1>1. R \subseteq Nat /\ R # {}
  <2>1. \A i \in S : top - i \in Nat
    BY <1>0
  <2> QED
    BY <2>1
<1>2. Min(R) \in R /\ \A j \in R : Min(R) <= j
  BY <1>1, MinFacts
<1>3. PICK i \in S : Min(R) = top - i
  BY <1>2
<1>4. \A j \in S : i >= j
  <2> SUFFICES ASSUME NEW j \in S
               PROVE  i >= j
    OBVIOUS
  <2>1. top - j \in R /\ i \in Nat /\ j \in Nat
    OBVIOUS
  <2>2. top - i <= top - j
    BY <1>2, <1>3, <2>1
  <2> QED
    BY <2>1, <2>2
<1>5. Max(S) \in S /\ \A j \in S : Max(S) >= j
  BY <1>4 DEF Max
<1>6. Max(S) \in Nat /\ \A j \in S : j \in Nat
  BY <1>0, <1>5
<1> QED
  BY <1>5, <1>6

LEMMA TrimmedFacts ==
    ASSUME NEW s \in Seq(Symbols)
    PROVE  /\ Trimmed(s) \in Seq(Symbols)
           /\ (\A i \in 1..Len(s) : s[i] # Space) => Trimmed(s) = s
<1> DEFINE solid == {i \in DOMAIN s : s[i] # Space}
           n == Len(s)
<1>1. n \in Nat /\ DOMAIN s = 1..n
  OBVIOUS
<1>2. solid \subseteq 1..n
  OBVIOUS
<1>3. CASE solid = {}
  <2>1. Trimmed(s) = <<>>
    BY <1>3 DEF Trimmed
  <2>2. (\A i \in 1..n : s[i] # Space) => n = 0
    BY <1>1, <1>3
  <2>3. n = 0 => s = <<>>
    BY <1>1
  <2> QED
    BY <2>1, <2>2, <2>3
<1>4. CASE solid # {}
  <2> DEFINE a == Min(solid)
             b == Max(solid)
  <2>1. Trimmed(s) = SubSeq(s, a, b)
    BY <1>4 DEF Trimmed
  <2>2. a \in solid /\ b \in solid /\ (\A i \in solid : a <= i) /\ \A i \in solid : i <= b
    <3> HIDE DEF solid
    <3>1. solid \subseteq Nat
      BY <1>2
    <3> QED
      BY <1>1, <1>2, <1>4, <3>1, MinFacts, MaxFacts
  <2> HIDE DEF a, b
  <2>3. a \in 1..n /\ b \in 1..n
    BY <1>2, <2>2
  <2>4. SubSeq(s, a, b) \in Seq(Symbols)
    BY <1>1, <2>3
  <2>5. ASSUME \A i \in 1..n : s[i] # Space
        PROVE  a = 1 /\ b = n
    <3>1. 1 \in solid /\ n \in solid
      BY <1>1, <2>3, <2>5
    <3> HIDE DEF solid
    <3>2. a <= 1 /\ n <= b
      BY <2>2, <3>1
    <3> HIDE DEF n
    <3> QED
      BY <1>1, <2>3, <3>2
  <2>6. SubSeq(s, 1, n) = s
    BY <1>1
  <2> QED
    BY <2>1, <2>4, <2>5, <2>6
<1> QED
  BY <1>3, <1>4

\* Digits a with d decimals, all of them, and what is printed of them: w digits,
\* and m more behind a dot.
Prints(str, a, w, m, d) ==
    /\ a \in Seq(Digit) /\ w \in Nat \ {0} /\ m \in 0..d /\ Len(a) = w + d
    /\ w > 1 => a[1] # 0
    /\ str \in Seq(Digit \cup {Dot}) /\ Len(str) = (IF m = 0 THEN w ELSE w + 1 + m)
    /\ \A i \in 1..w : str[i] = a[i]
    /\ m > 0 => str[w + 1] = Dot /\ a[w + m] # 0
    /\ \A i \in 1..m : str[w + 1 + i] = a[w + i]
    /\ \A i \in m + 1..d : a[w + i] = 0

\* Before zeros and a dot at the end are popped.
Splits(str, a, w, d) ==
    /\ a \in Seq(Digit) /\ w \in Nat \ {0} /\ Len(a) = w + d
    /\ w > 1 => a[1] # 0
    /\ str \in Seq(Digit \cup {Dot}) /\ Len(str) = w + 1 + d
    /\ \A i \in 1..w : str[i] = a[i]
    /\ str[w + 1] = Dot
    /\ \A i \in 1..d : str[w + 1 + i] = a[w + i]

LEMMA SplitFacts ==
    ASSUME NEW n \in Nat \ {0}, NEW d \in Nat \ {0}
    PROVE  \E a, w : Splits(Split(Digits(n), d), a, w, d) /\ Value(a) = n
<1> DEFINE D == Digits(n)
           l == Len(D)
           T == Digit \cup {Dot}
           str == Split(D, d)
<1>1. /\ D \in Seq(Digit) /\ l >= 1 /\ Value(D) = n /\ D[1] # 0
      /\ l \in Nat /\ l = Len(D)
  <2>1. D \in Seq(Digit) /\ Len(D) >= 1 /\ Value(D) = n /\ D[1] # 0
    BY DigitsFacts
  <2> HIDE DEF D
  <2> QED
    BY <2>1
<1>2. Digit \subseteq T /\ 0 \in Digit /\ Dot \in T
  BY SymbolFacts
<1> HIDE DEF D, l, T
<1>3. CASE l <= d
  <2> DEFINE z == Zeros(d - l)
             k == d - l
  <2>1. k \in Nat /\ k + l = d
    BY <1>1, <1>3
  <2>2. z \in [1..k -> Digit] /\ \A i \in 1..k : z[i] = 0
    BY <1>2 DEF Zeros
  <2> HIDE DEF z, k
  <2>3. z \in Seq(Digit) /\ Len(z) = k /\ \A i \in 1..k : z[i] = 0
    BY <2>1, <2>2
  <2> DEFINE zD == z \o D
  <2>4. /\ zD \in Seq(Digit) /\ Len(zD) = d
        /\ \A i \in 1..k : zD[i] = 0
        /\ \A i \in 1..l : zD[k + i] = D[i]
    <3>1. /\ zD \in Seq(Digit) /\ Len(zD) = Len(z) + Len(D)
          /\ \A i \in 1..Len(z) : zD[i] = z[i]
          /\ \A i \in 1..Len(D) : zD[Len(z) + i] = D[i]
      BY <1>1, <2>3
    <3> HIDE DEF zD
    <3> QED
      BY <1>1, <2>1, <2>3, <3>1
  <2>5. str = <<0, Dot>> \o zD
    <3>1. str = <<0, Dot>> \o z \o D
      BY <1>3 DEF Split, z, l
    <3>2. <<0, Dot>> \in Seq(T) /\ z \in Seq(T) /\ D \in Seq(T)
      BY <1>1, <1>2, <2>3
    <3> QED
      BY <3>1, <3>2
  <2> HIDE DEF zD
  <2> DEFINE a == <<0>> \o zD
  <2>6. /\ a \in Seq(Digit) /\ Len(a) = 1 + d /\ a[1] = 0
        /\ \A i \in 1..d : a[1 + i] = zD[i]
    BY <1>2, <2>4
  <2>7. /\ str \in Seq(T) /\ Len(str) = 2 + d /\ str[1] = 0 /\ str[2] = Dot
        /\ \A i \in 1..d : str[2 + i] = zD[i]
    <3>1. zD \in Seq(T)
      BY <1>2, <2>4
    <3>2. <<0, Dot>> \in Seq(T)
      BY <1>2
    <3> QED
      BY <2>4, <2>5, <3>1, <3>2
  <2> HIDE DEF a, str
  <2>8. Splits(str, a, 1, d)
    <3>1. \A i \in 1..1 : str[i] = a[i]
      BY <2>6, <2>7
    <3>2. 1 + 1 = 2 /\ ~(1 > 1) /\ 1 \in Nat \ {0}
      OBVIOUS
    <3> QED
      BY <2>6, <2>7, <3>1, <3>2 DEF Splits, T
  <2>9. Value(a) = Value(D)
    <3> DEFINE j == 1 + k
    <3>1. j \in Nat /\ Len(a) = j + Len(D)
      <4>1. l \in Nat /\ k \in Nat /\ k + l = d /\ Len(a) = 1 + d /\ l = Len(D)
        BY <1>1, <2>1, <2>6
      <4>2. 1 + d = (1 + k) + l
        BY <4>1
      <4> QED
        BY <4>1, <4>2
    <3>2. ASSUME NEW i \in 1..j
          PROVE  a[i] = 0
      <4>1. CASE i = 1
        BY <2>6, <4>1
      <4>2. CASE i # 1
        <5> DEFINE h == i - 1
        <5>1. h \in 1..k /\ h \in 1..d /\ i = 1 + h
          BY <1>1, <2>1, <4>2
        <5> HIDE DEF h
        <5> QED
          BY <2>4, <2>6, <5>1
      <4> QED
        BY <4>1, <4>2
    <3>3. ASSUME NEW i \in 1..Len(D)
          PROVE  a[j + i] = D[i]
      <4>1. k + i \in 1..d /\ 1 + (k + i) = j + i
        BY <1>1, <2>1
      <4> HIDE DEF j
      <4> QED
        BY <1>1, <2>4, <2>6, <4>1
    <3> HIDE DEF j
    <3> QED
      BY <1>1, <2>6, <3>1, <3>2, <3>3, LeadingZeros
  <2> QED
    BY <1>1, <2>8, <2>9 DEF str, D
<1>4. CASE ~(l <= d)
  <2> DEFINE w == l - d
             x == SubSeq(D, 1, w)
             y == SubSeq(D, w + 1, l)
  <2>1. w \in Nat \ {0} /\ l = w + d
    BY <1>1, <1>4
  <2>2. str = x \o <<Dot>> \o y
    BY <1>4 DEF Split, SplitAt, l
  <2> HIDE DEF w
  <2>0. D \in Seq(Digit) /\ w \in Nat /\ w + d = Len(D) /\ l = Len(D)
    BY <1>1, <2>1
  <2>3. /\ x \in Seq(Digit) /\ Len(x) = w /\ \A i \in 1..w : x[i] = D[i]
    BY <2>0
  <2>4. /\ y \in Seq(Digit) /\ Len(y) = d /\ \A i \in 1..d : y[i] = D[w + i]
    BY <2>0
  <2> HIDE DEF x, y
  <2>5. x \in Seq(T) /\ y \in Seq(T) /\ <<Dot>> \in Seq(T)
    BY <1>2, <2>3, <2>4
  <2>6. /\ str \in Seq(T) /\ Len(str) = w + 1 + d
        /\ \A i \in 1..w : str[i] = x[i]
        /\ str[w + 1] = Dot
        /\ \A i \in 1..d : str[w + 1 + i] = y[i]
    <3> DEFINE xd == x \o <<Dot>>
    <3>1. /\ xd \in Seq(T) /\ Len(xd) = w + 1 /\ xd[w + 1] = Dot
          /\ \A i \in 1..w : xd[i] = x[i]
      BY <2>1, <2>3, <2>5
    <3> HIDE DEF xd
    <3>2. /\ xd \o y \in Seq(T) /\ Len(xd \o y) = w + 1 + d
          /\ \A i \in 1..w + 1 : (xd \o y)[i] = xd[i]
          /\ \A i \in 1..d : (xd \o y)[w + 1 + i] = y[i]
      <4>1. xd \in Seq(T) /\ y \in Seq(T)
        BY <2>5, <3>1
      <4>2. /\ xd \o y \in Seq(T) /\ Len(xd \o y) = Len(xd) + Len(y)
            /\ \A i \in 1..Len(xd) : (xd \o y)[i] = xd[i]
            /\ \A i \in 1..Len(y) : (xd \o y)[Len(xd) + i] = y[i]
        BY <4>1
      <4>3. Len(xd) = w + 1 /\ Len(y) = d
        BY <2>4, <3>1
      <4> QED
        BY <4>2, <4>3
    <3>3. str = xd \o y
      BY <2>2 DEF xd
    <3>4. w + 1 \in 1..w + 1 /\ \A i \in 1..w : i \in 1..w + 1
      BY <2>1
    <3> HIDE DEF str
    <3> QED
      BY <3>1, <3>2, <3>3, <3>4
  <2> HIDE DEF str
  <2>7. Splits(str, D, w, d)
    BY <1>1, <2>1, <2>3, <2>4, <2>6 DEF Splits, T
  <2> QED
    BY <1>1, <2>7 DEF str, D
<1> QED
  BY <1>3, <1>4

LEMMA FormatFacts ==
    ASSUME NEW n \in Nat \ {0}, NEW d \in Nat
    PROVE  \E a, w, m : Prints(FormatAmount(n, d), a, w, m, d) /\ Value(a) = n
<1> DEFINE str == FormatAmount(n, d)
           T == Digit \cup {Dot}
<1>1. Digit \subseteq T /\ Digit \subseteq Nat /\ Dot \notin Digit /\ Dot # 0
  BY SymbolFacts
<1> HIDE DEF T
<1>2. CASE d = 0
  <2> DEFINE D == Digits(n)
  <2>1. /\ D \in Seq(Digit) /\ Len(D) >= 1 /\ Value(D) = n /\ D[1] # 0
    BY DigitsFacts
  <2>2. str = D
    BY <1>2 DEF FormatAmount
  <2> HIDE DEF D, str
  <2>3. D \in Seq(T) /\ Len(D) \in Nat \ {0}
    <3>1. D \in [1..Len(D) -> Digit] /\ Len(D) \in Nat
      BY <2>1
    <3>2. D \in [1..Len(D) -> T]
      BY <1>1, <3>1
    <3> QED
      BY <2>1, <3>1, <3>2
  <2>4. Prints(str, D, Len(D), 0, d)
    BY <1>2, <2>1, <2>2, <2>3 DEF Prints, T
  <2> QED
    BY <2>1, <2>4 DEF str
<1>3. CASE d # 0
  <2> DEFINE z == Split(Digits(n), d)
             solid == {i \in DOMAIN z : z[i] # 0}
             x == Max(solid)
             y == SubSeq(z, 1, x)
  <2>1. PICK a, w : Splits(z, a, w, d) /\ Value(a) = n
    BY <1>3, SplitFacts
  <2>2. str = PoppedDot(y)
    BY <1>3 DEF FormatAmount, PoppedZeros
  <2> HIDE DEF z, str
  <2>3. /\ a \in Seq(Digit) /\ w \in Nat \ {0} /\ Len(a) = w + d
        /\ w > 1 => a[1] # 0
        /\ z \in Seq(T) /\ Len(z) = w + 1 + d
        /\ \A i \in 1..w : z[i] = a[i]
        /\ z[w + 1] = Dot
        /\ \A i \in 1..d : z[w + 1 + i] = a[w + i]
    BY <2>1, Zenon DEF Splits, T
  <2>4. DOMAIN z = 1..w + 1 + d /\ w + 1 + d \in Nat
    BY <2>3
  <2>5. w + 1 \in solid /\ solid \subseteq 1..w + 1 + d
    <3>1. w + 1 \in 1..w + 1 + d
      BY <2>3
    <3> QED
      BY <1>1, <2>3, <2>4, <3>1
  <2>6. x \in solid /\ \A i \in solid : i <= x
    <3> HIDE DEF solid
    <3> QED
      BY <2>4, <2>5, MaxFacts
  <2>7. x \in 1..w + 1 + d /\ w + 1 <= x /\ z[x] # 0
        /\ \A i \in 1..w + 1 + d : ~(i <= x) => z[i] = 0
    BY <2>4, <2>5, <2>6
  <2> HIDE DEF solid, x
  <2> DEFINE m == x - (w + 1)
  <2>8. m \in 0..d /\ x = w + 1 + m
    BY <2>3, <2>7
  <2>9. y \in Seq(T) /\ Len(y) = x /\ \A i \in 1..x : y[i] = z[i]
    <3>1. x \in Nat /\ x <= Len(z) /\ Len(z) \in Nat
      BY <2>3, <2>7
    <3> QED
      BY <2>3, <3>1
  <2> HIDE DEF y, m
  <2>10. \A i \in 1..d : ~(i <= m) => a[w + i] = 0
    <3> SUFFICES ASSUME NEW i \in 1..d, ~(i <= m)
                 PROVE  a[w + i] = 0
      OBVIOUS
    <3>1. w + 1 + i \in 1..w + 1 + d /\ ~(w + 1 + i <= x)
      BY <2>3, <2>8
    <3> QED
      BY <2>3, <2>7, <3>1
  <2>11. \A i \in m + 1..d : a[w + i] = 0
    <3>1. \A i \in m + 1..d : i \in 1..d /\ ~(i <= m)
      BY <2>8
    <3> QED
      BY <2>10, <3>1
  <2>12. Last(y) = z[x] /\ x \in 1..x
    BY <2>3, <2>7, <2>9 DEF Last
  <2>13. \A i \in 1..w : i \in 1..x /\ i \in 1..x - 1
    BY <2>3, <2>8
  <2>14. CASE m = 0
    <3>1. x = w + 1 /\ z[x] = Dot
      BY <2>3, <2>8, <2>14
    <3>2. str = Front(y)
      BY <2>2, <2>12, <3>1 DEF PoppedDot
    <3>3. Front(y) = SubSeq(y, 1, x - 1) /\ x - 1 = w
      BY <2>3, <2>9, <3>1 DEF Front
    <3>4. str \in Seq(T) /\ Len(str) = w /\ \A i \in 1..w : str[i] = y[i]
      <4>1. str = SubSeq(y, 1, w) /\ w \in Nat /\ w <= Len(y) /\ Len(y) \in Nat
        BY <2>3, <2>9, <3>1, <3>2, <3>3
      <4> QED
        BY <2>9, <4>1
    <3>5. \A i \in 1..w : str[i] = a[i]
      BY <2>3, <2>9, <2>13, <3>4
    <3>6. \A i \in 1..0 : FALSE
      OBVIOUS
    <3>7. Prints(str, a, w, 0, d)
      BY <2>3, <2>8, <2>11, <2>14, <3>4, <3>5, <3>6 DEF Prints, T
    <3> QED
      BY <2>1, <3>7 DEF str
  <2>15. CASE m # 0
    <3>1. m \in 1..d /\ z[x] = a[w + m]
      BY <2>3, <2>8, <2>15
    <3>2. a[w + m] # 0 /\ a[w + m] \in Digit
      <4>1. w + m \in 1..Len(a)
        BY <2>3, <3>1
      <4> QED
        BY <2>3, <2>7, <3>1, <4>1
    <3>3. str = y
      BY <1>1, <2>2, <2>12, <3>1, <3>2 DEF PoppedDot
    <3>4. \A i \in 1..m : w + 1 + i \in 1..x /\ i \in 1..d
      BY <2>3, <2>8
    <3>5. w + 1 \in 1..x
      BY <2>3, <2>8
    <3>6. /\ \A i \in 1..w : str[i] = a[i]
          /\ str[w + 1] = Dot
          /\ \A i \in 1..m : str[w + 1 + i] = a[w + i]
      BY <2>3, <2>9, <2>13, <3>3, <3>4, <3>5
    <3>7. Prints(str, a, w, m, d)
      BY <2>3, <2>8, <2>9, <2>11, <2>15, <3>2, <3>3, <3>6 DEF Prints, T
    <3> QED
      BY <2>1, <3>7 DEF str
  <2> QED
    BY <2>14, <2>15
<1> QED
  BY <1>2, <1>3

\* What is printed is read with the same digits.
LEMMA PrintsRaw ==
    ASSUME NEW str, NEW a, NEW w, NEW m, NEW d \in Nat, Prints(str, a, w, m, d)
    PROVE  /\ str \in Seq(Symbols) /\ Trimmed(str) = str
           /\ IsAmount(str, d) /\ Raw(str, d) = a
<1> DEFINE T == Digit \cup {Dot}
           n == Len(str)
<1>1. /\ a \in Seq(Digit) /\ w \in Nat \ {0} /\ m \in 0..d /\ Len(a) = w + d
      /\ str \in Seq(T) /\ n = (IF m = 0 THEN w ELSE w + 1 + m)
      /\ \A i \in 1..w : str[i] = a[i]
      /\ m > 0 => str[w + 1] = Dot
      /\ \A i \in 1..m : str[w + 1 + i] = a[w + i]
      /\ \A i \in m + 1..d : a[w + i] = 0
  BY Zenon DEF Prints
<1>2. T \subseteq Symbols /\ Space \notin T /\ Dot \notin Digit
  BY SymbolFacts
<1> HIDE DEF T
<1>3. n \in Nat /\ DOMAIN str = 1..n /\ str \in Seq(Symbols)
  BY <1>1, <1>2
<1>4. \A i \in 1..n : str[i] # Space
  BY <1>1, <1>2, <1>3
<1>5. Trimmed(str) = str
  BY <1>3, <1>4, TrimmedFacts
<1> HIDE DEF n
\* Which places are digits.
<1>6. \A i \in 1..w : i \in 1..Len(a) /\ i \in 1..n /\ a[i] \in Digit
  BY <1>1
<1>7. \A i \in 1..m : w + i \in 1..Len(a) /\ a[w + i] \in Digit
  BY <1>1
<1>8. \A i \in 1..n : i \in 1..w \/ (i = w + 1 /\ m > 0) \/ (m > 0 /\ \E j \in 1..m : i = w + 1 + j)
  <2> SUFFICES ASSUME NEW i \in 1..n, i \notin 1..w, i # w + 1
               PROVE  m > 0 /\ \E j \in 1..m : i = w + 1 + j
    BY <1>1
  <2> DEFINE j == i - (w + 1)
  <2>1. m > 0 /\ j \in 1..m /\ i = w + 1 + j
    BY <1>1
  <2> HIDE DEF j
  <2> QED
    BY <2>1
<1>9. \A i \in 1..n : i # w + 1 => str[i] \in Digit
  <2> SUFFICES ASSUME NEW i \in 1..n, i # w + 1 PROVE str[i] \in Digit
    OBVIOUS
  <2>1. CASE i \in 1..w
    <3>1. str[i] = a[i]
      BY <1>1, <2>1
    <3> QED
      BY <1>6, <2>1, <3>1
  <2>2. ASSUME NEW j \in 1..m, i = w + 1 + j PROVE str[i] \in Digit
    <3>1. str[w + 1 + j] = a[w + j]
      BY <1>1
    <3> QED
      BY <1>7, <2>2, <3>1
  <2> QED
    BY <1>8, <2>1, <2>2
<1>10. Point(str) = w + 1
  <2>1. CASE m = 0
    <3>1. \A i \in 1..n : i # w + 1
      BY <1>1, <2>1
    <3>2. Dots(str) = {}
      BY <1>2, <1>3, <1>9, <3>1 DEF Dots
    <3> QED
      BY <1>1, <1>3, <2>1, <3>2, PointFacts DEF n
  <2>2. CASE m # 0
    <3>1. w + 1 \in 1..n /\ str[w + 1] = Dot
      BY <1>1, <2>2
    <3>2. Dots(str) = {w + 1}
      BY <1>2, <1>3, <1>9, <3>1 DEF Dots
    <3> QED
      BY <1>3, <3>2, PointFacts
  <2> QED
    BY <2>1, <2>2
<1>11. IsAmount(str, d)
  <2>1. w + 1 > 1 /\ n <= w + 1 + d
    BY <1>1
  <2>2. \A i \in DOMAIN str : str[i] \in Digit \/ i = Point(str)
    BY <1>3, <1>9, <1>10
  <2>3. Point(str) > 1 /\ Len(str) <= Point(str) + d
    BY <1>10, <2>1 DEF n
  <2> QED
    BY <2>2, <2>3 DEF IsAmount
<1> DEFINE b == Raw(str, d)
           f == Len(Fraction(str))
<1>12. /\ b \in Seq(Digit) /\ Len(b) = w + d
       /\ \A i \in 1..w : b[i] = str[i]
       /\ \A i \in w + 2..n : b[i - 1] = str[i]
       /\ \A i \in w + f + 1..Len(b) : b[i] = 0
       /\ f = (IF w + 1 <= n THEN n - (w + 1) ELSE 0)
  <2>1. (w + 1) - 1 = w /\ (w + 1) + 1 = w + 2
    BY <1>1
  <2> QED
    BY <1>3, <1>10, <1>11, <2>1, RawFacts, PartFacts DEF n
<1>13. f = m
  BY <1>1, <1>12
<1> HIDE DEF b, f
<1>14. \A i \in 1..Len(a) : a[i] = b[i]
  <2> SUFFICES ASSUME NEW i \in 1..w + d
               PROVE  a[i] = b[i]
    BY <1>1
  <2>1. CASE i <= w
    BY <1>1, <1>12, <2>1
  <2>2. CASE i > w
    <3> DEFINE j == i - w
    <3>1. j \in 1..d /\ i = w + j
      BY <1>1, <2>2
    <3> HIDE DEF j
    <3>2. CASE j <= m
      <4>1. j \in 1..m /\ w + 1 + j \in w + 2..n /\ (w + 1 + j) - 1 = w + j
        BY <1>1, <3>1, <3>2
      <4> QED
        BY <1>1, <1>12, <3>1, <4>1
    <3>3. CASE ~(j <= m)
      <4>1. j \in m + 1..d /\ w + j \in w + f + 1..Len(b)
        BY <1>1, <1>12, <1>13, <3>1, <3>3
      <4> QED
        BY <1>1, <1>12, <3>1, <4>1
    <3> QED
      BY <3>2, <3>3
  <2> QED
    BY <1>1, <2>1, <2>2
<1>15. b = a
  BY <1>1, <1>12, <1>14, SeqEqual
<1> QED
  BY <1>3, <1>5, <1>11, <1>15 DEF b

\* No text of the same value is shorter.
LEMMA PrintsShortest ==
    ASSUME NEW d \in Nat, NEW str, NEW a, NEW w, NEW m, Prints(str, a, w, m, d),
           NEW s \in Seq(Symbols), IsAmount(s, d), Value(Raw(s, d)) = Value(a)
    PROVE  Len(str) <= Len(s)
<1> DEFINE p == Point(s)
           n == Len(s)
           f == Len(Fraction(s))
           b == Raw(s, d)
<1>1. /\ a \in Seq(Digit) /\ w \in Nat \ {0} /\ m \in 0..d /\ Len(a) = w + d
      /\ w > 1 => a[1] # 0
      /\ Len(str) = (IF m = 0 THEN w ELSE w + 1 + m)
      /\ m > 0 => a[w + m] # 0
  BY Zenon DEF Prints
<1>2. /\ n \in Nat /\ p \in 1..n + 1 /\ p > 1
      /\ b \in Seq(Digit) /\ Len(b) = p - 1 + d
      /\ f \in 0..d /\ f = (IF p <= n THEN n - p ELSE 0)
      /\ \A i \in p - 1 + f + 1..Len(b) : b[i] = 0
  <2>1. n \in Nat /\ p \in 1..n + 1 /\ f = (IF p <= n THEN n - p ELSE 0)
    BY PointFacts, PartFacts
  <2>2. /\ b \in Seq(Digit) /\ Len(b) = p - 1 + d
        /\ p > 1 /\ f \in 0..d
        /\ \A i \in (p - 1 + f) + 1..Len(b) : b[i] = 0
    BY RawFacts
  <2> HIDE DEF p, n, f, b
  <2> QED
    BY <2>1, <2>2
<1>3. Value(a) = Value(b)
  OBVIOUS
<1> HIDE DEF p, n, f, b
<1>4. w <= p - 1
  <2> SUFFICES ASSUME ~(w <= p - 1)
               PROVE  FALSE
    OBVIOUS
  <2> DEFINE l == Len(b)
             k == Len(a) - l
  <2>1. /\ w > 1 /\ l \in Nat /\ l <= Len(a) /\ l <= Len(b) /\ k \in 1..Len(a)
        /\ Len(b) - l = 0 /\ l \in 0..l
    BY <1>1, <1>2
  <2>2. Reads(a)[Len(a) - l] = Reads(b)[Len(b) - l]
    <3> HIDE DEF l
    <3>1. \A j \in 0..l : Reads(a)[Len(a) - j] = Reads(b)[Len(b) - j]
      BY <1>1, <1>2, <1>3, <2>1, SameEnding
    <3> QED
      BY <2>1, <3>1
  <2>3. Reads(b)[0] = 0
    BY <1>2, ReadsFacts
  <2>4. Reads(a)[k] > 0 /\ Reads(a)[k] \in Nat
    <3>1. Len(a) >= 1
      BY <1>1
    <3> HIDE DEF k
    <3> QED
      BY <1>1, <2>1, <3>1, NonzeroBeginning, ReadsFacts
  <2>5. Reads(a)[k] = 0
    BY <2>1, <2>2, <2>3
  <2> HIDE DEF k
  <2> QED
    BY <2>4, <2>5
<1>5. m <= f
  <2> SUFFICES ASSUME ~(m <= f)
               PROVE  FALSE
    OBVIOUS
  <2> DEFINE j == d - m
             l == j + 1
  <2>1. /\ m > 0 /\ j \in Nat /\ l \in Nat /\ l <= Len(a) /\ l <= Len(b) /\ j \in 0..l - 1
        /\ Len(a) - j = w + m /\ Len(b) - j = p - 1 + m
        /\ p - 1 + m \in p - 1 + f + 1..Len(b)
    BY <1>1, <1>2
  <2> HIDE DEF j, l
  <2>2. a[Len(a) - j] = b[Len(b) - j]
    BY <1>1, <1>2, <1>3, <2>1, SameEnding
  <2> QED
    BY <1>1, <1>2, <2>1, <2>2
<1> QED
  BY <1>1, <1>2, <1>4, <1>5 DEF n

-----------------------------------------------------------------------------
(* What is typed, read and printed.                                        *)

TextsInv ==
    /\ decimals \in Nat /\ amount \in 0..MaxAmount /\ text \in Seq(Symbols)
    /\ at \notin {"typed", "parsed", "refused", "shown"} => text = <<>>
    /\ at = "refused" => ParseAmount(text, decimals) = 0
    /\ at \in {"parsed", "shown"} /\ text # <<>> =>
           amount # 0 /\ amount = ParseAmount(text, decimals)
    /\ at = "shown" => shown = FormatAmount(amount, decimals)

LEMMA FormatSymbols ==
    ASSUME NEW n \in Nat, NEW d \in Nat
    PROVE  FormatAmount(n, d) \in Seq(Symbols)
<1>1. CASE n = 0
  <2>1. FormatAmount(n, d) = Digits(n) /\ Digits(n) \in Seq(Digit)
    BY <1>1, DigitsFacts DEF FormatAmount
  <2> DEFINE D == Digits(n)
  <2>2. D \in [1..Len(D) -> Digit] /\ Len(D) \in Nat
    BY <2>1
  <2> HIDE DEF D
  <2>3. Digit \subseteq Symbols
    BY SymbolFacts
  <2>4. D \in [1..Len(D) -> Symbols]
    BY <2>2, <2>3
  <2>5. D \in Seq(Symbols)
    BY <2>2, <2>4
  <2> QED
    BY <2>1, <2>5 DEF D
<1>2. CASE n # 0
  <2>1. PICK a, w, m : Prints(FormatAmount(n, d), a, w, m, d)
    BY <1>2, FormatFacts
  <2> QED
    BY <2>1, PrintsRaw
<1> QED
  BY <1>1, <1>2

LEMMA ParsedFollows == TextsInv => ParsedIsDenoted
<1> SUFFICES ASSUME TextsInv PROVE ParsedIsDenoted
  OBVIOUS
<1> DEFINE s == Trimmed(text)
           n == ParseAmount(text, decimals)
<1>1. decimals \in Nat /\ s \in Seq(Symbols)
  BY TrimmedFacts DEF TextsInv
<1>2. /\ n # 0 <=> IsAmount(s, decimals) /\ Denotes(s, decimals) \in 1..MaxAmount
      /\ n # 0 => n = Denotes(s, decimals)
  BY <1>1, ParseFacts
<1>3. /\ at = "refused" => n = 0
      /\ at = "parsed" /\ text # <<>> => amount # 0 /\ amount = n
  BY DEF TextsInv
<1> HIDE DEF n, s
<1>4. /\ at = "refused" => ~(IsAmount(s, decimals) /\ Denotes(s, decimals) \in 1..MaxAmount)
      /\ at = "parsed" /\ text # <<>> =>
             /\ IsAmount(s, decimals) /\ Denotes(s, decimals) \in 1..MaxAmount
             /\ amount = Denotes(s, decimals)
  BY <1>2, <1>3
<1> QED
  BY <1>4 DEF ParsedIsDenoted, s

LEMMA ShownFollows == TextsInv => ShownIsRead
<1> SUFFICES ASSUME TextsInv, at = "shown" PROVE ShownIsRead
  BY DEF ShownIsRead
<1>1. /\ decimals \in Nat /\ amount \in 0..MaxAmount /\ text \in Seq(Symbols)
      /\ shown = FormatAmount(amount, decimals) /\ MaxAmount \in Nat
      /\ text # <<>> => amount # 0 /\ amount = ParseAmount(text, decimals)
  BY AmountsAssumption DEF TextsInv
<1>2. CASE amount = 0
  BY <1>1, <1>2 DEF ShownIsRead
<1>3. CASE amount # 0
  <2>1. PICK a, w, m : Prints(shown, a, w, m, decimals) /\ Value(a) = amount
    BY <1>1, <1>3, FormatFacts
  <2>2. /\ shown \in Seq(Symbols) /\ Trimmed(shown) = shown
        /\ IsAmount(shown, decimals) /\ Raw(shown, decimals) = a
    BY <1>1, <2>1, PrintsRaw
  <2>3. Denotes(shown, decimals) = amount
    BY <1>1, <2>1, <2>2, DenotesRaw
  <2>4. amount \in 1..MaxAmount
    BY <1>1, <1>3
  <2>5. ParseAmount(shown, decimals) = amount
    BY <1>1, <2>2, <2>3, <2>4, ParseFacts
  <2>6. ASSUME text # <<>>
        PROVE  Len(shown) <= Len(Trimmed(text))
    <3> DEFINE s == Trimmed(text)
    <3>1. s \in Seq(Symbols)
      BY <1>1, TrimmedFacts
    <3>2. amount # 0 /\ amount = ParseAmount(text, decimals)
      BY <1>1, <2>6
    <3>3. IsAmount(s, decimals) /\ amount = Value(Raw(s, decimals))
      BY <1>1, <3>1, <3>2, ParseFacts
    <3> HIDE DEF s
    <3>4. Value(Raw(s, decimals)) = Value(a)
      BY <2>1, <3>3
    <3>5. Len(shown) <= Len(s)
      BY <1>1, <2>1, <3>1, <3>3, <3>4, PrintsShortest
    <3> QED
      BY <3>5 DEF s
  <2> QED
    BY <2>5, <2>6 DEF ShownIsRead
<1> QED
  BY <1>2, <1>3

\* What is reported of an account is an amount and the decimals of a mint.
LEMMA LineType ==
    ASSUME NEW h \in Contents, NEW x, NEW mint \in ToSet(Mints)
    PROVE  /\ Line(x, h.amount, DecimalsOf[mint]).amount \in 0..MaxAmount
           /\ Line(x, h.amount, DecimalsOf[mint]).decimals \in Nat
<1>1. h.amount \in 0..MaxAmount
  <2>1. Balances \subseteq 0..MaxAmount
    BY HoldingsAssumption
  <2>2. 0 \in 0..MaxAmount
    BY AmountsAssumption
  <2>3. CASE h \in Holding
    BY <2>1, <2>3 DEF Holding
  <2>4. CASE h \in {NoHolding, Stray}
    BY <2>2, <2>4 DEF NoHolding, Stray
  <2> QED
    BY <2>3, <2>4 DEF Contents
<1>2. DecimalsOf[mint] \in Nat
  BY HoldingsAssumption, AmountsAssumption
<1> QED
  BY <1>1, <1>2 DEF Line

LEMMA AnswerType ==
    ASSUME QueryInv, NEW l \in Answer(query, then)
    PROVE  l.amount \in 0..MaxAmount /\ l.decimals \in Nat
<1>1. then \in Chains /\ query \in Queries
  BY DEF QueryInv, SessionInv, ReadingType
<1>2. \A a \in ToSet(Addresses) : then[a] \in Contents
  BY <1>1 DEF Chains
<1>3. \A h \in Holding : h.mint \in ToSet(Mints)
  BY DEF Holding
<1>4. CASE query.cmd = "token_accounts"
  <2>1. PICK a \in ToSet(Addresses) :
            then[a] \in Holding /\ l = Line(a, then[a].amount, DecimalsOf[then[a].mint])
    BY <1>4, AccountsAnswer DEF Mine
  <2> QED
    BY <1>2, <1>3, <2>1, LineType
<1>5. CASE query.cmd = "token_account"
  <2> DEFINE a == query.address
  <2>1. a \in ToSet(Addresses)
    BY <1>1, <1>5, HoldingsAssumption
  <2>2. then[a] \in Holding /\ l = Line(a, then[a].amount, DecimalsOf[then[a].mint])
    BY <1>5, AccountAnswer
  <2> QED
    BY <1>2, <1>3, <2>1, <2>2, LineType
<1>6. CASE query.cmd = "token_balance"
  <2> DEFINE a == query.address
  <2>1. a \in ToSet(Addresses)
    BY <1>1, <1>6, HoldingsAssumption
  <2>2. query.mint \in ToSet(Mints) /\ l = Line(a, then[a].amount, DecimalsOf[query.mint])
    BY <1>6 DEF Answer, IsMint
  <2> QED
    BY <1>2, <2>1, <2>2, LineType
<1> QED
  BY <1>1, <1>4, <1>5, <1>6, HoldingsAssumption

LEMMA LinesType ==
    ASSUME QueryInv, at = "reported", NEW i \in DOMAIN lines
    PROVE  lines[i].amount \in 0..MaxAmount /\ lines[i].decimals \in Nat
<1>1. ToSet(lines) = Answer(query, then)
  BY DEF QueryInv, SessionInv, ReportIsSnapshot
<1>2. lines[i] \in ToSet(lines)
  BY DEF ToSet
<1> QED
  BY <1>1, <1>2, AnswerType

LEMMA TextsInitially == SessionInit => TextsInv
<1> SUFFICES ASSUME SessionInit PROVE TextsInv
  OBVIOUS
<1>0. /\ MaxAmount \in Nat /\ Scales \subseteq Nat /\ Texts \subseteq Seq(Symbols)
      /\ 0 \in 0..MaxAmount /\ <<>> \in Seq(Symbols)
  BY AmountsAssumption, TextsAssumption
<1>1. CASE ReadingInit
  <2>1. at = "reading" /\ text = <<>> /\ decimals = 0 /\ amount = 0
    BY <1>1 DEF ReadingInit
  <2> QED
    BY <1>0, <2>1 DEF TextsInv
<1>2. CASE Init
  <2>1. decimals \in Nat
    BY <1>0, <1>2 DEF Init
  <2>2. CASE text \in Texts /\ amount = 0 /\ at = "typed"
    BY <1>0, <2>1, <2>2 DEF TextsInv
  <2>3. CASE text = <<>> /\ amount \in 0..MaxAmount /\ at = "parsed"
    BY <1>0, <2>1, <2>3 DEF TextsInv
  <2> QED
    BY <1>2, <2>2, <2>3 DEF Init
<1> QED
  BY <1>1, <1>2 DEF SessionInit, TypingInit

LEMMA ParseStep == ASSUME TextsInv, Parse PROVE TextsInv'
<1> DEFINE n == ParseAmount(text, decimals)
<1>1. /\ at = "typed" /\ amount' = n /\ UNCHANGED <<text, decimals>>
      /\ at' = IF amount' = 0 THEN "refused" ELSE "parsed"
  BY DEF Parse
<1>2. decimals \in Nat /\ text \in Seq(Symbols)
  BY DEF TextsInv
<1>3. n \in 0..MaxAmount
  BY <1>2, TrimmedFacts, ParseFacts
<1>4. ParseAmount(text, decimals)' = n
  BY <1>1
<1> HIDE DEF n
<1> QED
  BY <1>1, <1>2, <1>3, <1>4 DEF TextsInv

LEMMA ShowStep == ASSUME TextsInv, Show PROVE TextsInv'
<1>1. /\ at = "parsed" /\ at' = "shown" /\ UNCHANGED <<text, decimals, amount>>
      /\ shown' = FormatAmount(amount, decimals)
  BY DEF Show
<1>2. /\ FormatAmount(amount, decimals)' = FormatAmount(amount, decimals)
      /\ ParseAmount(text, decimals)' = ParseAmount(text, decimals)
  BY <1>1
<1> QED
  BY <1>1, <1>2 DEF TextsInv

LEMMA RetypeStep == ASSUME TextsInv, Retype PROVE TextsInv'
<1>1. /\ at = "shown" /\ at' = "typed" /\ text' = shown /\ UNCHANGED <<decimals, amount>>
  BY DEF Retype
<1>2. /\ decimals \in Nat /\ amount \in 0..MaxAmount /\ amount \in Nat
      /\ shown = FormatAmount(amount, decimals)
  BY <1>1, AmountsAssumption DEF TextsInv
<1>3. shown \in Seq(Symbols)
  BY <1>2, FormatSymbols
<1> QED
  BY <1>1, <1>2, <1>3 DEF TextsInv

LEMMA ReadingKeepsTexts == ASSUME QueryInv, TextsInv, Reading PROVE TextsInv'
<1>1. CASE PrintLine
  <2>1. PICK i \in DOMAIN lines :
            amount' = lines[i].amount /\ decimals' = lines[i].decimals
    BY <1>1 DEF PrintLine
  <2>2. at = "reported" /\ at' = "parsed" /\ text' = text
    BY <1>1 DEF PrintLine
  <2>3. amount' \in 0..MaxAmount /\ decimals' \in Nat
    BY <2>1, <2>2, LinesType
  <2> QED
    BY <2>2, <2>3 DEF TextsInv
<1>2. CASE ~PrintLine
  <2>1. /\ at \notin {"typed", "parsed", "refused", "shown"}
        /\ at' \notin {"typed", "parsed", "refused", "shown"}
        /\ UNCHANGED <<text, decimals, amount>>
    BY <1>2 DEF Reading, FetchAccounts, FetchMints, Assemble, ReadAccount, ReadItsMint,
       ReadMint, ReadOwn, RequestFails, OthersAct, Fail, Goto, vars
  <2> QED
    BY <2>1 DEF TextsInv
<1> QED
  BY <1>1, <1>2

LEMMA TextsInductive ==
    QueryInv /\ TextsInv /\ [SessionNext]_<<vars, reading>> => TextsInv'
<1> SUFFICES ASSUME QueryInv, TextsInv, [SessionNext]_<<vars, reading>> PROVE TextsInv'
  OBVIOUS
<1>1. CASE SessionNext
  BY <1>1, ReadingKeepsTexts, ParseStep, ShowStep, RetypeStep DEF SessionNext, Next
<1>2. CASE UNCHANGED <<vars, reading>>
  <2>1. UNCHANGED <<text, decimals, amount, shown, at>>
    BY <1>2 DEF vars
  <2>2. /\ FormatAmount(amount, decimals)' = FormatAmount(amount, decimals)
        /\ ParseAmount(text, decimals)' = ParseAmount(text, decimals)
    BY <2>1
  <2> QED
    BY <2>1, <2>2 DEF TextsInv
<1> QED
  BY <1>1, <1>2

(* Every text is of the symbols a text may have, what was read is what     *)
(* parse_amount makes of the text, and what is printed is what             *)
(* format_amount makes of the amount: of both the theorems below follow.   *)
THEOREM TextsInvariant == SessionSpec => []TextsInv
BY TextsInitially, TextsInductive, SessionInvariant, PTL DEF SessionSpec

(* For every radix, every u64 and every number of decimals, a typed amount *)
(* is read as exactly the value it denotes, and refused only if it is no   *)
(* amount the mint can hold (parse_amount).                                *)
THEOREM ParsedAlwaysDenoted == SessionSpec => []ParsedIsDenoted
BY ParsedFollows, TextsInvariant, PTL

(* For every radix, every u64 and every number of decimals, what is        *)
(* printed of an amount is read back as that amount, and is no longer than *)
(* what the user typed (format_amount).                                    *)
THEOREM ShownAlwaysRead == SessionSpec => []ShownIsRead
BY ShownFollows, TextsInvariant, PTL
=============================================================================
