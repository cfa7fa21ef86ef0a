------------------------- MODULE VanitySearchProofs -------------------------
(***************************************************************************)
(* The key search is safe for any number of workers and any batch size:    *)
(* one candidate at most, no blocked sender, no empty-handed end unless a  *)
(* worker panicked, and an exact count of the keys that were drawn.        *)
(***************************************************************************)
EXTENDS VanitySearch, FiniteSetTheorems, WellFoundedInduction, TLAPS

USE DEF Step, worker, main, vars

LEMMA TypeNext == TypeOK /\ [Next]_vars => TypeOK'
<1> SUFFICES ASSUME TypeOK, [Next]_vars PROVE TypeOK'
  OBVIOUS
<1> USE DEF TypeOK
<1>1. CASE UNCHANGED vars
  BY <1>1
<1>2. ASSUME NEW w \in Workers, Worker(w) \/ Panic(w) PROVE TypeOK'
  <2>1. CASE Test(w)
    BY <2>1 DEF Test
  <2>2. CASE Draw(w)
    <3>1. pending[w] + 1 \in 0..Batch /\ tries[w] + 1 \in Nat
      BY <2>2, BatchAssumption DEF Draw
    <3> QED
      BY <2>2, <3>1 DEF Draw
  <2>3. CASE Claim(w)
    BY <2>3 DEF Claim
  <2>4. CASE Count(w)
    <3>1. pending[w] \in 0..Batch /\ Batch \in Nat \ {0}
      BY BatchAssumption
    <3>2. CASE pending[w] = Batch
      BY <2>4, <3>1, <3>2 DEF Count, PendingAfterBatch
    <3>3. CASE pending[w] # Batch
      BY <2>4, <3>1, <3>3 DEF Count
    <3> QED
      BY <3>2, <3>3
  <2>5. CASE AddWinning(w)
    BY <2>5 DEF AddWinning
  <2>6. CASE Send(w)
    BY <2>6 DEF Send
  <2>7. CASE Flush(w)
    BY <2>7 DEF Flush
  <2>8. CASE Panic(w)
    BY <2>8 DEF Panic
  <2> QED
    BY <1>2, <2>1, <2>2, <2>3, <2>4, <2>5, <2>6, <2>7, <2>8 DEF Worker
<1>3. CASE Main
  <2>1. CASE Receive
    <3>1. channel' = <<>> /\ candidate' \in Workers
      BY <2>1 DEF Receive
    <3> QED
      BY <2>1, <3>1 DEF Receive
  <2>2. CASE Timeout \/ Disconnected \/ Stop \/ Join
    BY <2>2 DEF Timeout, Disconnected, Stop, Join
  <2> QED
    BY <1>3, <2>1, <2>2 DEF Main
<1> QED
  BY <1>1, <1>2, <1>3 DEF Next

LEMMA TypeInit == Init => TypeOK
<1> SUFFICES ASSUME Init PROVE TypeOK
  OBVIOUS
<1> USE DEF Init
<1>1. 0 \in 0..Batch /\ 0 < Batch
  BY BatchAssumption
<1>2. channel \in {<<>>} \cup {<<w>> : w \in Workers}
  OBVIOUS
<1>3. pending \in [Workers -> 0..Batch] /\ \A w \in Workers : pending[w] < Batch
  BY <1>1
<1>4. wpc \in [Workers -> {"test", "draw", "claim", "count", "won", "send", "flush",
                           "sent", "stopped", "panicked"}]
  OBVIOUS
<1>5. tries \in [Workers -> Nat]
  OBVIOUS
<1>6. /\ found \in BOOLEAN /\ attempts \in Nat /\ previous \in Nat
      /\ mpc \in {"receive", "stop", "join", "done"}
      /\ candidate \in Workers \cup {"nobody"}
      /\ result \in {"none", "panicked", "no_key", "key"}
  OBVIOUS
<1> QED
  BY <1>2, <1>3, <1>4, <1>5, <1>6 DEF TypeOK

(* Every variable keeps its type and no worker overruns its batch. *)
THEOREM TypeCorrect == Spec => []TypeOK
BY TypeInit, TypeNext, PTL DEF Spec

LEMMA InvInit == Init => SearchInv
BY WorkersAssumption
DEF Init, SearchInv, OneWinner, FoundInv, ChannelInv, GivenUpInv, Winner

LEMMA InvNext == TypeOK /\ SearchInv /\ [Next]_vars => SearchInv'
<1> SUFFICES ASSUME TypeOK, SearchInv, [Next]_vars PROVE SearchInv'
  OBVIOUS
<1> USE DEF TypeOK, SearchInv, OneWinner, FoundInv, ChannelInv, GivenUpInv, Winner
<1>1. CASE UNCHANGED vars
  BY <1>1
<1>2. ASSUME NEW w \in Workers, Worker(w) \/ Panic(w) PROVE SearchInv'
  <2>1. CASE Test(w)
    BY <2>1 DEF Test
  <2>2. CASE Draw(w)
    BY <2>2 DEF Draw
  <2>3. CASE Claim(w)
    BY <2>3 DEF Claim, Claims
  <2>4. CASE Count(w)
    BY <2>4 DEF Count
  <2>5. CASE AddWinning(w)
    BY <2>5 DEF AddWinning
  <2>6. CASE Send(w)
    <3>1. candidate # w /\ \A v \in Workers \ {w} : wpc[v] # "sent"
      BY <2>6 DEF Send
    <3>2. candidate = "nobody" /\ channel' = <<w>>
      BY <2>6, <3>1 DEF Send
    <3> QED
      BY <2>6, <3>1, <3>2 DEF Send
  <2>7. CASE Flush(w)
    BY <2>7 DEF Flush
  <2>8. CASE Panic(w)
    BY <2>8 DEF Panic
  <2> QED
    BY <1>2, <2>1, <2>2, <2>3, <2>4, <2>5, <2>6, <2>7, <2>8 DEF Worker
<1>3. CASE Receive
  <2>1. PICK w \in Workers : channel = <<w>> /\ candidate' = w /\ channel' = <<>>
    BY <1>3 DEF Receive
  <2> QED
    BY <1>3, <2>1, WorkersAssumption DEF Receive
<1>4. CASE Disconnected
  <2>1. \E w \in Workers : wpc[w] = "panicked"
    BY <1>4, WorkersAssumption DEF Disconnected, SendersGone, Gone
  <2> QED
    BY <1>4, <2>1 DEF Disconnected
<1>5. CASE Timeout \/ Stop
  BY <1>5 DEF Timeout, Stop
<1>6. CASE Join
  BY <1>6 DEF Join
<1> QED
  BY <1>1, <1>2, <1>3, <1>4, <1>5, <1>6 DEF Next, Main

(* The search keeps its inductive invariant: one winner, a candidate that   *)
(* is in the channel or received, and no end without a key or a panic.      *)
THEOREM SearchInductive == Spec => []SearchInv
BY TypeInit, TypeNext, InvInit, InvNext, PTL DEF Spec

(* At most one worker delivers a key, however many match at once. *)
THEOREM OneWinnerHolds == Spec => []OneWinner
<1>1. SearchInv => OneWinner
  BY DEF SearchInv
<1> QED
  BY <1>1, SearchInductive, PTL

(* The winner never blocks in the channel of capacity one. *)
THEOREM SenderNeverWaitsHolds == Spec => []SenderNeverWaits
<1>1. TypeOK /\ SearchInv => SenderNeverWaits
  BY DEF TypeOK, SearchInv, OneWinner, ChannelInv, Winner, SenderNeverWaits
<1> QED
  BY <1>1, TypeCorrect, SearchInductive, PTL

(* The error "all workers stopped without finding a key" is unreachable:   *)
(* without a panic the search ends with a key.                             *)
THEOREM NeverEmptyHandedHolds == Spec => []NeverEmptyHanded
<1>1. SearchInv => NeverEmptyHanded
  BY DEF SearchInv, GivenUpInv, NeverEmptyHanded
<1> QED
  BY <1>1, SearchInductive, PTL

-----------------------------------------------------------------------------
(* Sums over a finite set: the sum exists, and changing one summand changes *)
(* it by as much.                                                          *)

OneOf(s) == CHOOSE x \in s : TRUE
IsSum(g, f, Sets) ==
    g = [s \in Sets |-> IF s = {} THEN 0 ELSE f[OneOf(s)] + g[s \ {OneOf(s)}]]
Summation(f, S) == CHOOSE g : IsSum(g, f, SUBSET S)

LEMMA SumUnfolds ==
    ASSUME NEW f, NEW S
    PROVE MapThenSumSet(LAMBDA w : f[w], S) = Summation(f, S)[S]
BY Zenon DEF MapThenSumSet, MapThenFoldSet, Summation, IsSum, OneOf

LEMMA OneOfFacts ==
    ASSUME NEW s, s # {}
    PROVE  OneOf(s) \in s
BY DEF OneOf

LEMMA SumExists ==
    ASSUME NEW f, NEW S, IsFiniteSet(S)
    PROVE  \E g : IsSum(g, f, SUBSET S)
<1> DEFINE UpTo(n) == {s \in SUBSET S : Cardinality(s) <= n}
           Bad == {n \in Nat : ~ \E g : IsSum(g, f, UpTo(n))}
           R == {ss \in Nat \X Nat : ss[1] < ss[2]}
<1>1. \A s \in SUBSET S : IsFiniteSet(s) /\ Cardinality(s) \in Nat
  BY FS_Subset, FS_CardinalityType
<1>2. ASSUME NEW n \in Bad, \A k \in Bad : ~(<<k, n>> \in R)
      PROVE  FALSE
  <2>1. CASE n = 0
    <3>1. \A s \in UpTo(0) : s = {}
      BY <1>1, FS_EmptySet
    <3>2. IsSum([s \in UpTo(0) |-> 0], f, UpTo(0))
      BY <3>1 DEF IsSum
    <3>3. QED
      BY <1>2, <2>1, <3>2
  <2>2. CASE n # 0
    <3> DEFINE k == n - 1
    <3>1. k \in Nat /\ k < n /\ <<k, n>> \in R
      BY <2>2
    <3>1a. n - 1 \in Nat /\ n - 1 \notin Bad
      BY <1>2, <3>1
    <3>2. PICK g : IsSum(g, f, UpTo(n - 1))
      BY <3>1a
    <3> DEFINE h == [s \in UpTo(n) |->
                        IF s = {} THEN 0 ELSE f[OneOf(s)] + g[s \ {OneOf(s)}]]
    <3>3. ASSUME NEW s \in UpTo(n), s # {}
          PROVE  h[s \ {OneOf(s)}] = g[s \ {OneOf(s)}]
      <4> DEFINE t == s \ {OneOf(s)}
      <4>1. Cardinality(t) = Cardinality(s) - 1
        BY <1>1, <3>3, OneOfFacts, FS_RemoveElement
      <4>2. t \in UpTo(n - 1) /\ t \in UpTo(n)
        BY <1>1, <3>1, <4>1
      <4> HIDE DEF t, UpTo
      <4>3. h[t] = IF t = {} THEN 0 ELSE f[OneOf(t)] + g[t \ {OneOf(t)}]
        BY <4>2
      <4>4. g[t] = IF t = {} THEN 0 ELSE f[OneOf(t)] + g[t \ {OneOf(t)}]
        BY <3>2, <4>2 DEF IsSum
      <4>5. h[t] = g[t]
        BY <4>3, <4>4
      <4>6. QED
        BY <4>5 DEF t
    <3>4. h = [s \in UpTo(n) |->
                  IF s = {} THEN 0 ELSE f[OneOf(s)] + h[s \ {OneOf(s)}]]
      <4> HIDE DEF UpTo
      <4>1. \A s \in UpTo(n) : (IF s = {} THEN 0 ELSE f[OneOf(s)] + g[s \ {OneOf(s)}])
                    = (IF s = {} THEN 0 ELSE f[OneOf(s)] + h[s \ {OneOf(s)}])
        BY <3>3
      <4>2. QED
        BY <4>1
    <3>5. IsSum(h, f, UpTo(n))
      <4> HIDE DEF h, UpTo
      <4>1. QED
        BY <3>4 DEF IsSum
    <3>6. QED
      <4> HIDE DEF h
      <4>1. QED
        BY <1>2, <3>5
  <2>3. QED
    BY <2>1, <2>2
<1>3. Bad = {}
  <2>1. IsWellFoundedOn(R, Nat)
    BY NatLessThanWellFounded DEF OpToRel
  <2>2. Bad \subseteq Nat
    OBVIOUS
  <2> HIDE DEF R, Bad
  <2>3. QED
    BY <1>2, <2>1, <2>2, WFMin
<1>4. UpTo(Cardinality(S)) = SUBSET S
  BY <1>1, FS_Subset
<1>5. Cardinality(S) \in Nat /\ Cardinality(S) \notin Bad
  BY <1>1, <1>3
<1>6. QED
  BY <1>4, <1>5

LEMMA SumFacts ==
    ASSUME NEW g, NEW U, IsFiniteSet(U)
    PROVE  /\ Summation(g, U)[{}] = 0
         /\ \A s \in SUBSET U : s # {} =>
                /\ OneOf(s) \in s
                /\ Summation(g, U)[s] =
                      g[OneOf(s)] + Summation(g, U)[s \ {OneOf(s)}]
<1>1. IsSum(Summation(g, U), g, SUBSET U)
  BY SumExists DEF Summation
<1>2. QED
  BY <1>1, OneOfFacts DEF IsSum

LEMMA SumChanges ==
    ASSUME NEW S, IsFiniteSet(S), NEW f \in [S -> Int], NEW w \in S, NEW d \in Int
    PROVE  LET h == [f EXCEPT ![w] = @ + d]
         IN  /\ Summation(f, S)[S] \in Int
             /\ Summation(h, S)[S] = Summation(f, S)[S] + d
<1> DEFINE h == [f EXCEPT ![w] = @ + d]
           F == Summation(f, S)
           H == Summation(h, S)
           Bad == {s \in SUBSET S : ~(F[s] \in Int /\ H[s] = F[s] + IF w \in s THEN d ELSE 0)}
<1>1. h \in [S -> Int] /\ h[w] = f[w] + d /\ \A v \in S : v # w => h[v] = f[v]
  OBVIOUS
<1>2. \A s \in SUBSET S : s = {} => F[s] = 0 /\ H[s] = 0
  BY SumFacts
<1>3. \A s \in SUBSET S : s # {} =>
          /\ OneOf(s) \in s
          /\ F[s] = f[OneOf(s)] + F[s \ {OneOf(s)}]
          /\ H[s] = h[OneOf(s)] + H[s \ {OneOf(s)}]
  <2>1. \A s \in SUBSET S : s # {} =>
          OneOf(s) \in s /\ F[s] = f[OneOf(s)] + F[s \ {OneOf(s)}]
    <3>1. \A s \in SUBSET S : s # {} => F[s] = f[OneOf(s)] + F[s \ {OneOf(s)}]
      BY SumFacts
    <3>2. QED
      BY <3>1, OneOfFacts
  <2>2. \A s \in SUBSET S : s # {} => H[s] = h[OneOf(s)] + H[s \ {OneOf(s)}]
    BY SumFacts
  <2>3. QED
    BY <2>1, <2>2
<1> HIDE DEF h, F, H
<1>4. ASSUME NEW s \in Bad, \A t \in Bad : ~(<<t, s>> \in StrictSubsetOrdering(S))
      PROVE  FALSE
  <2>1. s # {}
    BY <1>2
  <2> DEFINE x == OneOf(s)
             t == s \ {x}
  <2>2. x \in s /\ x \in S /\ t \in SUBSET S /\ t \subseteq s /\ t # s
        /\ F[s] = f[x] + F[t] /\ H[s] = h[x] + H[t]
    BY <1>3, <2>1
  <2>3. <<t, s>> \in StrictSubsetOrdering(S)
    BY <2>2 DEF StrictSubsetOrdering
  <2>4. t \notin Bad
    BY <1>4, <2>3
  <2>5. F[t] \in Int /\ H[t] = F[t] + IF w \in t THEN d ELSE 0
    BY <2>2, <2>4
  <2>6. w \in t <=> w \in s /\ w # x
    OBVIOUS
  <2> HIDE DEF x, t
  <2>7. f[x] \in Int /\ h[x] = f[x] + IF w = x THEN d ELSE 0
    BY <1>1, <2>2
  <2>8. F[s] \in Int /\ H[s] = F[s] + IF w \in s THEN d ELSE 0
    BY <2>2, <2>5, <2>6, <2>7
  <2>9. QED
    BY <1>4, <2>8
<1>5. Bad = {}
  <2>1. IsWellFoundedOn(StrictSubsetOrdering(S), SUBSET S)
    BY FS_StrictSubsetOrderingWellFounded, FS_FiniteSubsetsOfFinite
  <2>2. Bad \subseteq SUBSET S
    OBVIOUS
  <2> HIDE DEF Bad
  <2>3. QED
    BY <1>4, <2>1, <2>2, WFMin
<1>6. S \notin Bad /\ S \in SUBSET S
  BY <1>5
<1>7. QED
  BY <1>6 DEF h, F, H

LEMMA SumZero ==
    ASSUME NEW S, IsFiniteSet(S), NEW f, f = [s \in S |-> 0]
    PROVE  Summation(f, S)[S] = 0
<1> DEFINE F == Summation(f, S)
           Bad == {s \in SUBSET S : F[s] # 0}
<1>1. \A s \in SUBSET S : s = {} => F[s] = 0
  BY SumFacts
<1>2. \A s \in SUBSET S : s # {} =>
          OneOf(s) \in s /\ F[s] = f[OneOf(s)] + F[s \ {OneOf(s)}]
  <2>1. \A s \in SUBSET S : s # {} => F[s] = f[OneOf(s)] + F[s \ {OneOf(s)}]
    BY SumFacts
  <2>2. QED
    BY <2>1, OneOfFacts
<1> HIDE DEF F
<1>3. ASSUME NEW s \in Bad, \A t \in Bad : ~(<<t, s>> \in StrictSubsetOrdering(S))
      PROVE  FALSE
  <2>1. OneOf(s) \in s /\ F[s] = f[OneOf(s)] + F[s \ {OneOf(s)}]
    BY <1>1, <1>2
  <2>2. <<s \ {OneOf(s)}, s>> \in StrictSubsetOrdering(S)
    BY <2>1 DEF StrictSubsetOrdering
  <2>3. F[s \ {OneOf(s)}] = 0
    BY <1>3, <2>2
  <2>4. QED
    BY <2>1, <2>3
<1>4. Bad = {}
  <2>1. IsWellFoundedOn(StrictSubsetOrdering(S), SUBSET S)
    BY FS_StrictSubsetOrderingWellFounded, FS_FiniteSubsetsOfFinite
  <2>2. Bad \subseteq SUBSET S
    OBVIOUS
  <2> HIDE DEF Bad
  <2>3. QED
    BY <1>3, <2>1, <2>2, WFMin
<1>5. QED
  BY <1>4 DEF F

-----------------------------------------------------------------------------
(* The shared counter.                                                     *)

LEMMA TotalUnfolds == \A f : Total(f) = Summation(f, Workers)[Workers]
BY SumUnfolds DEF Total

LEMMA TotalFacts ==
    ASSUME NEW f \in [Workers -> Int]
    PROVE  /\ Total(f) \in Int
           /\ \A w \in Workers, d \in Int : Total([f EXCEPT ![w] = @ + d]) = Total(f) + d
<1>1. \A w \in Workers, d \in Int :
          /\ Summation(f, Workers)[Workers] \in Int
          /\ Summation([f EXCEPT ![w] = @ + d], Workers)[Workers] =
                 Summation(f, Workers)[Workers] + d
  BY WorkersAssumption, SumChanges
<1>2. QED
  BY <1>1, TotalUnfolds, WorkersAssumption

LEMMA CountedFacts == TypeOK => Counted \in [Workers -> Int]
<1> SUFFICES ASSUME TypeOK, NEW w \in Workers PROVE tries[w] \in Int /\ tries[w] - pending[w] \in Int
  BY DEF Counted
<1>1. tries[w] \in Int /\ pending[w] \in Int
  BY BatchAssumption DEF TypeOK
<1>2. QED
  BY <1>1

\* A step that adds d keys of one worker to the counter, and to its part.
LEMMA AddStep ==
    ASSUME TypeOK, TypeOK', AttemptsInv, NEW w \in Workers, NEW d \in Int,
           attempts' = attempts + d,
           \A v \in Workers : Counted'[v] = Counted[v] + IF v = w THEN d ELSE 0,
           \A v \in Workers : wpc'[v] # "panicked" => wpc[v] # "panicked",
           result' # "key"
    PROVE  AttemptsInv'
<1>1. Counted \in [Workers -> Int] /\ Counted' \in [Workers -> Int]
  <2>1. Counted \in [Workers -> Int]
    BY CountedFacts
  <2>2. \A v \in Workers : Counted'[v] \in Int
    BY <2>1
  <2>3. QED
    BY <2>1, <2>2 DEF Counted
<1>2. Counted' = [Counted EXCEPT ![w] = @ + d]
  BY <1>1
<1>3. Total(Counted') = Total(Counted) + d
  BY <1>1, <1>2, TotalFacts
<1>4. Total(Counted)' = Total(Counted')
  OBVIOUS
<1>5. QED
  BY <1>3, <1>4 DEF AttemptsInv

\* A step that adds nothing.
LEMMA SameStep ==
    ASSUME TypeOK, AttemptsInv, UNCHANGED attempts, Counted' = Counted,
           \A v \in Workers : wpc'[v] # "panicked" => wpc[v] # "panicked",
           result' = "key" => \A v \in Workers : wpc'[v] \in {"sent", "stopped"}
    PROVE  AttemptsInv'
<1>1. Total(Counted)' = Total(Counted)
  OBVIOUS
<1>2. QED
  BY <1>1 DEF AttemptsInv

LEMMA AttemptsInit == Init => AttemptsInv
<1> SUFFICES ASSUME Init PROVE AttemptsInv
  OBVIOUS
<1>1. Counted = [w \in Workers |-> 0]
  BY DEF Init, Counted
<1>2. Total(Counted) = 0
  BY <1>1, WorkersAssumption, SumZero, TotalUnfolds
<1>3. QED
  BY <1>2, WorkersAssumption DEF Init, AttemptsInv

LEMMA AttemptsNext == TypeOK /\ TypeOK' /\ AttemptsInv /\ [Next]_vars => AttemptsInv'
<1> SUFFICES ASSUME TypeOK, TypeOK', AttemptsInv, [Next]_vars PROVE AttemptsInv'
  OBVIOUS
<1>1. ASSUME NEW w \in Workers, Worker(w) \/ Panic(w) PROVE AttemptsInv'
  <2>1. result' = result /\ (result = "key" => FALSE)
    BY <1>1 DEF Worker, Panic, Test, Draw, Claim, Count, AddWinning, Send, Flush, AttemptsInv
  <2>2. pending[w] \in Int /\ tries[w] \in Int
    BY BatchAssumption DEF TypeOK
  <2>3. CASE Test(w) \/ Claim(w) \/ Send(w)
    BY <2>1, <2>3, SameStep DEF Test, Claim, Send, Counted, TypeOK
  <2>4. CASE Draw(w)
    <3>1. Counted' = Counted
      BY <2>2, <2>4 DEF Draw, Counted, TypeOK
    <3>2. QED
      BY <2>1, <2>4, <3>1, SameStep DEF Draw, TypeOK
  <2>5. CASE Panic(w)
    BY <2>1, <2>5 DEF Panic, AttemptsInv, TypeOK
  <2>6. CASE Count(w)
    <3>1. CASE pending[w] = Batch
      <4>1. attempts' = attempts + pending[w] /\ pending' = [pending EXCEPT ![w] = 0]
        BY <2>6, <3>1 DEF Count, PendingAfterBatch
      <4>2. \A v \in Workers : Counted'[v] = Counted[v] + IF v = w THEN pending[w] ELSE 0
        BY <2>2, <2>6, <4>1, CountedFacts DEF Count, Counted, TypeOK
      <4>3. \A v \in Workers : wpc'[v] # "panicked" => wpc[v] # "panicked"
        BY <2>6 DEF Count, TypeOK
      <4>4. QED
        BY <2>1, <2>2, <4>1, <4>2, <4>3, AddStep
    <3>2. CASE pending[w] # Batch
      BY <2>1, <2>6, <3>2, SameStep DEF Count, Counted, TypeOK
    <3>3. QED
      BY <3>1, <3>2
  <2>7. CASE AddWinning(w) \/ Flush(w)
    <3>1. attempts' = attempts + pending[w] /\ UNCHANGED <<pending, tries>>
      BY <2>7 DEF AddWinning, Flush
    <3>2. \A v \in Workers : Counted'[v] = Counted[v] + IF v = w THEN pending[w] ELSE 0
      BY <2>2, <2>7, CountedFacts DEF AddWinning, Flush, Counted, TypeOK
    <3>3. \A v \in Workers : wpc'[v] # "panicked" => wpc[v] # "panicked"
      BY <2>7 DEF AddWinning, Flush, TypeOK
    <3>4. QED
      BY <2>1, <2>2, <3>1, <3>2, <3>3, AddStep
  <2>8. QED
    BY <1>1, <2>3, <2>4, <2>5, <2>6, <2>7 DEF Worker
<1>2. CASE Main \/ UNCHANGED vars
  <2>1. UNCHANGED <<attempts, wpc, pending, tries>>
    BY <1>2 DEF Main, Receive, Timeout, Disconnected, Stop, Join
  <2>2. Counted' = Counted
    BY <2>1 DEF Counted
  <2>3. result' = "key" => \A v \in Workers : wpc'[v] \in {"sent", "stopped"}
    <3>1. CASE Join
      BY <3>1, <2>1 DEF Join, Joined, Gone
    <3>2. CASE ~Join
      BY <1>2, <2>1, <3>2 DEF Main, Receive, Timeout, Disconnected, Stop, AttemptsInv
    <3>3. QED
      BY <3>1, <3>2
  <2>4. QED
    BY <2>1, <2>2, <2>3, SameStep
<1>3. QED
  BY <1>1, <1>2 DEF Next

(* The shared counter holds exactly the keys that have been added, unless  *)
(* a worker panicked.                                                      *)
THEOREM CounterInductive == Spec => []AttemptsInv
BY TypeInit, TypeNext, AttemptsInit, AttemptsNext, PTL DEF Spec

(* The number of attempts reported with a key is exact: no key is counted  *)
(* twice or forgotten, for any number of workers and any batch size.       *)
THEOREM AttemptsAlwaysExact == Spec => []AttemptsExact
<1>1. ASSUME TypeOK, AttemptsInv
      PROVE  AttemptsExact
  <2> SUFFICES ASSUME result = "key" PROVE attempts = Total(tries)
    BY DEF AttemptsExact
  <2>1. \A w \in Workers : wpc[w] \in {"sent", "stopped"}
    BY <1>1 DEF AttemptsInv
  <2>2. Counted = tries
    BY <1>1, <2>1 DEF Counted, TypeOK
  <2>3. QED
    BY <1>1, <2>1, <2>2 DEF AttemptsInv
<1>2. QED
  BY <1>1, TypeCorrect, CounterInductive, PTL
=============================================================================
