--------------------------- MODULE ProjectInitProofs ---------------------------
(***************************************************************************)
(* Proofs about ProjectInit, for any number of runs, any template and any  *)
(* faults: no run changes what it finds, a run that reports success has    *)
(* written the whole project, no project holds files of two runs, and runs *)
(* that only race each other do not all fail.  About ProjectNames, for any *)
(* destinations and keywords: the names a project gets can be used.        *)
(***************************************************************************)
EXTENDS ProjectInit, ProjectNames, FiniteSetTheorems, SequenceTheorems, WellFoundedInduction, TLAPS

-----------------------------------------------------------------------------
(* The inductive invariant.                                                *)

Owns(m, p) == tree[p].kind = "file" /\ tree[p].by = m

\* Where a run stands in the template.
PlaceInv(m) ==
    /\ status[m] = "idle" => pc[m] = "check"
    /\ pc[m] \in {"check", "root"} => next[m] = 1
    /\ status[m] = "running" => next[m] <= Len(Template)
    /\ status[m] = "ok" => next[m] = Len(Template) + 1

\* The file a run writes is its own; those before it are its own and whole.
WorkInv(m) ==
    /\ status[m] = "running" /\ pc[m] = "write" =>
           Entry(m) \notin Dirs /\ tree[Entry(m)] = File(m, FALSE)
    /\ status[m] \in {"running", "ok"} =>
           \A i \in 1..next[m] - 1 : Template[i] \notin Dirs =>
               tree[Template[i]] = File(m, TRUE)

\* The first file of the template decides between the runs.
IsFirst(f) ==
    f \in DOMAIN Template /\ Template[f] \notin Dirs /\ \A i \in 1..f - 1 : Template[i] \in Dirs
FirstDecides ==
    \A f \in DOMAIN Template : IsFirst(f) =>
        \A m \in Makers, p \in Paths : Owns(m, p) => Owns(m, Template[f])

InitInv ==
    /\ TypeOK
    /\ \A m \in Makers : PlaceInv(m) /\ WorkInv(m)
    /\ FirstDecides

-----------------------------------------------------------------------------
(* The order of the template, from the definition of FlattenSeq.            *)

IsFlat(F, seqs) ==
    F = [i \in 1..Len(seqs) |-> IF i = 1 THEN seqs[i] ELSE F[i - 1] \o seqs[i]]

LEMMA FlatExists ==
    ASSUME NEW seqs, NEW n \in Nat
    PROVE  \E F : F = [i \in 1..n |-> IF i = 1 THEN seqs[i] ELSE F[i - 1] \o seqs[i]]
<1> DEFINE Flat(F, k) == F = [i \in 1..k |-> IF i = 1 THEN seqs[i] ELSE F[i - 1] \o seqs[i]]
           R == {ss \in Nat \X Nat : ss[1] < ss[2]}
           Bad == {k \in Nat : ~ \E F : Flat(F, k)}
<1>1. ASSUME NEW k \in Bad, \A l \in Bad : ~(<<l, k>> \in R)
      PROVE  FALSE
  <2>1. CASE k = 0
    <3>1. Flat([i \in 1..0 |-> seqs[i]], 0)
      OBVIOUS
    <3> QED
      BY <1>1, <2>1, <3>1
  <2>2. CASE k # 0
    <3> DEFINE l == k - 1
    <3>1. l \in Nat /\ <<l, k>> \in R
      BY <2>2
    <3>2. l \notin Bad
      BY <1>1, <3>1
    <3>3. PICK G : Flat(G, l)
      BY <3>1, <3>2
    <3> DEFINE F == [i \in 1..k |-> IF i = 1 THEN seqs[i] ELSE G[i - 1] \o seqs[i]]
    <3>4. ASSUME NEW i \in 1..k, i # 1
          PROVE  F[i - 1] = G[i - 1]
      <4> DEFINE j == i - 1
      <4>1. j \in 1..l /\ j \in 1..k
        BY <3>1, <3>4
      <4> HIDE DEF j
      <4>2. F[j] = IF j = 1 THEN seqs[j] ELSE G[j - 1] \o seqs[j]
        BY <4>1
      <4>3. G[j] = IF j = 1 THEN seqs[j] ELSE G[j - 1] \o seqs[j]
        BY <3>3, <4>1
      <4> QED
        BY <4>2, <4>3 DEF j
    <3>5. \A i \in 1..k : (IF i = 1 THEN seqs[i] ELSE G[i - 1] \o seqs[i])
                            = (IF i = 1 THEN seqs[i] ELSE F[i - 1] \o seqs[i])
      <4> HIDE DEF F
      <4> QED
        BY <3>4
    <3>6. Flat(F, k)
      BY <3>5
    <3> QED
      <4> HIDE DEF F
      <4> QED
        BY <1>1, <3>6
  <2> QED
    BY <2>1, <2>2
<1>2. Bad = {}
  <2>1. IsWellFoundedOn(R, Nat)
    BY NatLessThanWellFounded DEF OpToRel
  <2>2. Bad \subseteq Nat
    OBVIOUS
  <2> HIDE DEF R, Bad
  <2> QED
    BY <1>1, <2>1, <2>2, WFMin
<1> QED
  BY <1>2

LEMMA FlattenUnfolds ==
    ASSUME NEW seqs, Len(seqs) \in Nat
    PROVE  \E F : /\ IsFlat(F, seqs)
                  /\ FlattenSeq(seqs) = IF Len(seqs) = 0 THEN seqs ELSE F[Len(seqs)]
<1> DEFINE F == CHOOSE G : IsFlat(G, seqs)
<1>1. IsFlat(F, seqs)
  BY FlatExists DEF IsFlat
<1>2. FlattenSeq(seqs) = IF Len(seqs) = 0 THEN seqs ELSE F[Len(seqs)]
  BY Zenon DEF FlattenSeq, IsFlat
<1> QED
  BY <1>1, <1>2

LEMMA ParentFacts ==
    ASSUME NEW d \in Dirs, NEW i \in 1..Len(Files[d])
    PROVE  /\ Files[d] \in Seq(Paths) /\ Len(Files[d]) \in Nat
           /\ Files[d][i] \in Paths \ Dirs /\ Parent(Files[d][i]) = d
<1>1. Files[d] \in Seq(Paths) /\ Len(Files[d]) \in Nat /\ DOMAIN Files[d] = 1..Len(Files[d])
  BY EntriesAssumption
<1>2. Files[d][i] \in ToSet(Files[d]) /\ Files[d][i] \in Paths
  BY <1>1 DEF ToSet
<1>3. Files[d][i] \notin Dirs
  BY <1>2, TemplateAssumption
<1>4. \A e \in Dirs : Files[d][i] \in ToSet(Files[e]) => e = d
  BY <1>2, TemplateAssumption
<1>5. Parent(Files[d][i]) = d
  BY <1>2, <1>3, <1>4 DEF Parent
<1> QED
  BY <1>1, <1>2, <1>3, <1>5

\* The files of the directories D: each once, and behind its directory.
Ordered(s, D) ==
    /\ s \in Seq(Paths)
    /\ \A d \in D : \A i \in 1..Len(Files[d]) : \E k \in 1..Len(s) : s[k] = Files[d][i]
    /\ \A k \in 1..Len(s) : s[k] \notin Dirs =>
           Parent(s[k]) \in D /\ \E j \in 1..k - 1 : s[j] = Parent(s[k])
    /\ \A j, k \in 1..Len(s) : s[j] = s[k] /\ s[k] \notin Dirs => j = k

\* One more directory and its files.
LEMMA BlockAdds ==
    ASSUME NEW s, NEW D, Ordered(s, D), NEW d \in Dirs \ D
    PROVE  Ordered(s \o SubDirectory(d), D \cup {d})
<1> DEFINE fs == Files[d]
           t == s \o SubDirectory(d)
           n == Len(s)
<1>1. /\ s \in Seq(Paths) /\ fs \in Seq(Paths) /\ d \in Paths
      /\ n \in Nat /\ Len(fs) \in Nat /\ IsInjective(fs) /\ DOMAIN fs = 1..Len(fs)
  <2>1. s \in Seq(Paths)
    BY DEF Ordered
  <2>2. d \in Paths /\ fs \in Seq(Paths) /\ IsInjective(fs)
    BY EntriesAssumption DEF Paths
  <2> HIDE DEF fs
  <2> QED
    BY <2>1, <2>2
<1>2. /\ <<d>> \o fs \in Seq(Paths) /\ Len(<<d>> \o fs) = 1 + Len(fs)
      /\ (<<d>> \o fs)[1] = d
      /\ \A i \in 1..Len(fs) : (<<d>> \o fs)[1 + i] = fs[i]
  BY <1>1
<1>3. /\ t \in Seq(Paths) /\ Len(t) = n + 1 + Len(fs)
      /\ \A i \in 1..n : t[i] = s[i]
      /\ t[n + 1] = d
  <2> DEFINE b == <<d>> \o fs
  <2>1. b \in Seq(Paths) /\ Len(b) = 1 + Len(fs) /\ b[1] = d /\ t = s \o b
    BY <1>2 DEF SubDirectory
  <2> HIDE DEF b, t, fs
  <2>2. s \in Seq(Paths) /\ b \in Seq(Paths) /\ t = s \o b
    BY <1>1, <2>1
  <2>3. t \in Seq(Paths) /\ Len(t) = Len(s) + Len(b)
    BY <2>2
  <2>4. \A i \in 1..Len(s) : t[i] = s[i]
    BY <2>2
  <2>5. t[Len(s) + 1] = b[1]
    BY <1>1, <2>1, <2>2
  <2> QED
    BY <1>1, <2>1, <2>3, <2>4, <2>5
<1>4. ASSUME NEW i \in 1..Len(fs)
      PROVE  t[n + 1 + i] = fs[i] /\ fs[i] \notin Dirs /\ Parent(fs[i]) = d
  <2>1. t[n + (1 + i)] = (<<d>> \o fs)[1 + i]
    BY <1>1, <1>2 DEF SubDirectory
  <2>2. n + (1 + i) = n + 1 + i
    BY <1>1
  <2>3. fs[i] \notin Dirs /\ Parent(fs[i]) = d
    BY ParentFacts
  <2> QED
    BY <1>2, <2>1, <2>2, <2>3
<1> HIDE DEF t, fs, n
\* Where a file of the longer sequence stands.
<1>5. ASSUME NEW k \in 1..Len(t), t[k] \notin Dirs
      PROVE  \/ k \in 1..n /\ t[k] = s[k] /\ Parent(t[k]) \in D
             \/ \E i \in 1..Len(fs) : k = n + 1 + i /\ t[k] = fs[i] /\ Parent(t[k]) = d
  <2>1. CASE k \in 1..n
    BY <1>3, <1>5, <2>1 DEF Ordered, n
  <2>2. CASE k \notin 1..n
    <3>1. k # n + 1
      BY <1>3, <1>5
    <3> DEFINE i == k - n - 1
    <3>2. i \in 1..Len(fs) /\ k = n + 1 + i
      <4>1. n \in Nat /\ Len(fs) \in Nat /\ Len(t) = n + 1 + Len(fs)
        BY <1>1, <1>3
      <4> QED
        BY <2>2, <3>1, <4>1
    <3> QED
      BY <1>4, <3>2
  <2> QED
    BY <2>1, <2>2
<1>6. ASSUME NEW k \in 1..Len(t), t[k] \notin Dirs
      PROVE  Parent(t[k]) \in D \cup {d} /\ \E j \in 1..k - 1 : t[j] = Parent(t[k])
  <2>1. CASE k \in 1..n /\ t[k] = s[k]
    <3>1. Parent(s[k]) \in D
      BY <1>6, <2>1 DEF Ordered, n
    <3>2. PICK j \in 1..k - 1 : s[j] = Parent(s[k])
      BY <1>6, <2>1 DEF Ordered, n
    <3>3. j \in 1..n
      BY <1>1, <2>1
    <3> QED
      BY <1>3, <2>1, <3>1, <3>2, <3>3
  <2>2. CASE \E i \in 1..Len(fs) : k = n + 1 + i /\ Parent(t[k]) = d
    <3>1. n + 1 \in 1..k - 1
      BY <1>1, <2>2
    <3> QED
      BY <1>3, <2>2, <3>1
  <2> QED
    BY <1>5, <1>6, <2>1, <2>2
<1>7. ASSUME NEW j \in 1..Len(t), NEW k \in 1..Len(t), t[j] = t[k], t[k] \notin Dirs
      PROVE  j = k
  <2>1. CASE j \in 1..n /\ k \in 1..n
    <3>1. s[j] = s[k] /\ s[k] \notin Dirs
      BY <1>3, <1>7, <2>1
    <3> QED
      BY <2>1, <3>1 DEF Ordered, n
  <2>2. CASE \E a, b \in 1..Len(fs) :
                 j = n + 1 + a /\ k = n + 1 + b /\ t[j] = fs[a] /\ t[k] = fs[b]
    BY <1>1, <1>7, <2>2 DEF IsInjective
  <2> QED
    BY <1>5, <1>7, <2>1, <2>2
<1>8. ASSUME NEW e \in D \cup {d}, NEW i \in 1..Len(Files[e])
      PROVE  \E k \in 1..Len(t) : t[k] = Files[e][i]
  <2>1. CASE e = d
    <3>1. i \in 1..Len(fs) /\ Files[e][i] = fs[i]
      BY <1>8, <2>1 DEF fs
    <3>2. n + 1 + i \in 1..Len(t)
      BY <1>1, <1>3, <3>1
    <3> QED
      BY <1>4, <3>1, <3>2
  <2>2. CASE e # d
    <3>1. PICK k \in 1..n : s[k] = Files[e][i]
      BY <1>8, <2>2 DEF Ordered, n
    <3> QED
      BY <1>1, <1>3, <3>1
  <2> QED
    BY <2>1, <2>2
<1> QED
  BY <1>3, <1>6, <1>7, <1>8 DEF Ordered, t

\* The template has every file once, and behind its directory.
LEMMA TemplateOrder ==
    /\ Template \in Seq(Paths)
    /\ \A p \in Paths \ Dirs : \E k \in 1..Len(Template) : Template[k] = p
    /\ \A k \in 1..Len(Template) : Template[k] \notin Dirs =>
           \/ Parent(Template[k]) = Root
           \/ \E j \in 1..k - 1 : Template[j] = Parent(Template[k])
    /\ \A j, k \in 1..Len(Template) :
           Template[j] = Template[k] /\ Template[k] \notin Dirs => j = k
<1> DEFINE seqs == [i \in DOMAIN SubDirs |-> SubDirectory(SubDirs[i])]
           N == Len(SubDirs)
           Names(n) == {SubDirs[i] : i \in 1..n}
           fs == Files[Root]
<1>1. /\ SubDirs \in Seq(Dirs) /\ N \in Nat /\ DOMAIN SubDirs = 1..N /\ IsInjective(SubDirs)
      /\ \A i \in 1..N : SubDirs[i] \in Dirs \ {Root}
  BY EntriesAssumption, TemplateAssumption DEF ToSet
<1>2. Len(seqs) = N /\ \A i \in 1..N : seqs[i] = SubDirectory(SubDirs[i])
  <2>1. seqs = [i \in 1..N |-> SubDirectory(SubDirs[i])]
    BY <1>1
  <2>2. SubDirs \in [1..N -> Dirs]
    BY <1>1
  <2> QED
    BY <1>1, <2>1
<1> HIDE DEF N, seqs
<1>3. PICK F : /\ IsFlat(F, seqs)
               /\ FlattenSeq(seqs) = IF Len(seqs) = 0 THEN seqs ELSE F[Len(seqs)]
  BY <1>1, <1>2, FlattenUnfolds
<1>4. \A n \in 1..N : F[n] = IF n = 1 THEN SubDirectory(SubDirs[1])
                                      ELSE F[n - 1] \o SubDirectory(SubDirs[n])
  BY <1>2, <1>3 DEF IsFlat
<1>5. Ordered(<<>>, {})
  BY DEF Ordered
<1>6. ASSUME NEW n \in 1..N, n > 1 => Ordered(F[n - 1], Names(n - 1))
      PROVE  Ordered(F[n], Names(n))
  <2>1. CASE n = 1
    <3>1. Ordered(<<>> \o SubDirectory(SubDirs[1]), {} \cup {SubDirs[1]})
      BY <1>1, <1>5, <2>1, BlockAdds
    <3>2. SubDirectory(SubDirs[1]) \in Seq(Paths)
      BY <1>1, <2>1, EntriesAssumption DEF SubDirectory, Paths
    <3>3. <<>> \o SubDirectory(SubDirs[1]) = F[1] /\ Names(1) = {} \cup {SubDirs[1]}
      BY <1>1, <1>4, <2>1, <3>2
    <3> QED
      BY <2>1, <3>1, <3>3
  <2>2. CASE n # 1
    <3>1. n - 1 \in 1..N /\ n > 1
      BY <1>1, <2>2
    <3>2. SubDirs[n] \in Dirs \ Names(n - 1)
      BY <1>1, <3>1 DEF IsInjective
    <3>3. Ordered(F[n - 1] \o SubDirectory(SubDirs[n]), Names(n - 1) \cup {SubDirs[n]})
      BY <1>6, <3>1, <3>2, BlockAdds
    <3>4. Names(n) = Names(n - 1) \cup {SubDirs[n]}
      BY <1>1, <3>1
    <3> QED
      BY <1>4, <2>2, <3>3, <3>4
  <2> QED
    BY <2>1, <2>2
<1>7. \A n \in 1..N : Ordered(F[n], Names(n))
  <2> DEFINE R == {ss \in Nat \X Nat : ss[1] < ss[2]}
             Bad == {n \in Nat : n \in 1..N /\ ~Ordered(F[n], Names(n))}
  <2>1. IsWellFoundedOn(R, Nat)
    BY NatLessThanWellFounded DEF OpToRel
  <2>2. ASSUME NEW n \in Bad, \A l \in Bad : ~(<<l, n>> \in R)
        PROVE  FALSE
    <3>1. n \in 1..N /\ ~Ordered(F[n], Names(n))
      OBVIOUS
    <3>2. n > 1 /\ ~Ordered(F[n - 1], Names(n - 1))
      BY <1>6, <3>1
    <3> DEFINE l == n - 1
    <3>3. l \in 1..N /\ l \in Nat /\ <<l, n>> \in R
      BY <1>1, <3>1, <3>2
    <3>4. l \in Bad
      BY <3>2, <3>3
    <3> QED
      BY <2>2, <3>3, <3>4
  <2>3. Bad = {}
    <3>1. Bad \subseteq Nat
      OBVIOUS
    <3> HIDE DEF R, Bad
    <3> QED
      BY <2>1, <2>2, <3>1, WFMin
  <2> TAKE n \in 1..N
  <2>4. n \in Nat
    BY <1>1
  <2>5. n \notin Bad
    <3> HIDE DEF Bad
    <3> QED
      BY <2>3
  <2> QED
    BY <2>4, <2>5
\* All directories, then the files of the root.
<1> DEFINE s == FlattenSeq(seqs)
           m == Len(s)
<1>8. Ordered(s, Names(N))
  <2>1. CASE N = 0
    <3>1. s = seqs /\ seqs = <<>> /\ Names(N) = {}
      BY <1>1, <1>2, <1>3, <2>1 DEF seqs
    <3> QED
      BY <1>5, <3>1
  <2>2. CASE N # 0
    <3>1. s = F[N] /\ N \in 1..N
      BY <1>1, <1>2, <1>3, <2>2
    <3> QED
      BY <1>7, <3>1
  <2> QED
    BY <2>1, <2>2
<1>9. Template = s \o fs
  BY DEF Template, seqs
<1> HIDE DEF s
<1>10. /\ s \in Seq(Paths) /\ fs \in Seq(Paths) /\ m \in Nat /\ Len(fs) \in Nat
       /\ IsInjective(fs) /\ DOMAIN fs = 1..Len(fs) /\ Root \in Dirs /\ Root \notin Names(N)
  BY <1>1, <1>8, EntriesAssumption DEF Ordered, Dirs
<1>11. /\ Template \in Seq(Paths) /\ Len(Template) = m + Len(fs)
       /\ \A i \in 1..m : Template[i] = s[i]
       /\ \A i \in 1..Len(fs) : Template[m + i] = fs[i]
  BY <1>9, <1>10
<1> HIDE DEF fs, m, Names
<1>12. ASSUME NEW k \in 1..Len(Template), Template[k] \notin Dirs
       PROVE  \/ k \in 1..m /\ Template[k] = s[k] /\ Parent(Template[k]) # Root
              \/ \E i \in 1..Len(fs) :
                     k = m + i /\ Template[k] = fs[i] /\ Parent(Template[k]) = Root
  <2>1. CASE k \in 1..m
    BY <1>8, <1>10, <1>11, <1>12, <2>1 DEF Ordered, m
  <2>2. CASE k \notin 1..m
    <3> DEFINE i == k - m
    <3>1. i \in 1..Len(fs) /\ k = m + i
      BY <1>10, <1>11, <2>2
    <3>2. Parent(fs[i]) = Root
      BY <1>10, <3>1, ParentFacts DEF fs
    <3> QED
      BY <1>11, <3>1, <3>2
  <2> QED
    BY <2>1, <2>2
<1>13. ASSUME NEW k \in 1..Len(Template), Template[k] \notin Dirs, Parent(Template[k]) # Root
       PROVE  \E j \in 1..k - 1 : Template[j] = Parent(Template[k])
  <2>1. k \in 1..m /\ Template[k] = s[k]
    BY <1>12, <1>13
  <2>2. PICK j \in 1..k - 1 : s[j] = Parent(s[k])
    BY <1>8, <1>13, <2>1 DEF Ordered, m
  <2>3. j \in 1..m
    BY <1>10, <2>1
  <2> QED
    BY <1>11, <2>1, <2>2, <2>3
<1>14. ASSUME NEW j \in 1..Len(Template), NEW k \in 1..Len(Template),
              Template[j] = Template[k], Template[k] \notin Dirs
       PROVE  j = k
  <2>1. CASE Parent(Template[k]) # Root
    <3>1. j \in 1..m /\ k \in 1..m /\ s[j] = s[k] /\ s[k] \notin Dirs
      BY <1>12, <1>14, <2>1
    <3> QED
      BY <1>8, <3>1 DEF Ordered, m
  <2>2. CASE Parent(Template[k]) = Root
    <3>1. PICK a \in 1..Len(fs) : j = m + a /\ Template[j] = fs[a]
      BY <1>12, <1>14, <2>2
    <3>2. PICK b \in 1..Len(fs) : k = m + b /\ Template[k] = fs[b]
      BY <1>12, <1>14, <2>2
    <3>3. a = b
      BY <1>10, <1>14, <3>1, <3>2 DEF IsInjective
    <3> QED
      BY <3>1, <3>2, <3>3
  <2> QED
    BY <2>1, <2>2
<1>15. ASSUME NEW p \in Paths \ Dirs
       PROVE  \E k \in 1..Len(Template) : Template[k] = p
  <2>1. PICK d \in Dirs : p \in ToSet(Files[d])
    BY DEF Paths
  <2>2. PICK i \in 1..Len(Files[d]) : Files[d][i] = p
    BY <2>1, EntriesAssumption DEF ToSet
  <2>3. CASE d = Root
    <3>1. m + i \in 1..Len(Template) /\ Template[m + i] = p
      BY <1>10, <1>11, <2>2, <2>3 DEF fs
    <3> QED
      BY <3>1
  <2>4. CASE d # Root
    <3>1. PICK j \in 1..N : SubDirs[j] = d
      BY <1>1, <2>4 DEF Dirs, ToSet
    <3>2. d \in Names(N)
      BY <3>1 DEF Names
    <3>3. PICK k \in 1..m : s[k] = p
      BY <1>8, <2>2, <3>2 DEF Ordered, m
    <3> QED
      BY <1>10, <1>11, <3>3
  <2> QED
    BY <2>3, <2>4
<1> QED
  BY <1>11, <1>13, <1>14, <1>15

-----------------------------------------------------------------------------
LEMMA TemplateFacts ==
    /\ Len(Template) \in Nat /\ DOMAIN Template = 1..Len(Template)
    /\ \A i \in 1..Len(Template) : Template[i] \in Paths
    /\ \A p \in Paths \ Dirs : \E i \in 1..Len(Template) : Template[i] = p
    /\ \E i \in 1..Len(Template) : Template[i] \notin Dirs
    /\ Len(Template) >= 1
<1>1. Len(Template) \in Nat /\ DOMAIN Template = 1..Len(Template)
      /\ \A i \in 1..Len(Template) : Template[i] \in Paths
  BY TemplateOrder
<1>2. \A p \in Paths \ Dirs : \E i \in 1..Len(Template) : Template[i] = p
  BY TemplateOrder
<1>3. PICK p \in Paths \ Dirs : TRUE
  BY TemplateAssumption
<1>4. PICK i \in 1..Len(Template) : Template[i] = p
  BY <1>2
<1>5. QED
  BY <1>1, <1>2, <1>4

LEMMA FirstExists == \E f \in DOMAIN Template : IsFirst(f)
<1> DEFINE R == {ss \in Nat \X Nat : ss[1] < ss[2]}
           FileIndices == {i \in Nat : i \in 1..Len(Template) /\ Template[i] \notin Dirs}
<1>1. IsWellFoundedOn(R, Nat)
  BY NatLessThanWellFounded DEF OpToRel
<1>2. FileIndices # {} /\ FileIndices \subseteq Nat
  BY TemplateFacts
<1>3. PICK f \in FileIndices : \A i \in FileIndices : ~(<<i, f>> \in R)
  BY <1>1, <1>2, WFMin
<1>4. ASSUME NEW i \in 1..f - 1, Template[i] \notin Dirs
      PROVE  FALSE
  <2>1. i \in FileIndices /\ i < f
    BY <1>3, <1>4, TemplateFacts
  <2>2. <<i, f>> \in R
    BY <1>3, <2>1
  <2>3. QED
    BY <1>3, <2>1, <2>2
<1>5. \A i \in 1..f - 1 : Template[i] \in Dirs
  BY <1>4
<1>6. QED
  BY <1>3, <1>5, TemplateFacts DEF IsFirst

\* What a file a run has at hand is called.
LEMMA EntryFacts ==
    ASSUME InitInv, NEW m \in Makers, status[m] = "running"
    PROVE  /\ next[m] \in 1..Len(Template) /\ Entry(m) = Template[next[m]]
           /\ Entry(m) \in Paths
<1>1. next[m] \in 1..Len(Template)
  BY TemplateFacts DEF InitInv, TypeOK, PlaceInv
<1>2. QED
  BY <1>1, TemplateFacts DEF Entry

LEMMA Initially == Init => InitInv
<1> SUFFICES ASSUME Init PROVE InitInv
  OBVIOUS
<1>1. TypeOK
  BY TemplateFacts DEF Init, TypeOK, Nothing, Nodes
<1>2. \A m \in Makers : PlaceInv(m) /\ WorkInv(m)
  BY TemplateFacts DEF Init, PlaceInv, WorkInv
<1>3. FirstDecides
  BY DEF Init, FirstDecides, Owns, Nothing
<1>4. QED
  BY <1>1, <1>2, <1>3 DEF InitInv

-----------------------------------------------------------------------------
(* What a step leaves of the tree.                                         *)

Untouched == \A p \in Paths : tree[p].kind # "absent" => tree'[p] = tree[p]
Keeps(m) ==
    \A p \in Paths : tree[p].kind # "absent" =>
        tree'[p] = tree[p] \/ (tree[p] = File(m, FALSE) /\ tree'[p] = File(m, TRUE))
\* No run gets a file by the step.
NoNewFiles == \A k \in Makers, p \in Paths : Owns(k, p)' => Owns(k, p)
Frame(m) ==
    \A k \in Makers : k # m =>
        pc'[k] = pc[k] /\ next'[k] = next[k] /\ status'[k] = status[k]

LEMMA DirectoryFacts ==
    ASSUME TypeOK, NEW m \in Makers, NEW p \in Paths, tree' = WithDirectory(p, m)
    PROVE  /\ Untouched /\ NoNewFiles
           /\ tree' \in [Paths -> Nodes]
<1>1. CASE tree[p].kind = "absent"
  <2>1. tree' = [tree EXCEPT ![p] = Directory(m)]
    BY <1>1 DEF WithDirectory
  <2>2. Directory(m) \in Nodes /\ Directory(m).kind = "dir"
    BY DEF Directory, Nodes
  <2>3. QED
    BY <1>1, <2>1, <2>2 DEF TypeOK, Untouched, NoNewFiles, Owns
<1>2. CASE tree[p].kind # "absent"
  BY <1>2 DEF WithDirectory, TypeOK, Untouched, NoNewFiles, Owns
<1>3. QED
  BY <1>1, <1>2

LEMMA UntouchedKeeps ==
    ASSUME TypeOK, NEW m, Untouched
    PROVE  Keeps(m)
BY DEF Untouched, Keeps

LEMMA FileFacts ==
    ASSUME NEW m \in Makers
    PROVE  /\ File(m, TRUE) \in Nodes /\ File(m, FALSE) \in Nodes
           /\ File(m, TRUE).kind = "file" /\ File(m, TRUE).by = m
           /\ File(m, FALSE).kind = "file" /\ File(m, FALSE).by = m
           /\ File(m, TRUE) # File(m, FALSE)
BY DEF File, Nodes

LEMMA OwnersKeep ==
    ASSUME TypeOK, NEW m \in Makers, Keeps(m),
           NEW k \in Makers, NEW p \in Paths, Owns(k, p)
    PROVE  Owns(k, p)'
BY FileFacts DEF Keeps, Owns

\* The other runs still hold what they held.
LEMMA Bystander ==
    ASSUME InitInv, NEW m \in Makers, Keeps(m), Frame(m), NEW k \in Makers, k # m
    PROVE  PlaceInv(k)' /\ WorkInv(k)'
<1>1. pc'[k] = pc[k] /\ next'[k] = next[k] /\ status'[k] = status[k]
      /\ next[k] \in 1..Len(Template) + 1
  BY DEF Frame, InitInv, TypeOK
<1>2. PlaceInv(k) /\ WorkInv(k)
  BY DEF InitInv
<1>3. PlaceInv(k)'
  BY <1>1, <1>2 DEF PlaceInv
<1>4. Entry(k)' = Entry(k)
  BY <1>1 DEF Entry
<1>5. \A p \in Paths : tree[p] = File(k, TRUE) => tree'[p] = File(k, TRUE)
  BY FileFacts DEF Keeps
<1>6. \A p \in Paths : tree[p] = File(k, FALSE) => tree'[p] = File(k, FALSE)
  BY FileFacts DEF Keeps
<1>7. status[k] = "running" /\ pc[k] = "write" =>
          Entry(k) \notin Dirs /\ tree'[Entry(k)] = File(k, FALSE)
  BY <1>2, <1>6, EntryFacts DEF WorkInv
<1>8. status[k] \in {"running", "ok"} =>
          \A i \in 1..next[k] - 1 : Template[i] \notin Dirs =>
              tree'[Template[i]] = File(k, TRUE)
  <2> SUFFICES ASSUME status[k] \in {"running", "ok"},
                      NEW i \in 1..next[k] - 1, Template[i] \notin Dirs
               PROVE  tree'[Template[i]] = File(k, TRUE)
    OBVIOUS
  <2>1. tree[Template[i]] = File(k, TRUE)
    BY <1>2 DEF WorkInv
  <2>2. Template[i] \in Paths
    BY <1>1, TemplateFacts
  <2>3. QED
    BY <1>5, <2>1, <2>2
<1>9. WorkInv(k)'
  BY <1>1, <1>4, <1>7, <1>8 DEF WorkInv
<1>10. QED
  BY <1>3, <1>9

LEMMA FirstStays ==
    ASSUME InitInv, NEW m \in Makers, Keeps(m), NoNewFiles
    PROVE  FirstDecides'
<1> SUFFICES ASSUME NEW f \in DOMAIN Template, IsFirst(f),
                    NEW k \in Makers, NEW p \in Paths, Owns(k, p)'
             PROVE  Owns(k, Template[f])'
  BY DEF FirstDecides, IsFirst
<1>1. Owns(k, p)
  BY DEF NoNewFiles
<1>2. Owns(k, Template[f]) /\ Template[f] \in Paths
  BY <1>1, TemplateFacts DEF InitInv, FirstDecides
<1>3. QED
  BY <1>2, OwnersKeep DEF InitInv

\* What a step of a run has to show.
Progress(m) ==
    /\ TypeOK' /\ Keeps(m) /\ Frame(m)
    /\ PlaceInv(m)' /\ WorkInv(m)' /\ FirstDecides'

LEMMA ProgressSuffices ==
    ASSUME InitInv, NEW m \in Makers, Progress(m)
    PROVE  InitInv'
<1>1. \A k \in Makers : PlaceInv(k)' /\ WorkInv(k)'
  <2> TAKE k \in Makers
  <2>1. CASE k = m
    BY <2>1 DEF Progress
  <2>2. CASE k # m
    BY <2>2, Bystander DEF Progress
  <2>3. QED
    BY <2>1, <2>2
<1>2. QED
  BY <1>1 DEF InitInv, Progress

LEMMA SameTree ==
    ASSUME InitInv, NEW m \in Makers, UNCHANGED tree
    PROVE  Keeps(m) /\ FirstDecides' /\ NoNewFiles
<1>1. Keeps(m) /\ NoNewFiles
  BY DEF Keeps, NoNewFiles, Owns
<1>2. QED
  BY <1>1, FirstStays

-----------------------------------------------------------------------------
(* Each step of a run.                                                     *)

LEMMA EndStep ==
    ASSUME InitInv, NEW m \in Makers, NEW how \in {"failed", "killed"}, Return(m, how),
           UNCHANGED <<tree, next>>, calm' \in BOOLEAN
    PROVE  Progress(m)
<1>1. TypeOK' /\ Frame(m)
  BY DEF InitInv, TypeOK, Frame, Return
<1>2. PlaceInv(m)' /\ WorkInv(m)'
  BY DEF InitInv, TypeOK, PlaceInv, WorkInv, Return
<1>3. QED
  BY <1>1, <1>2, SameTree DEF Progress

LEMMA BeginStep ==
    ASSUME InitInv, NEW m \in Makers, Begin(m)
    PROVE  Progress(m)
<1>1. status' = [status EXCEPT ![m] = "running"] /\ UNCHANGED <<tree, pc, next, calm>>
      /\ status[m] = "idle" /\ pc[m] = "check" /\ next[m] = 1
  BY DEF Begin, InitInv, PlaceInv
<1>2. TypeOK' /\ Frame(m)
  BY <1>1 DEF InitInv, TypeOK, Frame
<1>3. status'[m] = "running"
  BY <1>1 DEF InitInv, TypeOK
<1>4. PlaceInv(m)' /\ WorkInv(m)'
  BY <1>1, <1>3, TemplateFacts DEF PlaceInv, WorkInv
<1>5. QED
  BY <1>1, <1>2, <1>4, SameTree DEF Progress

LEMMA CheckStep ==
    ASSUME InitInv, NEW m \in Makers, Check(m)
    PROVE  Progress(m)
<1>1. CASE tree[Root].kind = "absent"
  <2>1. Goto(m, "root") /\ UNCHANGED <<tree, next, calm>> /\ At(m, "check")
    BY <1>1 DEF Check
  <2>2. TypeOK' /\ Frame(m)
    BY <2>1 DEF InitInv, TypeOK, Frame, Goto
  <2>3. pc'[m] = "root"
    BY <2>1 DEF InitInv, TypeOK, Goto
  <2>4. PlaceInv(m)' /\ WorkInv(m)'
    BY <2>1, <2>3 DEF InitInv, TypeOK, PlaceInv, WorkInv, Goto, At
  <2>5. QED
    BY <2>1, <2>2, <2>4, SameTree DEF Progress
<1>2. CASE tree[Root].kind # "absent"
  BY <1>2, EndStep DEF Check, InitInv, TypeOK
<1>3. QED
  BY <1>1, <1>2

LEMMA MakeRootStep ==
    ASSUME InitInv, NEW m \in Makers, MakeRoot(m)
    PROVE  Progress(m)
<1>1. CASE Enterable(Root)
  <2>1. Goto(m, "render") /\ tree' = WithDirectory(Root, m) /\ UNCHANGED <<next, calm>>
        /\ At(m, "root")
    BY <1>1 DEF MakeRoot
  <2>2. Root \in Paths
    BY DEF Paths, Dirs
  <2>3. Keeps(m) /\ NoNewFiles /\ tree' \in [Paths -> Nodes]
    BY <2>1, <2>2, DirectoryFacts, UntouchedKeeps DEF InitInv
  <2>4. TypeOK' /\ Frame(m)
    BY <2>1, <2>3 DEF InitInv, TypeOK, Frame, Goto
  <2>5. pc'[m] = "render" /\ status'[m] = "running" /\ next'[m] = 1
    BY <2>1 DEF InitInv, TypeOK, Goto, At, PlaceInv
  <2>6. PlaceInv(m)' /\ WorkInv(m)'
    BY <2>5, TemplateFacts DEF PlaceInv, WorkInv
  <2>7. QED
    BY <2>3, <2>4, <2>6, FirstStays DEF Progress
<1>2. CASE ~Enterable(Root)
  BY <1>2, EndStep DEF MakeRoot, InitInv, TypeOK
<1>3. QED
  BY <1>1, <1>2

\* An entry is done, and the run goes on or has finished.
LEMMA AdvanceFacts ==
    ASSUME InitInv, NEW m \in Makers, status[m] = "running", pc[m] \in {"render", "write"},
           Advance(m), UNCHANGED calm, tree' \in [Paths -> Nodes],
           \A i \in 1..next[m] : Template[i] \notin Dirs => tree'[Template[i]] = File(m, TRUE)
    PROVE  TypeOK' /\ Frame(m) /\ PlaceInv(m)' /\ WorkInv(m)'
<1>1. next[m] \in 1..Len(Template) /\ Len(Template) \in Nat
  BY EntryFacts, TemplateFacts
<1>2. next' = [next EXCEPT ![m] = @ + 1] /\ next'[m] = next[m] + 1
  BY DEF Advance, InitInv, TypeOK
<1>3. next' \in [Makers -> 1..Len(Template) + 1]
  BY <1>1, <1>2 DEF InitInv, TypeOK
<1>4. \A i \in 1..next'[m] - 1 : Template[i] \notin Dirs => tree'[Template[i]] = File(m, TRUE)
  <2>1. 1..next'[m] - 1 = 1..next[m]
    BY <1>1, <1>2
  <2>2. QED
    BY <2>1
<1>5. CASE next[m] = Len(Template)
  <2>1. Return(m, "ok") /\ status'[m] = "ok"
    BY <1>5 DEF Advance, Return, InitInv, TypeOK
  <2>2. TypeOK' /\ Frame(m)
    BY <1>2, <1>3, <2>1 DEF InitInv, TypeOK, Frame, Return
  <2>3. PlaceInv(m)' /\ WorkInv(m)'
    BY <1>2, <1>4, <1>5, <2>1 DEF PlaceInv, WorkInv, Return
  <2>4. QED
    BY <2>2, <2>3
<1>6. CASE next[m] # Len(Template)
  <2>1. Goto(m, "render") /\ pc'[m] = "render" /\ status'[m] = "running"
    BY <1>6 DEF Advance, Goto, InitInv, TypeOK
  <2>2. TypeOK' /\ Frame(m)
    BY <1>2, <1>3, <2>1 DEF InitInv, TypeOK, Frame, Goto
  <2>3. next'[m] <= Len(Template)
    BY <1>1, <1>2, <1>6
  <2>4. PlaceInv(m)'
    BY <2>1, <2>3 DEF PlaceInv
  <2>5. WorkInv(m)'
    BY <1>4, <2>1 DEF WorkInv
  <2>6. QED
    BY <2>2, <2>4, <2>5
<1>7. QED
  BY <1>5, <1>6

LEMMA MakeDirectoryStep ==
    ASSUME InitInv, NEW m \in Makers, MakeDirectory(m)
    PROVE  Progress(m)
<1>1. status[m] = "running" /\ pc[m] = "render" /\ Entry(m) \in Dirs
  BY DEF MakeDirectory, At
<1>2. next[m] \in 1..Len(Template) /\ Entry(m) = Template[next[m]] /\ Entry(m) \in Paths
  BY <1>1, EntryFacts
<1>3. CASE Enterable(Entry(m))
  <2>1. Advance(m) /\ tree' = WithDirectory(Entry(m), m) /\ UNCHANGED calm
    BY <1>3 DEF MakeDirectory
  <2>2. Untouched /\ Keeps(m) /\ NoNewFiles /\ tree' \in [Paths -> Nodes]
    BY <1>2, <2>1, DirectoryFacts, UntouchedKeeps DEF InitInv
  <2>3. ASSUME NEW i \in 1..next[m], Template[i] \notin Dirs
        PROVE  tree'[Template[i]] = File(m, TRUE)
    <3>1. i \in 1..next[m] - 1 /\ Template[i] \in Paths
      BY <1>1, <1>2, <2>3, TemplateFacts
    <3>2. tree[Template[i]] = File(m, TRUE)
      BY <1>1, <2>3, <3>1 DEF InitInv, WorkInv
    <3>3. QED
      BY <2>2, <3>1, <3>2, FileFacts DEF Untouched
  <2>4. TypeOK' /\ Frame(m) /\ PlaceInv(m)' /\ WorkInv(m)'
    BY <1>1, <2>1, <2>2, <2>3, AdvanceFacts
  <2>5. QED
    BY <2>2, <2>4, FirstStays DEF Progress
<1>4. CASE ~Enterable(Entry(m))
  BY <1>4, EndStep DEF MakeDirectory, InitInv, TypeOK
<1>5. QED
  BY <1>3, <1>4

LEMMA OpenFileStep ==
    ASSUME InitInv, NEW m \in Makers, OpenFile(m)
    PROVE  Progress(m)
<1>1. status[m] = "running" /\ pc[m] = "render" /\ Entry(m) \notin Dirs
  BY DEF OpenFile, At
<1>2. next[m] \in 1..Len(Template) /\ Entry(m) = Template[next[m]] /\ Entry(m) \in Paths
  BY <1>1, EntryFacts
<1>3. CASE Creatable(Entry(m))
  <2>1. Goto(m, "write") /\ tree' = [tree EXCEPT ![Entry(m)] = File(m, FALSE)]
        /\ UNCHANGED <<next, calm>> /\ tree[Entry(m)].kind = "absent"
    BY <1>3 DEF OpenFile, Creatable
  <2>2. /\ tree'[Entry(m)] = File(m, FALSE)
        /\ \A p \in Paths : p # Entry(m) => tree'[p] = tree[p]
        /\ tree' \in [Paths -> Nodes]
    BY <1>2, <2>1, FileFacts DEF InitInv, TypeOK
  <2>3. Keeps(m)
    BY <2>1, <2>2 DEF Keeps
  <2>4. pc'[m] = "write" /\ status' = status /\ next' = next /\ Entry(m)' = Entry(m)
    BY <2>1 DEF Goto, Entry, InitInv, TypeOK
  <2>5. TypeOK' /\ Frame(m)
    BY <2>1, <2>2 DEF InitInv, TypeOK, Frame, Goto
  <2>6. PlaceInv(m)'
    BY <1>1, <2>4 DEF InitInv, PlaceInv
  <2>7. WorkInv(m)'
    <3>1. \A i \in 1..next[m] - 1 : Template[i] \notin Dirs =>
              tree'[Template[i]] = File(m, TRUE)
      <4> SUFFICES ASSUME NEW i \in 1..next[m] - 1, Template[i] \notin Dirs
                   PROVE  tree'[Template[i]] = File(m, TRUE)
        OBVIOUS
      <4>1. tree[Template[i]] = File(m, TRUE)
        BY <1>1 DEF InitInv, WorkInv
      <4>2. Template[i] \in Paths
        BY <1>2, TemplateFacts
      <4>3. QED
        BY <2>1, <2>2, <4>1, <4>2, FileFacts
    <3>2. QED
      BY <1>1, <2>2, <2>4, <3>1 DEF WorkInv
  <2>8. FirstDecides'
    <3> SUFFICES ASSUME NEW f \in DOMAIN Template, IsFirst(f),
                        NEW k \in Makers, NEW p \in Paths, Owns(k, p)'
                 PROVE  Owns(k, Template[f])'
      BY DEF FirstDecides, IsFirst
    <3>1. f \in 1..Len(Template) /\ Template[f] \in Paths
      BY TemplateFacts
    <3>2. f <= next[m]
      BY <1>1, <1>2, <3>1, TemplateFacts DEF IsFirst
    <3>3. CASE p = Entry(m)
      <4>1. k = m
        BY <2>2, <3>3, FileFacts DEF Owns
      <4>2. CASE f = next[m]
        BY <1>2, <3>3, <4>2
      <4>3. CASE f < next[m]
        <5>1. f \in 1..next[m] - 1 /\ Template[f] \notin Dirs
          BY <1>2, <3>1, <4>3 DEF IsFirst
        <5>2. tree[Template[f]] = File(m, TRUE)
          BY <1>1, <5>1 DEF InitInv, WorkInv
        <5>3. QED
          BY <2>3, <3>1, <4>1, <5>2, FileFacts, OwnersKeep DEF Owns, InitInv
      <4>4. QED
        BY <1>2, <3>1, <3>2, <4>2, <4>3
    <3>4. CASE p # Entry(m)
      <4>1. Owns(k, p)
        BY <2>2, <3>4 DEF Owns
      <4>2. Owns(k, Template[f])
        BY <4>1 DEF InitInv, FirstDecides
      <4>3. QED
        BY <2>3, <3>1, <4>2, OwnersKeep DEF InitInv
    <3>5. QED
      BY <3>3, <3>4
  <2>9. QED
    BY <2>3, <2>5, <2>6, <2>7, <2>8 DEF Progress
<1>4. CASE ~Creatable(Entry(m))
  BY <1>4, EndStep DEF OpenFile, InitInv, TypeOK
<1>5. QED
  BY <1>3, <1>4

LEMMA WriteFileStep ==
    ASSUME InitInv, NEW m \in Makers, WriteFile(m)
    PROVE  Progress(m)
<1>1. status[m] = "running" /\ pc[m] = "write" /\ Advance(m) /\ UNCHANGED calm
      /\ tree' = [tree EXCEPT ![Entry(m)] = File(m, TRUE)]
  BY DEF WriteFile, At
<1>2. next[m] \in 1..Len(Template) /\ Entry(m) = Template[next[m]] /\ Entry(m) \in Paths
  BY <1>1, EntryFacts
<1>3. tree[Entry(m)] = File(m, FALSE)
  BY <1>1 DEF InitInv, WorkInv
<1>4. /\ tree'[Entry(m)] = File(m, TRUE)
      /\ \A p \in Paths : p # Entry(m) => tree'[p] = tree[p]
      /\ tree' \in [Paths -> Nodes]
  BY <1>1, <1>2, FileFacts DEF InitInv, TypeOK
<1>5. Keeps(m)
  BY <1>3, <1>4 DEF Keeps
<1>6. NoNewFiles
  <2> SUFFICES ASSUME NEW k \in Makers, NEW p \in Paths, Owns(k, p)'
               PROVE  Owns(k, p)
    BY DEF NoNewFiles
  <2>1. CASE p = Entry(m)
    <3>1. k = m
      BY <1>4, <2>1, FileFacts DEF Owns
    <3>2. QED
      BY <1>3, <2>1, <3>1, FileFacts DEF Owns
  <2>2. CASE p # Entry(m)
    BY <1>4, <2>2 DEF Owns
  <2>3. QED
    BY <2>1, <2>2
<1>7. ASSUME NEW i \in 1..next[m], Template[i] \notin Dirs
      PROVE  tree'[Template[i]] = File(m, TRUE)
  <2>1. CASE Template[i] = Entry(m)
    BY <1>4, <2>1
  <2>2. CASE Template[i] # Entry(m)
    <3>1. i \in 1..next[m] - 1
      BY <1>2, <2>2
    <3>2. tree[Template[i]] = File(m, TRUE)
      BY <1>1, <1>7, <3>1 DEF InitInv, WorkInv
    <3>3. Template[i] \in Paths
      BY <1>2, TemplateFacts
    <3>4. QED
      BY <1>4, <2>2, <3>2, <3>3
  <2>3. QED
    BY <2>1, <2>2
<1>8. TypeOK' /\ Frame(m) /\ PlaceInv(m)' /\ WorkInv(m)'
  BY <1>1, <1>4, <1>7, AdvanceFacts
<1>9. QED
  BY <1>5, <1>6, <1>8, FirstStays DEF Progress

LEMMA MakerStep ==
    ASSUME InitInv, NEW m \in Makers, Maker(m)
    PROVE  Progress(m)
<1>1. CASE Refuse(m)
  BY <1>1, EndStep DEF Refuse
<1>2. CASE WriteFails(m)
  BY <1>2, EndStep DEF WriteFails, WriteError
<1>3. CASE Killed(m)
  BY <1>3, EndStep DEF Killed
<1>4. QED
  BY <1>1, <1>2, <1>3, BeginStep, CheckStep, MakeRootStep, MakeDirectoryStep,
     OpenFileStep, WriteFileStep DEF Maker

-----------------------------------------------------------------------------
(* Steps of others.                                                        *)

LEMMA OthersStep ==
    ASSUME InitInv, OthersCreate
    PROVE  InitInv' /\ Untouched
<1>1. PICK p \in Paths, node \in {Directory("others"), File("others", TRUE)} :
          tree[p].kind = "absent" /\ tree' = [tree EXCEPT ![p] = node]
  BY DEF OthersCreate
<1>2. node \in Nodes /\ (node.kind = "file" => node.by \notin Makers)
  <2>1. CASE node = Directory("others")
    BY <2>1 DEF Directory, Nodes
  <2>2. CASE node = File("others", TRUE)
    BY <2>2, TemplateAssumption DEF File, Nodes
  <2>3. QED
    BY <1>1, <2>1, <2>2
<1>3. UNCHANGED <<pc, next, status>> /\ calm' \in BOOLEAN
  BY DEF OthersCreate
<1>4. TypeOK' /\ Untouched
  BY <1>1, <1>2, <1>3 DEF InitInv, TypeOK, Untouched
<1>5. NoNewFiles
  BY <1>1, <1>2 DEF NoNewFiles, Owns, InitInv, TypeOK
<1>6. ASSUME NEW m \in Makers
      PROVE  PlaceInv(m)' /\ WorkInv(m)'
  <2>1. PlaceInv(m)'
    BY <1>3 DEF InitInv, PlaceInv
  <2>2. \A q \in Paths : /\ tree[q] = File(m, TRUE) => tree'[q] = File(m, TRUE)
                         /\ tree[q] = File(m, FALSE) => tree'[q] = File(m, FALSE)
    BY <1>4, FileFacts DEF Untouched
  <2>3. status[m] = "running" /\ pc[m] = "write" =>
            Entry(m)' \notin Dirs /\ tree'[Entry(m)'] = File(m, FALSE)
    BY <1>3, <2>2, EntryFacts DEF InitInv, WorkInv, Entry
  <2>4. ASSUME status[m] \in {"running", "ok"}, NEW i \in 1..next[m] - 1, Template[i] \notin Dirs
        PROVE  tree'[Template[i]] = File(m, TRUE)
    <3>1. tree[Template[i]] = File(m, TRUE)
      BY <2>4 DEF InitInv, WorkInv
    <3>2. next[m] \in 1..Len(Template) + 1
      BY DEF InitInv, TypeOK
    <3>3. Template[i] \in Paths
      BY <3>2, TemplateFacts
    <3>4. QED
      BY <2>2, <3>1, <3>3
  <2>5. WorkInv(m)'
    BY <1>3, <2>3, <2>4 DEF WorkInv
  <2>6. QED
    BY <2>1, <2>5
<1>7. FirstDecides'
  <2> SUFFICES ASSUME NEW f \in DOMAIN Template, IsFirst(f),
                      NEW k \in Makers, NEW q \in Paths, Owns(k, q)'
               PROVE  Owns(k, Template[f])'
    BY DEF FirstDecides, IsFirst
  <2>1. Owns(k, Template[f]) /\ Template[f] \in Paths
    BY <1>5, TemplateFacts DEF NoNewFiles, InitInv, FirstDecides
  <2>2. QED
    BY <1>4, <2>1 DEF Owns, Untouched
<1>8. QED
  BY <1>4, <1>6, <1>7 DEF InitInv

LEMMA ClearStep ==
    ASSUME InitInv, Clear
    PROVE  InitInv'
<1>1. /\ \A m \in Makers : status[m] \notin {"running", "ok"}
      /\ tree' = [p \in Paths |-> Nothing]
      /\ UNCHANGED <<pc, next, status>> /\ calm' \in BOOLEAN
  BY DEF Clear
<1>2. Nothing \in Nodes /\ Nothing.kind # "file"
  BY DEF Nothing, Nodes
<1>3. TypeOK'
  BY <1>1, <1>2 DEF InitInv, TypeOK
<1>4. \A m \in Makers : PlaceInv(m)' /\ WorkInv(m)'
  BY <1>1 DEF InitInv, PlaceInv, WorkInv
<1>5. FirstDecides'
  BY <1>1, <1>2 DEF FirstDecides, Owns
<1>6. QED
  BY <1>3, <1>4, <1>5 DEF InitInv

LEMMA Inductive == InitInv /\ [Next]_vars => InitInv'
<1> SUFFICES ASSUME InitInv, [Next]_vars PROVE InitInv'
  OBVIOUS
<1>1. CASE OthersCreate
  BY <1>1, OthersStep
<1>2. CASE Clear
  BY <1>2, ClearStep
<1>3. ASSUME NEW m \in Makers, Maker(m)
      PROVE  InitInv'
  BY <1>3, MakerStep, ProgressSuffices
<1>4. CASE UNCHANGED vars
  <2>1. TypeOK'
    BY <1>4 DEF InitInv, TypeOK, vars
  <2>2. \A m \in Makers : PlaceInv(m)' /\ WorkInv(m)'
    BY <1>4 DEF InitInv, PlaceInv, WorkInv, Entry, vars
  <2>3. FirstDecides'
    BY <1>4 DEF InitInv, FirstDecides, Owns, vars
  <2>4. QED
    BY <2>1, <2>2, <2>3 DEF InitInv
<1>5. QED
  BY <1>1, <1>2, <1>3, <1>4 DEF Next

THEOREM Invariant == Spec => []InitInv
BY Initially, Inductive, PTL DEF Spec

(* Every variable keeps its type, so no run looks beyond the template.     *)
THEOREM TypeCorrect == Spec => []TypeOK
<1>1. InitInv => TypeOK
  BY DEF InitInv
<1>2. QED
  BY <1>1, Invariant, PTL

(* A run that reports success has written every file itself and whole,     *)
(* whatever other runs, programs and users did meanwhile.                  *)
THEOREM SuccessAlwaysWhole == Spec => []SuccessIsWhole
<1>1. ASSUME InitInv
      PROVE  SuccessIsWhole
  <2> SUFFICES ASSUME NEW m \in Makers, status[m] = "ok", NEW p \in Paths \ Dirs
               PROVE  tree[p] = File(m, TRUE)
    BY DEF SuccessIsWhole
  <2>1. PICK i \in 1..Len(Template) : Template[i] = p
    BY TemplateFacts
  <2>2. next[m] = Len(Template) + 1
    BY <1>1 DEF InitInv, PlaceInv
  <2>3. i \in 1..next[m] - 1 /\ Template[i] \notin Dirs
    BY <2>1, <2>2, TemplateFacts
  <2>4. QED
    BY <1>1, <2>1, <2>3 DEF InitInv, WorkInv
<1>2. QED
  BY <1>1, Invariant, PTL

(* No project holds files of two runs: the one whose first file was        *)
(* created keeps all others out.                                           *)
THEOREM AlwaysOneMaker == Spec => []OneMaker
<1>1. ASSUME InitInv
      PROVE  OneMaker
  <2> SUFFICES ASSUME NEW p \in Paths, NEW q \in Paths,
                      tree[p].kind = "file", tree[q].kind = "file",
                      {tree[p].by, tree[q].by} \subseteq Makers
               PROVE  tree[p].by = tree[q].by
    BY DEF OneMaker
  <2>1. PICK f \in DOMAIN Template : IsFirst(f)
    BY FirstExists
  <2>2. tree[p].by \in Makers /\ tree[q].by \in Makers
    OBVIOUS
  <2>3. Owns(tree[p].by, p) /\ Owns(tree[q].by, q)
    BY DEF Owns
  <2>4. Owns(tree[p].by, Template[f]) /\ Owns(tree[q].by, Template[f])
    BY <1>1, <2>1, <2>2, <2>3 DEF InitInv, FirstDecides
  <2>5. QED
    BY <2>4 DEF Owns
<1>2. QED
  BY <1>1, Invariant, PTL

(* No step changes a file or directory that is there, except that a run    *)
(* completes its own and a user clears a failed project away.              *)
THEOREM NothingReplaced == Spec => NeverReplaced
<1> DEFINE Stays ==
        tree' = [p \in Paths |-> Nothing] \/
        \A p \in Paths : tree[p].kind # "absent" /\ tree'[p] # tree[p] =>
            \E m \in Makers : tree[p] = File(m, FALSE) /\ tree'[p] = File(m, TRUE)
<1>1. ASSUME InitInv, Next
      PROVE  Stays
  <2>1. CASE OthersCreate
    BY <1>1, <2>1, OthersStep DEF Untouched
  <2>2. CASE Clear
    BY <2>2 DEF Clear
  <2>3. ASSUME NEW m \in Makers, Maker(m)
        PROVE  Stays
    BY <1>1, <2>3, MakerStep DEF Progress, Keeps
  <2>4. QED
    BY <1>1, <2>1, <2>2, <2>3 DEF Next
<1>2. InitInv /\ [Next]_vars => [Stays]_vars
  BY <1>1
<1>3. QED
  BY <1>2, Invariant, PTL DEF Spec, NeverReplaced

-----------------------------------------------------------------------------
(* Who still wins while nothing else interferes.                           *)

Untrodden ==
    (\A m \in Makers : status[m] = "idle") => \A p \in Paths : tree[p].kind = "absent"

\* Directories are where directories belong, and files are some run's.
KindsMatch ==
    \A p \in Paths : /\ tree[p].kind = "dir" => p \in Dirs
                     /\ tree[p].kind = "file" => p \notin Dirs /\ tree[p].by \in Makers

\* The directories a run has passed are there ...
EnteredInv(m) ==
    status[m] = "running" /\ pc[m] \in {"render", "write"} =>
        /\ tree[Root].kind = "dir"
        /\ \A i \in 1..next[m] - 1 : Template[i] \in Dirs => tree[Template[i]].kind = "dir"

\* ... and it owns no file it has not come to.
OwnsInv(m) ==
    status[m] \in {"idle", "running"} =>
        \A p \in Paths : Owns(m, p) =>
            \/ \E i \in 1..next[m] - 1 : Template[i] = p
            \/ pc[m] = "write" /\ p = Entry(m)

\* The first file is a run's that has not failed, or one that cannot fail
\* before it gets there is on its way.
Leads(m, f) == status[m] \in {"running", "ok"} /\ Owns(m, Template[f])
Heads(m, f) ==
    /\ status[m] = "running"
    /\ \/ pc[m] = "check" /\ tree[Root].kind = "absent"
       \/ pc[m] = "root"
       \/ pc[m] = "render" /\ next[m] <= f
Hope(f) ==
    \E m \in Makers : Leads(m, f) \/ (tree[Template[f]].kind = "absent" /\ Heads(m, f))
HopeInv ==
    (\E m \in Makers : status[m] # "idle") =>
        \A f \in DOMAIN Template : IsFirst(f) => Hope(f)

UndisturbedInv ==
    /\ Untrodden /\ KindsMatch
    /\ \A m \in Makers : EnteredInv(m) /\ OwnsInv(m)
    /\ HopeInv
WinInv == calm => UndisturbedInv

LEMMA ParentIsDirectory ==
    ASSUME NEW p \in Paths \ Dirs
    PROVE  Parent(p) \in Dirs
<1>1. \E d \in Dirs : p \in ToSet(Files[d])
  BY DEF Paths
<1> QED
  BY <1>1 DEF Parent

\* A file a run comes to can be created, unless another run leads.
LEMMA OpenSucceeds ==
    ASSUME InitInv, UndisturbedInv, NEW m \in Makers, At(m, "render"), Entry(m) \notin Dirs,
           NEW f \in DOMAIN Template, IsFirst(f),
           Leads(m, f) \/ tree[Template[f]].kind = "absent"
    PROVE  Creatable(Entry(m))
<1>1. /\ status[m] = "running" /\ pc[m] = "render"
      /\ next[m] \in 1..Len(Template) /\ Entry(m) = Template[next[m]]
      /\ Entry(m) \in Paths \ Dirs
  BY EntryFacts DEF At
<1>2. tree[Root].kind = "dir"
      /\ \A i \in 1..next[m] - 1 : Template[i] \in Dirs => tree[Template[i]].kind = "dir"
  BY <1>1 DEF UndisturbedInv, EnteredInv
<1>3. tree[Parent(Entry(m))].kind = "dir"
  <2>1. Parent(Entry(m)) \in Dirs
    BY <1>1, ParentIsDirectory
  <2>2. CASE Parent(Entry(m)) = Root
    BY <1>2, <2>2
  <2>3. CASE Parent(Entry(m)) # Root
    <3>1. PICK j \in 1..next[m] - 1 : Template[j] = Parent(Entry(m))
      BY <1>1, <2>3, TemplateOrder
    <3> QED
      BY <1>2, <2>1, <3>1
  <2> QED
    BY <2>2, <2>3
<1>4. tree[Entry(m)].kind = "absent"
  <2> SUFFICES ASSUME tree[Entry(m)].kind # "absent" PROVE FALSE
    OBVIOUS
  <2>1. tree[Entry(m)].kind = "file" /\ tree[Entry(m)].by \in Makers
    BY <1>1 DEF UndisturbedInv, KindsMatch, InitInv, TypeOK, Nodes
  <2>2. PICK k \in Makers : Owns(k, Entry(m))
    BY <2>1 DEF Owns
  <2>3. Owns(k, Template[f])
    BY <1>1, <2>2 DEF InitInv, FirstDecides
  <2>4. k = m
    BY <2>3 DEF Leads, Owns
  <2>5. PICK i \in 1..next[m] - 1 : Template[i] = Entry(m)
    BY <1>1, <2>2, <2>4 DEF UndisturbedInv, OwnsInv
  <2>6. i \in 1..Len(Template)
    BY <1>1, <2>5
  <2>7. i = next[m]
    BY <1>1, <2>5, <2>6, TemplateOrder
  <2> QED
    BY <1>1, <2>7
<1> QED
  BY <1>3, <1>4 DEF Creatable

\* No other run gets a file.
NoneForOthers(m) ==
    \A k \in Makers \ {m}, p \in Paths : Owns(k, p)' => Owns(k, p)

LEMMA OthersAsTheyWere ==
    ASSUME InitInv, UndisturbedInv, NEW m \in Makers, Keeps(m), Frame(m), NoneForOthers(m),
           NEW k \in Makers, k # m
    PROVE  EnteredInv(k)' /\ OwnsInv(k)'
<1>1. pc'[k] = pc[k] /\ next'[k] = next[k] /\ status'[k] = status[k]
      /\ next[k] \in 1..Len(Template) + 1 /\ Entry(k)' = Entry(k)
  BY DEF Frame, InitInv, TypeOK, Entry
<1>2. \A p \in Paths : tree[p].kind = "dir" => tree'[p].kind = "dir"
  BY FileFacts DEF Keeps
<1>3. \A i \in 1..next[k] - 1 : Template[i] \in Paths
  BY <1>1, TemplateFacts
<1>4. Root \in Paths
  BY DEF Paths, Dirs
<1>5. EnteredInv(k)'
  BY <1>1, <1>2, <1>3, <1>4 DEF UndisturbedInv, EnteredInv
<1>6. OwnsInv(k)'
  <2> SUFFICES ASSUME status[k] \in {"idle", "running"}, NEW p \in Paths, Owns(k, p)'
               PROVE  (\E i \in 1..next[k] - 1 : Template[i] = p)
                      \/ (pc[k] = "write" /\ p = Entry(k))
    BY <1>1 DEF OwnsInv
  <2>1. Owns(k, p)
    BY DEF NoneForOthers
  <2> QED
    BY <2>1 DEF UndisturbedInv, OwnsInv
<1> QED
  BY <1>5, <1>6

\* What a step leaves of the hope: whoever takes away a reason gives one.
Marches(m) ==
    \A f \in DOMAIN Template : IsFirst(f) =>
        /\ tree[Template[f]].kind = "absent" /\ tree'[Template[f]].kind # "absent" =>
               Leads(m, f)'
        /\ tree[Root].kind = "absent" /\ tree'[Root].kind # "absent" => Heads(m, f)'
        /\ Leads(m, f) => Leads(m, f)'
        /\ tree[Template[f]].kind = "absent" /\ Heads(m, f) => Leads(m, f)' \/ Heads(m, f)'

LEMMA HopeStays ==
    ASSUME InitInv, NEW m \in Makers, Keeps(m), Frame(m), Marches(m),
           NEW f \in DOMAIN Template, IsFirst(f), Hope(f)
    PROVE  Hope(f)'
<1>1. Template[f] \in Paths
  BY TemplateFacts
<1>2. CASE Leads(m, f)'
  BY <1>2 DEF Hope
<1>3. CASE ~Leads(m, f)'
  <2>1. tree[Template[f]].kind = "absent" => tree'[Template[f]].kind = "absent"
    BY <1>3 DEF Marches
  <2>2. PICK w \in Makers :
            Leads(w, f) \/ (tree[Template[f]].kind = "absent" /\ Heads(w, f))
    BY DEF Hope
  <2>3. CASE w = m
    <3>1. tree[Template[f]].kind = "absent" /\ Heads(m, f)'
      BY <1>3, <2>2, <2>3 DEF Marches
    <3> QED
      BY <2>1, <3>1 DEF Hope
  <2>4. CASE w # m /\ Leads(w, f)
    <3>1. Owns(w, Template[f])'
      BY <1>1, <2>4, OwnersKeep DEF Leads, InitInv
    <3>2. status'[w] = status[w]
      BY <2>4 DEF Frame
    <3> QED
      BY <2>4, <3>1, <3>2 DEF Leads, Hope
  <2>5. CASE w # m /\ tree[Template[f]].kind = "absent" /\ Heads(w, f)
    <3>1. status'[w] = status[w] /\ pc'[w] = pc[w] /\ next'[w] = next[w]
      BY <2>5 DEF Frame
    <3>2. CASE Heads(m, f)'
      BY <2>1, <2>5, <3>2 DEF Hope
    <3>3. CASE ~Heads(m, f)'
      <4>1. tree[Root].kind = "absent" => tree'[Root].kind = "absent"
        BY <3>3 DEF Marches
      <4>2. Heads(w, f)'
        BY <2>5, <3>1, <4>1 DEF Heads
      <4> QED
        BY <2>1, <2>5, <4>2 DEF Hope
    <3> QED
      BY <3>2, <3>3
  <2> QED
    BY <2>2, <2>3, <2>4, <2>5
<1> QED
  BY <1>2, <1>3

LEMMA MarchSuffices ==
    ASSUME InitInv, UndisturbedInv, NEW m \in Makers, status[m] = "running",
           Keeps(m), Frame(m), NoneForOthers(m), Marches(m), status'[m] # "idle",
           KindsMatch', EnteredInv(m)', OwnsInv(m)'
    PROVE  UndisturbedInv'
<1>1. Untrodden'
  BY DEF Untrodden
<1>2. \A k \in Makers : EnteredInv(k)' /\ OwnsInv(k)'
  <2> TAKE k \in Makers
  <2> QED
    BY OthersAsTheyWere
<1>3. ASSUME NEW f \in DOMAIN Template, IsFirst(f)
      PROVE  Hope(f)'
  <2>1. Hope(f)
    BY <1>3 DEF UndisturbedInv, HopeInv
  <2> QED
    BY <1>3, <2>1, HopeStays
<1>4. HopeInv'
  BY <1>3 DEF HopeInv, IsFirst
<1> QED
  BY <1>1, <1>2, <1>4 DEF UndisturbedInv

\* A step that leaves the tree and ends the run or sends it on.
LEMMA TreeAsItWas ==
    ASSUME InitInv, UndisturbedInv, NEW m \in Makers, UNCHANGED tree
    PROVE  KindsMatch' /\ NoneForOthers(m)
BY DEF UndisturbedInv, KindsMatch, NoneForOthers, Owns

\* A run at "check" or "root" owns nothing.
LEMMA OwnsNothingYet ==
    ASSUME InitInv, UndisturbedInv, NEW m \in Makers, status[m] \in {"idle", "running"},
           pc[m] \in {"check", "root"}, NEW p \in Paths
    PROVE  ~Owns(m, p)
<1>1. next[m] = 1
  BY DEF InitInv, PlaceInv
<1> QED
  BY <1>1 DEF UndisturbedInv, OwnsInv

LEMMA BeginUndisturbed ==
    ASSUME InitInv, UndisturbedInv, NEW m \in Makers, Begin(m)
    PROVE  UndisturbedInv'
<1>1. /\ status' = [status EXCEPT ![m] = "running"] /\ UNCHANGED <<tree, pc, next, calm>>
      /\ status[m] = "idle" /\ pc[m] = "check" /\ next[m] = 1
      /\ status'[m] = "running"
  BY DEF Begin, InitInv, TypeOK, PlaceInv
<1>2. Keeps(m) /\ Frame(m)
  BY BeginStep DEF Progress
<1>3. KindsMatch' /\ NoneForOthers(m)
  BY <1>1, TreeAsItWas
<1>4. EnteredInv(m)'
  BY <1>1 DEF EnteredInv
<1>5. OwnsInv(m)'
  BY <1>1, OwnsNothingYet DEF OwnsInv, Owns
<1>6. \A k \in Makers : EnteredInv(k)' /\ OwnsInv(k)'
  <2> TAKE k \in Makers
  <2> QED
    BY <1>2, <1>3, <1>4, <1>5, OthersAsTheyWere
<1>7. Untrodden'
  BY <1>1 DEF Untrodden
<1>8. ASSUME NEW f \in DOMAIN Template, IsFirst(f)
      PROVE  Hope(f)'
  <2>1. CASE \A k \in Makers : status[k] = "idle"
    <3>1. Root \in Paths /\ Template[f] \in Paths
      BY TemplateFacts DEF Paths, Dirs
    <3>2. tree[Root].kind = "absent" /\ tree[Template[f]].kind = "absent"
      BY <2>1, <3>1 DEF UndisturbedInv, Untrodden
    <3>3. Heads(m, f)' /\ tree'[Template[f]].kind = "absent"
      BY <1>1, <3>2 DEF Heads
    <3> QED
      BY <3>3 DEF Hope
  <2>2. CASE \E k \in Makers : status[k] # "idle"
    <3>1. Hope(f)
      BY <1>8, <2>2 DEF UndisturbedInv, HopeInv
    <3>2. Marches(m)
      BY <1>1 DEF Marches, Leads, Heads
    <3> QED
      BY <1>2, <1>8, <3>1, <3>2, HopeStays
  <2> QED
    BY <2>1, <2>2
<1>9. HopeInv'
  BY <1>8 DEF HopeInv, IsFirst
<1> QED
  BY <1>3, <1>6, <1>7, <1>9 DEF UndisturbedInv

LEMMA CheckUndisturbed ==
    ASSUME InitInv, UndisturbedInv, NEW m \in Makers, Check(m)
    PROVE  UndisturbedInv'
<1>1. status[m] = "running" /\ pc[m] = "check" /\ UNCHANGED <<tree, next, calm>>
  BY DEF Check, At
<1>2. Keeps(m) /\ Frame(m)
  BY CheckStep DEF Progress
<1>3. KindsMatch' /\ NoneForOthers(m)
  BY <1>1, TreeAsItWas
<1>4. \A p \in Paths : ~Owns(m, p)
  BY <1>1, OwnsNothingYet
<1>5. \A f \in DOMAIN Template : ~Leads(m, f)
  BY <1>4, TemplateFacts DEF Leads
<1>6. OwnsInv(m)'
  BY <1>1, <1>4 DEF OwnsInv, Owns
<1>7. CASE tree[Root].kind = "absent"
  <2>1. status'[m] = "running" /\ pc'[m] = "root"
    BY <1>1, <1>7 DEF Check, Goto, InitInv, TypeOK
  <2>2. Marches(m) /\ EnteredInv(m)'
    BY <1>1, <1>5, <2>1 DEF Marches, Heads, EnteredInv
  <2> QED
    BY <1>1, <1>2, <1>3, <1>6, <2>1, <2>2, MarchSuffices
<1>8. CASE tree[Root].kind # "absent"
  <2>1. status'[m] = "failed" /\ pc'[m] = "check"
    BY <1>1, <1>8 DEF Check, Return, InitInv, TypeOK
  <2>2. Marches(m) /\ EnteredInv(m)'
    BY <1>1, <1>5, <1>8, <2>1 DEF Marches, Heads, EnteredInv
  <2> QED
    BY <1>1, <1>2, <1>3, <1>6, <2>1, <2>2, MarchSuffices
<1> QED
  BY <1>7, <1>8

\* A directory is created where one belongs, or is there.
LEMMA DirectoryThere ==
    ASSUME InitInv, UndisturbedInv, NEW m \in Makers, NEW d \in Dirs,
           tree' = WithDirectory(d, m)
    PROVE  /\ Enterable(d) /\ tree'[d].kind = "dir"
           /\ \A p \in Paths : p # d => tree'[p] = tree[p]
           /\ \A p \in Paths : tree[p].kind = "dir" => tree'[p].kind = "dir"
           /\ KindsMatch' /\ NoneForOthers(m)
<1>1. d \in Paths
  BY DEF Paths
<1>2. tree[d].kind \in {"absent", "dir"}
  BY <1>1 DEF UndisturbedInv, KindsMatch, InitInv, TypeOK, Nodes
<1>3. Directory(m).kind = "dir"
  BY DEF Directory
<1>4. tree'[d].kind = "dir" /\ \A p \in Paths : p # d => tree'[p] = tree[p]
  BY <1>1, <1>2, <1>3 DEF WithDirectory, InitInv, TypeOK
<1>5. KindsMatch'
  BY <1>4 DEF UndisturbedInv, KindsMatch
<1>6. NoneForOthers(m)
  BY <1>4 DEF NoneForOthers, Owns
<1> QED
  BY <1>2, <1>4, <1>5, <1>6 DEF Enterable

\* So is a file, and it is the run's.
LEMMA FileThere ==
    ASSUME InitInv, UndisturbedInv, NEW m \in Makers, NEW q \in Paths \ Dirs,
           NEW whole \in BOOLEAN, tree' = [tree EXCEPT ![q] = File(m, whole)]
    PROVE  /\ tree'[q] = File(m, whole) /\ \A p \in Paths : p # q => tree'[p] = tree[p]
           /\ KindsMatch' /\ NoneForOthers(m)
<1>1. tree'[q] = File(m, whole) /\ \A p \in Paths : p # q => tree'[p] = tree[p]
  BY DEF InitInv, TypeOK
<1>2. tree'[q].kind = "file" /\ tree'[q].by = m
  BY <1>1 DEF File
<1>3. ASSUME NEW p \in Paths
      PROVE  /\ tree'[p].kind = "dir" => p \in Dirs
             /\ tree'[p].kind = "file" => p \notin Dirs /\ tree'[p].by \in Makers
  <2>1. CASE p = q
    BY <1>2, <2>1
  <2>2. CASE p # q
    BY <1>1, <2>2 DEF UndisturbedInv, KindsMatch
  <2> QED
    BY <2>1, <2>2
<1>4. ASSUME NEW k \in Makers \ {m}, NEW p \in Paths, Owns(k, p)'
      PROVE  Owns(k, p)
  <2>1. p # q
    BY <1>2, <1>4 DEF Owns
  <2> QED
    BY <1>1, <1>4, <2>1 DEF Owns
<1> QED
  BY <1>1, <1>3, <1>4 DEF KindsMatch, NoneForOthers

LEMMA MakeRootUndisturbed ==
    ASSUME InitInv, UndisturbedInv, NEW m \in Makers, MakeRoot(m)
    PROVE  UndisturbedInv'
<1>1. status[m] = "running" /\ pc[m] = "root" /\ next[m] = 1 /\ UNCHANGED next
      /\ Root \in Dirs /\ Root \in Paths
  BY DEF MakeRoot, At, InitInv, PlaceInv, Dirs, Paths
<1>2. Keeps(m) /\ Frame(m)
  BY MakeRootStep DEF Progress
<1>3. Enterable(Root)
  BY <1>1 DEF UndisturbedInv, KindsMatch, Enterable
<1>4. Goto(m, "render") /\ tree' = WithDirectory(Root, m)
  BY <1>3 DEF MakeRoot
<1>5. /\ tree'[Root].kind = "dir" /\ \A p \in Paths : p # Root => tree'[p] = tree[p]
      /\ KindsMatch' /\ NoneForOthers(m)
  BY <1>1, <1>4, DirectoryThere
<1>6. status'[m] = "running" /\ pc'[m] = "render" /\ next'[m] = 1
  BY <1>1, <1>4 DEF Goto, InitInv, TypeOK
<1>7. \A p \in Paths : ~Owns(m, p) /\ ~Owns(m, p)'
  <2> TAKE p \in Paths
  <2>1. ~Owns(m, p)
    BY <1>1, OwnsNothingYet
  <2> QED
    BY <1>5, <2>1 DEF Owns
<1>8. EnteredInv(m)' /\ OwnsInv(m)'
  BY <1>5, <1>6, <1>7 DEF EnteredInv, OwnsInv
<1>9. Marches(m)
  <2> SUFFICES ASSUME NEW f \in DOMAIN Template, IsFirst(f)
               PROVE  /\ tree'[Template[f]] = tree[Template[f]]
                      /\ Heads(m, f)' /\ ~Leads(m, f)
    BY DEF Marches
  <2>1. Template[f] \in Paths /\ Template[f] # Root /\ 1 <= f
    BY <1>1, TemplateFacts DEF IsFirst
  <2> QED
    BY <1>5, <1>6, <1>7, <2>1 DEF Heads, Leads
<1> QED
  BY <1>1, <1>2, <1>5, <1>6, <1>8, <1>9, MarchSuffices

\* What Advance does to the run.
LEMMA AdvanceEffect ==
    ASSUME InitInv, NEW m \in Makers, status[m] = "running", pc[m] \in {"render", "write"},
           Advance(m)
    PROVE  /\ next'[m] = next[m] + 1 /\ status'[m] \in {"running", "ok"}
           /\ status'[m] = "running" => pc'[m] = "render"
           /\ next[m] # Len(Template) => status'[m] = "running"
BY DEF Advance, Goto, Return, InitInv, TypeOK

LEMMA MakeDirectoryUndisturbed ==
    ASSUME InitInv, UndisturbedInv, NEW m \in Makers, MakeDirectory(m)
    PROVE  UndisturbedInv'
<1>1. /\ status[m] = "running" /\ pc[m] = "render"
      /\ Entry(m) = Template[next[m]] /\ Entry(m) \in Dirs /\ Entry(m) \in Paths
      /\ next[m] \in 1..Len(Template)
  BY EntryFacts DEF MakeDirectory, At
<1>2. Keeps(m) /\ Frame(m)
  BY MakeDirectoryStep DEF Progress
<1>3. Enterable(Entry(m))
  BY <1>1 DEF UndisturbedInv, KindsMatch, Enterable
<1>4. Advance(m) /\ tree' = WithDirectory(Entry(m), m)
  BY <1>3 DEF MakeDirectory
<1>5. /\ tree'[Entry(m)].kind = "dir"
      /\ \A p \in Paths : p # Entry(m) => tree'[p] = tree[p]
      /\ \A p \in Paths : tree[p].kind = "dir" => tree'[p].kind = "dir"
      /\ KindsMatch' /\ NoneForOthers(m)
  BY <1>1, <1>4, DirectoryThere
<1>6. /\ next'[m] = next[m] + 1 /\ status'[m] \in {"running", "ok"}
      /\ status'[m] = "running" => pc'[m] = "render"
      /\ next[m] # Len(Template) => status'[m] = "running"
  BY <1>1, <1>4, AdvanceEffect
<1>7. tree[Root].kind = "dir" /\ Root \in Paths
  BY <1>1 DEF UndisturbedInv, EnteredInv, Paths, Dirs
<1>8. EnteredInv(m)'
  <2> SUFFICES ASSUME NEW i \in 1..next'[m] - 1, Template[i] \in Dirs
               PROVE  tree'[Template[i]].kind = "dir"
    BY <1>5, <1>7 DEF EnteredInv
  <2>1. CASE i = next[m]
    BY <1>1, <1>5, <2>1
  <2>2. CASE i # next[m]
    <3>1. i \in 1..next[m] - 1
      BY <1>1, <1>6, <2>2
    <3>2. tree[Template[i]].kind = "dir"
      BY <1>1, <3>1 DEF UndisturbedInv, EnteredInv
    <3> QED
      BY <1>5, <3>2 DEF Paths
  <2> QED
    BY <2>1, <2>2
<1>9. OwnsInv(m)'
  <2> SUFFICES ASSUME NEW p \in Paths, Owns(m, p)'
               PROVE  \E i \in 1..next'[m] - 1 : Template[i] = p
    BY DEF OwnsInv
  <2>1. Owns(m, p)
    BY <1>5 DEF Owns
  <2>2. PICK i \in 1..next[m] - 1 : Template[i] = p
    BY <1>1, <2>1 DEF UndisturbedInv, OwnsInv
  <2>3. i \in 1..next'[m] - 1
    BY <1>1, <1>6
  <2> QED
    BY <2>2, <2>3
<1>10. Marches(m)
  <2> SUFFICES ASSUME NEW f \in DOMAIN Template, IsFirst(f)
               PROVE  /\ tree'[Template[f]] = tree[Template[f]]
                      /\ Leads(m, f) => Leads(m, f)'
                      /\ Heads(m, f) => Heads(m, f)'
    BY <1>7 DEF Marches
  <2>1. f \in 1..Len(Template) /\ Len(Template) \in Nat
        /\ Template[f] \in Paths /\ Template[f] # Entry(m)
    BY <1>1, TemplateFacts DEF IsFirst
  <2>2. tree'[Template[f]] = tree[Template[f]]
    BY <1>5, <2>1
  <2>3. Leads(m, f) => Leads(m, f)'
    BY <1>6, <2>2 DEF Leads, Owns
  <2>4. ASSUME Heads(m, f)
        PROVE  Heads(m, f)'
    <3>1. next[m] <= f
      BY <1>1, <2>4 DEF Heads
    <3>2. next[m] # f
      BY <1>1, <2>1
    <3>3. next'[m] <= f /\ status'[m] = "running" /\ pc'[m] = "render"
      BY <1>1, <1>6, <2>1, <3>1, <3>2
    <3> QED
      BY <3>3 DEF Heads
  <2> QED
    BY <2>2, <2>3, <2>4
<1> QED
  BY <1>1, <1>2, <1>5, <1>6, <1>8, <1>9, <1>10, MarchSuffices

LEMMA OpenFileUndisturbed ==
    ASSUME InitInv, UndisturbedInv, NEW m \in Makers, OpenFile(m)
    PROVE  UndisturbedInv'
<1>1. /\ status[m] = "running" /\ pc[m] = "render" /\ At(m, "render")
      /\ Entry(m) = Template[next[m]] /\ Entry(m) \notin Dirs /\ Entry(m) \in Paths
      /\ next[m] \in 1..Len(Template) /\ UNCHANGED next
  BY EntryFacts DEF OpenFile, At
<1>2. Keeps(m) /\ Frame(m)
  BY OpenFileStep DEF Progress
<1>3. CASE Creatable(Entry(m))
  <2>1. Goto(m, "write") /\ tree' = [tree EXCEPT ![Entry(m)] = File(m, FALSE)]
        /\ tree[Entry(m)].kind = "absent"
    BY <1>3 DEF OpenFile, Creatable
  <2>2. /\ tree'[Entry(m)] = File(m, FALSE)
        /\ \A p \in Paths : p # Entry(m) => tree'[p] = tree[p]
    BY <1>1, <2>1 DEF InitInv, TypeOK
  <2>3. status'[m] = "running" /\ pc'[m] = "write" /\ next'[m] = next[m]
        /\ Entry(m)' = Entry(m)
    BY <1>1, <2>1 DEF Goto, Entry, InitInv, TypeOK
  <2>4. KindsMatch' /\ NoneForOthers(m)
    BY <1>1, <2>1, FileThere
  <2>5. EnteredInv(m)'
    <3>1. \A d \in Dirs : tree'[d] = tree[d]
      BY <1>1, <2>2 DEF Paths
    <3>2. Root \in Dirs
      BY DEF Dirs
    <3> QED
      BY <1>1, <2>3, <3>1, <3>2 DEF UndisturbedInv, EnteredInv
  <2>6. OwnsInv(m)'
    <3> SUFFICES ASSUME NEW p \in Paths, Owns(m, p)', p # Entry(m)
                 PROVE  \E i \in 1..next[m] - 1 : Template[i] = p
      BY <1>1, <2>3 DEF OwnsInv
    <3>1. Owns(m, p)
      BY <2>2 DEF Owns
    <3> QED
      BY <1>1, <3>1 DEF UndisturbedInv, OwnsInv
  <2>7. Marches(m)
    <3> SUFFICES ASSUME NEW f \in DOMAIN Template, IsFirst(f)
                 PROVE  /\ tree[Template[f]].kind = "absent"
                           /\ tree'[Template[f]].kind # "absent" => Leads(m, f)'
                        /\ tree'[Root] = tree[Root]
                        /\ Leads(m, f) => Leads(m, f)'
                        /\ Heads(m, f) => Leads(m, f)'
      BY DEF Marches
    <3>1. f \in 1..Len(Template) /\ Template[f] \in Paths /\ Root \in Paths /\ Root \in Dirs
      BY TemplateFacts DEF Paths, Dirs
    <3>2. tree'[Root] = tree[Root]
      BY <1>1, <2>2, <3>1
    <3>3. Template[f] = Entry(m) => Leads(m, f)'
      BY <2>2, <2>3, FileFacts DEF Leads, Owns
    <3>4. Template[f] # Entry(m) => tree'[Template[f]] = tree[Template[f]]
      BY <2>2, <3>1
    <3>5. Leads(m, f) => Leads(m, f)'
      BY <1>2, <2>3, <3>1, OwnersKeep DEF Leads, InitInv
    <3>6. Heads(m, f) => next[m] = f
      BY <1>1, <3>1 DEF Heads, IsFirst
    <3> QED
      BY <1>1, <3>2, <3>3, <3>4, <3>5, <3>6
  <2> QED
    BY <1>1, <1>2, <2>3, <2>4, <2>5, <2>6, <2>7, MarchSuffices
<1>4. CASE ~Creatable(Entry(m))
  <2>1. Return(m, "failed") /\ UNCHANGED tree /\ status'[m] = "failed"
    BY <1>4 DEF OpenFile, Return, InitInv, TypeOK
  <2>2. KindsMatch' /\ NoneForOthers(m)
    BY <2>1, TreeAsItWas
  <2>3. EnteredInv(m)' /\ OwnsInv(m)'
    BY <2>1 DEF EnteredInv, OwnsInv
  <2>4. \A f \in DOMAIN Template : IsFirst(f) =>
            ~Leads(m, f) /\ tree[Template[f]].kind # "absent"
    BY <1>1, <1>4, OpenSucceeds
  <2>5. Marches(m)
    BY <2>1, <2>4 DEF Marches
  <2> QED
    BY <1>1, <1>2, <2>1, <2>2, <2>3, <2>5, MarchSuffices
<1> QED
  BY <1>3, <1>4

LEMMA WriteFileUndisturbed ==
    ASSUME InitInv, UndisturbedInv, NEW m \in Makers, WriteFile(m)
    PROVE  UndisturbedInv'
<1>1. /\ status[m] = "running" /\ pc[m] = "write" /\ Advance(m)
      /\ Entry(m) = Template[next[m]] /\ Entry(m) \in Paths /\ Entry(m) \notin Dirs
      /\ next[m] \in 1..Len(Template)
      /\ tree[Entry(m)] = File(m, FALSE) /\ tree' = [tree EXCEPT ![Entry(m)] = File(m, TRUE)]
  BY EntryFacts DEF WriteFile, At, InitInv, WorkInv
<1>2. Keeps(m) /\ Frame(m)
  BY WriteFileStep DEF Progress
<1>3. /\ tree'[Entry(m)] = File(m, TRUE)
      /\ \A p \in Paths : p # Entry(m) => tree'[p] = tree[p]
  BY <1>1 DEF InitInv, TypeOK
<1>4. /\ next'[m] = next[m] + 1 /\ status'[m] \in {"running", "ok"}
      /\ status'[m] = "running" => pc'[m] = "render"
  BY <1>1, AdvanceEffect
<1>5. KindsMatch' /\ NoneForOthers(m)
  BY <1>1, FileThere
<1>6. EnteredInv(m)'
  <2>1. \A d \in Dirs : tree'[d] = tree[d]
    BY <1>1, <1>3 DEF Paths
  <2>2. Root \in Dirs
    BY DEF Dirs
  <2>3. \A i \in 1..next'[m] - 1 : Template[i] \in Dirs => i \in 1..next[m] - 1
    BY <1>1, <1>4
  <2> QED
    BY <1>1, <2>1, <2>2, <2>3 DEF UndisturbedInv, EnteredInv
<1>7. OwnsInv(m)'
  <2> SUFFICES ASSUME NEW p \in Paths, Owns(m, p)'
               PROVE  \E i \in 1..next'[m] - 1 : Template[i] = p
    BY DEF OwnsInv
  <2>1. next[m] \in 1..next'[m] - 1 /\ 1..next[m] - 1 \subseteq 1..next'[m] - 1
    BY <1>1, <1>4
  <2>2. CASE p = Entry(m)
    BY <1>1, <2>1, <2>2
  <2>3. CASE p # Entry(m)
    <3>1. Owns(m, p)
      BY <1>3, <2>3 DEF Owns
    <3>2. PICK i \in 1..next[m] - 1 : Template[i] = p
      BY <1>1, <2>3, <3>1 DEF UndisturbedInv, OwnsInv
    <3> QED
      BY <2>1, <3>2
  <2> QED
    BY <2>2, <2>3
<1>8. Marches(m)
  <2> SUFFICES ASSUME NEW f \in DOMAIN Template, IsFirst(f)
               PROVE  /\ tree[Template[f]].kind = "absent" => tree'[Template[f]] = tree[Template[f]]
                      /\ tree'[Root] = tree[Root]
                      /\ Leads(m, f) => Leads(m, f)'
                      /\ ~Heads(m, f)
    BY DEF Marches
  <2>1. Template[f] \in Paths /\ Root \in Paths /\ Root \in Dirs
    BY TemplateFacts DEF Paths, Dirs
  <2>2. tree[Template[f]].kind = "absent" => tree'[Template[f]] = tree[Template[f]]
    BY <1>1, <1>3, <2>1, FileFacts
  <2>3. tree'[Root] = tree[Root]
    BY <1>1, <1>3, <2>1
  <2>4. Leads(m, f) => Leads(m, f)'
    BY <1>2, <1>4, <2>1, OwnersKeep DEF Leads, InitInv
  <2>5. ~Heads(m, f)
    BY <1>1 DEF Heads
  <2> QED
    BY <2>2, <2>3, <2>4, <2>5
<1> QED
  BY <1>1, <1>2, <1>4, <1>5, <1>6, <1>7, <1>8, MarchSuffices

LEMMA UndisturbedInit == Init => WinInv
<1> SUFFICES ASSUME Init PROVE UndisturbedInv
  BY DEF WinInv
<1>1. \A p \in Paths : tree[p].kind = "absent"
  BY DEF Init, Nothing
<1> QED
  BY <1>1 DEF Init, UndisturbedInv, Untrodden, KindsMatch, EnteredInv, OwnsInv, Owns, HopeInv

LEMMA UndisturbedNext == InitInv /\ WinInv /\ [Next]_vars => WinInv'
<1> SUFFICES ASSUME InitInv, WinInv, [Next]_vars, calm' PROVE UndisturbedInv'
  BY DEF WinInv
<1>1. CASE UNCHANGED vars
  BY <1>1 DEF WinInv, UndisturbedInv, Untrodden, KindsMatch, EnteredInv, OwnsInv, Owns,
              HopeInv, Hope, Leads, Heads, Entry, vars
<1>2. ASSUME NEW m \in Makers, Maker(m)
      PROVE  UndisturbedInv'
  <2>1. ~Refuse(m) /\ ~WriteFails(m) /\ ~Killed(m)
    BY DEF Refuse, WriteFails, Killed
  <2>2. UndisturbedInv
    BY <1>2, <2>1 DEF WinInv, Maker, Begin, Check, MakeRoot, MakeDirectory, OpenFile, WriteFile
  <2> QED
    BY <1>2, <2>1, <2>2, BeginUndisturbed, CheckUndisturbed, MakeRootUndisturbed,
       MakeDirectoryUndisturbed, OpenFileUndisturbed, WriteFileUndisturbed DEF Maker
<1>3. ~OthersCreate /\ ~Clear
  BY DEF OthersCreate, Clear
<1> QED
  BY <1>1, <1>2, <1>3 DEF Next

THEOREM WinInductive == Spec => []WinInv
BY UndisturbedInit, UndisturbedNext, Invariant, PTL DEF Spec

(* Racing runs cannot all lose: while nothing else interferes, the run     *)
(* that creates the first file of the template finds every directory and   *)
(* no file in its way, so it succeeds.                                     *)
THEOREM SomebodyAlwaysWins == Spec => []SomebodyWins
<1>1. ASSUME WinInv
      PROVE  SomebodyWins
  <2> SUFFICES ASSUME calm, \A m \in Makers : status[m] # "running",
                      \E m \in Makers : status[m] # "idle"
               PROVE  \E m \in Makers : status[m] = "ok"
    BY DEF SomebodyWins
  <2>1. PICK f \in DOMAIN Template : IsFirst(f)
    BY FirstExists
  <2>2. PICK m \in Makers : Leads(m, f) \/ Heads(m, f)
    BY <1>1, <2>1 DEF WinInv, UndisturbedInv, HopeInv, Hope
  <2> QED
    BY <2>2 DEF Leads, Heads
<1>2. QED
  BY <1>1, WinInductive, PTL

-----------------------------------------------------------------------------
(* The names made from the destination.                                    *)

(* What holds of 0 and passes from each number below n to the next holds   *)
(* of all up to n.                                                         *)
LEMMA Reaches ==
    ASSUME NEW n \in Nat, NEW S, 0 \in S, \A k \in 0..n : k < n /\ k \in S => k + 1 \in S
    PROVE  0..n \subseteq S
<1> DEFINE R == {ss \in Nat \X Nat : ss[1] < ss[2]}
           Bad == {k \in 0..n : k \notin S}
<1>1. ASSUME NEW k \in Bad, \A l \in Bad : ~(<<l, k>> \in R)
      PROVE  FALSE
  <2> DEFINE l == k - 1
  <2>1. l \in 0..n /\ l < n /\ l \in Nat /\ <<l, k>> \in R
    OBVIOUS
  <2>2. l \in S
    BY <1>1, <2>1
  <2> QED
    BY <2>1, <2>2
<1>2. Bad = {}
  <2>1. IsWellFoundedOn(R, Nat)
    BY NatLessThanWellFounded DEF OpToRel
  <2>2. Bad \subseteq Nat
    OBVIOUS
  <2> HIDE DEF R, Bad
  <2> QED
    BY <1>1, <2>1, <2>2, WFMin
<1> QED
  BY <1>2

-----------------------------------------------------------------------------
(* What normalized_package_name has read after n characters.               *)

IsReading(read, text, n) ==
    read = [k \in 0..n |-> IF k = 0 THEN Unread ELSE Normalize(read[k - 1], text[k])]

LEMMA ReadingExists ==
    ASSUME NEW text, NEW n \in Nat
    PROVE  \E read : IsReading(read, text, n)
<1> DEFINE S == {k \in 0..n : \E read : IsReading(read, text, k)}
<1>1. 0 \in S
  <2>1. IsReading([k \in 0..0 |-> Unread], text, 0)
    BY DEF IsReading
  <2> QED
    BY <2>1
<1>2. ASSUME NEW k \in 0..n, k < n, k \in S
      PROVE  k + 1 \in S
  <2>1. PICK read : IsReading(read, text, k)
    BY <1>2
  <2> DEFINE longer == [j \in 0..k + 1 |-> IF j = 0 THEN Unread
                                           ELSE Normalize(read[j - 1], text[j])]
  <2>2. \A j \in 0..k + 1 : j # 0 => longer[j - 1] = read[j - 1]
    <3> SUFFICES ASSUME NEW j \in 0..k + 1, j # 0
                 PROVE  longer[j - 1] = read[j - 1]
      OBVIOUS
    <3> DEFINE i == j - 1
    <3>1. i \in 0..k /\ i \in 0..k + 1
      OBVIOUS
    <3> HIDE DEF i
    <3>2. read[i] = IF i = 0 THEN Unread ELSE Normalize(read[i - 1], text[i])
      BY <2>1, <3>1, Zenon DEF IsReading
    <3>3. longer[i] = IF i = 0 THEN Unread ELSE Normalize(read[i - 1], text[i])
      BY <3>1
    <3> QED
      BY <3>2, <3>3 DEF i
  <2>3. IsReading(longer, text, k + 1)
    <3>1. \A j \in 0..k + 1 :
             (IF j = 0 THEN Unread ELSE Normalize(read[j - 1], text[j]))
                = (IF j = 0 THEN Unread ELSE Normalize(longer[j - 1], text[j]))
      <4> HIDE DEF longer
      <4> QED
        BY <2>2
    <3> QED
      BY <3>1 DEF IsReading
  <2> HIDE DEF longer
  <2> QED
    BY <1>2, <2>3
<1> HIDE DEF S
<1>3. n \in S
  BY <1>1, <1>2, Reaches
<1> QED
  BY <1>3 DEF S

LEMMA ReadingUnfolds ==
    ASSUME NEW text, Len(text) \in Nat
    PROVE  \E read : /\ read[0] = Unread
                     /\ \A k \in 1..Len(text) : read[k] = Normalize(read[k - 1], text[k])
                     /\ Normalized(text) = read[Len(text)].name
<1> DEFINE read == CHOOSE f : IsReading(f, text, Len(text))
<1>1. IsReading(read, text, Len(text))
  BY ReadingExists
<1>2. Normalized(text) = read[Len(text)].name
  BY Zenon DEF Normalized, IsReading
<1> HIDE DEF read
<1>3. read[0] = Unread
  BY <1>1 DEF IsReading
<1>4. \A k \in 1..Len(text) : read[k] = Normalize(read[k - 1], text[k])
  BY <1>1 DEF IsReading
<1> QED
  BY <1>2, <1>3, <1>4

-----------------------------------------------------------------------------
(* Counting what is kept.                                                  *)

LEMMA UpToSteps ==
    ASSUME NEW S, \A i \in S : i \in Nat /\ i > 0, NEW k \in Nat
    PROVE  /\ k = 0 => UpTo(S, k) = {}
           /\ k \notin S => UpTo(S, k) = UpTo(S, k - 1)
           /\ k \in S => UpTo(S, k) = UpTo(S, k - 1) \cup {k}
           /\ k \notin UpTo(S, k - 1)
<1>1. k = 0 => UpTo(S, k) = {}
  BY DEF UpTo
<1>2. k \notin S => UpTo(S, k) = UpTo(S, k - 1)
  BY DEF UpTo
<1>3. ASSUME k \in S
      PROVE  UpTo(S, k) = UpTo(S, k - 1) \cup {k}
  <2>1. \A i \in S : i <= k <=> i <= k - 1 \/ i = k
    OBVIOUS
  <2>2. \A i : i \in UpTo(S, k) <=> i \in UpTo(S, k - 1) \cup {k}
    BY <1>3, <2>1, Zenon DEF UpTo
  <2> QED
    BY <2>2
<1>4. k \notin UpTo(S, k - 1)
  BY DEF UpTo
<1> QED
  BY <1>1, <1>2, <1>3, <1>4

LEMMA UpToFacts ==
    ASSUME NEW top \in Nat, NEW S, S \subseteq 1..top, NEW k \in 0..top
    PROVE  /\ Cardinality(UpTo(S, k)) \in Nat
           /\ k = 0 => Cardinality(UpTo(S, k)) = 0
           /\ k \notin S => UpTo(S, k) = UpTo(S, k - 1)
           /\ k \in S => Cardinality(UpTo(S, k)) = Cardinality(UpTo(S, k - 1)) + 1
<1>1. \A j : IsFiniteSet(UpTo(S, j))
  <2>1. IsFiniteSet(1..top)
    BY FS_Interval
  <2>2. \A j : UpTo(S, j) \subseteq 1..top
    BY DEF UpTo
  <2> QED
    BY <2>1, <2>2, FS_Subset
<1>2. k \in Nat /\ \A i \in S : i \in Nat /\ i > 0
  OBVIOUS
<1>3. /\ k = 0 => UpTo(S, k) = {}
      /\ k \notin S => UpTo(S, k) = UpTo(S, k - 1)
      /\ k \in S => UpTo(S, k) = UpTo(S, k - 1) \cup {k}
      /\ k \notin UpTo(S, k - 1)
  BY <1>2, UpToSteps
<1> QED
  BY <1>1, <1>3, FS_CardinalityType, FS_EmptySet, FS_AddElement

Chars == Letters \cup Numerals \cup DOMAIN Capitals \cup Marks

LEMMA PlaceFacts ==
    ASSUME NEW text \in Seq(Chars), NEW k \in 0..Len(text)
    PROVE  /\ Place(text, k) \in Nat
           /\ k = 0 => Place(text, k) = 0
           /\ k > 0 /\ k \notin Kept(text) =>
                  Place(text, k) = Place(text, k - 1) /\ UpTo(Kept(text), k) = UpTo(Kept(text), k - 1)
           /\ k \in Kept(text) \ LaterWords(text) => Place(text, k) = Place(text, k - 1) + 1
           /\ k \in LaterWords(text) => Place(text, k) = Place(text, k - 1) + 2
           /\ k > 0 /\ k \notin Kept(text) => k \notin LaterWords(text)
<1>1. Kept(text) \subseteq 1..Len(text) /\ LaterWords(text) \subseteq Kept(text)
  BY DEF Kept, LaterWords
<1>2. Len(text) \in Nat
  OBVIOUS
<1>3. \A S : S \subseteq 1..Len(text) =>
           /\ \A j \in 0..Len(text) : Cardinality(UpTo(S, j)) \in Nat
           /\ k = 0 => Cardinality(UpTo(S, k)) = 0
           /\ k \notin S => UpTo(S, k) = UpTo(S, k - 1)
           /\ k \in S => Cardinality(UpTo(S, k)) = Cardinality(UpTo(S, k - 1)) + 1
  BY <1>2, UpToFacts
<1>4. k > 0 => k - 1 \in 0..Len(text)
  OBVIOUS
<1> DEFINE K == Kept(text)
           W == LaterWords(text)
<1> HIDE DEF K, W
<1>5. K \subseteq 1..Len(text) /\ W \subseteq 1..Len(text) /\ W \subseteq K
  BY <1>1 DEF K, W
<1>6. k \in K => k > 0
  BY <1>5
<1>7. /\ Cardinality(UpTo(K, k)) \in Nat /\ Cardinality(UpTo(W, k)) \in Nat
      /\ k > 0 => Cardinality(UpTo(K, k - 1)) \in Nat /\ Cardinality(UpTo(W, k - 1)) \in Nat
      /\ k = 0 => Cardinality(UpTo(K, k)) = 0 /\ Cardinality(UpTo(W, k)) = 0
      /\ k > 0 /\ k \notin K => UpTo(K, k) = UpTo(K, k - 1)
      /\ k > 0 /\ k \notin W => UpTo(W, k) = UpTo(W, k - 1)
      /\ k \in K => Cardinality(UpTo(K, k)) = Cardinality(UpTo(K, k - 1)) + 1
      /\ k \in W => Cardinality(UpTo(W, k)) = Cardinality(UpTo(W, k - 1)) + 1
  BY <1>3, <1>4, <1>5
<1>8. \A j : Place(text, j) = Cardinality(UpTo(K, j)) + Cardinality(UpTo(W, j))
  BY DEF Place, K, W
<1> QED
  BY <1>5, <1>6, <1>7, <1>8 DEF K, W

-----------------------------------------------------------------------------
(* What has been written when k characters have been read.                 *)

Written == Letters \cup Numerals \cup {"-"}

\* Everything kept so far is where Place says, lowered, with its hyphens.
InPlace(name, text, k) ==
    /\ \A i \in Kept(text) : i <= k =>
           /\ Place(text, i) \in 1..Len(name)
           /\ name[Place(text, i)] = Lowered(text[i])
    /\ \A i \in LaterWords(text) : i <= k =>
           /\ Place(text, i) - 1 \in 1..Len(name)
           /\ name[Place(text, i) - 1] = "-"

ReadInv(acc, text, k) ==
    /\ acc \in [name : Seq(Written), gap : BOOLEAN]
    /\ Len(acc.name) = Place(text, k)
    /\ InPlace(acc.name, text, k)
    /\ acc.gap <=> k # 0 /\ k \notin Kept(text)
    /\ acc.name = <<>> <=> \A i \in Kept(text) : ~(i <= k)
    /\ SingleHyphens(acc.name)

LEMMA CharFacts ==
    /\ \A c \in Alphanumerics : Lowered(c) \in Letters \cup Numerals
    /\ \A c \in Letters \cup Numerals : c \in Alphanumerics /\ Lowered(c) = c
    /\ "-" \notin Alphanumerics /\ "_" \notin Alphanumerics
    /\ "-" \notin Letters \cup Numerals /\ "_" \notin Letters \cup Numerals
    /\ "-" # "_"
BY NamesAssumption DEF Alphanumerics, Lowered

\* Behind a name without a hyphen at its end goes a letter or a digit, with
\* or without a hyphen before it.
LEMMA LongerName ==
    ASSUME NEW name \in Seq(Written), SingleHyphens(name), NEW c \in Letters \cup Numerals
    PROVE  /\ LET longer == name \o <<>> \o <<c>>
              IN  /\ longer \in Seq(Written) /\ longer # <<>>
                  /\ Len(longer) = Len(name) + 1
                  /\ \A i \in 1..Len(name) : longer[i] = name[i]
                  /\ longer[Len(name) + 1] = c
                  /\ SingleHyphens(longer)
           /\ name # <<>> =>
              LET longer == name \o <<"-">> \o <<c>>
              IN  /\ longer \in Seq(Written) /\ longer # <<>>
                  /\ Len(longer) = Len(name) + 2
                  /\ \A i \in 1..Len(name) : longer[i] = name[i]
                  /\ longer[Len(name) + 1] = "-" /\ longer[Len(name) + 2] = c
                  /\ SingleHyphens(longer)
<1>1. c # "-" /\ c \in Written /\ "-" \in Written
  BY CharFacts DEF Written
<1> DEFINE one == name \o <<>> \o <<c>>
           two == name \o <<"-">> \o <<c>>
<1>2. /\ one \in Seq(Written) /\ Len(one) = Len(name) + 1
      /\ \A i \in 1..Len(name) : one[i] = name[i]
      /\ one[Len(name) + 1] = c
  BY <1>1
<1>3. /\ two \in Seq(Written) /\ Len(two) = Len(name) + 2
      /\ \A i \in 1..Len(name) : two[i] = name[i]
      /\ two[Len(name) + 1] = "-" /\ two[Len(name) + 2] = c
  BY <1>1
<1> HIDE DEF one, two
<1>4. \A i \in 1..Len(name) : name[i] = "-" =>
          i > 1 /\ i < Len(name) /\ i + 1 \in 1..Len(name) /\ name[i + 1] # "-"
  <2>1. Len(name) \in Nat /\ DOMAIN name = 1..Len(name)
    OBVIOUS
  <2>2. \A i \in 1..Len(name) : name[i] = "-" => i > 1 /\ i < Len(name) /\ name[i + 1] # "-"
    BY <2>1, Zenon DEF SingleHyphens
  <2>3. \A i \in 1..Len(name) : i < Len(name) => i + 1 \in 1..Len(name)
    BY <2>1
  <2> QED
    BY <2>2, <2>3
<1>5. one # <<>> /\ two # <<>>
  BY <1>2, <1>3
<1>6. SingleHyphens(one)
  <2> SUFFICES ASSUME NEW i \in 1..Len(name) + 1, one[i] = "-"
               PROVE  i > 1 /\ i < Len(name) + 1 /\ one[i + 1] # "-"
    BY <1>2 DEF SingleHyphens
  <2>1. i \in 1..Len(name)
    BY <1>1, <1>2
  <2> QED
    BY <1>2, <1>4, <2>1
<1>7. ASSUME name # <<>>
      PROVE  SingleHyphens(two)
  <2> SUFFICES ASSUME NEW i \in 1..Len(name) + 2, two[i] = "-"
               PROVE  i > 1 /\ i < Len(name) + 2 /\ two[i + 1] # "-"
    BY <1>3 DEF SingleHyphens
  <2>1. i \in 1..Len(name) + 1
    BY <1>1, <1>3
  <2>2. CASE i = Len(name) + 1
    BY <1>1, <1>3, <1>7, <2>2
  <2>3. CASE i \in 1..Len(name)
    BY <1>3, <1>4, <2>3
  <2> QED
    BY <2>1, <2>2, <2>3
<1> QED
  BY <1>2, <1>3, <1>5, <1>6, <1>7 DEF one, two

LEMMA ReadStep ==
    ASSUME NEW text \in Seq(Chars), NEW k \in 1..Len(text), NEW acc, ReadInv(acc, text, k - 1)
    PROVE  ReadInv(Normalize(acc, text[k]), text, k)
<1> DEFINE K == Kept(text)
           W == LaterWords(text)
           then == Normalize(acc, text[k])
           old == acc.name
<1>1. /\ acc \in [name : Seq(Written), gap : BOOLEAN]
      /\ Len(old) = Place(text, k - 1)
      /\ InPlace(old, text, k - 1)
      /\ acc.gap <=> k - 1 # 0 /\ k - 1 \notin K
      /\ old = <<>> <=> \A i \in K : ~(i <= k - 1)
      /\ SingleHyphens(old)
  BY DEF ReadInv
<1>2. k \in K <=> text[k] \in Alphanumerics
  BY DEF Kept
<1>3. /\ K \subseteq 1..Len(text) /\ W \subseteq K
      /\ \A i \in K : i <= k <=> i <= k - 1 \/ i = k
  <2>1. K \subseteq 1..Len(text) /\ W \subseteq K
    BY DEF Kept, LaterWords
  <2>2. \A i \in 1..Len(text) : i <= k <=> i <= k - 1 \/ i = k
    OBVIOUS
  <2> QED
    BY <2>1, <2>2
<1>4. k \in K => (k \in W <=> NeedsSeparator(acc))
  <2>1. k - 1 = 0 => k - 1 \notin K /\ \A i \in K : ~(i < k)
    BY <1>3
  <2>2. \A i \in K : i < k <=> i <= k - 1
    BY <1>3
  <2> HIDE DEF K
  <2>3. k \in K => (k \in W <=> k - 1 \notin K /\ \E i \in K : i < k)
    BY Zenon DEF LaterWords, K
  <2> QED
    BY <1>1, <2>1, <2>2, <2>3 DEF NeedsSeparator
<1>5. /\ Place(text, k - 1) \in Nat /\ Place(text, k) \in Nat
      /\ k \notin K => Place(text, k) = Place(text, k - 1) /\ k \notin W
      /\ k \in K /\ k \notin W => Place(text, k) = Place(text, k - 1) + 1
      /\ k \in W => Place(text, k) = Place(text, k - 1) + 2
  BY PlaceFacts
<1> HIDE DEF K, W
<1>6. CASE k \notin K
  <2>1. then = [acc EXCEPT !.gap = TRUE]
    BY <1>2, <1>6 DEF Normalize
  <2>2. then \in [name : Seq(Written), gap : BOOLEAN] /\ then.name = old /\ then.gap
    BY <1>1, <2>1
  <2> HIDE DEF then
  <2>3. InPlace(old, text, k)
    BY <1>1, <1>3, <1>5, <1>6 DEF InPlace, K, W
  <2>4. k # 0 /\ \A i \in K : i <= k <=> i <= k - 1
    BY <1>3, <1>6
  <2>5. then.name = <<>> <=> \A i \in K : ~(i <= k)
    BY <1>1, <2>2, <2>4
  <2>6. Len(then.name) = Place(text, k) /\ then.gap /\ SingleHyphens(then.name)
    BY <1>1, <1>5, <1>6, <2>2, Zenon
  <2>7. InPlace(then.name, text, k)
    BY <2>2, <2>3, Zenon
  <2>8. ReadInv(then, text, k)
    BY <1>6, <2>2, <2>4, <2>5, <2>6, <2>7, Zenon DEF ReadInv, K
  <2> QED
    BY <2>8 DEF then
<1>7. CASE k \in K
  <2> DEFINE c == Lowered(text[k])
             gapped == old \o <<"-">> \o <<c>>
             plain == old \o <<>> \o <<c>>
  <2>1. then = [name |-> IF k \in W THEN gapped ELSE plain, gap |-> FALSE]
    BY <1>2, <1>4, <1>7 DEF Normalize
  <2>2. c \in Letters \cup Numerals
    BY <1>2, <1>7, CharFacts
  <2>3. k \in W => old # <<>>
    BY <1>4, <1>7 DEF NeedsSeparator
  <2> HIDE DEF c
  <2>4. /\ then.name \in Seq(Written) /\ then.name # <<>> /\ ~then.gap
        /\ then \in [name : Seq(Written), gap : BOOLEAN]
        /\ Len(then.name) = Place(text, k)
        /\ Len(old) <= Len(then.name)
        /\ \A i \in 1..Len(old) : then.name[i] = old[i]
        /\ then.name[Place(text, k)] = c
        /\ k \in W => then.name[Place(text, k) - 1] = "-"
        /\ SingleHyphens(then.name)
    <3>1. CASE k \in W
      <4>1. then = [name |-> gapped, gap |-> FALSE]
        BY <2>1, <3>1
      <4>2. /\ gapped \in Seq(Written) /\ gapped # <<>>
            /\ Len(gapped) = Len(old) + 2
            /\ \A i \in 1..Len(old) : gapped[i] = old[i]
            /\ gapped[Len(old) + 1] = "-" /\ gapped[Len(old) + 2] = c
            /\ SingleHyphens(gapped)
        BY <1>1, <2>2, <2>3, <3>1, LongerName
      <4>3. Len(old) \in Nat
        BY <1>1
      <4> HIDE DEF gapped, then
      <4>4. Place(text, k) = Len(old) + 2 /\ Place(text, k) - 1 = Len(old) + 1
        BY <1>1, <1>5, <3>1, <4>3
      <4> QED
        BY <4>1, <4>2, <4>3, <4>4
    <3>2. CASE k \notin W
      <4>1. then = [name |-> plain, gap |-> FALSE]
        BY <2>1, <3>2
      <4>2. /\ plain \in Seq(Written) /\ plain # <<>>
            /\ Len(plain) = Len(old) + 1
            /\ \A i \in 1..Len(old) : plain[i] = old[i]
            /\ plain[Len(old) + 1] = c
            /\ SingleHyphens(plain)
        BY <1>1, <2>2, LongerName
      <4>3. Len(old) \in Nat
        BY <1>1
      <4> HIDE DEF plain, then
      <4>4. Place(text, k) = Len(old) + 1
        BY <1>1, <1>5, <1>7, <3>2, <4>3
      <4> QED
        BY <3>2, <4>1, <4>2, <4>3, <4>4
    <3> QED
      BY <3>1, <3>2
  <2> HIDE DEF then
  <2>5. Len(old) \in Nat /\ Len(then.name) \in Nat
    BY <1>1, <2>4
  <2>6. ASSUME NEW i \in K, i <= k
        PROVE  /\ Place(text, i) \in 1..Len(then.name)
               /\ then.name[Place(text, i)] = Lowered(text[i])
    <3>1. CASE i = k
      <4>1. Place(text, k) >= 1
        BY <1>5, <1>7
      <4> QED
        BY <1>5, <2>4, <2>5, <3>1, <4>1 DEF c
    <3>2. CASE i <= k - 1
      BY <1>1, <2>4, <2>5, <2>6, <3>2 DEF InPlace, K
    <3> QED
      BY <1>3, <2>6, <3>1, <3>2
  <2>7. ASSUME NEW i \in W, i <= k
        PROVE  /\ Place(text, i) - 1 \in 1..Len(then.name)
               /\ then.name[Place(text, i) - 1] = "-"
    <3>1. CASE i = k
      <4>1. Place(text, k) >= 2
        BY <1>5, <2>7, <3>1
      <4> QED
        BY <1>5, <2>4, <2>5, <2>7, <3>1, <4>1
    <3>2. CASE i <= k - 1
      BY <1>1, <2>4, <2>5, <2>7, <3>2 DEF InPlace, W
    <3> QED
      BY <1>3, <2>7, <3>1, <3>2
  <2>8. InPlace(then.name, text, k)
    BY <2>6, <2>7 DEF InPlace, K, W
  <2>9. k <= k
    OBVIOUS
  <2>10. then.name = <<>> <=> \A i \in K : ~(i <= k)
    BY <1>7, <2>4, <2>9, Zenon
  <2>11. ReadInv(then, text, k)
    BY <1>7, <2>4, <2>8, <2>10, Zenon DEF ReadInv, K
  <2> QED
    BY <2>11 DEF then
<1> QED
  BY <1>6, <1>7

(* Every destination yields a name of its letters and digits.              *)
LEMMA NormalizedKeeps ==
    ASSUME NEW text \in Seq(Chars)
    PROVE  \E gap : ReadInv([name |-> Normalized(text), gap |-> gap], text, Len(text))
<1>1. Len(text) \in Nat
  OBVIOUS
<1>2. PICK read : /\ read[0] = Unread
                  /\ \A k \in 1..Len(text) : read[k] = Normalize(read[k - 1], text[k])
                  /\ Normalized(text) = read[Len(text)].name
  BY <1>1, ReadingUnfolds
<1> DEFINE S == {k \in 0..Len(text) : ReadInv(read[k], text, k)}
<1>3. 0 \in S
  <2>1. \A i \in Kept(text) : ~(i <= 0)
    BY DEF Kept
  <2>2. Place(text, 0) = 0
    BY PlaceFacts
  <2>3. LaterWords(text) \subseteq Kept(text)
    BY DEF LaterWords
  <2>4. /\ Unread \in [name : Seq(Written), gap : BOOLEAN] /\ Unread.name = <<>> /\ ~Unread.gap
        /\ Len(Unread.name) = 0 /\ DOMAIN Unread.name = {}
    BY DEF Unread
  <2>5. ReadInv(Unread, text, 0)
    BY <2>1, <2>2, <2>3, <2>4, Zenon DEF ReadInv, InPlace, SingleHyphens
  <2> QED
    BY <1>2, <2>5
<1>4. ASSUME NEW k \in 0..Len(text), k < Len(text), k \in S
      PROVE  k + 1 \in S
  <2>1. k + 1 \in 1..Len(text) /\ (k + 1) - 1 = k
    BY <1>4
  <2>2. ReadInv(Normalize(read[k], text[k + 1]), text, k + 1)
    BY <1>4, <2>1, ReadStep
  <2> QED
    BY <1>2, <2>1, <2>2
<1> HIDE DEF S
<1>5. Len(text) \in S
  <2>1. 0..Len(text) \subseteq S
    BY <1>1, <1>3, <1>4, Reaches
  <2> QED
    BY <1>1, <2>1
<1>6. ReadInv(read[Len(text)], text, Len(text))
  BY <1>5 DEF S
<1>7. read[Len(text)] = [name |-> read[Len(text)].name, gap |-> read[Len(text)].gap]
  BY <1>6 DEF ReadInv
<1> QED
  BY <1>2, <1>6, <1>7

-----------------------------------------------------------------------------
(* A name that is a package's already is not changed.                      *)

Opening(name, n) == [i \in 1..n |-> name[i]]

LEMMA OpeningType ==
    ASSUME NEW S, NEW name \in Seq(S), NEW n \in 0..Len(name)
    PROVE  /\ Opening(name, n) \in Seq(S) /\ Len(Opening(name, n)) = n
           /\ \A i \in 1..n : Opening(name, n)[i] = name[i]
<1>1. Opening(name, n) \in [1..n -> S]
  BY DEF Opening
<1>2. n \in Nat
  OBVIOUS
<1> QED
  BY <1>1, <1>2 DEF Opening

AtHyphen(name, k) == k > 0 /\ name[k] = "-"
Reread(name, k) ==
    IF AtHyphen(name, k) THEN [name |-> Opening(name, k - 1), gap |-> TRUE]
                         ELSE [name |-> Opening(name, k), gap |-> FALSE]

LEMMA RereadStep ==
    ASSUME NEW name \in Seq(Written), SingleHyphens(name), NEW k \in 1..Len(name)
    PROVE  Normalize(Reread(name, k - 1), name[k]) = Reread(name, k)
<1> DEFINE old == Reread(name, k - 1)
           l == k - 1
<1>1. Len(name) \in Nat /\ DOMAIN name = 1..Len(name)
  OBVIOUS
<1>2. \A i \in 1..Len(name) : name[i] = "-" => i > 1 /\ i < Len(name) /\ name[i + 1] # "-"
  BY <1>1, Zenon DEF SingleHyphens
<1>3. l + 1 = k /\ l \in 0..Len(name)
  BY <1>1
<1>4. CASE name[k] = "-"
  <2>1. k > 1 /\ l > 0 /\ l \in 1..Len(name)
    BY <1>1, <1>2, <1>4
  <2>2. name[l] # "-"
    BY <1>2, <1>3, <1>4, <2>1
  <2>3. ~AtHyphen(name, l) /\ AtHyphen(name, k)
    BY <1>4, <2>1, <2>2 DEF AtHyphen
  <2>4. Reread(name, k) = [name |-> Opening(name, l), gap |-> TRUE]
    BY <2>3 DEF Reread
  <2>5. old = [name |-> Opening(name, l), gap |-> FALSE]
    BY <2>3 DEF Reread
  <2>6. Normalize(old, name[k]) = [old EXCEPT !.gap = TRUE]
    BY <1>4, CharFacts DEF Normalize
  <2> HIDE DEF old, l
  <2>7. Normalize(old, name[k]) = Reread(name, k)
    BY <2>4, <2>5, <2>6
  <2> QED
    BY <2>7 DEF old
<1>5. CASE name[k] # "-"
  <2> DEFINE c == name[k]
  <2>1. c \in Letters \cup Numerals /\ c \in Written
    BY <1>5 DEF Written
  <2>2. c \in Alphanumerics /\ Lowered(c) = c
    BY <2>1, CharFacts
  <2>3. ~AtHyphen(name, k)
    BY <1>5 DEF AtHyphen
  <2>4. Reread(name, k) = [name |-> Opening(name, k), gap |-> FALSE]
    BY <2>3 DEF Reread
  <2>5. Opening(name, k) \in Seq(Written) /\ Len(Opening(name, k)) = k
        /\ \A i \in 1..k : Opening(name, k)[i] = name[i]
    BY OpeningType
  <2>6. CASE AtHyphen(name, l)
    <3>1. name[l] = "-" /\ l \in 1..Len(name)
      BY <1>3, <2>6 DEF AtHyphen
    <3>2. l > 1
      BY <1>2, <3>1
    <3> DEFINE e == l - 1
               short == Opening(name, e)
               long == short \o <<"-">> \o <<c>>
    <3>3. e \in 0..Len(name) /\ e > 0 /\ e + 1 = l /\ e + 2 = k
      BY <1>3, <3>1, <3>2
    <3>4. old = [name |-> short, gap |-> TRUE]
      BY <2>6 DEF Reread
    <3>5. short \in Seq(Written) /\ Len(short) = e /\ \A i \in 1..e : short[i] = name[i]
      BY <3>3, OpeningType
    <3> HIDE DEF e, short
    <3>6. short # <<>>
      BY <3>3, <3>5
    <3>7. "-" \in Written
      BY DEF Written
    <3>8. /\ long \in Seq(Written) /\ Len(long) = e + 2
          /\ \A i \in 1..e : long[i] = short[i]
          /\ long[e + 1] = "-" /\ long[e + 2] = c
      BY <2>1, <3>5, <3>7
    <3> HIDE DEF long, c, old
    <3>9. \A i \in 1..k : long[i] = name[i]
      <4> SUFFICES ASSUME NEW i \in 1..k
                   PROVE  long[i] = name[i]
        OBVIOUS
      <4>1. i \in 1..e \/ i = e + 1 \/ i = e + 2
        BY <3>3
      <4> QED
        BY <3>1, <3>3, <3>5, <3>8, <4>1 DEF c
    <3>10. Len(long) = k
      BY <3>3, <3>8
    <3>11. long = Opening(name, k)
      BY <2>5, <3>8, <3>9, <3>10, SeqEqual
    <3>12. Normalize(old, c) = [name |-> long, gap |-> FALSE]
      BY <2>2, <3>4, <3>6 DEF Normalize, NeedsSeparator, long
    <3> QED
      BY <2>4, <3>11, <3>12 DEF old, c
  <2>7. CASE ~AtHyphen(name, l)
    <3> DEFINE short == Opening(name, l)
               long == short \o <<>> \o <<c>>
    <3>1. old = [name |-> short, gap |-> FALSE]
      BY <2>7 DEF Reread
    <3>2. short \in Seq(Written) /\ Len(short) = l /\ \A i \in 1..l : short[i] = name[i]
      BY <1>3, OpeningType
    <3> HIDE DEF l, short
    <3>3. /\ long \in Seq(Written) /\ Len(long) = l + 1
          /\ \A i \in 1..l : long[i] = short[i]
          /\ long[l + 1] = c
      BY <1>3, <2>1, <3>2
    <3> HIDE DEF long, c, old
    <3>4. \A i \in 1..k : long[i] = name[i]
      <4> SUFFICES ASSUME NEW i \in 1..k
                   PROVE  long[i] = name[i]
        OBVIOUS
      <4>1. i \in 1..l \/ i = l + 1
        BY <1>3
      <4> QED
        BY <1>3, <3>2, <3>3, <4>1 DEF c
    <3>5. Len(long) = k
      BY <1>3, <3>3
    <3>6. long = Opening(name, k)
      BY <2>5, <3>3, <3>4, <3>5, SeqEqual
    <3>7. Normalize(old, c) = [name |-> long, gap |-> FALSE]
      BY <2>2, <3>1 DEF Normalize, NeedsSeparator, long
    <3> QED
      BY <2>4, <3>6, <3>7 DEF old, c
  <2> QED
    BY <2>6, <2>7
<1> QED
  BY <1>4, <1>5

LEMMA NormalizedStays ==
    ASSUME NEW name \in Seq(Written), SingleHyphens(name)
    PROVE  Normalized(name) = name
<1>1. Len(name) \in Nat /\ DOMAIN name = 1..Len(name)
  OBVIOUS
<1>2. PICK read : /\ read[0] = Unread
                  /\ \A k \in 1..Len(name) : read[k] = Normalize(read[k - 1], name[k])
                  /\ Normalized(name) = read[Len(name)].name
  BY <1>1, ReadingUnfolds
<1> DEFINE S == {k \in 0..Len(name) : read[k] = Reread(name, k)}
<1>3. 0 \in S
  <2>1. ~AtHyphen(name, 0)
    BY DEF AtHyphen
  <2>2. Opening(name, 0) = <<>>
    BY OpeningType, <1>1
  <2>3. Reread(name, 0) = Unread
    BY <2>1, <2>2 DEF Reread, Unread
  <2> QED
    BY <1>1, <1>2, <2>3
<1>4. ASSUME NEW k \in 0..Len(name), k < Len(name), k \in S
      PROVE  k + 1 \in S
  <2>1. k + 1 \in 1..Len(name) /\ (k + 1) - 1 = k
    BY <1>4
  <2>2. Normalize(Reread(name, k), name[k + 1]) = Reread(name, k + 1)
    BY <2>1, RereadStep
  <2> QED
    BY <1>2, <1>4, <2>1, <2>2
<1> HIDE DEF S
<1>5. Len(name) \in S
  <2>1. 0..Len(name) \subseteq S
    BY <1>1, <1>3, <1>4, Reaches
  <2> QED
    BY <1>1, <2>1
<1>6. ~AtHyphen(name, Len(name))
  <2>1. \A i \in 1..Len(name) : name[i] = "-" => i < Len(name)
    BY <1>1, Zenon DEF SingleHyphens
  <2> QED
    BY <1>1, <2>1 DEF AtHyphen
<1>7. Normalized(name) = Opening(name, Len(name))
  BY <1>2, <1>5, <1>6 DEF S, Reread
<1>8. Opening(name, Len(name)) = name
  BY <1>1, OpeningType, SeqEqual
<1> QED
  BY <1>7, <1>8

-----------------------------------------------------------------------------
(* The package and the crate.                                              *)

LEMMA PackageFacts ==
    ASSUME NEW text \in Seq(Chars)
    PROVE  LET name == PackageName(text)
           IN  /\ name \in Seq(Written) /\ name # <<>>
               /\ SingleHyphens(name)
               /\ PackageName(name) = name
               /\ Kept(text) # {} =>
                      /\ Len(name) = Place(text, Len(text))
                      /\ InPlace(name, text, Len(text))
<1> DEFINE name == PackageName(text)
           read == Normalized(text)
<1>1. PICK gap : ReadInv([name |-> read, gap |-> gap], text, Len(text))
  BY NormalizedKeeps
<1> HIDE DEF read
<1>2. /\ read \in Seq(Written) /\ SingleHyphens(read)
      /\ Len(read) = Place(text, Len(text))
      /\ InPlace(read, text, Len(text))
      /\ read = <<>> <=> \A i \in Kept(text) : ~(i <= Len(text))
  BY <1>1 DEF ReadInv
<1>3. Kept(text) # {} => read # <<>>
  <2>1. \A i \in Kept(text) : i <= Len(text)
    BY DEF Kept
  <2> QED
    BY <1>2, <2>1
<1>4. CASE read = <<>>
  <2> DEFINE f == Fallback[1]
             g == Fallback[2]
  <2>1. /\ f \in Seq(Letters) /\ g \in Seq(Letters) /\ f # <<>> /\ g # <<>>
        /\ "-" \notin Letters
    <3>1. \A i \in 1..2 : Fallback[i] \in Seq(Letters) /\ Fallback[i] # <<>>
      BY NamesAssumption
    <3>2. "-" \notin Letters
      BY CharFacts
    <3> QED
      BY <3>1, <3>2
  <2> HIDE DEF f, g
  <2>2. Len(f) \in Nat \ {0} /\ Len(g) \in Nat \ {0}
    BY <2>1
  <2> DEFINE both == f \o <<"-">> \o g
  <2>3. /\ Len(both) = Len(f) + 1 + Len(g)
        /\ \A i \in 1..Len(f) : both[i] = f[i]
        /\ both[Len(f) + 1] = "-"
        /\ \A i \in 1..Len(g) : both[Len(f) + 1 + i] = g[i]
    BY <2>1
  <2>4. both \in Seq(Written)
    <3>1. f \in Seq(Written) /\ g \in Seq(Written) /\ "-" \in Written
      BY <2>1 DEF Written
    <3> QED
      BY <3>1
  <2> HIDE DEF both
  <2>5. SingleHyphens(both)
    <3>1. DOMAIN both = 1..Len(f) + 1 + Len(g)
      BY <2>3, <2>4
    <3> SUFFICES ASSUME NEW i \in 1..Len(f) + 1 + Len(g), both[i] = "-"
                 PROVE  i > 1 /\ i < Len(both) /\ both[i + 1] # "-"
      BY <3>1 DEF SingleHyphens
    <3>2. ~(i \in 1..Len(f))
      BY <2>1, <2>3
    <3>3. ASSUME i > Len(f) + 1
          PROVE  FALSE
      <4> DEFINE j == i - (Len(f) + 1)
      <4>1. j \in 1..Len(g) /\ i = Len(f) + 1 + j
        BY <2>2, <3>3
      <4> HIDE DEF j
      <4> QED
        BY <2>1, <2>3, <4>1
    <3>4. i = Len(f) + 1
      BY <2>2, <3>2, <3>3
    <3>5. 1 \in 1..Len(g) /\ g[1] # "-" /\ i + 1 = Len(f) + 1 + 1
      BY <2>1, <2>2, <3>4
    <3> QED
      BY <2>2, <2>3, <3>4, <3>5
  <2>6. both # <<>>
    BY <2>2, <2>3
  <2>7. name = both
    BY <1>4 DEF PackageName, read, both, f, g
  <2>8. PackageName(both) = both
    BY <2>4, <2>5, <2>6, NormalizedStays DEF PackageName
  <2> HIDE DEF name
  <2> QED
    BY <1>3, <1>4, <2>4, <2>5, <2>6, <2>7, <2>8 DEF name
<1>5. CASE read # <<>>
  <2>1. name = read
    BY <1>5 DEF PackageName, read
  <2>2. PackageName(read) = read
    BY <1>2, <1>5, NormalizedStays DEF PackageName
  <2> HIDE DEF name
  <2>3. /\ name \in Seq(Written) /\ name # <<>> /\ SingleHyphens(name)
        /\ PackageName(name) = name
        /\ Len(name) = Place(text, Len(text)) /\ InPlace(name, text, Len(text))
    BY <1>2, <1>5, <2>1, <2>2
  <2> QED
    BY <2>3 DEF name
<1> QED
  BY <1>4, <1>5

Spelled == Letters \cup Numerals \cup {"_"}

LEMMA SeqGrows ==
    ASSUME NEW S, NEW T, S \subseteq T, NEW s \in Seq(S)
    PROVE  s \in Seq(T)
<1>1. s \in [1..Len(s) -> T] /\ Len(s) \in Nat
  OBVIOUS
<1> QED
  BY <1>1

\* from_path puts its prefix in front of a digit and of a keyword.
LEMMA CrateIsIdentifier ==
    ASSUME NEW package \in Seq(Written), package # <<>>, SingleHyphens(package)
    PROVE  Identifier(CrateName(package))
<1> DEFINE flat == Underscored(package)
           word == WithLetterFirst(flat)
<1>1. Len(package) \in Nat /\ 1 \in 1..Len(package) /\ DOMAIN package = 1..Len(package)
  OBVIOUS
<1>2. package[1] \in Letters \cup Numerals
  <2>1. package[1] # "-"
    BY <1>1 DEF SingleHyphens
  <2> QED
    BY <1>1, <2>1 DEF Written
<1>3. flat \in [1..Len(package) -> Spelled]
  <2>1. \A i \in 1..Len(package) :
            (IF package[i] = "-" THEN "_" ELSE package[i]) \in Spelled
    <3>1. \A i \in 1..Len(package) : package[i] \in Written
      OBVIOUS
    <3> QED
      BY <3>1 DEF Written, Spelled
  <2> QED
    BY <1>1, <2>1 DEF Underscored
<1>4. flat \in Seq(Spelled) /\ Len(flat) = Len(package)
  BY <1>1, <1>3
<1>5. flat[1] = package[1]
  BY <1>1, <1>2, CharFacts DEF Underscored
<1> HIDE DEF flat
<1>6. /\ Prefix \in Seq(Spelled) /\ Prefix # <<>>
      /\ Prefix[1] \in Letters /\ Prefix[1] \notin Numerals
      /\ Len(Prefix) \in Nat /\ 1 \in 1..Len(Prefix)
  <2>1. Prefix \in Seq(Spelled)
    <3>1. Prefix \in Seq(Letters \cup {"_"}) /\ Letters \cup {"_"} \subseteq Spelled
      BY NamesAssumption DEF Spelled
    <3> QED
      BY <3>1, SeqGrows
  <2>2. Prefix # <<>> /\ Head(Prefix) \in Letters /\ Letters \cap Numerals = {}
    BY NamesAssumption
  <2> QED
    BY <2>1, <2>2
\* With the prefix in front a word is no keyword.
<1>7. ASSUME NEW name \in Seq(Spelled)
      PROVE  Identifier(Prefix \o name)
  <2> DEFINE long == Prefix \o name
  <2>1. long \in Seq(Spelled) /\ Len(long) = Len(Prefix) + Len(name)
        /\ \A i \in 1..Len(Prefix) : long[i] = Prefix[i]
    BY <1>6
  <2>2. Len(name) \in Nat
    OBVIOUS
  <2> HIDE DEF long
  <2>3. IsPrefix(Prefix, long)
    <3>1. SubSeq(Prefix, 1, Len(Prefix)) = SubSeq(long, 1, Len(Prefix))
      BY <1>6, <2>1, <2>2
    <3> QED
      BY <1>6, <2>1, <2>2, <3>1 DEF IsPrefix
  <2>4. long \notin Keywords
    BY <2>3, NamesAssumption
  <2>5. \A i \in DOMAIN long : long[i] \in Spelled
    BY <2>1
  <2>6. long[1] \notin Numerals
    BY <1>6, <2>1
  <2> QED
    BY <2>4, <2>5, <2>6 DEF Identifier, long, Spelled
<1>8. word \in Seq(Spelled) /\ (word \in Keywords \/ Identifier(word))
  <2>1. Head(flat) = flat[1]
    OBVIOUS
  <2>2. CASE Head(flat) \in Numerals
    <3>1. word = Prefix \o flat
      BY <2>2 DEF WithLetterFirst
    <3> QED
      BY <1>4, <1>6, <1>7, <3>1
  <2>3. CASE Head(flat) \notin Numerals
    <3>1. word = flat
      BY <2>3 DEF WithLetterFirst
    <3> QED
      <4>1. \A i \in DOMAIN flat : flat[i] \in Spelled
        BY <1>4
      <4>2. flat[1] \notin Numerals
        BY <2>1, <2>3
      <4>3. flat \in Keywords \/ Identifier(flat)
        BY <4>1, <4>2 DEF Identifier, Spelled
      <4> HIDE DEF word
      <4> QED
        BY <1>4, <3>1, <4>3
  <2> QED
    BY <2>2, <2>3
<1> HIDE DEF word
<1>9. CrateName(package) = IF word \in Keywords THEN Prefix \o word ELSE word
  BY DEF CrateName, IsRustKeyword, word, flat
<1> QED
  BY <1>7, <1>8, <1>9

-----------------------------------------------------------------------------
NamesInv ==
    /\ destination \in Destinations \cup {<<>>}
    /\ names # Unnamed =>
           /\ destination \in Destinations
           /\ names = [package |-> PackageName(destination),
                       crate   |-> CrateName(PackageName(destination))]

(* Whatever the directories are called, the names are those of from_path,  *)
(* of the destination of the run, as long as they are kept.                *)
THEOREM NamesInductive == NamesSpec => []NamesInv
<1>1. NamesInit => NamesInv
  BY DEF NamesInit, NamesInv
<1>2. NamesInv /\ [FromPath \/ Named]_<<destination, names>> => NamesInv'
  <2> SUFFICES ASSUME NamesInv, [FromPath \/ Named]_<<destination, names>>
               PROVE  NamesInv'
    OBVIOUS
  <2>1. CASE FromPath
    BY <2>1 DEF NamesInv, FromPath
  <2>2. CASE Named
    BY <2>2 DEF NamesInv, Named, Unnamed
  <2>3. CASE UNCHANGED <<destination, names>>
    BY <2>3 DEF NamesInv, Unnamed
  <2> QED
    BY <2>1, <2>2, <2>3
<1> QED
  BY <1>1, <1>2, PTL DEF NamesSpec

(* Every destination gives the package and the crate usable names: what a  *)
(* fold over its characters keeps, PackageFacts, and what from_path makes  *)
(* of it, CrateIsIdentifier.                                               *)
THEOREM NamesAlwaysUsable == NamesSpec => []NamesAreUsable
<1>1. NamesInv => NamesAreUsable
  <2> SUFFICES ASSUME NamesInv, names # Unnamed
               PROVE  NamesAreUsable
    BY DEF NamesAreUsable
  <2> DEFINE name == PackageName(destination)
  <2>1. destination \in Seq(Chars)
    BY NamesAssumption DEF NamesInv, Chars
  <2>2. names.package = name /\ names.crate = CrateName(name)
    BY DEF NamesInv
  <2>3. /\ name \in Seq(Written) /\ name # <<>> /\ SingleHyphens(name)
        /\ PackageName(name) = name
        /\ Kept(destination) # {} =>
               /\ Len(name) = Place(destination, Len(destination))
               /\ InPlace(name, destination, Len(destination))
    BY <2>1, PackageFacts
  <2> HIDE DEF name
  <2>4. Identifier(names.crate)
    BY <2>2, <2>3, CrateIsIdentifier
  <2>5. /\ \A i \in Kept(destination) : i <= Len(destination)
        /\ \A i \in LaterWords(destination) : i <= Len(destination)
    BY <2>1 DEF Kept, LaterWords
  <2> QED
    BY <2>2, <2>3, <2>4, <2>5, Zenon DEF NamesAreUsable, InPlace
<1> QED
  BY <1>1, NamesInductive, PTL
=============================================================================
