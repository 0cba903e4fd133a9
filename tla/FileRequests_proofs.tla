------------------------ MODULE FileRequests_proofs -------------------------
(***************************************************************************)
(* What is proved of the share and its requests (AccessRules,              *)
(* FileRequests and, for who sends them, ShareClients), for all shares,    *)
(* paths, requests and numbers of handlers.                                *)
(*                                                                         *)
(* The rule trees: what Find returns (FindIs), what a user may once the    *)
(* visitors' rules are merged into his (MergedIs), that a grant can be     *)
(* reached from the root (WayToGrant), and that what a listing or a        *)
(* search shows may be opened (ListedOpens, CollectedOpens).  Find and     *)
(* MergeGrants are folds.  A fold is a function on the subsets of the      *)
(* positions; here it is shown to exist (DescentExists, MergeExists), and  *)
(* what it is after the first n elements is shown for n + 1 from n.  The   *)
(* induction is a fact about sets: a set of numbers that is not empty has  *)
(* a least one (Least, Induct).                                            *)
(*                                                                         *)
(* The disk: it is a tree at all times (TypeOK) and never changes but by a *)
(* request whose sender may change what changes (OnlyGrantedChanges).      *)
(* The rules are asked once, before a handler's first look at the disk,    *)
(* and again for a destination; the changes come some awaits later.  So    *)
(* the invariant says of every step a handler can be at what its request   *)
(* was allowed (StepFits), and of what it holds that it is a file it       *)
(* opened (Holds).  Every action then shows that it leaves the disk in     *)
(* order, and that its handler may change what it changed (Warranted).     *)
(*                                                                         *)
(* What is read: one request alone reads exactly what is there             *)
(* (ReadsAreExact).  Every change of a file gives it a stamp no file had,  *)
(* so that a stamp names one content (VersionsOK); a handler that serves a *)
(* download has, while nothing happens to the path, the size, the stamp    *)
(* and the blocks of what is there (Reading).  A part is computed modulo   *)
(* Word, whatever the header asked for (the lemmas about ranges).          *)
(***************************************************************************)
EXTENDS ShareClients, NaturalsInduction, WellFoundedInduction, SequenceTheorems,
        FiniteSetTheorems, FunctionTheorems, TLAPS

-----------------------------------------------------------------------------
(* Prefixes.                                                               *)

\* A prefix, said by elements.
LEMMA PrefixByElements ==
  ASSUME NEW S, NEW s \in Seq(S), NEW t \in Seq(S)
  PROVE  IsPrefix(s, t) <=> Len(s) =< Len(t) /\ \A i \in 1..Len(s) : s[i] = t[i]
<1>1. Len(s) \in Nat /\ Len(t) \in Nat  BY LenProperties
<1>2. ASSUME Len(s) =< Len(t)
      PROVE  SubSeq(s, 1, Len(s)) = SubSeq(t, 1, Len(s))
             <=> \A i \in 1..Len(s) : s[i] = t[i]
  <2> DEFINE n == Len(s)
             u == SubSeq(s, 1, n)
             v == SubSeq(t, 1, n)
  <2>1. (\A i \in 1..n : s[i] \in S) /\ (\A i \in 1..n : t[i] \in S)
    BY <1>1, <1>2, ElementOfSeq
  <2>2. /\ u \in Seq(S) /\ Len(u) = IF 1 <= n THEN n - 1 + 1 ELSE 0
        /\ \A i \in 1..n - 1 + 1 : u[i] = s[1 + i - 1]
    BY <1>1, <2>1, SubSeqProperties
  <2>3. /\ v \in Seq(S) /\ Len(v) = IF 1 <= n THEN n - 1 + 1 ELSE 0
        /\ \A i \in 1..n - 1 + 1 : v[i] = t[1 + i - 1]
    BY <1>1, <2>1, SubSeqProperties
  <2> HIDE DEF u, v
  <2>4. Len(u) = n /\ Len(v) = n  BY <1>1, <2>2, <2>3
  <2>5. \A i \in 1..n : u[i] = s[i] /\ v[i] = t[i]
    <3> SUFFICES ASSUME NEW i \in 1..n PROVE u[i] = s[i] /\ v[i] = t[i]  OBVIOUS
    <3>1. i \in 1..n - 1 + 1 /\ 1 + i - 1 = i  BY <1>1
    <3>. QED  BY <3>1, <2>2, <2>3
  <2>6. u = v <=> \A i \in 1..n : u[i] = v[i]
    BY <2>2, <2>3, <2>4, SeqEqual
  <2>. QED  BY <2>5, <2>6 DEF u, v
<1>. QED  BY <1>2 DEF IsPrefix

\* Being a prefix is an order.
LEMMA PrefixOrder ==
  ASSUME NEW S, NEW s \in Seq(S), NEW t \in Seq(S), NEW u \in Seq(S)
  PROVE  /\ IsPrefix(s, s)
         /\ IsPrefix(s, t) /\ IsPrefix(t, u) => IsPrefix(s, u)
         /\ IsPrefix(s, t) /\ IsPrefix(t, s) => s = t
<1>1. Len(s) \in Nat /\ Len(t) \in Nat /\ Len(u) \in Nat  BY LenProperties
<1>2. IsPrefix(s, s)  BY <1>1, PrefixByElements
<1>3. ASSUME IsPrefix(s, t), IsPrefix(t, u) PROVE IsPrefix(s, u)
  <2>1. Len(s) =< Len(t) /\ \A i \in 1..Len(s) : s[i] = t[i]  BY <1>3, PrefixByElements
  <2>2. Len(t) =< Len(u) /\ \A i \in 1..Len(t) : t[i] = u[i]  BY <1>3, PrefixByElements
  <2>3. Len(s) =< Len(u) /\ \A i \in 1..Len(s) : s[i] = u[i]  BY <1>1, <2>1, <2>2
  <2>. QED  BY <2>3, PrefixByElements
<1>4. ASSUME IsPrefix(s, t), IsPrefix(t, s) PROVE s = t
  <2>1. Len(s) =< Len(t) /\ \A i \in 1..Len(s) : s[i] = t[i]  BY <1>4, PrefixByElements
  <2>2. Len(t) =< Len(s)  BY <1>4, PrefixByElements
  <2>3. Len(s) = Len(t)  BY <1>1, <2>1, <2>2
  <2>. QED  BY <2>1, <2>3, SeqEqual
<1>. QED  BY <1>2, <1>3, <1>4

\* Prefixes(s), of the community modules, has the prefixes of s.
LEMMA PrefixesArePrefixes ==
  ASSUME NEW S, NEW s \in Seq(S), NEW t \in Seq(S), IsPrefix(s, t)
  PROVE  s \in Prefixes(t)
<1>1. Len(s) \in Nat /\ Len(t) \in Nat /\ Len(s) =< Len(t)
  BY LenProperties DEF IsPrefix
<1>2. SubSeq(s, 1, Len(s)) = s  BY SubSeqFull
<1>3. s = SubSeq(t, 1, Len(s)) /\ Len(s) \in 0..Len(t)  BY <1>1, <1>2 DEF IsPrefix
<1>. QED  BY <1>3 DEF Prefixes

\* What follows a prefix: its length.
LEMMA RestOf ==
  ASSUME NEW S, NEW q \in Seq(S), NEW r \in Seq(S), IsPrefix(q, r)
  PROVE  /\ SubSeq(r, Len(q) + 1, Len(r)) \in Seq(S)
         /\ Len(SubSeq(r, Len(q) + 1, Len(r))) = Len(r) - Len(q)
<1>1. Len(q) \in Nat /\ Len(r) \in Nat /\ Len(q) =< Len(r)
  BY LenProperties DEF IsPrefix
<1>2. \A i \in Len(q) + 1..Len(r) : r[i] \in S
  <2> SUFFICES ASSUME NEW i \in Len(q) + 1..Len(r) PROVE r[i] \in S  OBVIOUS
  <2>1. i \in 1..Len(r)  BY <1>1
  <2>. QED  BY <2>1, ElementOfSeq
<1>3. Len(q) + 1 \in Int /\ Len(r) \in Int  BY <1>1
<1>4. /\ SubSeq(r, Len(q) + 1, Len(r)) \in Seq(S)
      /\ Len(SubSeq(r, Len(q) + 1, Len(r)))
           = IF Len(q) + 1 <= Len(r) THEN Len(r) - (Len(q) + 1) + 1 ELSE 0
  BY <1>2, <1>3, SubSeqProperties
<1>. QED  BY <1>1, <1>4

\* What follows a prefix: its elements.
LEMMA RestAt ==
  ASSUME NEW S, NEW q \in Seq(S), NEW r \in Seq(S), IsPrefix(q, r),
         NEW i \in 1..Len(r) - Len(q)
  PROVE  SubSeq(r, Len(q) + 1, Len(r))[i] = r[Len(q) + i]
<1>1. Len(q) \in Nat /\ Len(r) \in Nat /\ Len(q) =< Len(r)
  BY LenProperties DEF IsPrefix
<1>2. \A j \in Len(q) + 1..Len(r) : r[j] \in S
  <2> SUFFICES ASSUME NEW j \in Len(q) + 1..Len(r) PROVE r[j] \in S  OBVIOUS
  <2>1. j \in 1..Len(r)  BY <1>1
  <2>. QED  BY <2>1, ElementOfSeq
<1>3. Len(q) + 1 \in Int /\ Len(r) \in Int  BY <1>1
<1>4. \A j \in 1..Len(r) - (Len(q) + 1) + 1 :
        SubSeq(r, Len(q) + 1, Len(r))[j] = r[Len(q) + 1 + j - 1]
  BY <1>2, <1>3, SubSeqProperties
<1>5. i \in 1..Len(r) - (Len(q) + 1) + 1 /\ Len(q) + 1 + i - 1 = Len(q) + i  BY <1>1
<1>. QED  BY <1>4, <1>5

-----------------------------------------------------------------------------
(* Numbers.                                                                *)

\* A set of numbers has a least one.
LEMMA Least ==
  ASSUME NEW S, S \subseteq Nat, S # {}
  PROVE  \E m \in S : \A k \in S : m =< k
<1>1. PICK x \in S : \A y \in S : ~ (<<y, x>> \in OpToRel(<,Nat))
  BY NatLessThanWellFounded, WFMin
<1>2. ASSUME NEW y \in S PROVE x =< y
  <2>1. <<y, x>> \in Nat \X Nat /\ <<y, x>>[1] = y /\ <<y, x>>[2] = x  OBVIOUS
  <2>2. ~(<<y, x>>[1] < <<y, x>>[2])  BY <1>1, <1>2, <2>1 DEF OpToRel
  <2>. QED  BY <2>1, <2>2
<1>. QED  BY <1>2

\* Induction, as a statement about sets.
LEMMA Induct ==
  ASSUME NEW S, 0 \in S, \A n \in Nat : n \in S => n + 1 \in S
  PROVE  Nat \subseteq S
<1> SUFFICES ASSUME Nat \ S # {} PROVE FALSE  OBVIOUS
<1>1. PICK m \in Nat \ S : \A k \in Nat \ S : m =< k  BY Least
<1>2. m # 0  BY <1>1
<1>3. m - 1 \in Nat /\ ~(m =< m - 1) /\ (m - 1) + 1 = m  BY <1>2
<1>. QED  BY <1>1, <1>3

\* The greatest of finitely many.
LEMMA MaxIs ==
  ASSUME NEW n \in Nat, NEW s \in SUBSET (0..n), s # {}
  PROVE  Max(s) \in s /\ \A k \in s : k =< Max(s)
<1> DEFINE T == {n - k : k \in s}
<1>1. T \subseteq Nat /\ T # {}
  <2>1. \A k \in s : n - k \in Nat  OBVIOUS
  <2>. QED  BY <2>1
<1>2. PICK m \in T : \A k \in T : m =< k
  <2> HIDE DEF T
  <2>. QED  BY <1>1, Least
<1>3. PICK x \in s : m = n - x  BY <1>2
<1>4. \A k \in s : x >= k  BY <1>2, <1>3
<1>5. \E y \in s : \A k \in s : y >= k  BY <1>4
<1>6. Max(s) \in s /\ \A k \in s : Max(s) >= k  BY <1>5 DEF Max
<1>. QED  BY <1>6

\* The numbers up to n + 1 are those up to n and the greatest.
LEMMA OneMore ==
  ASSUME NEW n \in Nat
  PROVE  /\ Max(1..n + 1) = n + 1 /\ (1..n + 1) \ {n + 1} = 1..n
         /\ \A s \in SUBSET (1..n + 1) :
              n + 1 \in s => Max(s) = n + 1 /\ s \ {n + 1} \in SUBSET (1..n)
<1> DEFINE m == n + 1
<1>1. m \in Nat /\ 1..m \in SUBSET (0..m) /\ m \in 1..m /\ (1..m) \ {m} = 1..n  OBVIOUS
<1>2. ASSUME NEW s \in SUBSET (1..m), m \in s PROVE Max(s) = m
  <2>1. s \in SUBSET (0..m) /\ s # {}  BY <1>2
  <2>2. Max(s) \in s /\ m =< Max(s)  BY <1>1, <1>2, <2>1, MaxIs
  <2>3. Max(s) \in 1..m  BY <2>2
  <2>. QED  BY <1>1, <2>2, <2>3
<1>3. Max(1..m) = m  BY <1>1, <1>2
<1>4. \A s \in SUBSET (1..m) : s \ {m} \in SUBSET (1..n)  BY <1>1
<1> HIDE DEF m
<1>5. /\ Max(1..m) = m /\ (1..m) \ {m} = 1..n
      /\ \A s \in SUBSET (1..m) : m \in s => Max(s) = m /\ s \ {m} \in SUBSET (1..n)
  BY <1>1, <1>2, <1>3, <1>4
<1>. QED  BY <1>5 DEF m

-----------------------------------------------------------------------------
(* The folds of AccessRules are functions of the numbers of the elements   *)
(* seen; such functions exist.                                             *)

\* The step of the descent that comes when the elements s have been seen.
Descending(t, p, base, n, f) ==
  f = [s \in SUBSET (1..n) |->
         IF s = {} THEN base ELSE Descend(t, f[s \ {Max(s)}], p[Max(s)])]

LEMMA DescentExists ==
  ASSUME NEW t, NEW p, NEW base, NEW n \in Nat
  PROVE  \E f : Descending(t, p, base, n, f)
<1> DEFINE S == {k \in Nat : \E f : Descending(t, p, base, k, f)}
<1>1. 0 \in S
  <2> DEFINE f == [s \in SUBSET (1..0) |-> base]
  <2>1. \A s \in SUBSET (1..0) : s = {}  OBVIOUS
  <2>2. f = [s \in SUBSET (1..0) |->
               IF s = {} THEN base ELSE Descend(t, f[s \ {Max(s)}], p[Max(s)])]
    BY <2>1
  <2>3. Descending(t, p, base, 0, f)  BY <2>2 DEF Descending
  <2>. QED  BY <2>3
<1>2. ASSUME NEW k \in Nat, k \in S PROVE k + 1 \in S
  <2> DEFINE m == k + 1
  <2>1. PICK f : Descending(t, p, base, k, f)  BY <1>2
  <2> DEFINE g == [s \in SUBSET (1..m) |->
                     IF m \in s THEN Descend(t, f[s \ {m}], p[m]) ELSE f[s]]
  <2>2. ASSUME NEW s \in SUBSET (1..m)
        PROVE  g[s] = IF s = {} THEN base ELSE Descend(t, g[s \ {Max(s)}], p[Max(s)])
    <3>1. CASE m \in s
      <4>1. Max(s) = m /\ s \ {m} \in SUBSET (1..k)  BY <3>1, OneMore
      <4>2. s \ {m} \in SUBSET (1..m) /\ m \notin s \ {m}  OBVIOUS
      <4>3. g[s \ {m}] = f[s \ {m}]  BY <4>2
      <4>4. g[s] = Descend(t, f[s \ {m}], p[m])  BY <3>1
      <4> HIDE DEF g
      <4>. QED  BY <3>1, <4>1, <4>3, <4>4
    <3>2. CASE m \notin s
      <4>1. s \in SUBSET (1..k)
        <5>1. (1..m) \ {m} = 1..k  BY OneMore
        <5>. QED  BY <3>2, <5>1
      <4>2. s \ {Max(s)} \in SUBSET (1..m) /\ m \notin s \ {Max(s)}  BY <3>2
      <4>3. g[s] = f[s] /\ g[s \ {Max(s)}] = f[s \ {Max(s)}]  BY <3>2, <4>2
      <4>4. f[s] = IF s = {} THEN base ELSE Descend(t, f[s \ {Max(s)}], p[Max(s)])
        BY <2>1, <4>1 DEF Descending
      <4> HIDE DEF g
      <4>. QED  BY <4>3, <4>4
    <3>. QED  BY <3>1, <3>2
  <2>3. g = [s \in SUBSET (1..m) |-> g[s]]  OBVIOUS
  <2> HIDE DEF g
  <2>4. g = [s \in SUBSET (1..m) |->
               IF s = {} THEN base ELSE Descend(t, g[s \ {Max(s)}], p[Max(s)])]
    BY <2>2, <2>3
  <2>5. Descending(t, p, base, m, g)  BY <2>4 DEF Descending
  <2>. QED  BY <2>5
<1> HIDE DEF S
<1>3. n \in S  BY <1>1, <1>2, Induct
<1>. QED  BY <1>3 DEF S
-----------------------------------------------------------------------------
(* Beginnings of a path.                                                   *)

\* The first names of a path.
LEMMA FirstNames ==
  ASSUME NEW S, NEW p \in Seq(S), NEW i \in 0..Len(p)
  PROVE  /\ SubSeq(p, 1, i) \in Seq(S) /\ Len(SubSeq(p, 1, i)) = i
         /\ \A j \in 1..i : SubSeq(p, 1, i)[j] = p[j]
         /\ IsPrefix(SubSeq(p, 1, i), p) /\ SubSeq(p, 1, i) \in Prefixes(p)
<1>1. Len(p) \in Nat  BY LenProperties
<1>2. \A j \in 1..i : p[j] \in S
  <2> SUFFICES ASSUME NEW j \in 1..i PROVE p[j] \in S  OBVIOUS
  <2>1. j \in 1..Len(p)  BY <1>1
  <2>. QED  BY <2>1, ElementOfSeq
<1>3. /\ SubSeq(p, 1, i) \in Seq(S) /\ Len(SubSeq(p, 1, i)) = IF 1 <= i THEN i - 1 + 1 ELSE 0
      /\ \A j \in 1..i - 1 + 1 : SubSeq(p, 1, i)[j] = p[1 + j - 1]
  BY <1>2, SubSeqProperties
<1>4. i \in Nat /\ i =< Len(p)  BY <1>1
<1>5. SubSeq(p, 1, i) \in Seq(S) /\ Len(SubSeq(p, 1, i)) = i  BY <1>3, <1>4
<1>6. \A j \in 1..i : SubSeq(p, 1, i)[j] = p[j]
  <2> SUFFICES ASSUME NEW j \in 1..i PROVE SubSeq(p, 1, i)[j] = p[j]  OBVIOUS
  <2>1. j \in 1..i - 1 + 1 /\ 1 + j - 1 = j  BY <1>4
  <2>. QED  BY <1>3, <2>1
<1>7. IsPrefix(SubSeq(p, 1, i), p)  BY <1>4, <1>5, <1>6, PrefixByElements
<1>8. SubSeq(p, 1, i) \in Prefixes(p)  BY DEF Prefixes
<1>. QED  BY <1>5, <1>6, <1>7, <1>8

\* One name more.
LEMMA NextName ==
  ASSUME NEW S, NEW p \in Seq(S), NEW i \in Nat, i < Len(p)
  PROVE  SubSeq(p, 1, i + 1) = Append(SubSeq(p, 1, i), p[i + 1])
<1>1. Len(p) \in Nat  BY LenProperties
<1> DEFINE u == SubSeq(p, 1, i)
           m == i + 1
           v == SubSeq(p, 1, m)
           w == Append(u, p[m])
<1>2. i \in 0..Len(p) /\ m \in 0..Len(p) /\ m \in 1..Len(p)  BY <1>1
<1>3. u \in Seq(S) /\ Len(u) = i /\ \A j \in 1..i : u[j] = p[j]  BY <1>2, FirstNames
<1> HIDE DEF m
<1>4. v \in Seq(S) /\ Len(v) = m /\ \A j \in 1..m : v[j] = p[j]  BY <1>2, FirstNames
<1>5. p[m] \in S  BY <1>2, ElementOfSeq
<1> HIDE DEF u, v
<1>6. w \in Seq(S) /\ Len(w) = m /\ w[m] = p[m] /\ \A j \in 1..i : w[j] = u[j]
  BY <1>3, <1>5 DEF m
<1>7. \A j \in 1..m : v[j] = w[j]
  <2> SUFFICES ASSUME NEW j \in 1..m PROVE v[j] = w[j]  OBVIOUS
  <2>1. j = m \/ j \in 1..i  BY DEF m
  <2>. QED  BY <1>3, <1>4, <1>6, <2>1
<1>. QED  BY <1>4, <1>6, <1>7, SeqEqual DEF u, v, m

\* The prefixes of a path are ordered by their lengths.
LEMMA PrefixesByLength ==
  ASSUME NEW S, NEW p \in Seq(S), NEW q \in Prefixes(p), NEW r \in Prefixes(p)
  PROVE  /\ q \in Seq(S) /\ Len(q) \in 0..Len(p) /\ IsPrefix(q, p)
         /\ q = SubSeq(p, 1, Len(q))
         /\ Len(q) = Len(r) => q = r
         /\ Len(q) =< Len(r) => IsPrefix(q, r) /\ q \in Prefixes(r)
<1>1. PICK i \in 0..Len(p) : q = SubSeq(p, 1, i)  BY DEF Prefixes
<1>2. PICK k \in 0..Len(p) : r = SubSeq(p, 1, k)  BY DEF Prefixes
<1>3. /\ q \in Seq(S) /\ Len(q) = i /\ IsPrefix(q, p)
      /\ \A j \in 1..i : q[j] = p[j]
  BY <1>1, FirstNames
<1>4. /\ r \in Seq(S) /\ Len(r) = k /\ \A j \in 1..k : r[j] = p[j]
  BY <1>2, FirstNames
<1>5. Len(q) = Len(r) => q = r  BY <1>1, <1>2, <1>3, <1>4
<1>6. ASSUME Len(q) =< Len(r) PROVE IsPrefix(q, r) /\ q \in Prefixes(r)
  <2>1. Len(p) \in Nat  BY LenProperties
  <2>2. \A j \in 1..i : j \in 1..k  BY <1>3, <1>4, <1>6, <2>1
  <2>3. IsPrefix(q, r)  BY <1>3, <1>4, <1>6, <2>2, PrefixByElements
  <2>. QED  BY <1>3, <1>4, <2>3, PrefixesArePrefixes
<1>. QED  BY <1>1, <1>3, <1>5, <1>6

-----------------------------------------------------------------------------
(* Trees of permissions.                                                   *)

\* What an AccessPaths looks like: a root, and every node below one.
IsTree(t) ==
  /\ <<>> \in DOMAIN t /\ DOMAIN t \subseteq Seq(STRING)
  /\ \A p \in DOMAIN t : Prefixes(p) \subseteq DOMAIN t
  /\ t \in [DOMAIN t -> Perms]

\* The nodes on the way to p that have a permission.
Having(t, p) == {q \in Prefixes(p) \cap DOMAIN t : t[q] # IndexOnly}

\* The deepest of them decides.
LEMMA GrantedIs ==
  ASSUME NEW t, NEW p \in Seq(STRING)
  PROVE  /\ Having(t, p) = {} => Granted(t, p) = IndexOnly
         /\ \A q \in Having(t, p) :
              (\A r \in Having(t, p) : Len(r) =< Len(q)) => Granted(t, p) = t[q]
         /\ Having(t, p) # {} =>
              \E q \in Having(t, p) : \A r \in Having(t, p) : Len(r) =< Len(q)
         /\ Granted(t, p) = IndexOnly <=> Having(t, p) = {}
<1> DEFINE H == Having(t, p)
<1>1. Granted(t, p) = IF H = {} THEN IndexOnly
                      ELSE t[CHOOSE q \in H : \A r \in H : Len(r) =< Len(q)]
  BY DEF Granted, Having
<1>2. \A q \in H : q \in Prefixes(p) /\ t[q] # IndexOnly  BY DEF Having
<1> HIDE DEF H
<1>3. ASSUME NEW q \in H, \A r \in H : Len(r) =< Len(q) PROVE Granted(t, p) = t[q]
  <2> DEFINE c == CHOOSE x \in H : \A r \in H : Len(r) =< Len(x)
  <2>1. c \in H /\ \A r \in H : Len(r) =< Len(c)  BY <1>3
  <2> HIDE DEF c
  <2>2. Len(c) =< Len(q) /\ Len(q) =< Len(c)  BY <1>3, <2>1
  <2>3. Len(p) \in Nat  BY LenProperties
  <2>4. Len(c) \in 0..Len(p) /\ Len(q) \in 0..Len(p)  BY <1>2, <2>1, PrefixesByLength
  <2>5. Len(c) = Len(q)  BY <2>2, <2>3, <2>4
  <2>6. c = q  BY <1>2, <2>1, <2>5, PrefixesByLength
  <2>. QED  BY <1>1, <2>6 DEF c
<1>4. ASSUME H # {} PROVE \E q \in H : \A r \in H : Len(r) =< Len(q)
  <2> DEFINE L == {Len(q) : q \in H}
             n == Len(p)
  <2>1. n \in Nat  BY LenProperties
  <2>2. \A q \in H : Len(q) \in 0..n  BY <1>2, PrefixesByLength
  <2>3. L \in SUBSET (0..n) /\ L # {}  BY <1>4, <2>2
  <2>4. \A q \in H : Len(q) \in L  OBVIOUS
  <2>5. \A l \in L : \E q \in H : Len(q) = l  OBVIOUS
  <2> HIDE DEF L, n
  <2>6. Max(L) \in L /\ \A k \in L : k =< Max(L)  BY <2>1, <2>3, MaxIs
  <2>. QED  BY <2>4, <2>5, <2>6
<1>5. H = {} => Granted(t, p) = IndexOnly  BY <1>1
<1>6. H # {} => Granted(t, p) # IndexOnly
  <2> SUFFICES ASSUME H # {} PROVE Granted(t, p) # IndexOnly  OBVIOUS
  <2>1. PICK q \in H : \A r \in H : Len(r) =< Len(q)  BY <1>4
  <2>. QED  BY <1>2, <1>3, <2>1
<1>. QED  BY <1>3, <1>4, <1>5, <1>6 DEF H

\* The root has no prefix but itself.
LEMMA NoPrefixes ==
  /\ <<>> \in Seq(STRING) /\ Len(<<>>) = 0
  /\ \A q \in Prefixes(<<>>) : q = <<>>
  /\ <<>> \in Prefixes(<<>>)
<1>1. <<>> \in Seq(STRING) /\ Len(<<>>) = 0  BY EmptySeq
<1>2. \A q \in Prefixes(<<>>) : q = <<>>
  <2> SUFFICES ASSUME NEW q \in Prefixes(<<>>) PROVE q = <<>>  OBVIOUS
  <2>1. q \in Seq(STRING) /\ Len(q) \in 0..0  BY <1>1, PrefixesByLength
  <2>2. Len(q) = 0  BY <2>1
  <2>. QED  BY <2>1, <2>2, EmptySeq
<1>3. <<>> \in Prefixes(<<>>)
  <2>1. 0 \in 0..Len(<<>>) /\ SubSeq(<<>>, 1, 0) = <<>>  BY <1>1, SubSeqEmpty
  <2>. QED  BY <2>1 DEF Prefixes
<1>. QED  BY <1>1, <1>2, <1>3

\* The root alone decides at the root.
LEMMA GrantedAtRoot ==
  ASSUME NEW t, IsTree(t)
  PROVE  Granted(t, <<>>) = t[<<>>]
<1>1. <<>> \in Seq(STRING) /\ Len(<<>>) = 0  BY NoPrefixes
<1>2. \A q \in Prefixes(<<>>) : q = <<>>  BY NoPrefixes
<1>3. <<>> \in Prefixes(<<>>)  BY NoPrefixes
<1>4. CASE t[<<>>] = IndexOnly
  <2>1. Having(t, <<>>) = {}  BY <1>2, <1>4 DEF Having
  <2>. QED  BY <1>1, <1>4, <2>1, GrantedIs
<1>5. CASE t[<<>>] # IndexOnly
  <2>1. <<>> \in Having(t, <<>>)  BY <1>3, <1>5 DEF Having, IsTree
  <2>2. \A r \in Having(t, <<>>) : r = <<>>  BY <1>2 DEF Having
  <2>3. \A r \in Having(t, <<>>) : Len(r) =< Len(<<>>)  BY <1>1, <2>2
  <2>. QED  BY <1>1, <2>1, <2>3, GrantedIs
<1>. QED  BY <1>4, <1>5

\* The prefixes of a path with one name more.
LEMMA PrefixesOfNext ==
  ASSUME NEW p \in Seq(STRING), NEW i \in Nat, i < Len(p)
  PROVE  LET q == SubSeq(p, 1, i)
             r == SubSeq(p, 1, i + 1)
         IN  /\ q \in Seq(STRING) /\ Len(q) = i /\ r \in Seq(STRING) /\ Len(r) = i + 1
             /\ Prefixes(r) = Prefixes(q) \cup {r}
             /\ \A s \in Prefixes(q) : Len(s) \in Nat /\ Len(s) =< i
<1>1. Len(p) \in Nat  BY LenProperties
<1> DEFINE q == SubSeq(p, 1, i)
           m == i + 1
           r == SubSeq(p, 1, m)
<1>2. i \in 0..Len(p) /\ m \in 0..Len(p) /\ i =< m  BY <1>1
<1>3. q \in Seq(STRING) /\ Len(q) = i /\ q \in Prefixes(p)  BY <1>2, FirstNames
<1> HIDE DEF m
<1>4. r \in Seq(STRING) /\ Len(r) = m /\ r \in Prefixes(p)  BY <1>2, FirstNames
<1> HIDE DEF q, r
<1>5. q \in Prefixes(r)
  <2>1. Len(q) =< Len(r)  BY <1>2, <1>3, <1>4
  <2>. QED  BY <1>3, <1>4, <2>1, PrefixesByLength
<1>6. ASSUME NEW s \in Prefixes(q) PROVE s \in Prefixes(r) /\ Len(s) \in Nat /\ Len(s) =< i
  <2>1. s \in Seq(STRING) /\ Len(s) \in 0..i /\ IsPrefix(s, q)  BY <1>3, PrefixesByLength
  <2>2. IsPrefix(q, r)  BY <1>4, <1>5, PrefixesByLength
  <2>3. IsPrefix(s, r)  BY <1>3, <1>4, <2>1, <2>2, PrefixOrder
  <2>. QED  BY <1>4, <2>1, <2>3, PrefixesArePrefixes
<1>7. ASSUME NEW s \in Prefixes(r), s # r PROVE s \in Prefixes(q)
  <2>1. r \in Prefixes(r)
    <3>1. IsPrefix(r, r)  BY <1>4, PrefixOrder
    <3>. QED  BY <1>4, <3>1, PrefixesArePrefixes
  <2>2. Len(s) \in 0..m /\ (Len(s) = Len(r) => s = r)  BY <1>4, <2>1, PrefixesByLength
  <2>3. Len(s) =< Len(q)  BY <1>2, <1>3, <1>4, <1>7, <2>2 DEF m
  <2>. QED  BY <1>4, <1>5, <2>3, PrefixesByLength
<1>8. r \in Prefixes(r)
  <2>1. IsPrefix(r, r)  BY <1>4, PrefixOrder
  <2>. QED  BY <1>4, <2>1, PrefixesArePrefixes
<1>9. Prefixes(r) = Prefixes(q) \cup {r}  BY <1>6, <1>7, <1>8
<1>. QED  BY <1>3, <1>4, <1>6, <1>9 DEF q, r, m

\* One name more: a permission there counts, or what was granted before.
LEMMA GrantedNext ==
  ASSUME NEW t, IsTree(t), NEW p \in Seq(STRING), NEW i \in Nat, i < Len(p)
  PROVE  LET q == SubSeq(p, 1, i)
             r == SubSeq(p, 1, i + 1)
         IN  /\ r \in DOMAIN t => q \in DOMAIN t
             /\ Granted(t, r) = IF r \in DOMAIN t /\ t[r] # IndexOnly THEN t[r]
                                ELSE Granted(t, q)
<1> DEFINE q == SubSeq(p, 1, i)
           r == SubSeq(p, 1, i + 1)
<1>1. /\ q \in Seq(STRING) /\ Len(q) = i /\ r \in Seq(STRING) /\ Len(r) = i + 1
      /\ Prefixes(r) = Prefixes(q) \cup {r}
      /\ \A s \in Prefixes(q) : Len(s) \in Nat /\ Len(s) =< i
  BY PrefixesOfNext
<1> HIDE DEF q, r
<1>2. r \in DOMAIN t => q \in DOMAIN t
  <2>1. IsPrefix(q, q)  BY <1>1, PrefixOrder
  <2>2. q \in Prefixes(r)  BY <1>1, <2>1, PrefixesArePrefixes
  <2>. QED  BY <2>2 DEF IsTree
<1>3. CASE r \in DOMAIN t /\ t[r] # IndexOnly
  <2>1. r \in Having(t, r)  BY <1>1, <1>3 DEF Having
  <2>2. \A s \in Having(t, r) : Len(s) =< Len(r)
    <3> SUFFICES ASSUME NEW s \in Having(t, r) PROVE Len(s) =< Len(r)  OBVIOUS
    <3>1. s = r \/ s \in Prefixes(q)  BY <1>1 DEF Having
    <3>. QED  BY <1>1, <3>1
  <2>. QED  BY <1>1, <1>2, <1>3, <2>1, <2>2, GrantedIs DEF q, r
<1>4. CASE ~(r \in DOMAIN t /\ t[r] # IndexOnly)
  <2>1. Having(t, r) = Having(t, q)  BY <1>1, <1>4 DEF Having
  <2>2. Granted(t, r) = Granted(t, q)
    <3>1. CASE Having(t, q) = {}
      <4>1. Granted(t, r) = IndexOnly /\ Granted(t, q) = IndexOnly  BY <1>1, <2>1, <3>1, GrantedIs
      <4>. QED  BY <4>1
    <3>2. CASE Having(t, q) # {}
      <4>1. PICK s \in Having(t, q) : \A u \in Having(t, q) : Len(u) =< Len(s)
        BY <1>1, <3>2, GrantedIs
      <4>2. Granted(t, q) = t[s] /\ Granted(t, r) = t[s]  BY <1>1, <2>1, <4>1, GrantedIs
      <4>. QED  BY <4>2
    <3>. QED  BY <3>1, <3>2
  <2>. QED  BY <1>2, <1>4, <2>2 DEF q, r
<1>. QED  BY <1>3, <1>4

-----------------------------------------------------------------------------
(* The descent.                                                            *)

LEMMA GivenUp ==
  ASSUME NEW a, NEW x, NEW b, NEW y, a = [path |-> x, lost |-> b, perm |-> y]
  PROVE  [a EXCEPT !.lost = TRUE] = [path |-> x, lost |-> TRUE, perm |-> y]
<1> DEFINE u == [a EXCEPT !.lost = TRUE]
<1>1. a \in [path : {x}, lost : {b}, perm : {y}]  OBVIOUS
<1>2. u \in [path : {x}, lost : {TRUE}, perm : {y}]
  BY <1>1
<1> HIDE DEF u
<1>3. u = [path |-> u.path, lost |-> u.lost, perm |-> u.perm]  BY <1>2
<1>4. u.path = x /\ u.lost = TRUE /\ u.perm = y  BY <1>2
<1>. QED  BY <1>3, <1>4 DEF u

LEMMA SomeFirst ==
  ASSUME NEW n \in Nat, NEW m \in Nat, m =< n, 1 =< m
  PROVE  1..m \in SUBSET (1..n) /\ 1..m # {}
OBVIOUS

\* Where the descent is after the first i names: lost unless there is a node,
\* with the permission that is granted there.
LEMMA DescentIs ==
  ASSUME NEW t, IsTree(t), NEW p \in Seq(STRING), NEW n \in Nat, n = Len(p), NEW f,
         Descending(t, p, [path |-> <<>>, lost |-> FALSE, perm |-> t[<<>>]], n, f),
         NEW i \in 0..n
  PROVE  LET at == f[1..i]
             q == SubSeq(p, 1, i)
         IN  at.lost = (q \notin DOMAIN t) /\ at.perm = Granted(t, q)
<1> DEFINE base == [path |-> <<>>, lost |-> FALSE, perm |-> t[<<>>]]
           Q(j) == SubSeq(p, 1, j)
           A(j) == f[1..j]
           Fine(j) == /\ A(j) = [path |-> A(j).path, lost |-> A(j).lost, perm |-> A(j).perm]
                      /\ A(j).lost = (Q(j) \notin DOMAIN t)
                      /\ A(j).perm = Granted(t, Q(j))
                      /\ ~A(j).lost => A(j).path = Q(j)
           S == {j \in Nat : j =< n => Fine(j)}
<1>1. \A s \in SUBSET (1..n) :
        f[s] = IF s = {} THEN base ELSE Descend(t, f[s \ {Max(s)}], p[Max(s)])
  BY DEF Descending
<1>2. Fine(0)
  <2>1. 1..0 = {} /\ {} \in SUBSET (1..n)  OBVIOUS
  <2>2. A(0) = base  BY <1>1, <2>1
  <2>3. Q(0) = <<>>  BY SubSeqEmpty
  <2>4. Granted(t, <<>>) = t[<<>>]  BY GrantedAtRoot
  <2>5. <<>> \in DOMAIN t  BY DEF IsTree
  <2>6. /\ base = [path |-> base.path, lost |-> base.lost, perm |-> base.perm]
        /\ base.lost = FALSE /\ base.perm = t[<<>>] /\ base.path = <<>>
    OBVIOUS
  <2> HIDE DEF base, A, Q
  <2>. QED  BY <2>2, <2>3, <2>4, <2>5, <2>6
<1>3. ASSUME NEW j \in Nat, j < n, Fine(j) PROVE Fine(j + 1)
  <2> DEFINE m == j + 1
             a == A(j)
             q == Q(j)
             r == Q(m)
             here == [path |-> r, lost |-> FALSE, perm |-> IF t[r] # IndexOnly THEN t[r] ELSE a.perm]
             lost == [a EXCEPT !.lost = TRUE]
  <2>0. m \in Nat /\ m =< n /\ 1 =< m  BY <1>3
  <2> HIDE DEF m
  <2>1. 1..m \in SUBSET (1..n) /\ 1..m # {}  BY <2>0, SomeFirst
  <2>2. Max(1..m) = m /\ (1..m) \ {m} = 1..j  BY OneMore DEF m
  <2>3. A(m) = Descend(t, a, p[m])  BY <1>1, <2>1, <2>2
  <2>4. r = Append(q, p[m])  BY <1>3, NextName DEF m
  <2>5. /\ r \in DOMAIN t => q \in DOMAIN t
        /\ Granted(t, r) = IF r \in DOMAIN t /\ t[r] # IndexOnly THEN t[r] ELSE Granted(t, q)
    BY <1>3, GrantedNext DEF m
  <2>6. /\ a = [path |-> a.path, lost |-> a.lost, perm |-> a.perm]
        /\ a.lost = (q \notin DOMAIN t)
        /\ a.perm = Granted(t, q)
        /\ ~a.lost => a.path = q
    BY <1>3
  <2> HIDE DEF A, Q
  <2> HIDE DEF a, q, r
  <2>7. /\ lost = [path |-> lost.path, lost |-> lost.lost, perm |-> lost.perm]
        /\ lost.lost = TRUE /\ lost.perm = a.perm
    <3>1. lost = [path |-> a.path, lost |-> TRUE, perm |-> a.perm]  BY <2>6, GivenUp
    <3> HIDE DEF lost
    <3>. QED  BY <3>1
  <2>8. /\ here = [path |-> here.path, lost |-> here.lost, perm |-> here.perm]
        /\ here.path = r /\ here.lost = FALSE
        /\ here.perm = IF t[r] # IndexOnly THEN t[r] ELSE a.perm
    OBVIOUS
  <2>9. CASE r \in DOMAIN t
    <3>1. ~a.lost /\ a.path = q  BY <2>5, <2>6, <2>9
    <3>2. A(m) = here  BY <2>3, <2>4, <2>9, <3>1 DEF Descend
    <3> HIDE DEF here
    <3>3. A(m).perm = Granted(t, r)  BY <2>5, <2>6, <2>8, <2>9, <3>2
    <3>. QED  BY <2>8, <2>9, <3>2, <3>3 DEF r, m
  <2>10. CASE r \notin DOMAIN t
    <3>1. a.lost \/ Append(a.path, p[m]) \notin DOMAIN t  BY <2>4, <2>6, <2>10
    <3>2. A(m) = lost  BY <2>3, <3>1 DEF Descend
    <3> HIDE DEF lost
    <3>3. A(m).perm = Granted(t, r)  BY <2>5, <2>6, <2>7, <2>10, <3>2
    <3>. QED  BY <2>7, <2>10, <3>2, <3>3 DEF r, m
  <2>. QED  BY <2>9, <2>10
<1> HIDE DEF A, Q, Fine
<1>4. 0 \in S  BY <1>2
<1>5. ASSUME NEW j \in Nat, j \in S PROVE j + 1 \in S
  <2>1. j + 1 =< n => j < n /\ j =< n  OBVIOUS
  <2>. QED  BY <1>3, <1>5, <2>1
<1> HIDE DEF S
<1>6. i \in S  BY <1>4, <1>5, Induct
<1>7. Fine(i)  BY <1>6 DEF S
<1>. QED  BY <1>7 DEF Fine, A, Q

\* What the code looks up: a permission on the way counts for everything below,
\* above one only the ways to those below are seen.
THEOREM FindIs ==
  ASSUME NEW t, IsTree(t), NEW p \in Seq(STRING)
  PROVE  Find(t, p) = IF Granted(t, p) # IndexOnly THEN Single(Granted(t, p))
                      ELSE IF p \notin DOMAIN t THEN Nothing ELSE Subtree(t, p)
<1> DEFINE n == Len(p)
           base == [path |-> <<>>, lost |-> FALSE, perm |-> t[<<>>]]
           iter[s \in SUBSET DOMAIN p] ==
             IF s = {} THEN base ELSE Descend(t, iter[s \ {Max(s)}], p[Max(s)])
           end == iter[DOMAIN p]
<1>1. n \in Nat /\ DOMAIN p = 1..n  BY LenProperties
<1>2. Find(t, p) = IF end.perm # IndexOnly THEN Single(end.perm)
                   ELSE IF end.lost THEN Nothing ELSE Subtree(t, p)
  BY DEF Find, FoldLeft, MapThenFoldSet
<1>3. PICK f : Descending(t, p, base, n, f)  BY <1>1, DescentExists
<1>4. f = [s \in SUBSET DOMAIN p |->
             IF s = {} THEN base ELSE Descend(t, f[s \ {Max(s)}], p[Max(s)])]
  BY <1>1, <1>3 DEF Descending
<1>5. iter = [s \in SUBSET DOMAIN p |->
                IF s = {} THEN base ELSE Descend(t, iter[s \ {Max(s)}], p[Max(s)])]
  BY <1>4
<1> HIDE DEF iter
<1>6. Descending(t, p, base, n, iter)  BY <1>1, <1>5 DEF Descending
<1> HIDE DEF n
<1>7. n \in 0..n /\ SubSeq(p, 1, n) = p
  <2>1. SubSeq(p, 1, Len(p)) = p  BY SubSeqFull
  <2>. QED  BY <1>1, <2>1 DEF n
<1>8. n = Len(p)  BY DEF n
<1>9. end.lost = (p \notin DOMAIN t) /\ end.perm = Granted(t, p)
  <2>1. Descending(t, p, [path |-> <<>>, lost |-> FALSE, perm |-> t[<<>>]], n, iter)  BY <1>6
  <2> HIDE DEF base, end
  <2>2. n \in Nat  BY <1>1, <1>8
  <2>3. /\ iter[1..n].lost = (SubSeq(p, 1, n) \notin DOMAIN t)
        /\ iter[1..n].perm = Granted(t, SubSeq(p, 1, n))
    BY <1>7, <1>8, <2>1, <2>2, DescentIs
  <2>4. end = iter[1..n]  BY <1>1, <1>8 DEF end
  <2>. QED  BY <1>7, <2>3, <2>4
<1> HIDE DEF end
<1>. QED  BY <1>2, <1>9

-----------------------------------------------------------------------------
(* Building trees.                                                         *)

\* The step of merge that comes when the grants s have been added.
Merging(g, n, f) ==
  f = [s \in SUBSET (1..n) |->
         IF s = {} THEN Single(IndexOnly) ELSE Add(f[s \ {Max(s)}], g[Max(s)])]

LEMMA MergeExists ==
  ASSUME NEW g, NEW n \in Nat
  PROVE  \E f : Merging(g, n, f)
<1> DEFINE base == Single(IndexOnly)
           S == {k \in Nat : \E f : Merging(g, k, f)}
<1> HIDE DEF base
<1>1. 0 \in S
  <2> DEFINE f == [s \in SUBSET (1..0) |-> base]
  <2>1. \A s \in SUBSET (1..0) : s = {}  OBVIOUS
  <2>2. f = [s \in SUBSET (1..0) |->
               IF s = {} THEN base ELSE Add(f[s \ {Max(s)}], g[Max(s)])]
    BY <2>1
  <2>3. Merging(g, 0, f)  BY <2>2 DEF Merging, base
  <2>. QED  BY <2>3
<1>2. ASSUME NEW k \in Nat, k \in S PROVE k + 1 \in S
  <2> DEFINE m == k + 1
  <2>1. PICK f : Merging(g, k, f)  BY <1>2
  <2> DEFINE e == [s \in SUBSET (1..m) |->
                     IF m \in s THEN Add(f[s \ {m}], g[m]) ELSE f[s]]
  <2>2. ASSUME NEW s \in SUBSET (1..m)
        PROVE  e[s] = IF s = {} THEN base ELSE Add(e[s \ {Max(s)}], g[Max(s)])
    <3>1. CASE m \in s
      <4>1. Max(s) = m /\ s \ {m} \in SUBSET (1..k)  BY <3>1, OneMore
      <4>2. s \ {m} \in SUBSET (1..m) /\ m \notin s \ {m}  OBVIOUS
      <4>3. e[s \ {m}] = f[s \ {m}]  BY <4>2
      <4>4. e[s] = Add(f[s \ {m}], g[m])  BY <3>1
      <4> HIDE DEF e
      <4>. QED  BY <3>1, <4>1, <4>3, <4>4
    <3>2. CASE m \notin s
      <4>1. s \in SUBSET (1..k)
        <5>1. (1..m) \ {m} = 1..k  BY OneMore
        <5>. QED  BY <3>2, <5>1
      <4>2. s \ {Max(s)} \in SUBSET (1..m) /\ m \notin s \ {Max(s)}  BY <3>2
      <4>3. e[s] = f[s] /\ e[s \ {Max(s)}] = f[s \ {Max(s)}]  BY <3>2, <4>2
      <4>4. f[s] = IF s = {} THEN base ELSE Add(f[s \ {Max(s)}], g[Max(s)])
        BY <2>1, <4>1 DEF Merging, base
      <4> HIDE DEF e
      <4>. QED  BY <4>3, <4>4
    <3>. QED  BY <3>1, <3>2
  <2>3. e = [s \in SUBSET (1..m) |-> e[s]]  OBVIOUS
  <2> HIDE DEF e
  <2>4. e = [s \in SUBSET (1..m) |->
               IF s = {} THEN base ELSE Add(e[s \ {Max(s)}], g[Max(s)])]
    BY <2>2, <2>3
  <2>5. Merging(g, m, e)  BY <2>4 DEF Merging, base
  <2>. QED  BY <2>5
<1> HIDE DEF S
<1>3. n \in S  BY <1>1, <1>2, Induct
<1>. QED  BY <1>3 DEF S

\* A root alone.
LEMMA RootTree == ASSUME NEW perm \in Perms PROVE IsTree(Single(perm))
<1>1. <<>> \in Seq(STRING) /\ Len(<<>>) = 0  BY EmptySeq
<1>2. \A q \in Prefixes(<<>>) : q = <<>>  BY NoPrefixes
<1>. QED  BY <1>1, <1>2 DEF IsTree, Single

\* With a grant a tree stays one: the way to it becomes a part of the tree.
LEMMA AddTree ==
  ASSUME NEW t, IsTree(t), NEW g, g.path \in Seq(STRING), g.perm \in Perms
  PROVE  IsTree(Add(t, g))
<1> DEFINE D == DOMAIN t \cup Prefixes(g.path)
           u == Add(t, g)
<1>1. u = [p \in D |-> IF p = g.path THEN g.perm ELSE IF p \in DOMAIN t THEN t[p] ELSE IndexOnly]
  BY DEF Add
<1>2. \A p \in D : (IF p = g.path THEN g.perm ELSE IF p \in DOMAIN t THEN t[p] ELSE IndexOnly) \in Perms
  BY DEF IsTree, Perms
<1>3. DOMAIN u = D /\ u \in [D -> Perms]  BY <1>1, <1>2
<1>4. \A q \in Prefixes(g.path) : q \in Seq(STRING) /\ Prefixes(q) \subseteq Prefixes(g.path)
  <2> SUFFICES ASSUME NEW q \in Prefixes(g.path), NEW r \in Prefixes(q)
               PROVE  q \in Seq(STRING) /\ r \in Prefixes(g.path)
    BY PrefixesByLength
  <2>1. q \in Seq(STRING) /\ IsPrefix(q, g.path)  BY PrefixesByLength
  <2>2. r \in Seq(STRING) /\ IsPrefix(r, q)  BY <2>1, PrefixesByLength
  <2>3. IsPrefix(r, g.path)  BY <2>1, <2>2, PrefixOrder
  <2>. QED  BY <2>1, <2>2, <2>3, PrefixesArePrefixes
<1> HIDE DEF u
<1>5. <<>> \in D /\ D \subseteq Seq(STRING)  BY <1>4 DEF IsTree
<1>6. \A p \in D : Prefixes(p) \subseteq D  BY <1>4 DEF IsTree
<1> HIDE DEF D
<1>. QED  BY <1>3, <1>5, <1>6 DEF IsTree, u

\* The grants of a user make a tree.
LEMMA GrantsTree == ASSUME NEW g, IsGrants(g) PROVE IsTree(MergeGrants(g))
<1> DEFINE n == Len(g)
           iter[s \in SUBSET DOMAIN g] ==
             IF s = {} THEN Single(IndexOnly) ELSE Add(iter[s \ {Max(s)}], g[Max(s)])
<1>1. n \in Nat /\ DOMAIN g = 1..n  BY LenProperties DEF IsGrants
<1>2. MergeGrants(g) = iter[DOMAIN g]  BY DEF MergeGrants, FoldLeft, MapThenFoldSet
<1>3. PICK f : Merging(g, n, f)  BY <1>1, MergeExists
<1>4. f = [s \in SUBSET DOMAIN g |->
             IF s = {} THEN Single(IndexOnly) ELSE Add(f[s \ {Max(s)}], g[Max(s)])]
  BY <1>1, <1>3 DEF Merging
<1>5. iter = [s \in SUBSET DOMAIN g |->
                IF s = {} THEN Single(IndexOnly) ELSE Add(iter[s \ {Max(s)}], g[Max(s)])]
  BY <1>4
<1> HIDE DEF iter
<1>6. \A s \in SUBSET (1..n) :
        iter[s] = IF s = {} THEN Single(IndexOnly) ELSE Add(iter[s \ {Max(s)}], g[Max(s)])
  BY <1>1, <1>5
<1>7. \A i \in 1..n : g[i].path \in Seq(STRING) /\ g[i].perm \in Perms
  <2> SUFFICES ASSUME NEW i \in 1..n PROVE g[i].path \in Seq(STRING) /\ g[i].perm \in Perms
    OBVIOUS
  <2>1. g[i] \in [path : Seq(STRING), perm : {ReadOnly, ReadWrite}]
    BY ElementOfSeq DEF IsGrants
  <2>. QED  BY <2>1 DEF Perms
<1> HIDE DEF n
<1> DEFINE S == {k \in Nat : k =< n => IsTree(iter[1..k])}
<1>8. 0 \in S
  <2>1. 1..0 = {} /\ {} \in SUBSET (1..n)  OBVIOUS
  <2>2. iter[1..0] = Single(IndexOnly)  BY <1>6, <2>1
  <2>3. IsTree(iter[1..0])  BY <2>2, RootTree DEF Perms
  <2>. QED  BY <2>3
<1>9. ASSUME NEW k \in Nat, k \in S PROVE k + 1 \in S
  <2> SUFFICES ASSUME k + 1 =< n PROVE IsTree(iter[1..(k + 1)])  OBVIOUS
  <2> DEFINE m == k + 1
  <2>1. m \in Nat /\ m =< n /\ 1 =< m /\ k =< n  BY <1>1
  <2>2. IsTree(iter[1..k])  BY <1>9, <2>1
  <2>3. Max(1..m) = m /\ (1..m) \ {m} = 1..k  BY OneMore
  <2> HIDE DEF m
  <2>4. 1..m \in SUBSET (1..n) /\ 1..m # {}  BY <1>1, <2>1, SomeFirst
  <2>5. iter[1..m] = Add(iter[1..k], g[m])  BY <1>6, <2>3, <2>4
  <2>6. m \in 1..n  BY <1>1, <2>1
  <2>7. IsTree(iter[1..m])  BY <1>7, <2>2, <2>5, <2>6, AddTree
  <2>. QED  BY <2>7 DEF m
<1> HIDE DEF S
<1>10. n \in S  BY <1>1, <1>8, <1>9, Induct
<1>11. IsTree(iter[1..n])  BY <1>1, <1>10 DEF S
<1>. QED  BY <1>1, <1>2, <1>11

\* A permission is one of three.
LEMMA GrantedPerm ==
  ASSUME NEW t, IsTree(t), NEW p \in Seq(STRING)
  PROVE  Granted(t, p) \in Perms
<1>1. CASE Having(t, p) = {}  BY <1>1, GrantedIs DEF Perms
<1>2. CASE Having(t, p) # {}
  <2>1. PICK q \in Having(t, p) : \A r \in Having(t, p) : Len(r) =< Len(q)
    BY <1>2, GrantedIs
  <2>2. Granted(t, p) = t[q] /\ q \in DOMAIN t  BY <2>1, GrantedIs DEF Having
  <2>. QED  BY <2>2 DEF IsTree
<1>. QED  BY <1>1, <1>2

LEMMA HigherIs ==
  ASSUME NEW a \in Perms, NEW b \in Perms
  PROVE  /\ Higher(a, b) \in Perms
         /\ Higher(a, b) = IndexOnly <=> a = IndexOnly /\ b = IndexOnly
BY DEF Higher, Perms, IndexOnly, ReadOnly, ReadWrite

\* What a user has together with the visitors is a tree.
LEMMA AbsorbTree ==
  ASSUME NEW t, IsTree(t), NEW v, IsTree(v)
  PROVE  /\ IsTree(AbsorbAnon(t, v)) /\ DOMAIN AbsorbAnon(t, v) = DOMAIN t \cup DOMAIN v
         /\ \A p \in DOMAIN v :
              AbsorbAnon(t, v)[p] = Higher(Granted(t, p), Granted(v, p))
         /\ \A p \in DOMAIN t \ DOMAIN v : AbsorbAnon(t, v)[p] = t[p]
<1> DEFINE D == DOMAIN t \cup DOMAIN v
           u == AbsorbAnon(t, v)
<1>1. u = [p \in D |-> IF p \in DOMAIN v THEN Higher(Granted(t, p), Granted(v, p)) ELSE t[p]]
  BY DEF AbsorbAnon
<1>2. \A p \in D :
        (IF p \in DOMAIN v THEN Higher(Granted(t, p), Granted(v, p)) ELSE t[p]) \in Perms
  <2>1. \A p \in DOMAIN v : Higher(Granted(t, p), Granted(v, p)) \in Perms
    BY GrantedPerm, HigherIs DEF IsTree
  <2>2. \A p \in DOMAIN t : t[p] \in Perms  BY DEF IsTree
  <2>. QED  BY <2>1, <2>2
<1>3. DOMAIN u = D /\ u \in [D -> Perms]  BY <1>1, <1>2
<1>4. <<>> \in D /\ D \subseteq Seq(STRING) /\ \A p \in D : Prefixes(p) \subseteq D
  BY DEF IsTree
<1>5. /\ \A p \in DOMAIN v : u[p] = Higher(Granted(t, p), Granted(v, p))
      /\ \A p \in DOMAIN t \ DOMAIN v : u[p] = t[p]
  BY <1>1
<1> HIDE DEF u, D
<1>6. IsTree(u)  BY <1>3, <1>4 DEF IsTree
<1>. QED  BY <1>3, <1>5, <1>6 DEF u, D

\* Below a permission of his own that the visitors have no word on, a user has
\* what he was given.
LEMMA AloneBelow ==
  ASSUME NEW t, IsTree(t), NEW v, IsTree(v), NEW p \in Seq(STRING),
         NEW q \in Prefixes(p) \ DOMAIN v, q \in DOMAIN t, t[q] # IndexOnly
  PROVE  Granted(AbsorbAnon(t, v), p) = Granted(t, p)
<1> DEFINE u == AbsorbAnon(t, v)
<1>1. /\ IsTree(u) /\ DOMAIN u = DOMAIN t \cup DOMAIN v
      /\ \A r \in DOMAIN t \ DOMAIN v : u[r] = t[r]
  BY AbsorbTree
<1> HIDE DEF u
<1>2. q \in Having(t, p)  BY DEF Having
<1>3. PICK d \in Having(t, p) : \A r \in Having(t, p) : Len(r) =< Len(d)
  BY <1>2, GrantedIs
<1>4. Granted(t, p) = t[d]  BY <1>3, GrantedIs
<1>5. Len(p) \in Nat  BY LenProperties
<1>6. ASSUME NEW r \in Prefixes(p), Len(d) =< Len(r) PROVE r \notin DOMAIN v
  <2>1. d \in Prefixes(p) /\ Len(q) =< Len(d)  BY <1>2, <1>3 DEF Having
  <2>2. Len(q) \in 0..Len(p) /\ Len(d) \in 0..Len(p) /\ Len(r) \in 0..Len(p)
    BY <2>1, PrefixesByLength
  <2>3. Len(q) =< Len(r)  BY <1>5, <1>6, <2>1, <2>2
  <2>4. q \in Prefixes(r)  BY <2>3, PrefixesByLength
  <2>. QED  BY <2>4 DEF IsTree
<1>7. d \in Having(u, p) /\ u[d] = t[d]
  <2>1. d \in Prefixes(p) /\ d \in DOMAIN t /\ t[d] # IndexOnly  BY <1>3 DEF Having
  <2>2. Len(d) =< Len(d)  BY <1>5, <2>1, PrefixesByLength
  <2>3. d \notin DOMAIN v  BY <1>6, <2>1, <2>2
  <2>. QED  BY <1>1, <2>1, <2>3 DEF Having
<1>8. \A r \in Having(u, p) : Len(r) =< Len(d)
  <2> SUFFICES ASSUME NEW r \in Having(u, p), ~(Len(r) =< Len(d)) PROVE FALSE  OBVIOUS
  <2>1. r \in Prefixes(p) /\ r \in DOMAIN u /\ u[r] # IndexOnly /\ d \in Prefixes(p)
    BY <1>3 DEF Having
  <2>2. Len(d) \in 0..Len(p) /\ Len(r) \in 0..Len(p)  BY <2>1, PrefixesByLength
  <2>3. Len(d) =< Len(r)  BY <1>5, <2>2
  <2>4. r \notin DOMAIN v  BY <1>6, <2>1, <2>3
  <2>5. r \in Having(t, p)  BY <1>1, <2>1, <2>4 DEF Having
  <2>. QED  BY <1>3, <2>5
<1>9. Granted(u, p) = u[d]  BY <1>7, <1>8, GrantedIs
<1>. QED  BY <1>4, <1>7, <1>9 DEF u

\* The deepest node on the way that the visitors' tree has.
LEMMA LastWord ==
  ASSUME NEW v, IsTree(v), NEW p \in Seq(STRING)
  PROVE  \E w \in Prefixes(p) \cap DOMAIN v :
           \A r \in Prefixes(p) \cap DOMAIN v : Len(r) =< Len(w)
<1> DEFINE C == Prefixes(p) \cap DOMAIN v
           L == {Len(q) : q \in C}
           n == Len(p)
<1>1. n \in Nat  BY LenProperties
<1>2. \A q \in C : Len(q) \in 0..n  BY PrefixesByLength
<1>3. <<>> \in C
  <2>1. IsPrefix(<<>>, p)
    <3>1. Len(<<>>) = 0 /\ <<>> \in Seq(STRING)  BY EmptySeq
    <3>2. Len(<<>>) =< Len(p) /\ \A i \in 1..Len(<<>>) : <<>>[i] = p[i]  BY <1>1, <3>1
    <3>. QED  BY <3>1, <3>2, PrefixByElements
  <2>2. <<>> \in Prefixes(p)  BY <2>1, PrefixesArePrefixes, EmptySeq
  <2>. QED  BY <2>2 DEF IsTree
<1>4. L \in SUBSET (0..n) /\ L # {}  BY <1>2, <1>3
<1>5. (\A q \in C : Len(q) \in L) /\ \A l \in L : \E q \in C : Len(q) = l  OBVIOUS
<1> HIDE DEF L, n
<1>6. Max(L) \in L /\ \A k \in L : k =< Max(L)  BY <1>1, <1>4, MaxIs
<1>. QED  BY <1>5, <1>6

\* What is granted on the way up to w, and by nothing below, is granted at w.
LEMMA GrantedAbove ==
  ASSUME NEW t, NEW p \in Seq(STRING), NEW w \in Prefixes(p),
         \A r \in Having(t, p) : Len(r) =< Len(w)
  PROVE  Having(t, w) = Having(t, p) /\ Granted(t, w) = Granted(t, p)
<1>1. w \in Seq(STRING) /\ IsPrefix(w, p)  BY PrefixesByLength
<1>2. ASSUME NEW r \in Having(t, p) PROVE r \in Having(t, w)
  <2>1. r \in Prefixes(p) /\ Len(r) =< Len(w)  BY <1>2 DEF Having
  <2>2. r \in Prefixes(w)  BY <2>1, PrefixesByLength
  <2>. QED  BY <1>2, <2>2 DEF Having
<1>3. ASSUME NEW r \in Having(t, w) PROVE r \in Having(t, p)
  <2>1. r \in Seq(STRING) /\ IsPrefix(r, w)  BY <1>1, <1>3, PrefixesByLength DEF Having
  <2>2. IsPrefix(r, p)  BY <1>1, <2>1, PrefixOrder
  <2>3. r \in Prefixes(p)  BY <2>1, <2>2, PrefixesArePrefixes
  <2>. QED  BY <1>3, <2>3 DEF Having
<1>4. Having(t, w) = Having(t, p)  BY <1>2, <1>3
<1>5. Granted(t, w) = Granted(t, p)
  <2>1. CASE Having(t, p) = {}
    <3>1. Granted(t, w) = IndexOnly /\ Granted(t, p) = IndexOnly
      BY <1>1, <1>4, <2>1, GrantedIs
    <3>. QED  BY <3>1
  <2>2. CASE Having(t, p) # {}
    <3>1. PICK s \in Having(t, p) : \A r \in Having(t, p) : Len(r) =< Len(s)
      BY <2>2, GrantedIs
    <3>2. Granted(t, p) = t[s]  BY <3>1, GrantedIs
    <3>3. Granted(t, w) = t[s]  BY <1>1, <1>4, <3>1, GrantedIs
    <3>. QED  BY <3>2, <3>3
  <2>. QED  BY <2>1, <2>2
<1>. QED  BY <1>4, <1>5

\* What is granted above a path is granted there too, or something deeper is.
LEMMA StillGranted ==
  ASSUME NEW t, NEW p \in Seq(STRING), NEW q \in Seq(STRING), IsPrefix(q, p)
  PROVE  Having(t, q) \subseteq Having(t, p)
<1> SUFFICES ASSUME NEW r \in Having(t, q) PROVE r \in Having(t, p)  OBVIOUS
<1>1. r \in Prefixes(q) /\ r \in DOMAIN t /\ t[r] # IndexOnly  BY DEF Having
<1>2. r \in Seq(STRING) /\ IsPrefix(r, q)  BY <1>1, PrefixesByLength
<1>3. IsPrefix(r, p)  BY <1>2, PrefixOrder
<1>4. r \in Prefixes(p)  BY <1>2, <1>3, PrefixesArePrefixes
<1>. QED  BY <1>1, <1>4 DEF Having

LEMMA NothingAbove ==
  ASSUME NEW t, NEW p \in Seq(STRING), NEW q \in Seq(STRING), q \in Prefixes(p),
         Having(t, p) = {}
  PROVE  Granted(t, q) = IndexOnly
<1>1. IsPrefix(q, p)  BY PrefixesByLength
<1>2. Having(t, q) = {}  BY <1>1, StillGranted
<1>. QED  BY <1>2, GrantedIs

\* Everywhere else he has what is higher.
LEMMA HigherElsewhere ==
  ASSUME NEW t, IsTree(t), NEW v, IsTree(v), NEW p \in Seq(STRING),
         \A q \in Prefixes(p) \ DOMAIN v : q \in DOMAIN t => t[q] = IndexOnly
  PROVE  Granted(AbsorbAnon(t, v), p) = Higher(Granted(t, p), Granted(v, p))
<1> DEFINE u == AbsorbAnon(t, v)
<1>1. /\ IsTree(u) /\ DOMAIN u = DOMAIN t \cup DOMAIN v
      /\ \A r \in DOMAIN v : u[r] = Higher(Granted(t, r), Granted(v, r))
      /\ \A r \in DOMAIN t \ DOMAIN v : u[r] = t[r]
  BY AbsorbTree
<1> HIDE DEF u
<1>2. PICK w \in Prefixes(p) \cap DOMAIN v :
        \A r \in Prefixes(p) \cap DOMAIN v : Len(r) =< Len(w)
  BY LastWord
<1>3. w \in Seq(STRING)  BY PrefixesByLength
<1>4. /\ \A r \in Having(t, p) : r \in Prefixes(p) \cap DOMAIN v
      /\ \A r \in Having(v, p) : r \in Prefixes(p) \cap DOMAIN v
      /\ \A r \in Having(u, p) : r \in Prefixes(p) \cap DOMAIN v
  BY <1>1 DEF Having
<1>5. /\ Having(t, w) = Having(t, p) /\ Granted(t, w) = Granted(t, p)
      /\ Having(v, w) = Having(v, p) /\ Granted(v, w) = Granted(v, p)
  BY <1>2, <1>4, GrantedAbove
<1>6. u[w] = Higher(Granted(t, p), Granted(v, p))  BY <1>1, <1>2, <1>5
<1>7. CASE u[w] # IndexOnly
  <2>1. w \in Having(u, p)  BY <1>1, <1>2, <1>7 DEF Having
  <2>2. Granted(u, p) = u[w]  BY <1>2, <1>4, <2>1, GrantedIs
  <2>. QED  BY <1>6, <2>2 DEF u
<1>8. CASE u[w] = IndexOnly
  <2>1. Granted(t, p) \in Perms /\ Granted(v, p) \in Perms  BY GrantedPerm
  <2>2. Granted(t, p) = IndexOnly /\ Granted(v, p) = IndexOnly
    BY <1>6, <1>8, <2>1, HigherIs
  <2>3. Having(t, p) = {} /\ Having(v, p) = {}  BY <2>2, GrantedIs
  <2>4. Having(u, p) = {}
    <3> SUFFICES ASSUME NEW r \in Having(u, p) PROVE FALSE  OBVIOUS
    <3>1. r \in Prefixes(p) /\ r \in DOMAIN v /\ u[r] # IndexOnly  BY <1>4 DEF Having
    <3>2. r \in Seq(STRING)  BY <3>1, PrefixesByLength
    <3>3. Granted(t, r) = IndexOnly /\ Granted(v, r) = IndexOnly
      BY <2>3, <3>1, <3>2, NothingAbove
    <3>4. u[r] = IndexOnly  BY <1>1, <3>1, <3>3 DEF Higher
    <3>. QED  BY <3>1, <3>4
  <2>5. Granted(u, p) = IndexOnly  BY <2>4, GrantedIs
  <2>. QED  BY <1>6, <1>8, <2>5 DEF u
<1>. QED  BY <1>7, <1>8

-----------------------------------------------------------------------------
(* What is found at a path.                                                *)

\* A path is its prefix and the rest.
LEMMA JoinRest ==
  ASSUME NEW S, NEW q \in Seq(S), NEW r \in Seq(S), IsPrefix(q, r)
  PROVE  q \o SubSeq(r, Len(q) + 1, Len(r)) = r
<1> DEFINE u == SubSeq(r, Len(q) + 1, Len(r))
           n == Len(r) - Len(q)
           c == q \o u
<1>1. Len(q) \in Nat /\ Len(r) \in Nat /\ Len(q) =< Len(r)
  BY LenProperties DEF IsPrefix
<1>2. \A i \in 1..Len(q) : q[i] = r[i]  BY PrefixByElements
<1>3. u \in Seq(S) /\ Len(u) = n  BY RestOf
<1>4. \A i \in 1..n : u[i] = r[Len(q) + i]  BY RestAt
<1> HIDE DEF u
<1>5. /\ c \in Seq(S) /\ Len(c) = Len(q) + Len(u)
      /\ \A i \in 1..Len(q) + Len(u) :
           c[i] = IF i <= Len(q) THEN q[i] ELSE u[i - Len(q)]
  BY <1>3, ConcatProperties
<1> HIDE DEF c
<1>6. Len(c) = Len(r)  BY <1>1, <1>3, <1>5
<1>7. \A i \in 1..Len(r) : c[i] = r[i]
  <2> SUFFICES ASSUME NEW i \in 1..Len(r) PROVE c[i] = r[i]  OBVIOUS
  <2>1. CASE i <= Len(q)
    <3>1. i \in 1..Len(q) /\ i \in 1..Len(q) + Len(u)  BY <1>1, <1>3, <2>1
    <3>. QED  BY <1>2, <1>5, <2>1, <3>1
  <2>2. CASE ~(i <= Len(q))
    <3>1. i - Len(q) \in 1..n /\ i \in 1..Len(q) + Len(u) /\ Len(q) + (i - Len(q)) = i
      BY <1>1, <1>3, <2>2
    <3>. QED  BY <1>4, <1>5, <2>2, <3>1
  <2>. QED  BY <2>1, <2>2
<1>8. c = r  BY <1>5, <1>6, <1>7, SeqEqual
<1>. QED  BY <1>8 DEF c, u

\* A path and one more below it.
LEMMA Joined ==
  ASSUME NEW S, NEW p \in Seq(S), NEW q \in Seq(S)
  PROVE  /\ p \o q \in Seq(S) /\ Len(p \o q) = Len(p) + Len(q) /\ IsPrefix(p, p \o q)
         /\ \A i \in 1..Len(p) : (p \o q)[i] = p[i]
         /\ q # <<>> => Len(q) >= 1 /\ (p \o q)[Len(p) + 1] = q[1]
<1> DEFINE c == p \o q
<1>1. Len(p) \in Nat /\ Len(q) \in Nat  BY LenProperties
<1>2. /\ c \in Seq(S) /\ Len(c) = Len(p) + Len(q)
      /\ \A i \in 1..Len(p) + Len(q) :
           c[i] = IF i <= Len(p) THEN p[i] ELSE q[i - Len(p)]
  BY ConcatProperties
<1> HIDE DEF c
<1>3. \A i \in 1..Len(p) : c[i] = p[i]
  <2> SUFFICES ASSUME NEW i \in 1..Len(p) PROVE c[i] = p[i]  OBVIOUS
  <2>1. i \in 1..Len(p) + Len(q) /\ i <= Len(p)  BY <1>1
  <2>. QED  BY <1>2, <2>1
<1>4. IsPrefix(p, c)  BY <1>1, <1>2, <1>3, PrefixByElements
<1>5. ASSUME q # <<>> PROVE Len(q) >= 1 /\ c[Len(p) + 1] = q[1]
  <2>1. Len(q) # 0  BY <1>5, EmptySeq
  <2>2. Len(q) >= 1  BY <1>1, <2>1
  <2> DEFINE i == Len(p) + 1
  <2>3. i \in 1..Len(p) + Len(q) /\ ~(i <= Len(p)) /\ i - Len(p) = 1  BY <1>1, <2>2
  <2> HIDE DEF i
  <2>4. c[i] = q[1]  BY <1>2, <2>3
  <2>. QED  BY <2>2, <2>4 DEF i
<1>. QED  BY <1>2, <1>3, <1>4, <1>5 DEF c

\* The subtree at a node.
LEMMA SubtreeIs ==
  ASSUME NEW t, IsTree(t), NEW p \in DOMAIN t
  PROVE  /\ p \in Seq(STRING)
         /\ \A r \in DOMAIN t : IsPrefix(p, r) =>
              SubSeq(r, Len(p) + 1, Len(r)) \in DOMAIN Subtree(t, p)
         /\ \A q \in DOMAIN Subtree(t, p) :
              q \in Seq(STRING) /\ p \o q \in DOMAIN t /\ Subtree(t, p)[q] = t[p \o q]
         /\ <<>> \in DOMAIN Subtree(t, p) /\ Subtree(t, p)[<<>>] = t[p]
<1> DEFINE nodes == {q \in DOMAIN t : IsPrefix(p, q)}
           D == {SubSeq(r, Len(p) + 1, Len(r)) : r \in nodes}
           u == Subtree(t, p)
<1>1. u = [q \in D |-> t[p \o q]]  BY DEF Subtree
<1>2. DOMAIN u = D /\ \A q \in D : u[q] = t[p \o q]  BY <1>1
<1>3. p \in Seq(STRING) /\ DOMAIN t \subseteq Seq(STRING)  BY DEF IsTree
<1>4. ASSUME NEW q \in D PROVE q \in Seq(STRING) /\ p \o q \in DOMAIN t
  <2>1. PICK r \in DOMAIN t : IsPrefix(p, r) /\ q = SubSeq(r, Len(p) + 1, Len(r))
    OBVIOUS
  <2>2. r \in Seq(STRING)  BY <1>3
  <2> HIDE DEF D
  <2>. QED  BY <1>3, <2>1, <2>2, RestOf, JoinRest
<1>5. \A r \in DOMAIN t : IsPrefix(p, r) => SubSeq(r, Len(p) + 1, Len(r)) \in D
  OBVIOUS
<1>6. <<>> \in D /\ p \o <<>> = p
  <2>1. IsPrefix(p, p)  BY <1>3, PrefixOrder
  <2>2. SubSeq(p, Len(p) + 1, Len(p)) \in D  BY <1>5, <2>1
  <2>3. Len(p) \in Nat /\ Len(p) < Len(p) + 1  BY <1>3, LenProperties
  <2>4. SubSeq(p, Len(p) + 1, Len(p)) = <<>>  BY <2>3, SubSeqEmpty
  <2> HIDE DEF D
  <2>5. p \o <<>> = p  BY <1>3, <2>1, <2>4, JoinRest
  <2>. QED  BY <2>2, <2>4, <2>5
<1> HIDE DEF D, u
<1>. QED  BY <1>2, <1>3, <1>4, <1>5, <1>6 DEF u

\* Something is found where there is a permission or a way to one, and its root
\* has the permission that is granted there.
LEMMA FindsSomething ==
  ASSUME NEW t, IsTree(t), NEW p \in Seq(STRING)
  PROVE  /\ Find(t, p) # Nothing <=> Granted(t, p) # IndexOnly \/ p \in DOMAIN t
         /\ Find(t, p) # Nothing => Find(t, p)[<<>>] = Granted(t, p)
<1>1. DOMAIN Nothing = {}  BY DEF Nothing
<1>2. CASE Granted(t, p) # IndexOnly
  <2>1. Find(t, p) = Single(Granted(t, p))  BY <1>2, FindIs
  <2>2. \A g : DOMAIN Single(g) = {<<>>} /\ Single(g)[<<>>] = g  BY DEF Single
  <2>3. DOMAIN Find(t, p) = {<<>>} /\ Find(t, p)[<<>>] = Granted(t, p)  BY <2>1, <2>2
  <2>. QED  BY <1>1, <1>2, <2>3
<1>3. CASE Granted(t, p) = IndexOnly /\ p \notin DOMAIN t
  <2>1. Find(t, p) = Nothing  BY <1>3, FindIs
  <2>. QED  BY <1>3, <2>1
<1>4. CASE Granted(t, p) = IndexOnly /\ p \in DOMAIN t
  <2>1. Find(t, p) = Subtree(t, p)  BY <1>4, FindIs
  <2>2. <<>> \in DOMAIN Find(t, p) /\ Find(t, p)[<<>>] = t[p]  BY <1>4, <2>1, SubtreeIs
  <2>3. IsPrefix(p, p)  BY PrefixOrder
  <2>4. p \in Prefixes(p)  BY <2>3, PrefixesArePrefixes
  <2>5. Having(t, p) = {}  BY <1>4, GrantedIs
  <2>6. t[p] = IndexOnly  BY <1>4, <2>4, <2>5 DEF Having
  <2>. QED  BY <1>1, <1>4, <2>2, <2>6
<1>. QED  BY <1>2, <1>3, <1>4

\* What is granted somewhere is granted below, in whatever way.
LEMMA GrantedBelow ==
  ASSUME NEW t, NEW p \in Seq(STRING), NEW q \in Seq(STRING), IsPrefix(p, q),
         Granted(t, p) # IndexOnly
  PROVE  Granted(t, q) # IndexOnly
<1>1. Having(t, p) # {}  BY GrantedIs
<1>2. Having(t, q) # {}  BY <1>1, StillGranted
<1>. QED  BY <1>2, GrantedIs

\* At a permission, below it, and on the way to one, something is found.
LEMMA FoundOnTheWay ==
  ASSUME NEW t, IsTree(t), NEW r \in DOMAIN t, NEW q \in Seq(STRING), IsPrefix(q, r)
  PROVE  Find(t, q) # Nothing
<1>1. r \in Seq(STRING)  BY DEF IsTree
<1>2. q \in Prefixes(r)  BY <1>1, PrefixesArePrefixes
<1>3. q \in DOMAIN t  BY <1>2 DEF IsTree
<1>. QED  BY <1>3, FindsSomething

\* Above a grant a directory can be listed, and the next one on the way is
\* among its children.
THEOREM WayToGrant ==
  ASSUME NEW t, IsTree(t), NEW p \in Seq(STRING), Granted(t, p) # IndexOnly,
         NEW q \in Prefixes(p) \ {p}
  PROVE  /\ Find(t, q) # Nothing
         /\ Find(t, q)[<<>>] = IndexOnly => p[Len(q) + 1] \in ChildNames(Find(t, q))
<1>1. q \in Seq(STRING) /\ Len(q) \in 0..Len(p) /\ IsPrefix(q, p) /\ q = SubSeq(p, 1, Len(q))
  BY PrefixesByLength
<1>2. Len(p) \in Nat  BY LenProperties
<1>3. CASE Granted(t, q) # IndexOnly  BY <1>1, <1>3, FindsSomething
<1>4. CASE Granted(t, q) = IndexOnly
  <2>1. Having(t, p) # {} /\ Having(t, q) = {}  BY <1>1, <1>4, GrantedIs
  <2>2. PICK r \in Having(t, p) : TRUE  BY <2>1
  <2>3. r \in Prefixes(p) /\ r \in DOMAIN t /\ t[r] # IndexOnly  BY DEF Having
  <2>4. r \in Seq(STRING) /\ Len(r) \in 0..Len(p)  BY <2>3, PrefixesByLength
  <2>5. ~(Len(r) =< Len(q))
    <3> SUFFICES ASSUME Len(r) =< Len(q) PROVE FALSE  OBVIOUS
    <3>1. r \in Prefixes(q)  BY <2>3, PrefixesByLength
    <3>. QED  BY <2>1, <2>3, <3>1 DEF Having
  <2>6. Len(q) =< Len(r) /\ Len(q) < Len(p)  BY <1>1, <1>2, <2>4, <2>5
  <2>7. IsPrefix(q, r) /\ q \in Prefixes(r)  BY <2>3, <2>6, PrefixesByLength
  <2>8. q \in DOMAIN t  BY <2>3, <2>7 DEF IsTree
  <2>9. Find(t, q) = Subtree(t, q)  BY <1>1, <1>4, <2>8, FindIs
  <2> DEFINE u == SubSeq(r, Len(q) + 1, Len(r))
             n == Len(r) - Len(q)
  <2>10. u \in DOMAIN Find(t, q)  BY <2>3, <2>7, <2>8, <2>9, SubtreeIs
  <2>11. Len(u) = n /\ 1 \in 1..n
    <3>1. Len(u) = n  BY <1>1, <2>4, <2>7, RestOf
    <3>. QED  BY <1>1, <1>2, <2>4, <2>5, <3>1
  <2>12. u[1] = r[Len(q) + 1]  BY <1>1, <2>4, <2>7, <2>11, RestAt
  <2>13. r[Len(q) + 1] = p[Len(q) + 1]
    <3>1. IsPrefix(r, p)  BY <2>3, PrefixesByLength
    <3>2. Len(q) + 1 \in 1..Len(r)  BY <1>1, <1>2, <2>4, <2>5
    <3>. QED  BY <2>4, <3>1, <3>2, PrefixByElements
  <2> HIDE DEF u
  <2>14. u # <<>>  BY <2>11, EmptySeq
  <2>15. p[Len(q) + 1] \in ChildNames(Find(t, q))
    <3>1. u[1] \in ChildNames(Find(t, q))  BY <2>10, <2>14 DEF ChildNames
    <3>. QED  BY <2>12, <2>13, <3>1
  <2>. QED  BY <1>1, <2>8, <2>15, FindsSomething
<1>. QED  BY <1>3, <1>4

\* What a listing shows may be opened.
LEMMA ListedOpens ==
  ASSUME NEW t, IsTree(t), NEW p \in Seq(STRING), NEW q \in Seq(STRING),
         Find(t, p) # Nothing, IsPrefix(p, q), Len(q) = Len(p) + 1,
         Find(t, p)[<<>>] = IndexOnly => q[Len(q)] \in ChildNames(Find(t, p))
  PROVE  Find(t, q) # Nothing
<1>1. CASE Granted(t, p) # IndexOnly
  <2>1. Granted(t, q) # IndexOnly  BY <1>1, GrantedBelow
  <2>. QED  BY <2>1, FindsSomething
<1>2. CASE Granted(t, p) = IndexOnly
  <2>1. p \in DOMAIN t /\ Find(t, p)[<<>>] = IndexOnly  BY <1>2, FindsSomething
  <2>2. Find(t, p) = Subtree(t, p)  BY <1>2, <2>1, FindIs
  <2>3. PICK s \in DOMAIN Find(t, p) \ {<<>>} : s[1] = q[Len(q)]  BY <2>1 DEF ChildNames
  <2>4. s \in Seq(STRING) /\ p \o s \in DOMAIN t  BY <2>1, <2>2, <2>3, SubtreeIs
  <2> DEFINE c == p \o s
  <2>5. /\ c \in Seq(STRING) /\ Len(c) = Len(p) + Len(s) /\ Len(s) >= 1
        /\ \A i \in 1..Len(p) : c[i] = p[i]
        /\ c[Len(p) + 1] = q[Len(q)]
    BY <2>3, <2>4, Joined
  <2>6. c \in DOMAIN t  BY <2>4
  <2> HIDE DEF c
  <2>7. Len(p) \in Nat /\ Len(s) \in Nat  BY <2>4, LenProperties
  <2>8. \A i \in 1..Len(q) : q[i] = c[i]
    <3> SUFFICES ASSUME NEW i \in 1..Len(q) PROVE q[i] = c[i]  OBVIOUS
    <3>1. CASE i \in 1..Len(p)
      <4>1. p[i] = q[i]  BY <3>1, PrefixByElements
      <4>. QED  BY <2>5, <3>1, <4>1
    <3>2. CASE i = Len(q)  BY <2>5, <3>2
    <3>3. i \in 1..Len(p) \/ i = Len(q)  BY <2>7
    <3>. QED  BY <3>1, <3>2, <3>3
  <2>9. Len(q) =< Len(c)  BY <2>5, <2>7
  <2>10. IsPrefix(q, c)  BY <2>5, <2>8, <2>9, PrefixByElements
  <2>. QED  BY <2>6, <2>10, FoundOnTheWay
<1>. QED  BY <1>1, <1>2

\* What a search or an archive finds may be opened.
LEMMA CollectedOpens ==
  ASSUME NEW t, IsTree(t), NEW p \in Seq(STRING), NEW q \in Seq(STRING),
         Find(t, p) # Nothing, NEW e \in EntryPaths(Find(t, p)), IsPrefix(p \o e, q)
  PROVE  Find(t, q) # Nothing
<1>1. e \in DOMAIN Find(t, p) /\ Find(t, p)[e] # IndexOnly  BY DEF EntryPaths
<1>2. CASE Granted(t, p) # IndexOnly
  <2>1. Find(t, p) = Single(Granted(t, p))  BY <1>2, FindIs
  <2>2. \A g : DOMAIN Single(g) = {<<>>}  BY DEF Single
  <2>3. e = <<>>  BY <1>1, <2>1, <2>2
  <2>4. e \in Seq(STRING) /\ p \o e \in Seq(STRING) /\ IsPrefix(p, p \o e)
    BY <2>3, EmptySeq, Joined
  <2>5. IsPrefix(p, q)  BY <2>4, PrefixOrder
  <2>6. Granted(t, q) # IndexOnly  BY <1>2, <2>5, GrantedBelow
  <2>. QED  BY <2>6, FindsSomething
<1>3. CASE Granted(t, p) = IndexOnly
  <2>1. p \in DOMAIN t /\ Find(t, p) = Subtree(t, p)  BY <1>3, FindIs, FindsSomething
  <2>2. p \o e \in DOMAIN t /\ t[p \o e] # IndexOnly  BY <1>1, <2>1, SubtreeIs
  <2> DEFINE c == p \o e
  <2>3. c \in Seq(STRING) /\ c \in DOMAIN t /\ t[c] # IndexOnly /\ IsPrefix(c, q)
    BY <2>2 DEF IsTree
  <2> HIDE DEF c
  <2>4. IsPrefix(c, c)  BY <2>3, PrefixOrder
  <2>5. c \in Prefixes(c)  BY <2>3, <2>4, PrefixesArePrefixes
  <2>6. Having(t, c) # {}  BY <2>3, <2>5 DEF Having
  <2>7. Granted(t, c) # IndexOnly  BY <2>3, <2>6, GrantedIs
  <2>8. Granted(t, q) # IndexOnly  BY <2>3, <2>7, GrantedBelow
  <2>. QED  BY <2>8, FindsSomething
<1>. QED  BY <1>2, <1>3

-----------------------------------------------------------------------------
(* The rules of a share.                                                   *)

\* Users and visitors have trees.
LEMMA RulesHaveTrees ==
  ASSUME NEW own, NEW visitors, NEW rules, RulesOK(own, visitors, rules)
  PROVE  /\ DOMAIN rules.users = DOMAIN own
         /\ \A u \in DOMAIN own : IsTree(rules.users[u])
         /\ rules.anon = Nothing \/ IsTree(rules.anon)
<1>1. IsTree(MergeGrants(visitors)) /\ \A u \in DOMAIN own : IsTree(MergeGrants(own[u]))
  BY GrantsTree DEF RulesOK
<1>2. CASE rules = NoRules /\ DOMAIN own = {}
  <2>1. rules.users = <<>> /\ rules.anon = Single(ReadWrite)  BY <1>2 DEF NoRules
  <2>2. IsTree(Single(ReadWrite))  BY RootTree DEF Perms
  <2>3. DOMAIN <<>> = {}  OBVIOUS
  <2>. QED  BY <1>2, <2>1, <2>2, <2>3
<1>3. CASE rules = RulesOf(own, visitors)
  <2>1. /\ rules.users = [u \in DOMAIN own |-> AbsorbAnon(MergeGrants(own[u]), MergeGrants(visitors))]
        /\ rules.anon = MergeGrants(visitors)
    BY <1>3 DEF RulesOf
  <2>2. \A u \in DOMAIN own : IsTree(AbsorbAnon(MergeGrants(own[u]), MergeGrants(visitors)))
    BY <1>1, AbsorbTree
  <2>. QED  BY <1>1, <2>1, <2>2
<1>4. CASE rules = RulesWithoutVisitors(own)
  <2>1. /\ rules.users = [u \in DOMAIN own |-> MergeGrants(own[u])]
        /\ rules.anon = Nothing
    BY <1>4 DEF RulesWithoutVisitors
  <2>. QED  BY <1>1, <2>1
<1>. QED  BY <1>2, <1>3, <1>4 DEF RulesOK

\* What a user finds is what he was given or what every visitor may.
THEOREM MergedIs ==
  ASSUME NEW own, NEW visitors, NEW rules, RulesOK(own, visitors, rules),
         NEW u \in DOMAIN own, NEW p \in Seq(STRING)
  PROVE  LET t     == MergeGrants(own[u])
             v     == rules.anon
             alone == v = Nothing
                      \/ \E q \in Prefixes(p) \ DOMAIN v : q \in DOMAIN t /\ t[q] # IndexOnly
             got   == Find(rules.users[u], p)
         IN  (IF got = Nothing THEN IndexOnly ELSE got[<<>>]) =
             IF alone THEN Granted(t, p) ELSE Higher(Granted(t, p), Granted(v, p))
<1> DEFINE t == MergeGrants(own[u])
           v == rules.anon
           got == Find(rules.users[u], p)
           own_ == \E q \in Prefixes(p) \ DOMAIN v : q \in DOMAIN t /\ t[q] # IndexOnly
<1>1. IsTree(t) /\ IsTree(rules.users[u])  BY GrantsTree, RulesHaveTrees DEF RulesOK
<1>2. (IF got = Nothing THEN IndexOnly ELSE got[<<>>]) = Granted(rules.users[u], p)
  <2>1. got = Nothing => Granted(rules.users[u], p) = IndexOnly  BY <1>1, FindsSomething
  <2>2. got # Nothing => got[<<>>] = Granted(rules.users[u], p)  BY <1>1, FindsSomething
  <2>. QED  BY <2>1, <2>2
<1>3. CASE rules = RulesOf(own, visitors)
  <2>1. v = MergeGrants(visitors) /\ rules.users[u] = AbsorbAnon(t, MergeGrants(visitors))
    BY <1>3 DEF RulesOf
  <2>2. IsTree(v)  BY <2>1, GrantsTree DEF RulesOK
  <2>3. v # Nothing
    <3>1. DOMAIN Nothing = {}  BY DEF Nothing
    <3>. QED  BY <2>2, <3>1 DEF IsTree
  <2>4. rules.users[u] = AbsorbAnon(t, v)  BY <2>1
  <2> HIDE DEF t, v
  <2>5. own_ => Granted(rules.users[u], p) = Granted(t, p)
    BY <1>1, <2>2, <2>4, AloneBelow
  <2>6. ~own_ => Granted(rules.users[u], p) = Higher(Granted(t, p), Granted(v, p))
    <3> SUFFICES ASSUME ~own_
                 PROVE  Granted(rules.users[u], p) = Higher(Granted(t, p), Granted(v, p))
      OBVIOUS
    <3>1. \A q \in Prefixes(p) \ DOMAIN v : q \in DOMAIN t => t[q] = IndexOnly  OBVIOUS
    <3>. QED  BY <1>1, <2>2, <2>4, <3>1, HigherElsewhere
  <2> HIDE DEF got
  <2>. QED  BY <1>2, <2>3, <2>5, <2>6 DEF t, v, got
<1>4. CASE rules = RulesWithoutVisitors(own)
  <2>1. v = Nothing /\ rules.users[u] = t  BY <1>4 DEF RulesWithoutVisitors
  <2> HIDE DEF t, got
  <2>. QED  BY <1>2, <2>1 DEF t, got
<1>. QED  BY <1>3, <1>4 DEF RulesOK

\* Who stands behind a request at p: its user, also if a token speaks for him.
ReaderOf(rules, p, method, who) ==
  IF method = "GET" /\ TokenOpens(rules, who.token, p)
  THEN [login |-> who.token.user, right |-> TRUE, token |-> NoToken]
  ELSE [who EXCEPT !.token = NoToken]

\* Who may read somewhere is asked about the same tree everywhere.
LEMMA ReaderHasTree ==
  ASSUME NEW own, NEW visitors, NEW rules, RulesOK(own, visitors, rules),
         ~rules.open, NEW method \in {"GET", "HEAD", "PROPFIND"}, NEW p, NEW who,
         who = [login |-> who.login, right |-> who.right, token |-> who.token],
         Guard(rules, p, method, who).paths # Nothing
  PROVE  \E t :
           /\ IsTree(t) /\ Guard(rules, p, method, who).paths = Find(t, p)
           /\ \A q : Guard(rules, q, "GET", ReaderOf(rules, p, method, who)).paths = Find(t, q)
<1> DEFINE Users == DOMAIN rules.users
           named == [login |-> who.token.user, right |-> TRUE, token |-> NoToken]
           plain == [who EXCEPT !.token = NoToken]
           ByToken == method = "GET" /\ TokenOpens(rules, who.token, p)
<1>1. Nobody \notin Users /\ \A u \in Users : IsTree(rules.users[u])
  BY RulesHaveTrees DEF RulesOK
<1>2. rules.anon = Nothing \/ IsTree(rules.anon)  BY RulesHaveTrees
<1>3. \A t, q : Permit(t, q, "GET") = Find(t, q) /\ Permit(t, q, method) = Find(t, q)
  BY DEF Permit, IsReadonlyMethod
<1>4. method # "OPTIONS" /\ "GET" # "OPTIONS"  OBVIOUS
<1>5. \A q : ~TokenOpens(rules, NoToken, q)  BY <1>1 DEF TokenOpens, NoToken
<1>6. Refused.paths = Nothing  BY DEF Refused
<1>7. named.login = who.token.user /\ named.right = TRUE /\ named.token = NoToken
  OBVIOUS
<1>8. plain.login = who.login /\ plain.right = who.right /\ plain.token = NoToken
  OBVIOUS
<1>9. ReaderOf(rules, p, method, who) = IF ByToken THEN named ELSE plain  BY DEF ReaderOf
<1> HIDE DEF named, plain
<1>10. CASE ByToken
  <2> DEFINE t == rules.users[who.token.user]
  <2>1. who.token.user \in Users  BY <1>10 DEF TokenOpens
  <2>2. Guard(rules, p, method, who).paths = Permit(t, p, method)
    BY <1>10 DEF Guard
  <2>3. \A q : Guard(rules, q, "GET", named).paths = Permit(t, q, "GET")
    BY <1>1, <1>4, <1>5, <1>7, <2>1 DEF Guard
  <2> HIDE DEF t
  <2>4. IsTree(t)  BY <1>1, <2>1 DEF t
  <2>. QED  BY <1>3, <1>9, <1>10, <2>2, <2>3, <2>4
<1>11. CASE ~ByToken /\ who.login # Nobody
  <2> DEFINE t == rules.users[who.login]
  <2>1. who.login \in Users /\ who.right
    BY <1>4, <1>6, <1>11 DEF Guard
  <2>2. Guard(rules, p, method, who).paths = Permit(t, p, method)
    BY <1>4, <1>11, <2>1 DEF Guard
  <2>3. \A q : Guard(rules, q, "GET", plain).paths = Permit(t, q, "GET")
    BY <1>4, <1>5, <1>8, <1>11, <2>1 DEF Guard
  <2> HIDE DEF t
  <2>4. IsTree(t)  BY <1>1, <2>1 DEF t
  <2>. QED  BY <1>3, <1>9, <1>11, <2>2, <2>3, <2>4
<1>12. CASE ~ByToken /\ who.login = Nobody
  <2>1. rules.anon # Nothing
    BY <1>4, <1>6, <1>12 DEF Guard
  <2>2. Guard(rules, p, method, who).paths = Permit(rules.anon, p, method)
    BY <1>4, <1>12, <2>1 DEF Guard
  <2>3. \A q : Guard(rules, q, "GET", plain).paths = Permit(rules.anon, q, "GET")
    BY <1>4, <1>5, <1>8, <1>12, <2>1 DEF Guard
  <2>4. IsTree(rules.anon)  BY <1>2, <2>1
  <2>. QED  BY <1>3, <1>9, <1>12, <2>2, <2>3, <2>4
<1>. QED  BY <1>10, <1>11, <1>12

-----------------------------------------------------------------------------
(* Paths.                                                                  *)

\* The parent is the longest prefix but the path itself.
LEMMA ParentOf ==
  ASSUME NEW S, NEW p \in Seq(S), p # <<>>
  PROVE  /\ Parent(p) \in Seq(S) /\ Len(Parent(p)) = Len(p) - 1
         /\ \A i \in 1..Len(p) - 1 : Parent(p)[i] = p[i]
         /\ IsPrefix(Parent(p), p) /\ ~IsPrefix(p, Parent(p))
<1>1. Len(p) \in Nat \ {0}  BY EmptySeq
<1> DEFINE n == Len(p) - 1
<1>2. \A i \in 1..n : p[i] \in S
  <2> SUFFICES ASSUME NEW i \in 1..n PROVE p[i] \in S  OBVIOUS
  <2>1. i \in 1..Len(p)  BY <1>1
  <2>. QED  BY <2>1, ElementOfSeq
<1>3. n \in Nat  BY <1>1
<1>4. /\ SubSeq(p, 1, n) \in Seq(S) /\ Len(SubSeq(p, 1, n)) = IF 1 <= n THEN n - 1 + 1 ELSE 0
      /\ \A i \in 1..n - 1 + 1 : SubSeq(p, 1, n)[i] = p[1 + i - 1]
  <2> HIDE DEF n
  <2>. QED  BY <1>2, <1>3, SubSeqProperties
<1>5. Parent(p) = SubSeq(p, 1, n)  BY DEF Parent
<1> HIDE DEF n
<1>6. Parent(p) \in Seq(S) /\ Len(Parent(p)) = n  BY <1>3, <1>4, <1>5
<1>7. \A i \in 1..n : Parent(p)[i] = p[i]
  <2> SUFFICES ASSUME NEW i \in 1..n PROVE Parent(p)[i] = p[i]  OBVIOUS
  <2>1. i \in 1..n - 1 + 1 /\ 1 + i - 1 = i  BY <1>3
  <2>. QED  BY <2>1, <1>4, <1>5
<1>8. IsPrefix(Parent(p), p)
  BY <1>1, <1>6, <1>7, PrefixByElements DEF n
<1>9. ~IsPrefix(p, Parent(p))
  BY <1>1, <1>6, PrefixByElements DEF n
<1>. QED  BY <1>6, <1>7, <1>8, <1>9 DEF n

\* What is a prefix of a path is the path or a prefix of its parent.
LEMMA PrefixOfParent ==
  ASSUME NEW S, NEW s \in Seq(S), NEW p \in Seq(S), p # <<>>
  PROVE  /\ IsPrefix(s, Parent(p)) => IsPrefix(s, p)
         /\ IsPrefix(s, p) => s = p \/ IsPrefix(s, Parent(p))
<1>1. Len(s) \in Nat /\ Len(p) \in Nat \ {0}  BY EmptySeq, LenProperties
<1>2. /\ Parent(p) \in Seq(S) /\ Len(Parent(p)) = Len(p) - 1
      /\ \A i \in 1..Len(p) - 1 : Parent(p)[i] = p[i]
      /\ IsPrefix(Parent(p), p)
  BY ParentOf
<1>3. IsPrefix(s, Parent(p)) => IsPrefix(s, p)  BY <1>2, PrefixOrder
<1>4. ASSUME IsPrefix(s, p), Len(s) # Len(p) PROVE IsPrefix(s, Parent(p))
  <2>1. Len(s) =< Len(p) /\ \A i \in 1..Len(s) : s[i] = p[i]  BY <1>4, PrefixByElements
  <2>2. Len(s) =< Len(p) - 1  BY <1>1, <1>4, <2>1
  <2>3. \A i \in 1..Len(s) : s[i] = Parent(p)[i]  BY <1>1, <1>2, <2>1, <2>2
  <2>. QED  BY <1>2, <2>2, <2>3, PrefixByElements
<1>5. ASSUME IsPrefix(s, p), Len(s) = Len(p) PROVE s = p
  <2>1. \A i \in 1..Len(s) : s[i] = p[i]  BY <1>5, PrefixByElements
  <2>. QED  BY <1>5, <2>1, SeqEqual
<1>. QED  BY <1>3, <1>4, <1>5

\* Where the path r, at or below q, was before q was given to what was at p.
Origin(p, q, r) == p \o SubSeq(r, Len(q) + 1, Len(r))

\* Where a path below q comes from when p is renamed to q is a path.
LEMMA OriginIsPath ==
  ASSUME NEW S, NEW p \in Seq(S), NEW q \in Seq(S), NEW r \in Seq(S), IsPrefix(q, r)
  PROVE  Origin(p, q, r) \in Seq(S)
<1>1. SubSeq(r, Len(q) + 1, Len(r)) \in Seq(S)  BY RestOf
<1>. QED  BY <1>1, ConcatProperties DEF Origin

\* It is as far below p as the path is below q.
LEMMA OriginLength ==
  ASSUME NEW S, NEW p \in Seq(S), NEW q \in Seq(S), NEW r \in Seq(S), IsPrefix(q, r)
  PROVE  Len(Origin(p, q, r)) = Len(p) + (Len(r) - Len(q))
<1> DEFINE u == SubSeq(r, Len(q) + 1, Len(r))
<1>1. u \in Seq(S) /\ Len(u) = Len(r) - Len(q)  BY RestOf
<1> HIDE DEF u
<1>2. Len(p \o u) = Len(p) + Len(u)  BY <1>1, ConcatProperties
<1>. QED  BY <1>1, <1>2 DEF Origin, u

\* Its names are those of p, then those below q.
LEMMA OriginElements ==
  ASSUME NEW S, NEW p \in Seq(S), NEW q \in Seq(S), NEW r \in Seq(S), IsPrefix(q, r)
  PROVE  /\ \A i \in 1..Len(p) : Origin(p, q, r)[i] = p[i]
         /\ \A i \in 1..Len(r) - Len(q) : Origin(p, q, r)[Len(p) + i] = r[Len(q) + i]
<1> DEFINE n == Len(r) - Len(q)
           u == SubSeq(r, Len(q) + 1, Len(r))
<1>1. Len(p) \in Nat /\ Len(q) \in Nat /\ Len(r) \in Nat /\ Len(q) =< Len(r)
  BY LenProperties DEF IsPrefix
<1>3. u \in Seq(S) /\ Len(u) = n  BY RestOf
<1>5. \A i \in 1..n : u[i] = r[Len(q) + i]  BY RestAt
<1> HIDE DEF u
<1>6. \A i \in 1..Len(p) + Len(u) :
           (p \o u)[i] = IF i <= Len(p) THEN p[i] ELSE u[i - Len(p)]
  BY <1>3, ConcatProperties
<1>7. Origin(p, q, r) = p \o u  BY DEF Origin, u
<1>8. \A i \in 1..Len(p) : (p \o u)[i] = p[i]
  <2> SUFFICES ASSUME NEW i \in 1..Len(p) PROVE (p \o u)[i] = p[i]  OBVIOUS
  <2>1. i \in 1..Len(p) + Len(u) /\ i <= Len(p)  BY <1>1, <1>3
  <2>. QED  BY <2>1, <1>6
<1>9. \A i \in 1..n : (p \o u)[Len(p) + i] = r[Len(q) + i]
  <2> SUFFICES ASSUME NEW i \in 1..n PROVE (p \o u)[Len(p) + i] = r[Len(q) + i]  OBVIOUS
  <2>1. Len(p) + i \in 1..Len(p) + Len(u) /\ ~(Len(p) + i <= Len(p)) /\ Len(p) + i - Len(p) = i
    BY <1>1, <1>3
  <2>2. (p \o u)[Len(p) + i] = u[i]  BY <2>1, <1>6
  <2>. QED  BY <2>2, <1>5
<1>. QED  BY <1>7, <1>8, <1>9

\* It begins like p.
LEMMA OriginHead ==
  ASSUME NEW S, NEW p \in Seq(S), NEW q \in Seq(S), NEW r \in Seq(S), IsPrefix(q, r),
         NEW i \in 1..Len(p)
  PROVE  Origin(p, q, r)[i] = p[i]
BY OriginElements

\* It goes on like the path.
LEMMA OriginTail ==
  ASSUME NEW S, NEW p \in Seq(S), NEW q \in Seq(S), NEW r \in Seq(S), IsPrefix(q, r),
         NEW i \in 1..Len(r) - Len(q)
  PROVE  Origin(p, q, r)[Len(p) + i] = r[Len(q) + i]
BY OriginElements

\* It is below p.
LEMMA OriginIsBelow ==
  ASSUME NEW S, NEW p \in Seq(S), NEW q \in Seq(S), NEW r \in Seq(S), IsPrefix(q, r)
  PROVE  IsPrefix(p, Origin(p, q, r))
<1>1. Len(p) \in Nat /\ Len(q) \in Nat /\ Len(r) \in Nat /\ Len(q) =< Len(r)
  BY LenProperties DEF IsPrefix
<1>2. Origin(p, q, r) \in Seq(S)  BY OriginIsPath
<1>3. Len(Origin(p, q, r)) = Len(p) + (Len(r) - Len(q))  BY OriginLength
<1>4. \A i \in 1..Len(p) : Origin(p, q, r)[i] = p[i]  BY OriginHead
<1>. QED  BY SMTT(30), <1>1, <1>2, <1>3, <1>4, PrefixByElements

\* Nothing is moved from one path to two.
LEMMA OriginIsUnique ==
  ASSUME NEW S, NEW p \in Seq(S), NEW q \in Seq(S), NEW r \in Seq(S), NEW s \in Seq(S),
         IsPrefix(q, r), IsPrefix(q, s), Origin(p, q, r) = Origin(p, q, s)
  PROVE  r = s
<1>1. /\ Len(p) \in Nat /\ Len(q) \in Nat /\ Len(r) \in Nat /\ Len(s) \in Nat
      /\ Len(q) =< Len(r) /\ Len(q) =< Len(s)
  BY LenProperties DEF IsPrefix
<1>2. /\ Len(Origin(p, q, r)) = Len(p) + (Len(r) - Len(q))
      /\ Len(Origin(p, q, s)) = Len(p) + (Len(s) - Len(q))
  BY OriginLength
<1>3. Len(r) = Len(s)  BY <1>1, <1>2
<1>4. ASSUME NEW i \in 1..Len(r) PROVE r[i] = s[i]
  <2>1. CASE i =< Len(q)
    <3>1. i \in 1..Len(q)  BY <1>1, <2>1
    <3>2. q[i] = r[i] /\ q[i] = s[i]  BY <3>1, PrefixByElements
    <3>. QED  BY <3>2
  <2>2. CASE ~(i =< Len(q))
    <3> DEFINE j == i - Len(q)
    <3>1. j \in 1..Len(r) - Len(q) /\ j \in 1..Len(s) - Len(q) /\ Len(q) + j = i
      BY <1>1, <1>3, <2>2
    <3> HIDE DEF j
    <3>2. Origin(p, q, r)[Len(p) + j] = r[Len(q) + j]  BY <3>1, OriginTail
    <3>3. Origin(p, q, s)[Len(p) + j] = s[Len(q) + j]  BY <3>1, OriginTail
    <3>. QED  BY <3>1, <3>2, <3>3
  <2>. QED  BY <2>1, <2>2
<1>. QED  BY <1>3, <1>4, SeqEqual

\* Directories move with what is in them.
LEMMA OriginOfParent ==
  ASSUME NEW S, NEW p \in Seq(S), NEW q \in Seq(S), NEW r \in Seq(S),
         IsPrefix(q, r), r # q
  PROVE  /\ r # <<>> /\ IsPrefix(q, Parent(r))
         /\ Origin(p, q, r) # <<>>
         /\ Parent(Origin(p, q, r)) = Origin(p, q, Parent(r))
<1>1. /\ Len(p) \in Nat /\ Len(q) \in Nat /\ Len(r) \in Nat /\ Len(q) =< Len(r)
      /\ \A i \in 1..Len(q) : q[i] = r[i]
  BY LenProperties, PrefixByElements
<1>2. Len(q) # Len(r)  BY <1>1, SeqEqual
<1>3. r # <<>>  BY <1>1, <1>2, EmptySeq
<1>4. IsPrefix(q, Parent(r))  BY <1>3, PrefixOfParent
<1> DEFINE o == Origin(p, q, r)
           u == Origin(p, q, Parent(r))
<1>5. /\ Parent(r) \in Seq(S) /\ Len(Parent(r)) = Len(r) - 1
      /\ \A i \in 1..Len(r) - 1 : Parent(r)[i] = r[i]
  BY <1>3, ParentOf
<1>6. o \in Seq(S) /\ Len(o) = Len(p) + (Len(r) - Len(q))  BY OriginIsPath, OriginLength
<1>7. u \in Seq(S) /\ Len(u) = Len(p) + (Len(Parent(r)) - Len(q))
  BY <1>4, <1>5, OriginIsPath, OriginLength
<1>13. (\A i \in 1..Len(p) : o[i] = p[i]) /\ (\A i \in 1..Len(p) : u[i] = p[i])
  BY <1>4, <1>5, OriginHead
<1>14. \A i \in 1..Len(r) - Len(q) : o[Len(p) + i] = r[Len(q) + i]  BY OriginTail
<1>15. \A i \in 1..Len(Parent(r)) - Len(q) : u[Len(p) + i] = Parent(r)[Len(q) + i]
  BY <1>4, <1>5, OriginTail
<1> HIDE DEF o, u
<1>8. o # <<>>  BY <1>1, <1>2, <1>6, EmptySeq
<1>9. /\ Parent(o) \in Seq(S) /\ Len(Parent(o)) = Len(o) - 1
      /\ \A i \in 1..Len(o) - 1 : Parent(o)[i] = o[i]
  BY <1>6, <1>8, ParentOf
<1>10. Len(Parent(o)) = Len(u)  BY <1>1, <1>5, <1>6, <1>7, <1>9
<1>11. ASSUME NEW i \in 1..Len(u) PROVE Parent(o)[i] = u[i]
  <2>1. Parent(o)[i] = o[i]  BY <1>1, <1>9, <1>10
  <2>2. CASE i =< Len(p)
    <3>1. i \in 1..Len(p)  BY <1>1, <2>2
    <3>. QED  BY <3>1, <2>1, <1>13
  <2>3. CASE ~(i =< Len(p))
    <3> DEFINE j == i - Len(p)
    <3>1. /\ j \in 1..Len(r) - Len(q) /\ j \in 1..Len(Parent(r)) - Len(q)
          /\ Len(p) + j = i /\ Len(q) + j \in 1..Len(r) - 1
      BY <1>1, <1>5, <1>7, <2>3
    <3> HIDE DEF j
    <3>2. o[Len(p) + j] = r[Len(q) + j] /\ u[Len(p) + j] = Parent(r)[Len(q) + j]
      BY <3>1, <1>14, <1>15
    <3>3. Parent(r)[Len(q) + j] = r[Len(q) + j]  BY <3>1, <1>5
    <3>. QED  BY <2>1, <3>1, <3>2, <3>3
  <2>. QED  BY <2>2, <2>3
<1>12. Parent(o) = u  BY <1>7, <1>9, <1>10, <1>11, SeqEqual
<1>. QED  BY <1>3, <1>4, <1>8, <1>12 DEF o, u

-----------------------------------------------------------------------------
(* Trees: what the entries of a disk must look like.                       *)

\* What is assumed of the paths.
LEMMA PathTypes == Paths \subseteq Seq(STRING) /\ <<>> \in Paths
BY FileRequestsAssumption

\* The parent of a path is a path, and a proper prefix.
LEMMA ParentIsPath ==
  ASSUME NEW p \in Paths, p # <<>>
  PROVE  /\ Parent(p) \in Paths /\ Parent(p) # p
         /\ IsPrefix(Parent(p), p) /\ ~IsPrefix(p, Parent(p))
<1>1. p \in Seq(STRING)  BY PathTypes
<1>2. /\ Parent(p) \in Seq(STRING)
      /\ IsPrefix(Parent(p), p) /\ ~IsPrefix(p, Parent(p))
  BY <1>1, ParentOf
<1>3. Parent(p) \in Prefixes(p)  BY <1>1, <1>2, PrefixesArePrefixes
<1>4. IsPrefix(p, p)  BY <1>1, PrefixOrder
<1>. QED  BY <1>2, <1>3, <1>4, FileRequestsAssumption

\* Paths are ordered by prefix.
LEMMA PathOrder ==
  ASSUME NEW p \in Paths, NEW q \in Paths, NEW r \in Paths
  PROVE  /\ IsPrefix(p, p)
         /\ IsPrefix(p, q) /\ IsPrefix(q, r) => IsPrefix(p, r)
         /\ IsPrefix(p, q) /\ IsPrefix(q, p) => p = q
BY PathTypes, PrefixOrder

\* Below a path is what has its parent there, or is the path.
LEMMA BelowParent ==
  ASSUME NEW p \in Paths, NEW q \in Paths, q # <<>>
  PROVE  /\ IsPrefix(p, Parent(q)) => IsPrefix(p, q)
         /\ IsPrefix(p, q) => p = q \/ IsPrefix(p, Parent(q))
BY PathTypes, PrefixOfParent

\* Two paths below q do not come from the same one.
LEMMA MovedOnce ==
  ASSUME NEW p \in Paths, NEW q \in Paths, NEW r \in Paths, NEW s \in Paths,
         IsPrefix(q, r), IsPrefix(q, s), Origin(p, q, r) = Origin(p, q, s)
  PROVE  r = s
BY PathTypes, OriginIsUnique

\* What is below q after a renaming was below p.
LEMMA MovedFromBelow ==
  ASSUME NEW p \in Paths, NEW q \in Paths, NEW r \in Paths, IsPrefix(q, r)
  PROVE  IsPrefix(p, Origin(p, q, r))
BY PathTypes, OriginIsBelow

\* A path below q comes with its parent.
LEMMA MovedWithParent ==
  ASSUME NEW p \in Paths, NEW q \in Paths, NEW r \in Paths, IsPrefix(q, r), r # q,
         Origin(p, q, r) \in Paths
  PROVE  /\ r # <<>> /\ IsPrefix(q, Parent(r)) /\ Origin(p, q, r) # <<>>
         /\ Parent(Origin(p, q, r)) = Origin(p, q, Parent(r))
         /\ Origin(p, q, Parent(r)) \in Paths
<1>1. p \in Seq(STRING) /\ q \in Seq(STRING) /\ r \in Seq(STRING)  BY PathTypes
<1>2. r # <<>> /\ IsPrefix(q, Parent(r))  BY <1>1, OriginOfParent
<1>3. Origin(p, q, r) # <<>>  BY <1>1, OriginOfParent
<1>4. Parent(Origin(p, q, r)) = Origin(p, q, Parent(r))  BY <1>1, OriginOfParent
<1>5. Parent(Origin(p, q, r)) \in Paths  BY <1>3, ParentIsPath
<1>. QED  BY <1>2, <1>3, <1>4, <1>5

Entries == [Paths -> {Absent, Folder} \cup Files]

TreeOK(en) ==
  /\ en \in Entries
  /\ \A p, q \in Paths : IsFile(en[p]) /\ en[p] = en[q] => p = q
  /\ \A p \in Paths : en[p] # Absent /\ p # <<>> => en[Parent(p)] = Folder

\* Nothing, a directory and a file are told apart by their numbers.
LEMMA Numbers == /\ Absent \notin Files /\ Folder \notin Files /\ Absent # Folder
                 /\ ~IsFile(Absent) /\ ~IsFile(Folder)
                 /\ \A f \in Files : IsFile(f)
BY FileRequestsAssumption DEF Absent, Folder, Files, IsFile

\* Whatever stands in a tree is nothing, a directory or a file.
LEMMA EntryKinds ==
  ASSUME NEW en \in Entries, NEW p \in Paths
  PROVE  /\ en[p] = Absent \/ en[p] = Folder \/ en[p] \in Files
         /\ IsFile(en[p]) <=> en[p] \in Files
BY Numbers DEF Entries

\* Making the directories on a path where there is no file.
Dirs(en, p) == [q \in Paths |-> IF IsPrefix(q, p) THEN Folder ELSE en[q]]

\* fs::create_dir_all leaves a tree, if no file is in its way.
LEMMA DirsTree ==
  ASSUME NEW en, TreeOK(en), NEW p \in Paths
  PROVE  TreeOK(Dirs(en, p))
<1> DEFINE new == Dirs(en, p)
<1>1. en \in Entries  BY DEF TreeOK
<1>2. \A q \in Paths : new[q] = IF IsPrefix(q, p) THEN Folder ELSE en[q]  BY DEF Dirs
<1>3. new \in Entries  BY <1>1 DEF Dirs, Entries
<1> HIDE DEF new
<1>4. ASSUME NEW q \in Paths, NEW r \in Paths, IsFile(new[q]), new[q] = new[r]
      PROVE  q = r
  <2>1. new[q] = en[q] /\ new[r] = en[r]  BY <1>2, <1>4, Numbers
  <2>. QED  BY <2>1, <1>4 DEF TreeOK
<1>5. ASSUME NEW q \in Paths, new[q] # Absent, q # <<>>
      PROVE  new[Parent(q)] = Folder
  <2>1. Parent(q) \in Paths /\ IsPrefix(Parent(q), q)  BY <1>5, ParentIsPath
  <2>2. CASE IsPrefix(q, p)
    <3>1. IsPrefix(Parent(q), p)  BY <2>1, <2>2, PathOrder
    <3>. QED  BY <3>1, <2>1, <1>2
  <2>3. CASE ~IsPrefix(q, p)
    <3>1. en[Parent(q)] = Folder  BY <2>3, <1>2, <1>5 DEF TreeOK
    <3>. QED  BY <3>1, <2>1, <1>2
  <2>. QED  BY <2>2, <2>3
<1>6. TreeOK(new)  BY <1>3, <1>4, <1>5 DEF TreeOK
<1>. QED  BY <1>6 DEF new

\* Removing a path with what is below it.
Pruned(en, p) == [q \in Paths |-> IF IsPrefix(p, q) THEN Absent ELSE en[q]]

\* fs::remove_dir_all leaves a tree.
LEMMA PrunedTree ==
  ASSUME NEW en, TreeOK(en), NEW p \in Paths
  PROVE  TreeOK(Pruned(en, p))
<1> DEFINE new == Pruned(en, p)
<1>1. en \in Entries  BY DEF TreeOK
<1>2. \A q \in Paths : new[q] = IF IsPrefix(p, q) THEN Absent ELSE en[q]  BY DEF Pruned
<1>3. new \in Entries  BY <1>1 DEF Pruned, Entries
<1> HIDE DEF new
<1>4. ASSUME NEW q \in Paths, NEW r \in Paths, IsFile(new[q]), new[q] = new[r]
      PROVE  q = r
  <2>1. new[q] = en[q] /\ new[r] = en[r]  BY <1>2, <1>4, Numbers
  <2>. QED  BY <2>1, <1>4 DEF TreeOK
<1>5. ASSUME NEW q \in Paths, new[q] # Absent, q # <<>>
      PROVE  new[Parent(q)] = Folder
  <2>1. Parent(q) \in Paths  BY <1>5, ParentIsPath
  <2>2. ~IsPrefix(p, q) /\ new[q] = en[q]  BY <1>2, <1>5
  <2>3. ~IsPrefix(p, Parent(q))  BY <2>2, <1>5, BelowParent
  <2>4. en[Parent(q)] = Folder  BY <2>2, <1>5 DEF TreeOK
  <2>. QED  BY <2>1, <2>3, <2>4, <1>2
<1>6. TreeOK(new)  BY <1>3, <1>4, <1>5 DEF TreeOK
<1>. QED  BY <1>6 DEF new

\* A path that is no directory gets a file that has no other path, or loses it.
LEMMA PlacedTree ==
  ASSUME NEW en, TreeOK(en), NEW p \in Paths, NEW e \in Files \cup {Absent},
         en[p] # Folder,
         e \in Files => /\ \A q \in Paths : en[q] # e
                        /\ p = <<>> \/ en[Parent(p)] = Folder
  PROVE  TreeOK([en EXCEPT ![p] = e])
<1> DEFINE new == [en EXCEPT ![p] = e]
<1>1. en \in Entries  BY DEF TreeOK
<1>2. \A q \in Paths : new[q] = IF q = p THEN e ELSE en[q]  BY <1>1 DEF Entries
<1>3. new \in Entries  BY <1>1 DEF Entries
<1> HIDE DEF new
<1>4. ASSUME NEW q \in Paths, NEW r \in Paths, IsFile(new[q]), new[q] = new[r]
      PROVE  q = r
  <2>1. CASE q = p /\ r # p  BY <2>1, <1>2, <1>4, Numbers
  <2>2. CASE q # p /\ r = p  BY <2>2, <1>2, <1>4, Numbers
  <2>3. CASE q # p /\ r # p  BY <2>3, <1>2, <1>4 DEF TreeOK
  <2>. QED  BY <2>1, <2>2, <2>3
<1>5. ASSUME NEW q \in Paths, new[q] # Absent, q # <<>>
      PROVE  new[Parent(q)] = Folder
  <2>1. Parent(q) \in Paths /\ Parent(q) # q  BY <1>5, ParentIsPath
  <2>2. CASE q = p
    <3>1. e \in Files  BY <2>2, <1>2, <1>5
    <3>2. en[Parent(p)] = Folder  BY <3>1, <2>2, <1>5
    <3>. QED  BY <3>2, <2>1, <2>2, <1>2
  <2>3. CASE q # p
    <3>1. en[Parent(q)] = Folder  BY <2>3, <1>2, <1>5 DEF TreeOK
    <3>. QED  BY <3>1, <2>1, <1>2
  <2>. QED  BY <2>2, <2>3
<1>6. TreeOK(new)  BY <1>3, <1>4, <1>5 DEF TreeOK
<1>. QED  BY <1>6 DEF new

\* What is at p, with what is below it, comes to be at q, in place of what is there.
Moved(en, p, q) ==
  [r \in Paths |-> IF IsPrefix(q, r)
                   THEN IF Origin(p, q, r) \in Paths THEN en[Origin(p, q, r)] ELSE Absent
                   ELSE IF IsPrefix(p, r) THEN Absent ELSE en[r]]

\* fs::rename leaves a tree.
LEMMA MovedTree ==
  ASSUME NEW en, TreeOK(en), NEW p \in Paths, NEW q \in Paths,
         q # <<>>, en[Parent(q)] = Folder, ~IsPrefix(p, q)
  PROVE  TreeOK(Moved(en, p, q))
<1> DEFINE new == Moved(en, p, q)
<1>1. en \in Entries  BY DEF TreeOK
<1>2. ASSUME NEW r \in Paths
      PROVE  /\ IsPrefix(q, r) /\ Origin(p, q, r) \in Paths => new[r] = en[Origin(p, q, r)]
             /\ IsPrefix(q, r) /\ Origin(p, q, r) \notin Paths => new[r] = Absent
             /\ ~IsPrefix(q, r) /\ IsPrefix(p, r) => new[r] = Absent
             /\ ~IsPrefix(q, r) /\ ~IsPrefix(p, r) => new[r] = en[r]
  BY DEF Moved
<1>3. new \in Entries  BY <1>1 DEF Moved, Entries
<1> HIDE DEF new
<1>4. ASSUME NEW r \in Paths, NEW s \in Paths, IsPrefix(q, r), IsFile(new[r]),
             new[r] = new[s]
      PROVE  r = s
  <2>1. Origin(p, q, r) \in Paths /\ new[r] = en[Origin(p, q, r)]  BY <1>2, <1>4, Numbers
  <2>2. CASE IsPrefix(q, s)
    <3>1. Origin(p, q, s) \in Paths /\ new[s] = en[Origin(p, q, s)]
      BY <1>2, <1>4, <2>2, Numbers
    <3>2. Origin(p, q, r) = Origin(p, q, s)  BY <2>1, <3>1, <1>4 DEF TreeOK
    <3>. QED  BY <3>2, <2>2, <1>4, MovedOnce
  <2>3. CASE ~IsPrefix(q, s)
    <3>1. ~IsPrefix(p, s) /\ new[s] = en[s]  BY <1>2, <1>4, <2>3, Numbers
    <3>2. Origin(p, q, r) = s  BY <2>1, <3>1, <1>4 DEF TreeOK
    <3>3. IsPrefix(p, Origin(p, q, r))  BY <1>4, MovedFromBelow
    <3>. QED  BY <3>1, <3>2, <3>3
  <2>. QED  BY <2>2, <2>3
<1>5. ASSUME NEW r \in Paths, NEW s \in Paths, IsFile(new[r]), new[r] = new[s]
      PROVE  r = s
  <2>1. CASE IsPrefix(q, r)  BY <2>1, <1>4, <1>5
  <2>2. CASE IsPrefix(q, s)  BY <2>2, <1>4, <1>5
  <2>3. CASE ~IsPrefix(q, r) /\ ~IsPrefix(q, s)
    <3>1. new[r] = en[r] /\ new[s] = en[s]  BY <2>3, <1>2, <1>5, Numbers
    <3>. QED  BY <3>1, <1>5 DEF TreeOK
  <2>. QED  BY <2>1, <2>2, <2>3
<1>6. ASSUME NEW r \in Paths, new[r] # Absent, r # <<>>
      PROVE  new[Parent(r)] = Folder
  <2>1. Parent(r) \in Paths  BY <1>6, ParentIsPath
  <2>2. CASE r = q
    <3>1. ~IsPrefix(q, Parent(q))  BY <2>2, <1>6, ParentIsPath
    <3>2. ~IsPrefix(p, Parent(q))  BY <2>2, <1>6, BelowParent
    <3>3. new[Parent(q)] = en[Parent(q)]  BY <3>1, <3>2, <2>1, <2>2, <1>2
    <3>. QED  BY <3>3, <2>2
  <2>3. CASE IsPrefix(q, r) /\ r # q
    <3>1. Origin(p, q, r) \in Paths /\ new[r] = en[Origin(p, q, r)]  BY <2>3, <1>2, <1>6
    <3>2. /\ IsPrefix(q, Parent(r)) /\ Origin(p, q, r) # <<>>
          /\ Parent(Origin(p, q, r)) = Origin(p, q, Parent(r))
          /\ Origin(p, q, Parent(r)) \in Paths
      BY <2>3, <3>1, MovedWithParent
    <3>3. en[Origin(p, q, Parent(r))] = Folder  BY <3>1, <3>2, <1>6 DEF TreeOK
    <3>. QED  BY <3>2, <3>3, <2>1, <1>2
  <2>4. CASE ~IsPrefix(q, r)
    <3>1. ~IsPrefix(p, r) /\ new[r] = en[r]  BY <2>4, <1>2, <1>6
    <3>2. ~IsPrefix(q, Parent(r)) /\ ~IsPrefix(p, Parent(r))
      BY <2>4, <3>1, <1>6, BelowParent
    <3>3. en[Parent(r)] = Folder  BY <3>1, <1>6 DEF TreeOK
    <3>. QED  BY <3>2, <3>3, <2>1, <1>2
  <2>. QED  BY <2>2, <2>3, <2>4
<1>7. TreeOK(new)  BY <1>3, <1>5, <1>6 DEF TreeOK
<1>. QED  BY <1>7 DEF new

-----------------------------------------------------------------------------
(* Disks: what the operations on them make of one.                         *)

Disks == [entry : Entries, data : [Files -> Seq(Blocks)], stamp : [Files -> Nat]]

DiskOK(d, now) ==
  /\ d \in Disks
  /\ TreeOK(d.entry)
  /\ now \in Nat /\ \A f \in Files : d.stamp[f] =< now

\* Only the entries of d differ from those of a disk that is in order.
LEMMA OtherEntries ==
  ASSUME NEW d, NEW now, DiskOK(d, now), NEW en, TreeOK(en)
  PROVE  DiskOK([d EXCEPT !.entry = en], now)
<1>1. d \in Disks /\ en \in Entries  BY DEF DiskOK, TreeOK
<1> DEFINE new == [d EXCEPT !.entry = en]
<1>2. new \in Disks /\ new.entry = en /\ new.stamp = d.stamp  BY <1>1 DEF Disks
<1> HIDE DEF new
<1>3. DiskOK(new, now)  BY <1>2 DEF DiskOK
<1>. QED  BY <1>3 DEF new

\* Making directories is a matter of the entries.
LEMMA MakeDirsIs ==
  ASSUME NEW d \in Disks, NEW p \in Paths
  PROVE  /\ MakeDirs(d, p) = [d EXCEPT !.entry = Dirs(d.entry, p)]
         /\ MakeDirs(d, p).entry = Dirs(d.entry, p) /\ MakeDirs(d, p).data = d.data
BY DEF MakeDirs, Dirs, Disks

\* So is removing a path.
LEMMA ClearedIs ==
  ASSUME NEW d \in Disks, NEW p \in Paths
  PROVE  /\ Cleared(d, p) = [d EXCEPT !.entry = Pruned(d.entry, p)]
         /\ Cleared(d, p).entry = Pruned(d.entry, p) /\ Cleared(d, p).data = d.data
BY DEF Cleared, Pruned, Disks

\* So is renaming one.
LEMMA RenamedIs ==
  ASSUME NEW d \in Disks, NEW p \in Paths, NEW q \in Paths, p # q
  PROVE  /\ Renamed(d, p, q) = [d EXCEPT !.entry = Moved(d.entry, p, q)]
         /\ Renamed(d, p, q).entry = Moved(d.entry, p, q) /\ Renamed(d, p, q).data = d.data
BY DEF Renamed, Moved, Origin, Disks

\* So is giving a path another entry.
LEMMA WithEntryIs ==
  ASSUME NEW d \in Disks, NEW p \in Paths, NEW e
  PROVE  /\ WithEntry(d, p, e) = [d EXCEPT !.entry = [d.entry EXCEPT ![p] = e]]
         /\ WithEntry(d, p, e).entry = [d.entry EXCEPT ![p] = e]
         /\ WithEntry(d, p, e).data = d.data
BY DEF WithEntry, Disks

\* A file that is written has the new data and the stamp of the moment.
LEMMA TouchedIs ==
  ASSUME NEW d \in Disks, NEW f \in Files, NEW data
  PROVE  /\ Touched(d, f, data).entry = d.entry
         /\ Touched(d, f, data).data = [d.data EXCEPT ![f] = data]
BY DEF Touched, Disks

\* The same of its stamp.
LEMMA TouchedStamp ==
  ASSUME NEW d \in Disks, NEW f \in Files, NEW data
  PROVE  /\ Touched(d, f, data).entry = d.entry
         /\ Touched(d, f, data).stamp = [d.stamp EXCEPT ![f] = clock + 1]
BY DEF Touched, Disks

\* Writing keeps the disk in order.
LEMMA TouchedDisk ==
  ASSUME NEW d, DiskOK(d, clock), NEW f \in Files, NEW data \in Seq(Blocks)
  PROVE  DiskOK(Touched(d, f, data), clock + 1)
<1>1. d \in Disks /\ clock \in Nat /\ \A g \in Files : d.stamp[g] =< clock  BY DEF DiskOK
<1> DEFINE u == [d EXCEPT !.data[f] = data]
           w == [u EXCEPT !.stamp[f] = clock + 1]
<1>2. u \in Disks /\ u.stamp = d.stamp  BY <1>1 DEF Disks
<1> HIDE DEF u
<1>3. clock + 1 \in Nat  BY <1>1
<1>4. w \in Disks  BY <1>2, <1>3 DEF Disks
<1>5. Touched(d, f, data) = w  BY DEF Touched, u
<1> HIDE DEF w
<1>6. w.entry = d.entry /\ w.stamp = [d.stamp EXCEPT ![f] = clock + 1]
  BY <1>1, <1>5, TouchedStamp
<1>7. ASSUME NEW g \in Files PROVE w.stamp[g] =< clock + 1
  <2>1. d.stamp \in [Files -> Nat]  BY <1>1 DEF Disks
  <2>2. w.stamp[g] = IF g = f THEN clock + 1 ELSE d.stamp[g]  BY <1>6, <2>1
  <2>. QED  BY <1>1, <2>1, <2>2
<1>8. TreeOK(w.entry)  BY <1>6 DEF DiskOK
<1>. QED  BY <1>3, <1>4, <1>5, <1>7, <1>8 DEF DiskOK

\* Making the directories down to p changes nothing but what is missing there.
LEMMA MakeDirsDisk ==
  ASSUME NEW d, NEW now, DiskOK(d, now), NEW p \in Paths, CanMakeDirs(d, p)
  PROVE  /\ DiskOK(MakeDirs(d, p), now)
         /\ MakeDirs(d, p).data = d.data
         /\ \A r \in Paths : MakeDirs(d, p).entry[r] # d.entry[r] =>
              /\ IsPrefix(r, p)
              /\ d.entry[r] = Absent /\ MakeDirs(d, p).entry[r] = Folder
<1>1. d \in Disks /\ TreeOK(d.entry) /\ d.entry \in Entries  BY DEF DiskOK, TreeOK
<1>2. TreeOK(Dirs(d.entry, p))  BY <1>1, DirsTree
<1>3. DiskOK(MakeDirs(d, p), now)  BY <1>1, <1>2, MakeDirsIs, OtherEntries
<1>4. ASSUME NEW r \in Paths, MakeDirs(d, p).entry[r] # d.entry[r]
      PROVE  /\ IsPrefix(r, p)
             /\ d.entry[r] = Absent /\ MakeDirs(d, p).entry[r] = Folder
  <2>6. MakeDirs(d, p).entry = Dirs(d.entry, p)  BY <1>1, MakeDirsIs
  <2>1. MakeDirs(d, p).entry[r] = IF IsPrefix(r, p) THEN Folder ELSE d.entry[r]
    BY <2>6 DEF Dirs
  <2>2. IsPrefix(r, p) /\ MakeDirs(d, p).entry[r] = Folder  BY <1>4, <2>1
  <2>3. r \in Prefixes(p)  BY <2>2, PathTypes, PrefixesArePrefixes
  <2>4. ~IsFile(d.entry[r])  BY <2>3 DEF CanMakeDirs
  <2>5. d.entry[r] = Absent  BY <1>1, <1>4, <2>2, <2>4, EntryKinds
  <2>. QED  BY <2>2, <2>5
<1>. QED  BY <1>1, <1>3, <1>4, MakeDirsIs

\* Making the parent keeps the disk in order: only directories come to be.
LEMMA EnsureParentDisk ==
  ASSUME NEW d, NEW now, DiskOK(d, now), NEW p \in Paths, CanEnsureParent(d, p)
  PROVE  /\ DiskOK(EnsureParent(d, p), now)
         /\ EnsureParent(d, p).data = d.data
         /\ \A r \in Paths : EnsureParent(d, p).entry[r] # d.entry[r] =>
              /\ IsPrefix(r, p)
              /\ d.entry[r] = Absent /\ EnsureParent(d, p).entry[r] = Folder
<1>1. CASE p = <<>> \/ d.entry[Parent(p)] # Absent  BY <1>1 DEF EnsureParent
<1>2. CASE ~(p = <<>> \/ d.entry[Parent(p)] # Absent)
  <2>1. EnsureParent(d, p) = MakeDirs(d, Parent(p)) /\ CanMakeDirs(d, Parent(p))
    BY <1>2 DEF EnsureParent, CanEnsureParent
  <2>2. Parent(p) \in Paths  BY <1>2, ParentIsPath
  <2>3. \A r \in Paths : IsPrefix(r, Parent(p)) => IsPrefix(r, p)  BY <1>2, BelowParent
  <2>4. /\ DiskOK(MakeDirs(d, Parent(p)), now)
        /\ MakeDirs(d, Parent(p)).data = d.data
        /\ \A r \in Paths : MakeDirs(d, Parent(p)).entry[r] # d.entry[r] =>
             /\ IsPrefix(r, Parent(p))
             /\ d.entry[r] = Absent /\ MakeDirs(d, Parent(p)).entry[r] = Folder
    BY <2>1, <2>2, MakeDirsDisk
  <2>. QED  BY <2>1, <2>3, <2>4
<1>. QED  BY <1>1, <1>2

\* Removing keeps the disk in order, and is of what is below.
LEMMA ClearedDisk ==
  ASSUME NEW d, NEW now, DiskOK(d, now), NEW p \in Paths
  PROVE  /\ DiskOK(Cleared(d, p), now)
         /\ Cleared(d, p).data = d.data
         /\ \A r \in Paths : Cleared(d, p).entry[r] # d.entry[r] => IsPrefix(p, r)
<1>1. d \in Disks /\ TreeOK(d.entry)  BY DEF DiskOK
<1>2. TreeOK(Pruned(d.entry, p))  BY <1>1, PrunedTree
<1>3. DiskOK(Cleared(d, p), now)  BY <1>1, <1>2, ClearedIs, OtherEntries
<1>4. Cleared(d, p).entry = Pruned(d.entry, p) /\ Cleared(d, p).data = d.data
  BY <1>1, ClearedIs
<1>5. \A r \in Paths : Cleared(d, p).entry[r] = IF IsPrefix(p, r) THEN Absent ELSE d.entry[r]
  BY <1>4 DEF Pruned
<1>. QED  BY <1>3, <1>4, <1>5

\* Renaming keeps the disk in order, and is of what is below either path.
LEMMA RenamedDisk ==
  ASSUME NEW d, NEW now, DiskOK(d, now), NEW p \in Paths, NEW q \in Paths,
         CanRename(d, p, q)
  PROVE  /\ DiskOK(Renamed(d, p, q), now)
         /\ Renamed(d, p, q).data = d.data
         /\ \A r \in Paths : Renamed(d, p, q).entry[r] # d.entry[r] =>
              IsPrefix(p, r) \/ IsPrefix(q, r)
<1>1. CASE p = q  BY <1>1 DEF Renamed
<1>2. CASE p # q
  <2>1. d \in Disks /\ TreeOK(d.entry)  BY DEF DiskOK
  <2>2. q # <<>> /\ d.entry[Parent(q)] = Folder /\ ~IsPrefix(p, q)
    BY <1>2 DEF CanRename
  <2>3. TreeOK(Moved(d.entry, p, q))  BY <2>1, <2>2, MovedTree
  <2>4. DiskOK(Renamed(d, p, q), now)  BY <1>2, <2>1, <2>3, RenamedIs, OtherEntries
  <2>6. Renamed(d, p, q).entry = Moved(d.entry, p, q) /\ Renamed(d, p, q).data = d.data
    BY <1>2, <2>1, RenamedIs
  <2>5. ASSUME NEW r \in Paths, ~IsPrefix(p, r), ~IsPrefix(q, r)
        PROVE  Renamed(d, p, q).entry[r] = d.entry[r]
    BY <2>5, <2>6 DEF Moved
  <2>. QED  BY <2>4, <2>5, <2>6
<1>. QED  BY <1>1, <1>2

\* Removing the file at p.
LEMMA UnlinkedDisk ==
  ASSUME NEW d, NEW now, DiskOK(d, now), NEW p \in Paths, IsFile(d.entry[p])
  PROVE  /\ DiskOK(WithEntry(d, p, Absent), now)
         /\ WithEntry(d, p, Absent).data = d.data
         /\ \A r \in Paths : WithEntry(d, p, Absent).entry[r] # d.entry[r] => r = p
<1>1. d \in Disks /\ TreeOK(d.entry) /\ d.entry \in Entries  BY DEF DiskOK, TreeOK
<1>2. d.entry[p] # Folder  BY Numbers
<1>3. TreeOK([d.entry EXCEPT ![p] = Absent])  BY <1>1, <1>2, PlacedTree, Numbers
<1>4. DiskOK(WithEntry(d, p, Absent), now)  BY <1>1, <1>3, WithEntryIs, OtherEntries
<1>5. \A r \in Paths : r # p => [d.entry EXCEPT ![p] = Absent][r] = d.entry[r]
  BY <1>1 DEF Entries
<1>6. /\ WithEntry(d, p, Absent).entry = [d.entry EXCEPT ![p] = Absent]
      /\ WithEntry(d, p, Absent).data = d.data
  BY <1>1, WithEntryIs
<1>. QED  BY <1>4, <1>5, <1>6

\* A new file f at p.
LEMMA PlacedDisk ==
  ASSUME NEW d, NEW now, DiskOK(d, now), NEW p \in Paths, CanCreate(d, p),
         NEW f \in Files, \A q \in Paths : d.entry[q] # f
  PROVE  /\ DiskOK(WithEntry(d, p, f), now)
         /\ WithEntry(d, p, f).data = d.data
         /\ \A r \in Paths : WithEntry(d, p, f).entry[r] # d.entry[r] => r = p
<1>1. d \in Disks /\ TreeOK(d.entry) /\ d.entry \in Entries  BY DEF DiskOK, TreeOK
<1>2. d.entry[p] # Folder /\ (p = <<>> \/ d.entry[Parent(p)] = Folder)  BY DEF CanCreate
<1>3. TreeOK([d.entry EXCEPT ![p] = f])  BY <1>1, <1>2, PlacedTree, Numbers
<1>4. DiskOK(WithEntry(d, p, f), now)  BY <1>1, <1>3, WithEntryIs, OtherEntries
<1>5. \A r \in Paths : r # p => [d.entry EXCEPT ![p] = f][r] = d.entry[r]
  BY <1>1 DEF Entries
<1>6. /\ WithEntry(d, p, f).entry = [d.entry EXCEPT ![p] = f]
      /\ WithEntry(d, p, f).data = d.data
  BY <1>1, WithEntryIs
<1>. QED  BY <1>4, <1>5, <1>6

-----------------------------------------------------------------------------
(* What handlers hold, and what they may do.                               *)

Steps == {"none", "done", "stat", "probe", "contain", "containparent",
          "list", "search", "zip", "json", "open", "meta", "send",
          "parent", "create", "body", "measure", "discard", "delete", "mkcol",
          "copystat", "destparent", "destprobe", "destcontain", "destcontainparent",
          "transfer"}

Hands == [step : Steps, kind : {"none", "dir", "file"}, size : Nat,
          file : Files \cup {0}, at : Nat, goal : Int]

Replies == [status : Nat, shown : SUBSET Paths, part : Seq(Blocks), size : Nat,
            stamp : Nat, whole : BOOLEAN]

\* Those that change a second path, and all that change something.
TransferSteps == {"copystat", "destparent", "destprobe", "destcontain",
                  "destcontainparent", "transfer"}
ChangeSteps   == {"parent", "create", "body", "measure", "discard", "delete", "mkcol"}
                 \cup TransferSteps

\* In share s, the sender of a may do what a asks for: the switches are on, and
\* the rules let him write at the path and, for a second path, there too.
Allowed(s, a) ==
  /\ a.method \in {"PUT", "PATCH", "MKCOL", "COPY", "MOVE", "DELETE"}
  /\ a.method \in {"PUT", "PATCH", "MKCOL", "COPY", "MOVE"} => s.upload
  /\ a.method \in {"DELETE", "MOVE"} => s.delete
  /\ Guard(s.rules, a.path, a.method, a.who).paths # Nothing
  /\ a.method \in {"COPY", "MOVE"} =>
       Guard(s.rules, a.dest, a.method, [a.who EXCEPT !.token = NoToken]).paths # Nothing

\* Step t is one that request a may lead to in share s.
StepFits(s, a, t) ==
  /\ t \in Steps
  /\ t \notin {"none", "done"} => Guard(s.rules, a.path, a.method, a.who).paths # Nothing
  /\ t \in ChangeSteps => Allowed(s, a)
  /\ t \in TransferSteps => a.method \in {"COPY", "MOVE"}

\* Only those who read or write have a file open; they have one all the time.
Holds(k) ==
  /\ k.file # 0 => k.step \in {"meta", "send", "body", "measure", "discard"}
  /\ k.step \in {"meta", "send", "body"} => k.file # 0
  /\ k.goal >= Appending
  /\ k.goal >= 0 \/ k.step \in {"body", "measure", "discard"}

HandFits(s, a, k) == StepFits(s, a, k.step) /\ Holds(k)

ServerOK ==
  /\ share \in Shares
  /\ DiskOK(disk, clock)
  /\ restarts \in 0..share.restarts
  /\ hand \in [Handlers -> Hands]
  /\ reply \in [Handlers -> Replies]
  /\ DOMAIN ask = Handlers
  /\ gone \in [Handlers -> BOOLEAN]
  /\ \A h \in Handlers : hand[h].step # "none" => AskOK(ask[h])
  /\ \A h \in Handlers : HandFits(share, ask[h], hand[h])

\* One handler goes on, and the disk stays in order: then all is in order.
LEMMA HandlerGoesOn ==
  ASSUME ServerOK, NEW h \in Handlers, hand[h].step # "none",
         NEW k \in Hands, HandFits(share, ask[h], k), hand' = [hand EXCEPT ![h] = k],
         NEW r \in Replies, reply' = [reply EXCEPT ![h] = r],
         DiskOK(disk', clock'), UNCHANGED <<share, restarts, ask, gone>>
  PROVE  ServerOK'
<1>1. /\ hand \in [Handlers -> Hands] /\ reply \in [Handlers -> Replies]
      /\ \A i \in Handlers : HandFits(share, ask[i], hand[i])
      /\ \A i \in Handlers : hand[i].step # "none" => AskOK(ask[i])
  BY DEF ServerOK
<1>2. hand' \in [Handlers -> Hands] /\ reply' \in [Handlers -> Replies]  BY <1>1
<1>3. \A i \in Handlers : HandFits(share', ask'[i], hand'[i])  BY <1>1
<1>4. \A i \in Handlers : hand'[i].step # "none" => AskOK(ask'[i])  BY <1>1
<1>. QED  BY <1>2, <1>3, <1>4 DEF ServerOK

\* A handler that has nothing, or is done.
LEMMA FreeHand ==
  /\ Free \in Hands /\ Holds(Free)
  /\ [Free EXCEPT !.step = "done"] \in Hands /\ Holds([Free EXCEPT !.step = "done"])
  /\ [Free EXCEPT !.step = "done"].step = "done"
BY DEF Free, Hands, Holds, Steps, Appending

\* No answer yet, and a status alone.
LEMMA PlainReplies ==
  /\ NoReply \in Replies
  /\ \A n \in Nat : Status(n) \in Replies
<1>1. <<>> \in Seq(Blocks)  BY EmptySeq
<1>2. NoReply \in Replies  BY <1>1 DEF NoReply, Replies
<1>3. ASSUME NEW n \in Nat PROVE Status(n) \in Replies
  BY <1>2 DEF Status, Replies
<1>. QED  BY <1>2, <1>3

\* A handler is done.
LEMMA FinishIsFine ==
  ASSUME ServerOK, NEW h \in Handlers, hand[h].step # "none",
         NEW r \in Replies, Finish(h, r),
         DiskOK(disk', clock'), UNCHANGED <<share, restarts, ask, gone>>
  PROVE  ServerOK'
<1> DEFINE k == [Free EXCEPT !.step = "done"]
<1>1. k \in Hands /\ Holds(k) /\ k.step = "done"  BY FreeHand
<1>2. hand' = [hand EXCEPT ![h] = k] /\ reply' = [reply EXCEPT ![h] = r]  BY DEF Finish
<1> HIDE DEF k
<1>3. StepFits(share, ask[h], "done")  BY DEF StepFits, Steps, ChangeSteps, TransferSteps
<1>4. HandFits(share, ask[h], k)  BY <1>1, <1>3 DEF HandFits
<1>. QED  BY <1>1, <1>2, <1>4, HandlerGoesOn

\* A handler is done and answers 500.
LEMMA FailIsFine ==
  ASSUME ServerOK, NEW h \in Handlers, hand[h].step # "none", Fail(h),
         DiskOK(disk', clock'), UNCHANGED <<share, restarts, ask, gone>>
  PROVE  ServerOK'
<1>1. Finish(h, Status(500)) /\ Status(500) \in Replies  BY PlainReplies DEF Fail
<1>. QED  BY <1>1, FinishIsFine

\* From a step at which nothing is held, or to one that closes the file.
LEMMA StepIsFine ==
  ASSUME ServerOK, NEW h \in Handlers, hand[h].step # "none",
         NEW t, StepFits(share, ask[h], t), Step(h, t),
         \/ /\ hand[h].step \notin {"meta", "send", "body", "measure", "discard"}
            /\ t \notin {"meta", "send", "body"}
         \/ t \in {"measure", "discard"},
         DiskOK(disk', clock'), UNCHANGED <<share, restarts, ask, gone>>
  PROVE  ServerOK'
<1> DEFINE k == [hand[h] EXCEPT !.step = t]
<1>1. hand \in [Handlers -> Hands] /\ reply \in [Handlers -> Replies]
      /\ HandFits(share, ask[h], hand[h])
  BY DEF ServerOK
<1>2. t \in Steps  BY DEF StepFits
<1>3. k \in Hands /\ k.step = t /\ k.file = hand[h].file /\ k.goal = hand[h].goal
  BY <1>1, <1>2 DEF Hands
<1>4. hand' = [hand EXCEPT ![h] = k]  BY DEF Step
<1>5. reply[h] \in Replies /\ reply' = [reply EXCEPT ![h] = reply[h]]  BY <1>1 DEF Step
<1> HIDE DEF k
<1>6. Holds(k)  BY <1>1, <1>3 DEF HandFits, Holds
<1>7. HandFits(share, ask[h], k)  BY <1>3, <1>6 DEF HandFits
<1>. QED  BY <1>3, <1>4, <1>5, <1>7, HandlerGoesOn

\* A decision: an answer, or the next step.
Decided(s, a, d) ==
  /\ d.status \in Nat
  /\ StepFits(s, a, d.to)
  /\ d.to \notin {"meta", "send", "body"}

\* A handler does what was decided.
LEMMA FollowIsFine ==
  ASSUME ServerOK, NEW h \in Handlers, hand[h].step # "none",
         hand[h].step \notin {"meta", "send", "body", "measure", "discard"},
         NEW d, Decided(share, ask[h], d), Follow(h, d),
         DiskOK(disk', clock'), UNCHANGED <<share, restarts, ask, gone>>
  PROVE  ServerOK'
<1>1. CASE d.to = "done"
  <2>1. Finish(h, Status(d.status)) /\ Status(d.status) \in Replies
    BY <1>1, PlainReplies DEF Follow, Decided
  <2>. QED  BY <2>1, FinishIsFine
<1>2. CASE d.to # "done"
  <2>1. Step(h, d.to)  BY <1>2 DEF Follow
  <2>. QED  BY <2>1, StepIsFine DEF Decided
<1>. QED  BY <1>1, <1>2

-----------------------------------------------------------------------------
(* What is decided of a request is what its sender may do.                 *)

\* An answer may always be given.
LEMMA AnswerDecides ==
  ASSUME NEW s, NEW a, NEW n \in Nat
  PROVE  Decided(s, a, Answer(n))
BY DEF Decided, Answer, StepFits, Steps, ChangeSteps, TransferSteps

\* A step that changes nothing.
LEMMA GoDecides ==
  ASSUME NEW s, NEW a, Guard(s.rules, a.path, a.method, a.who).paths # Nothing,
         NEW t \in {"stat", "list", "search", "zip", "json", "open"}
  PROVE  Decided(s, a, Go(t))
<1>1. Go(t).to = t /\ Go(t).status = 0  BY DEF Go
<1>2. t \in Steps /\ t \notin ChangeSteps /\ t \notin TransferSteps
      /\ t \notin {"meta", "send", "body"}
  BY DEF Steps, ChangeSteps, TransferSteps
<1>. QED  BY <1>1, <1>2 DEF Decided, StepFits

\* A step to a change, for those who may.
LEMMA ChangeDecides ==
  ASSUME NEW s, NEW a, Allowed(s, a),
         NEW t \in {"parent", "delete", "mkcol", "copystat", "destparent"},
         t \in {"copystat", "destparent"} => a.method \in {"COPY", "MOVE"}
  PROVE  Decided(s, a, Go(t))
<1>1. Go(t).to = t /\ Go(t).status = 0  BY DEF Go
<1>2. t \in Steps /\ t \in ChangeSteps
      /\ (t \in TransferSteps => t \in {"copystat", "destparent"})
      /\ t \notin {"meta", "send", "body"}
  BY DEF Steps, ChangeSteps, TransferSteps
<1>. QED  BY <1>1, <1>2 DEF Decided, StepFits, Allowed

\* GET and HEAD change nothing.
LEMMA GetDecides ==
  ASSUME NEW a, NEW kind, Guard(share.rules, a.path, a.method, a.who).paths # Nothing
  PROVE  Decided(share, a, OnGet(a, kind))
<1>1. \A n \in {200, 403, 404} : Decided(share, a, Answer(n))  BY AnswerDecides
<1>2. \A t \in {"list", "search", "zip", "json", "open"} : Decided(share, a, Go(t))
  BY GoDecides
<1>3. \/ \E n \in {200, 403, 404} : OnGet(a, kind) = Answer(n)
      \/ \E t \in {"list", "search", "zip", "json", "open"} : OnGet(a, kind) = Go(t)
  BY DEF OnGet
<1>. QED  BY <1>1, <1>2, <1>3

\* Uploads, removals and new directories need their switch.
LEMMA WriteDecides ==
  ASSUME NEW a, NEW kind, NEW size,
         Guard(share.rules, a.path, a.method, a.who).paths # Nothing
  PROVE  /\ a.method = "PUT" => Decided(share, a, OnPut(kind, size))
         /\ a.method = "PATCH" => Decided(share, a, OnPatch(a, kind, size))
         /\ a.method = "DELETE" => Decided(share, a, OnDelete(kind))
         /\ a.method = "MKCOL" => Decided(share, a, OnMkcol(kind))
<1>1. \A n \in {400, 403, 404, 405} : Decided(share, a, Answer(n))  BY AnswerDecides
<1>2. a.method \in {"PUT", "PATCH", "MKCOL"} /\ share.upload => Allowed(share, a)
  BY DEF Allowed
<1>3. a.method = "DELETE" /\ share.delete => Allowed(share, a)
  BY DEF Allowed
<1>4. a.method \in {"PUT", "PATCH"} /\ share.upload => Decided(share, a, Go("parent"))
  BY <1>2, ChangeDecides
<1>5. a.method = "MKCOL" /\ share.upload => Decided(share, a, Go("mkcol"))
  BY <1>2, ChangeDecides
<1>6. a.method = "DELETE" /\ share.delete => Decided(share, a, Go("delete"))
  BY <1>3, ChangeDecides
<1>7. OnPut(kind, size) = Answer(403) \/ (share.upload /\ OnPut(kind, size) = Go("parent"))
  BY DEF OnPut
<1>8. \/ \E n \in {400, 403, 404, 405} : OnPatch(a, kind, size) = Answer(n)
      \/ share.upload /\ OnPatch(a, kind, size) = Go("parent")
  BY DEF OnPatch
<1>9. \/ \E n \in {403, 404} : OnDelete(kind) = Answer(n)
      \/ share.delete /\ OnDelete(kind) = Go("delete")
  BY DEF OnDelete
<1>10. \/ \E n \in {403, 405} : OnMkcol(kind) = Answer(n)
       \/ share.upload /\ OnMkcol(kind) = Go("mkcol")
  BY DEF OnMkcol
<1>11. a.method = "PUT" => Decided(share, a, OnPut(kind, size))  BY <1>1, <1>4, <1>7
<1>12. a.method = "PATCH" => Decided(share, a, OnPatch(a, kind, size))  BY <1>1, <1>4, <1>8
<1>13. a.method = "DELETE" => Decided(share, a, OnDelete(kind))  BY <1>1, <1>6, <1>9
<1>14. a.method = "MKCOL" => Decided(share, a, OnMkcol(kind))  BY <1>1, <1>5, <1>10
<1>. QED  BY <1>11, <1>12, <1>13, <1>14

\* A copy and a move need the destination's grant, too.
LEMMA TransferDecides ==
  ASSUME NEW a, NEW kind, Guard(share.rules, a.path, a.method, a.who).paths # Nothing
  PROVE  /\ a.method = "COPY" => Decided(share, a, OnCopy(a, kind))
         /\ a.method = "MOVE" => Decided(share, a, OnMove(a, kind))
<1>1. \A n \in {403, 404} : Decided(share, a, Answer(n))  BY AnswerDecides
<1>2. a.method = "COPY" /\ share.upload /\ ~DestRefused(a) => Allowed(share, a)
  BY DEF Allowed, DestRefused
<1>3. a.method = "MOVE" /\ share.upload /\ share.delete /\ ~DestRefused(a) => Allowed(share, a)
  BY DEF Allowed, DestRefused
<1>4. a.method = "COPY" /\ share.upload /\ ~DestRefused(a) => Decided(share, a, Go("copystat"))
  BY <1>2, ChangeDecides
<1>5. a.method = "MOVE" /\ share.upload /\ share.delete /\ ~DestRefused(a) =>
        Decided(share, a, Go("destparent"))
  BY <1>3, ChangeDecides
<1>6. \/ \E n \in {403, 404} : OnCopy(a, kind) = Answer(n)
      \/ share.upload /\ ~DestRefused(a) /\ OnCopy(a, kind) = Go("copystat")
  BY DEF OnCopy
<1>7. \/ \E n \in {403, 404} : OnMove(a, kind) = Answer(n)
      \/ share.upload /\ share.delete /\ ~DestRefused(a) /\ OnMove(a, kind) = Go("destparent")
  BY DEF OnMove
<1>8. a.method = "COPY" => Decided(share, a, OnCopy(a, kind))  BY <1>1, <1>4, <1>6
<1>9. a.method = "MOVE" => Decided(share, a, OnMove(a, kind))  BY <1>1, <1>5, <1>7
<1>. QED  BY <1>8, <1>9

\* The other methods change nothing.
LEMMA OtherDecides ==
  ASSUME NEW a, NEW kind, Guard(share.rules, a.path, a.method, a.who).paths # Nothing
  PROVE  /\ Decided(share, a, OnPropfind(kind))
         /\ Decided(share, a, OnOther(a, kind))
<1>1. \A n \in {200, 207, 404, 405} : Decided(share, a, Answer(n))  BY AnswerDecides
<1>2. \A t \in {"list", "json"} : Decided(share, a, Go(t))  BY GoDecides
<1>3. \/ \E n \in {404} : OnPropfind(kind) = Answer(n)
      \/ \E t \in {"list", "json"} : OnPropfind(kind) = Go(t)
  BY DEF OnPropfind
<1>4. \E n \in {200, 207, 404, 405} : OnOther(a, kind) = Answer(n)
  <2>1. CASE a.method \in {"OPTIONS", "LOCK", "UNLOCK", "PROPPATCH"}  BY <2>1 DEF OnOther
  <2>2. CASE a.method \notin {"OPTIONS", "LOCK", "UNLOCK", "PROPPATCH"}  BY <2>2 DEF OnOther
  <2>. QED  BY <2>1, <2>2
<1>. QED  BY <1>1, <1>2, <1>3, <1>4

\* Whatever the method is.
LEMMA DispatchDecides ==
  ASSUME NEW a, NEW kind, NEW size,
         Guard(share.rules, a.path, a.method, a.who).paths # Nothing
  PROVE  Decided(share, a, Dispatch(a, kind, size))
<1>1. CASE a.method \in {"GET", "HEAD"}
  BY <1>1, GetDecides DEF Dispatch
<1>2. CASE a.method \in {"PUT", "PATCH", "DELETE", "MKCOL"}
  BY <1>2, WriteDecides DEF Dispatch
<1>3. CASE a.method \in {"COPY", "MOVE"}
  BY <1>3, TransferDecides DEF Dispatch
<1>4. CASE a.method \notin {"GET", "HEAD", "PUT", "PATCH", "DELETE", "MKCOL", "COPY", "MOVE"}
  BY <1>4, OtherDecides DEF Dispatch
<1>. QED  BY <1>1, <1>2, <1>3, <1>4

\* What comes before the look at the disk: an answer, or that look.
LEMMA AtOnceDecides ==
  ASSUME NEW a
  PROVE  /\ Decided(share, a, AtOnce(a))
         /\ AtOnce(a).to \in {"done", "stat"}
<1>1. \A n \in {200, 401, 403, 500} : Decided(share, a, Answer(n))  BY AnswerDecides
<1>5. \A n \in {200, 401, 403, 500} : Answer(n).to = "done"  BY DEF Answer
<1>2. ASSUME Access(a).paths # Nothing PROVE Decided(share, a, Go("stat"))
  <2>1. Guard(share.rules, a.path, a.method, a.who).paths # Nothing  BY <1>2 DEF Access
  <2>2. "stat" \in {"stat", "list", "search", "zip", "json", "open"}  OBVIOUS
  <2>. QED  BY <2>1, <2>2, GoDecides
<1>3. \/ \E n \in {200, 401, 403, 500} : AtOnce(a) = Answer(n)
      \/ Access(a).paths # Nothing /\ AtOnce(a) = Go("stat")
  BY DEF AtOnce
<1>4. Go("stat").to = "stat"  BY DEF Go
<1>. QED  BY <1>1, <1>2, <1>3, <1>4, <1>5

-----------------------------------------------------------------------------
(* Handlers that look and read: all stays in order, step by step.          *)

\* A handler goes on with other things in its hand, and all stays in order.
LEMMA HandlerMoves ==
  ASSUME ServerOK, NEW h \in Handlers, hand[h].step # "none",
         hand' \in [Handlers -> Hands], HandFits(share, ask[h], hand'[h]),
         \A i \in Handlers : i # h => hand'[i] = hand[i],
         reply' \in [Handlers -> Replies],
         DiskOK(disk', clock'), UNCHANGED <<share, restarts, ask, gone>>
  PROVE  ServerOK'
<1>1. /\ \A i \in Handlers : HandFits(share, ask[i], hand[i])
      /\ \A i \in Handlers : hand[i].step # "none" => AskOK(ask[i])
  BY DEF ServerOK
<1>2. \A i \in Handlers : HandFits(share', ask'[i], hand'[i])  BY <1>1
<1>3. \A i \in Handlers : hand'[i].step # "none" => AskOK(ask'[i])  BY <1>1
<1>. QED  BY <1>2, <1>3 DEF ServerOK

\* What is known of a handler that is somewhere.
LEMMA Handler ==
  ASSUME ServerOK, NEW h \in Handlers, hand[h].step # "none"
  PROVE  /\ AskOK(ask[h]) /\ ask[h].path \in Paths /\ ask[h].dest \in Paths
         /\ hand[h] \in Hands /\ reply[h] \in Replies
         /\ StepFits(share, ask[h], hand[h].step) /\ Holds(hand[h])
         /\ DiskOK(disk, clock) /\ disk.entry \in Entries
BY DEF ServerOK, HandFits, AskOK, DiskOK, TreeOK

\* A disk that stays the same is in order.
LEMMA DiskStays ==
  ASSUME ServerOK, UNCHANGED diskVars
  PROVE  DiskOK(disk', clock')
BY DEF ServerOK, diskVars

\* A file has data and a stamp.
LEMMA DataOf ==
  ASSUME NEW d \in Disks, NEW f \in Files
  PROVE  d.data[f] \in Seq(Blocks) /\ Len(d.data[f]) \in Nat /\ d.stamp[f] \in Nat
<1>1. d.data[f] \in Seq(Blocks) /\ d.stamp[f] \in Nat  BY DEF Disks
<1>. QED  BY <1>1, LenProperties

\* Sizes are numbers.
LEMMA SizeIsNat ==
  ASSUME NEW d \in Disks, NEW p \in Paths
  PROVE  SizeAt(d, p) \in Nat
<1>1. d.entry \in Entries  BY DEF Disks
<1>2. IsFile(d.entry[p]) => d.entry[p] \in Files  BY <1>1, EntryKinds
<1>. QED  BY <1>2, DataOf DEF SizeAt

\* The kinds fs::metadata tells.
LEMMA Kinds == \A e : KindOf(e) \in {"none", "dir", "file"}
BY DEF KindOf

\* A step that changes nothing may be followed by any that changes nothing.
LEMMA StepStays ==
  ASSUME NEW s, NEW a, NEW t, StepFits(s, a, t), t \notin {"none", "done"},
         NEW u \in Steps, u \notin ChangeSteps
  PROVE  StepFits(s, a, u)
BY DEF StepFits, TransferSteps, ChangeSteps

\* Stat keeps all in order.
LEMMA StatIsFine ==
  ASSUME ServerOK, NEW h \in Handlers, Stat(h)
  PROVE  ServerOK'
<1> DEFINE kind == KindOf(disk.entry[ask[h].path])
           size == SizeAt(disk, ask[h].path)
           u == [hand EXCEPT ![h].step = "probe"]
           v == [u EXCEPT ![h].kind = kind]
           w == [v EXCEPT ![h].size = size]
<1>1. hand[h].step = "stat"  BY DEF Stat, At
<1>2. hand[h].step # "none"  BY <1>1
<1>3. /\ disk \in Disks /\ ask[h].path \in Paths
      /\ hand \in [Handlers -> Hands] /\ reply \in [Handlers -> Replies]
      /\ StepFits(share, ask[h], "stat") /\ Holds(hand[h])
  BY <1>1, <1>2, Handler DEF DiskOK, ServerOK
<1>4. "probe" \in Steps /\ "probe" \notin ChangeSteps
  BY DEF Steps, ChangeSteps, TransferSteps
<1>5. kind \in {"none", "dir", "file"} /\ size \in Nat  BY <1>3, Kinds, SizeIsNat
<1>6. /\ hand' = w /\ reply' = reply
      /\ UNCHANGED diskVars /\ UNCHANGED <<share, restarts, ask, gone>>
  BY DEF Stat, Unchanged
<1> HIDE DEF kind, size
<1>7. /\ u \in [Handlers -> Hands] /\ u[h].step = "probe"
      /\ u[h].file = hand[h].file /\ u[h].goal = hand[h].goal
      /\ \A i \in Handlers : i # h => u[i] = hand[i]
  BY <1>3, <1>4 DEF Hands
<1> HIDE DEF u
<1>8. /\ v \in [Handlers -> Hands] /\ v[h].step = "probe"
      /\ v[h].file = hand[h].file /\ v[h].goal = hand[h].goal
      /\ \A i \in Handlers : i # h => v[i] = hand[i]
  BY <1>7, <1>5 DEF Hands
<1> HIDE DEF v
<1>9. /\ w \in [Handlers -> Hands] /\ w[h].step = "probe"
      /\ w[h].file = hand[h].file /\ w[h].goal = hand[h].goal
      /\ \A i \in Handlers : i # h => w[i] = hand[i]
  BY <1>8, <1>5 DEF Hands
<1> HIDE DEF w
<1>10. Holds(w[h])  BY <1>1, <1>3, <1>9 DEF Holds
<1>11. StepFits(share, ask[h], "probe")  BY <1>3, <1>4, StepStays
<1>12. HandFits(share, ask[h], hand'[h])  BY <1>6, <1>9, <1>10, <1>11 DEF HandFits
<1>. QED  BY <1>2, <1>3, <1>6, <1>9, <1>12, HandlerMoves, DiskStays

\* What is judged by itself or its parent goes on with steps of the same rights.
LEMMA JudgeIsFine ==
  ASSUME ServerOK, NEW h \in Handlers, hand[h].step # "none",
         hand[h].step \notin {"meta", "send", "body", "measure", "discard"},
         NEW p, NEW t, NEW u, NEW n \in Nat, Judge(h, p, t, u, n),
         StepFits(share, ask[h], t), StepFits(share, ask[h], u),
         t \notin {"meta", "send", "body"}, u \notin {"meta", "send", "body"},
         UNCHANGED diskVars, Unchanged
  PROVE  ServerOK'
<1>1. DiskOK(disk', clock') /\ UNCHANGED <<share, restarts, ask, gone>>
  BY DiskStays DEF Unchanged
<1>2. CASE Step(h, t)  BY <1>1, <1>2, StepIsFine
<1>3. CASE Step(h, u)  BY <1>1, <1>3, StepIsFine
<1>4. CASE Finish(h, Status(n))
  <2>1. Status(n) \in Replies  BY PlainReplies
  <2>. QED  BY <1>1, <1>4, <2>1, FinishIsFine
<1>. QED  BY <1>2, <1>3, <1>4 DEF Judge

\* Probe keeps all in order.
LEMMA ProbeIsFine ==
  ASSUME ServerOK, NEW h \in Handlers, Probe(h)
  PROVE  ServerOK'
<1>1. hand[h].step = "probe"  BY DEF Probe, At
<1>2. StepFits(share, ask[h], "probe")  BY <1>1, Handler
<1>3. \A t \in {"contain", "containparent"} : t \in Steps /\ t \notin ChangeSteps
  BY DEF Steps, ChangeSteps, TransferSteps
<1>4. \A t \in {"contain", "containparent"} : StepFits(share, ask[h], t)
  BY <1>2, <1>3, StepStays
<1>5. Judge(h, ask[h].path, "contain", "containparent", 404)
      /\ UNCHANGED diskVars /\ Unchanged
  BY DEF Probe
<1>. QED  BY <1>1, <1>4, <1>5, JudgeIsFine

\* Contain keeps all in order: it decides what to do.
LEMMA ContainIsFine ==
  ASSUME ServerOK, NEW h \in Handlers, Contain(h)
  PROVE  ServerOK'
<1>1. hand[h].step \in {"contain", "containparent"}  BY DEF Contain, At
<1>2. StepFits(share, ask[h], hand[h].step)  BY <1>1, Handler
<1>3. Guard(share.rules, ask[h].path, ask[h].method, ask[h].who).paths # Nothing
  BY <1>1, <1>2 DEF StepFits
<1>4. DiskOK(disk', clock') /\ UNCHANGED <<share, restarts, ask, gone>>
  BY DiskStays DEF Contain, Unchanged
<1>5. CASE Finish(h, Status(404))
  <2>1. Status(404) \in Replies  BY PlainReplies
  <2>. QED  BY <1>1, <1>4, <1>5, <2>1, FinishIsFine
<1>6. CASE Follow(h, Dispatch(ask[h], hand[h].kind, hand[h].size))
  <2>1. Decided(share, ask[h], Dispatch(ask[h], hand[h].kind, hand[h].size))
    BY <1>3, DispatchDecides
  <2>. QED  BY <1>1, <1>4, <1>6, <2>1, FollowIsFine
<1>. QED  BY <1>5, <1>6 DEF Contain

\* An answer that shows paths.
LEMMA ShownReply ==
  ASSUME NEW n \in Nat, NEW names \in SUBSET Paths
  PROVE  [Status(n) EXCEPT !.shown = names] \in Replies
<1>1. Status(n) \in Replies  BY PlainReplies
<1>. QED  BY <1>1 DEF Replies

\* List keeps all in order.
LEMMA ListIsFine ==
  ASSUME ServerOK, NEW h \in Handlers, List(h)
  PROVE  ServerOK'
<1> DEFINE names == Listed(disk, ask[h].path, ListingAccess(ask[h]))
<1>1. hand[h].step = "list" /\ UNCHANGED diskVars /\ UNCHANGED <<share, restarts, ask, gone>>
  BY DEF List, At, Unchanged
<1>2. DiskOK(disk', clock')  BY <1>1, DiskStays
<1>3. names \in SUBSET Paths  BY DEF Listed, Children
<1>4. \/ Fail(h)
      \/ \E n \in {200, 403} : Finish(h, Status(n))
      \/ \E n \in {200, 207} : Finish(h, [Status(n) EXCEPT !.shown = names])
  BY DEF List
<1> HIDE DEF names
<1>5. \A n \in {200, 403} : Status(n) \in Replies  BY PlainReplies
<1>6. \A n \in {200, 207} : [Status(n) EXCEPT !.shown = names] \in Replies
  BY <1>3, ShownReply
<1>7. CASE Fail(h)  BY <1>1, <1>2, <1>7, FailIsFine
<1>8. ASSUME NEW n \in {200, 403}, Finish(h, Status(n)) PROVE ServerOK'
  BY <1>1, <1>2, <1>5, <1>8, FinishIsFine
<1>9. ASSUME NEW n \in {200, 207}, Finish(h, [Status(n) EXCEPT !.shown = names])
      PROVE  ServerOK'
  BY <1>1, <1>2, <1>6, <1>9, FinishIsFine
<1>. QED  BY <1>4, <1>7, <1>8, <1>9

\* Collect keeps all in order.
LEMMA CollectIsFine ==
  ASSUME ServerOK, NEW h \in Handlers, Collect(h)
  PROVE  ServerOK'
<1> DEFINE found == Collected(disk, ask[h].path, Access(ask[h]).paths)
           names == IF At(h, "zip") THEN {q \in found : IsFile(disk.entry[q])} ELSE found
<1>1. /\ hand[h].step \in {"search", "zip"}
      /\ UNCHANGED diskVars /\ UNCHANGED <<share, restarts, ask, gone>>
  BY DEF Collect, At, Unchanged
<1>2. DiskOK(disk', clock')  BY <1>1, DiskStays
<1>3. names \in SUBSET Paths  BY DEF Collected
<1>4. \/ Finish(h, Status(200))
      \/ Finish(h, [Status(200) EXCEPT !.shown = names])
  BY DEF Collect
<1> HIDE DEF names
<1>5. Status(200) \in Replies  BY PlainReplies
<1>6. [Status(200) EXCEPT !.shown = names] \in Replies  BY <1>3, ShownReply
<1>. QED  BY <1>1, <1>2, <1>4, <1>5, <1>6, FinishIsFine

\* Describe keeps all in order.
LEMMA DescribeIsFine ==
  ASSUME ServerOK, NEW h \in Handlers, Describe(h)
  PROVE  ServerOK'
<1> DEFINE p == ask[h].path
           size == SizeAt(disk, p)
<1>1. /\ hand[h].step = "json"
      /\ UNCHANGED diskVars /\ UNCHANGED <<share, restarts, ask, gone>>
  BY DEF Describe, At, Unchanged
<1>2. DiskOK(disk', clock') /\ disk \in Disks /\ p \in Paths
  BY <1>1, DiskStays, Handler DEF DiskOK
<1>3. size \in Nat  BY <1>2, SizeIsNat
<1>4. \/ Fail(h)
      \/ \E n \in {200, 207} : Finish(h, [Status(n) EXCEPT !.shown = {p}, !.size = size])
  BY DEF Describe
<1> HIDE DEF p, size
<1>5. ASSUME NEW n \in {200, 207}
      PROVE  [Status(n) EXCEPT !.shown = {p}, !.size = size] \in Replies
  <2> DEFINE r == [Status(n) EXCEPT !.shown = {p}]
  <2>1. r \in Replies  BY <1>2, ShownReply
  <2> HIDE DEF r
  <2>2. [r EXCEPT !.size = size] \in Replies  BY <1>3, <2>1 DEF Replies
  <2>. QED  BY <2>2 DEF r
<1>6. CASE Fail(h)  BY <1>1, <1>2, <1>6, FailIsFine
<1>7. ASSUME NEW n \in {200, 207}, Finish(h, [Status(n) EXCEPT !.shown = {p}, !.size = size])
      PROVE  ServerOK'
  BY <1>1, <1>2, <1>5, <1>7, FinishIsFine
<1>. QED  BY <1>4, <1>6, <1>7

\* Open keeps all in order: the handler has the file.
LEMMA OpenIsFine ==
  ASSUME ServerOK, NEW h \in Handlers, Open(h)
  PROVE  ServerOK'
<1> DEFINE e == disk.entry[ask[h].path]
           u == [hand EXCEPT ![h].step = "meta"]
           v == [u EXCEPT ![h].file = e]
<1>1. /\ hand[h].step = "open" /\ hand[h].step # "none"
      /\ UNCHANGED diskVars /\ UNCHANGED <<share, restarts, ask, gone>>
  BY DEF Open, At, Unchanged
<1>2. /\ DiskOK(disk', clock') /\ disk.entry \in Entries /\ ask[h].path \in Paths
      /\ hand \in [Handlers -> Hands] /\ reply \in [Handlers -> Replies]
      /\ StepFits(share, ask[h], "open") /\ Holds(hand[h])
  BY <1>1, DiskStays, Handler DEF ServerOK
<1>3. CASE IsFile(e)
  <2>1. e \in Files /\ e # 0  BY <1>2, <1>3, EntryKinds, Numbers DEF Absent
  <2>2. hand' = v /\ reply' = reply  BY <1>3 DEF Open
  <2>3. "meta" \in Steps /\ "meta" \notin ChangeSteps
    BY DEF Steps, ChangeSteps, TransferSteps
  <2> HIDE DEF e
  <2>4. /\ u \in [Handlers -> Hands] /\ u[h].step = "meta" /\ u[h].goal = hand[h].goal
        /\ \A i \in Handlers : i # h => u[i] = hand[i]
    BY <1>2, <2>3 DEF Hands
  <2> HIDE DEF u
  <2>5. /\ v \in [Handlers -> Hands] /\ v[h].step = "meta" /\ v[h].goal = hand[h].goal
        /\ v[h].file = e /\ \A i \in Handlers : i # h => v[i] = hand[i]
    BY <2>1, <2>4 DEF Hands
  <2> HIDE DEF v
  <2>6. Holds(v[h])  BY <1>1, <1>2, <2>1, <2>5 DEF Holds
  <2>7. StepFits(share, ask[h], "meta")  BY <1>2, <2>3, StepStays
  <2>8. HandFits(share, ask[h], hand'[h])  BY <2>2, <2>5, <2>6, <2>7 DEF HandFits
  <2>. QED  BY <1>1, <1>2, <2>2, <2>5, <2>8, HandlerMoves
<1>4. CASE ~IsFile(e)
  <2>1. Fail(h)  BY <1>4 DEF Open
  <2>. QED  BY <1>1, <1>2, <2>1, FailIsFine
<1>. QED  BY <1>3, <1>4

\* A range begins and ends at a block.
LEMMA RangeTypes ==
  ASSUME NEW r, r.a \in Nat, r.b \in Nat, NEW size \in Nat
  PROVE  /\ ParseRange(r, size).start \in Nat
         /\ RangeSize(ParseRange(r, size)) \in Nat
<1>1. Word \in Nat /\ Word > 0  BY FileRequestsAssumption
<1>2. \A n \in Int : n % Word \in Nat  BY <1>1
<1>3. (size - r.a) % Word \in Nat /\ (size - 1) % Word \in Nat  BY <1>2
<1>4. ParseRange(r, size).start \in Nat /\ ParseRange(r, size).end \in Nat
  BY <1>3 DEF ParseRange
<1>5. ParseRange(r, size).end - ParseRange(r, size).start + 1 \in Int  BY <1>4
<1>. QED  BY <1>2, <1>4, <1>5 DEF RangeSize

\* The head of an answer that describes a file, and an answer that is only that.
Header(size, stamp, n) ==
  [[NoReply EXCEPT !.size = size, !.stamp = stamp, !.whole = FALSE] EXCEPT !.status = n]
HeaderOnly(size, stamp, n) ==
  [[NoReply EXCEPT !.size = size, !.stamp = stamp, !.whole = FALSE]
     EXCEPT !.status = n, !.whole = TRUE]

\* What is sent ahead of a file, and instead of one.
LEMMA HeadReply ==
  ASSUME NEW size \in Nat, NEW stamp \in Nat, NEW n \in Nat
  PROVE  Header(size, stamp, n) \in Replies /\ HeaderOnly(size, stamp, n) \in Replies
<1> DEFINE t == [NoReply EXCEPT !.size = size]
           u == [t EXCEPT !.stamp = stamp]
           v == [u EXCEPT !.whole = FALSE]
           w == [v EXCEPT !.status = n]
           x == [w EXCEPT !.whole = TRUE]
<1>1. t \in Replies  BY PlainReplies DEF Replies
<1> HIDE DEF t
<1>2. u \in Replies  BY <1>1 DEF Replies
<1> HIDE DEF u
<1>3. v \in Replies  BY <1>2 DEF Replies
<1> HIDE DEF v
<1>4. w \in Replies  BY <1>3 DEF Replies
<1> HIDE DEF w
<1>5. x \in Replies  BY <1>4 DEF Replies
<1>. QED  BY <1>4, <1>5 DEF t, u, v, w, x, Header, HeaderOnly

\* A file is about to be sent.
LEMMA SendStarts ==
  ASSUME ServerOK, NEW h \in Handlers, hand[h].step = "meta",
         NEW start \in Nat, NEW count \in Nat, NEW r \in Replies,
         hand' = [hand EXCEPT ![h].step = "send", ![h].at = start, ![h].goal = count],
         reply' = [reply EXCEPT ![h] = r],
         UNCHANGED diskVars, UNCHANGED <<share, restarts, ask, gone>>
  PROVE  ServerOK'
<1> DEFINE u == [hand EXCEPT ![h].step = "send"]
           v == [u EXCEPT ![h].at = start]
           w == [v EXCEPT ![h].goal = count]
<1>1. /\ DiskOK(disk', clock')
      /\ hand \in [Handlers -> Hands] /\ reply \in [Handlers -> Replies]
      /\ StepFits(share, ask[h], "meta") /\ Holds(hand[h])
  BY DiskStays, Handler DEF ServerOK
<1>2. "send" \in Steps /\ "send" \notin ChangeSteps
  BY DEF Steps, ChangeSteps, TransferSteps
<1>3. hand' = w  OBVIOUS
<1>4. /\ u \in [Handlers -> Hands] /\ u[h].step = "send" /\ u[h].file = hand[h].file
      /\ \A i \in Handlers : i # h => u[i] = hand[i]
  BY <1>1, <1>2 DEF Hands
<1> HIDE DEF u
<1>5. /\ v \in [Handlers -> Hands] /\ v[h].step = "send" /\ v[h].file = hand[h].file
      /\ \A i \in Handlers : i # h => v[i] = hand[i]
  BY <1>4 DEF Hands
<1> HIDE DEF v
<1>6. /\ w \in [Handlers -> Hands] /\ w[h].step = "send" /\ w[h].file = hand[h].file
      /\ w[h].goal = count /\ \A i \in Handlers : i # h => w[i] = hand[i]
  BY <1>5 DEF Hands
<1> HIDE DEF w
<1>7. Holds(w[h])  BY <1>1, <1>6 DEF Holds, Appending
<1>8. StepFits(share, ask[h], "send")  BY <1>1, <1>2, StepStays
<1>9. HandFits(share, ask[h], hand'[h])  BY <1>3, <1>6, <1>7, <1>8 DEF HandFits
<1>10. reply' \in [Handlers -> Replies]  BY <1>1
<1>. QED  BY <1>1, <1>3, <1>6, <1>9, <1>10, HandlerMoves

\* Meta keeps all in order.
LEMMA MetaIsFine ==
  ASSUME ServerOK, NEW h \in Handlers, Meta(h)
  PROVE  ServerOK'
<1> DEFINE a == ask[h]
           e == disk.entry[a.path]
           size == SizeAt(disk, a.path)
           r == ParseRange(a.range, size)
           stamp == disk.stamp[e]
           Send_(status, start, count) ==
             /\ hand' = [hand EXCEPT ![h].step = "send", ![h].at = start, ![h].goal = count]
             /\ reply' = [reply EXCEPT ![h] = Header(size, stamp, status)]
<1>1. /\ hand[h].step = "meta" /\ hand[h].step # "none"
      /\ UNCHANGED diskVars /\ UNCHANGED <<share, restarts, ask, gone>>
  BY DEF Meta, At, Unchanged
<1>2. /\ DiskOK(disk', clock') /\ disk \in Disks /\ disk.entry \in Entries
      /\ AskOK(ask[h]) /\ ask[h].path \in Paths
  BY <1>1, DiskStays, Handler DEF DiskOK
<1>3. CASE ~IsFile(e)
  <2>1. Fail(h)  BY <1>3 DEF Meta
  <2>. QED  BY <1>1, <1>2, <2>1, FailIsFine
<1>4. CASE IsFile(e)
  <2>1. e \in Files  BY <1>2, <1>4, EntryKinds
  <2>2. stamp \in Nat /\ size \in Nat  BY <1>2, <2>1, DataOf, SizeIsNat
  <2>3. r.start \in Nat /\ RangeSize(r) \in Nat  BY <1>2, <2>2, RangeTypes DEF AskOK
  <2>5. \/ Send_(200, 0, size)
        \/ Send_(206, r.start, RangeSize(r))
        \/ \E n \in {200, 206, 416} : Finish(h, HeaderOnly(size, stamp, n))
    <3>1. CASE ~UseRange(a, disk.stamp[e])  BY <1>4, <3>1 DEF Meta, Header, HeaderOnly
    <3>2. CASE UseRange(a, disk.stamp[e]) /\ r.ok  BY <1>4, <3>2 DEF Meta, Header, HeaderOnly
    <3>3. CASE UseRange(a, disk.stamp[e]) /\ ~r.ok  BY <1>4, <3>3 DEF Meta, Header, HeaderOnly
    <3>. QED  BY <3>1, <3>2, <3>3
  <2> HIDE DEF r, size, e, stamp
  <2>9. \A n \in {200, 206, 416} :
          Header(size, stamp, n) \in Replies /\ HeaderOnly(size, stamp, n) \in Replies
    BY <2>2, HeadReply
  <2>6. CASE Send_(200, 0, size)  BY <1>1, <2>2, <2>9, <2>6, SendStarts
  <2>7. CASE Send_(206, r.start, RangeSize(r))  BY <1>1, <2>3, <2>9, <2>7, SendStarts
  <2>8. ASSUME NEW n \in {200, 206, 416}, Finish(h, HeaderOnly(size, stamp, n))
        PROVE  ServerOK'
    BY <1>1, <1>2, <2>9, <2>8, FinishIsFine
  <2>. QED  BY <2>5, <2>6, <2>7, <2>8
<1>. QED  BY <1>3, <1>4

\* Send keeps all in order.
LEMMA SendIsFine ==
  ASSUME ServerOK, NEW h \in Handlers, Send(h)
  PROVE  ServerOK'
<1> DEFINE data == disk.data[hand[h].file]
           u == [hand EXCEPT ![h].at = @ + 1]
           v == [u EXCEPT ![h].goal = @ - 1]
           whole == ~gone[h] /\ hand[h].goal = 0
<1>1. /\ hand[h].step = "send" /\ hand[h].step # "none"
      /\ UNCHANGED diskVars /\ UNCHANGED <<share, restarts, ask, gone>>
  BY DEF Send, At, Unchanged
<1>2. /\ DiskOK(disk', clock') /\ disk \in Disks
      /\ hand \in [Handlers -> Hands] /\ reply \in [Handlers -> Replies]
      /\ StepFits(share, ask[h], "send") /\ Holds(hand[h])
      /\ hand[h] \in Hands /\ reply[h] \in Replies
  BY <1>1, DiskStays, Handler DEF DiskOK, ServerOK
<1>3. hand[h].file \in Files /\ hand[h].at \in Nat /\ hand[h].goal \in Nat
  BY <1>1, <1>2 DEF Hands, Holds
<1>4. data \in Seq(Blocks) /\ Len(data) \in Nat  BY <1>2, <1>3, DataOf
<1>5. CASE Finish(h, [reply[h] EXCEPT !.whole = whole])
  <2>1. whole \in BOOLEAN  OBVIOUS
  <2> HIDE DEF whole
  <2>2. [reply[h] EXCEPT !.whole = whole] \in Replies  BY <1>2, <2>1 DEF Replies
  <2>. QED  BY <1>1, <1>2, <1>5, <2>2, FinishIsFine
<1>6. CASE ~Finish(h, [reply[h] EXCEPT !.whole = whole])
  <2> DEFINE b == data[hand[h].at + 1]
  <2>1. /\ hand[h].goal # 0 /\ ~(hand[h].at >= Len(data))
        /\ hand' = [hand EXCEPT ![h].at = @ + 1, ![h].goal = @ - 1]
        /\ reply' = [reply EXCEPT ![h].part = Append(@, b)]
    BY <1>6 DEF Send
  <2>2. hand[h].at + 1 \in 1..Len(data)  BY <1>3, <1>4, <2>1
  <2>3. b \in Blocks  BY <1>4, <2>2, ElementOfSeq
  <2> HIDE DEF b, data, whole
  <2>4. reply[h].part \in Seq(Blocks)  BY <1>2 DEF Replies
  <2>5. Append(reply[h].part, b) \in Seq(Blocks)  BY <2>3, <2>4, AppendProperties
  <2>6. reply' \in [Handlers -> Replies]  BY <1>2, <2>1, <2>5 DEF Replies
  <2>7. hand' = v  BY <2>1
  <2>8. /\ u \in [Handlers -> Hands] /\ u[h].step = "send" /\ u[h].file = hand[h].file
        /\ u[h].goal = hand[h].goal /\ \A i \in Handlers : i # h => u[i] = hand[i]
    BY <1>1, <1>2, <1>3 DEF Hands
  <2> HIDE DEF u
  <2>9. /\ v \in [Handlers -> Hands] /\ v[h].step = "send" /\ v[h].file = hand[h].file
        /\ v[h].goal = hand[h].goal - 1 /\ \A i \in Handlers : i # h => v[i] = hand[i]
    BY <1>3, <2>8 DEF Hands
  <2> HIDE DEF v
  <2>10. Holds(v[h])  BY <1>1, <1>2, <1>3, <2>1, <2>9 DEF Holds, Appending
  <2>11. HandFits(share, ask[h], hand'[h])  BY <1>2, <2>7, <2>9, <2>10 DEF HandFits
  <2>. QED  BY <1>1, <1>2, <2>6, <2>7, <2>9, <2>11, HandlerMoves
<1>. QED  BY <1>5, <1>6

\* The end of an upload, or the way to it: the rights stay what they were.
LEMMA ChangeGoesOn ==
  ASSUME NEW s, NEW a, NEW t \in ChangeSteps, StepFits(s, a, t),
         NEW u \in ChangeSteps, u \in TransferSteps => t \in TransferSteps
  PROVE  StepFits(s, a, u)
BY DEF StepFits, Allowed, ChangeSteps, TransferSteps, Steps

\* BodyEnds keeps all in order.
LEMMA BodyEndsIsFine ==
  ASSUME ServerOK, NEW h \in Handlers, BodyEnds(h)
  PROVE  ServerOK'
<1>1. hand[h].step = "body" /\ UNCHANGED diskVars /\ UNCHANGED <<share, restarts, ask, gone>>
  BY DEF BodyEnds, At, Keep, Unchanged
<1>2. Status(201) \in Replies /\ Status(204) \in Replies  BY PlainReplies
<1>3. Finish(h, Status(201)) \/ Finish(h, Status(204))  BY DEF BodyEnds
<1>. QED  BY <1>1, <1>2, <1>3, FinishIsFine, DiskStays

\* BodyBreaks keeps all in order.
LEMMA BodyBreaksIsFine ==
  ASSUME ServerOK, NEW h \in Handlers, BodyBreaks(h)
  PROVE  ServerOK'
<1>1. /\ hand[h].step = "body" /\ Step(h, "measure")
      /\ UNCHANGED diskVars /\ UNCHANGED <<share, restarts, ask, gone>>
  BY DEF BodyBreaks, At, Keep, Unchanged
<1>2. StepFits(share, ask[h], "body")  BY <1>1, Handler
<1>3. "body" \in ChangeSteps /\ "measure" \in ChangeSteps /\ "measure" \notin TransferSteps
  BY DEF ChangeSteps, TransferSteps
<1>4. StepFits(share, ask[h], "measure")  BY <1>2, <1>3, ChangeGoesOn
<1>. QED  BY <1>1, <1>4, StepIsFine, DiskStays

\* Measure keeps all in order.
LEMMA MeasureIsFine ==
  ASSUME ServerOK, NEW h \in Handlers, Measure(h)
  PROVE  ServerOK'
<1>1. hand[h].step = "measure" /\ UNCHANGED diskVars /\ UNCHANGED <<share, restarts, ask, gone>>
  BY DEF Measure, At, Keep, Unchanged
<1>2. StepFits(share, ask[h], "measure") /\ DiskOK(disk', clock')
  BY <1>1, Handler, DiskStays
<1>3. "measure" \in ChangeSteps /\ "discard" \in ChangeSteps /\ "discard" \notin TransferSteps
  BY DEF ChangeSteps, TransferSteps
<1>4. StepFits(share, ask[h], "discard")  BY <1>2, <1>3, ChangeGoesOn
<1>5. CASE Step(h, "discard")  BY <1>1, <1>2, <1>4, <1>5, StepIsFine
<1>6. CASE Fail(h)  BY <1>1, <1>2, <1>6, FailIsFine
<1>. QED  BY <1>5, <1>6 DEF Measure

\* CopyStat keeps all in order.
LEMMA CopyStatIsFine ==
  ASSUME ServerOK, NEW h \in Handlers, CopyStat(h)
  PROVE  ServerOK'
<1>1. /\ hand[h].step = "copystat"
      /\ UNCHANGED diskVars /\ UNCHANGED <<share, restarts, ask, gone>>
  BY DEF CopyStat, At, Keep, Unchanged
<1>2. StepFits(share, ask[h], "copystat") /\ DiskOK(disk', clock')
  BY <1>1, Handler, DiskStays
<1>3. /\ "copystat" \in ChangeSteps /\ "copystat" \in TransferSteps
      /\ "destparent" \in ChangeSteps
  BY DEF ChangeSteps, TransferSteps
<1>4. StepFits(share, ask[h], "destparent")  BY <1>2, <1>3, ChangeGoesOn
<1>5. CASE Step(h, "destparent")  BY <1>1, <1>2, <1>4, <1>5, StepIsFine
<1>6. CASE Fail(h)  BY <1>1, <1>2, <1>6, FailIsFine
<1>7. CASE Finish(h, Status(403))
  <2>1. Status(403) \in Replies  BY PlainReplies
  <2>. QED  BY <1>1, <1>2, <1>7, <2>1, FinishIsFine
<1>. QED  BY <1>5, <1>6, <1>7 DEF CopyStat

\* DestProbe keeps all in order.
LEMMA DestProbeIsFine ==
  ASSUME ServerOK, NEW h \in Handlers, DestProbe(h)
  PROVE  ServerOK'
<1>1. hand[h].step = "destprobe"  BY DEF DestProbe, At
<1>2. StepFits(share, ask[h], "destprobe")  BY <1>1, Handler
<1>3. /\ "destprobe" \in ChangeSteps /\ "destprobe" \in TransferSteps
      /\ "destcontain" \in ChangeSteps /\ "destcontainparent" \in ChangeSteps
  BY DEF ChangeSteps, TransferSteps
<1>4. StepFits(share, ask[h], "destcontain") /\ StepFits(share, ask[h], "destcontainparent")
  BY <1>2, <1>3, ChangeGoesOn
<1>5. /\ Judge(h, ask[h].dest, "destcontain", "destcontainparent", 400)
      /\ UNCHANGED diskVars /\ Unchanged
  BY DEF DestProbe, Keep
<1>. QED  BY <1>1, <1>4, <1>5, JudgeIsFine

\* DestContain keeps all in order.
LEMMA DestContainIsFine ==
  ASSUME ServerOK, NEW h \in Handlers, DestContain(h)
  PROVE  ServerOK'
<1>1. /\ hand[h].step \in {"destcontain", "destcontainparent"}
      /\ UNCHANGED diskVars /\ UNCHANGED <<share, restarts, ask, gone>>
  BY DEF DestContain, At, Keep, Unchanged
<1>2. StepFits(share, ask[h], hand[h].step) /\ DiskOK(disk', clock')
  BY <1>1, Handler, DiskStays
<1>3. /\ "transfer" \in ChangeSteps
      /\ \A t \in {"destcontain", "destcontainparent"} : t \in ChangeSteps /\ t \in TransferSteps
  BY DEF ChangeSteps, TransferSteps
<1>4. StepFits(share, ask[h], "transfer")  BY <1>1, <1>2, <1>3, ChangeGoesOn
<1>5. CASE Step(h, "transfer")  BY <1>1, <1>2, <1>4, <1>5, StepIsFine
<1>6. CASE Finish(h, Status(400))
  <2>1. Status(400) \in Replies  BY PlainReplies
  <2>. QED  BY <1>1, <1>2, <1>6, <2>1, FinishIsFine
<1>. QED  BY <1>5, <1>6 DEF DestContain

-----------------------------------------------------------------------------
(* Handlers that change something: all stays in order, and what they change *)
(* is theirs to change.                                                    *)

\* The rules do not look at the token of a request that changes something.
LEMMA TokenIsForReading ==
  ASSUME NEW rules, NEW p, NEW method, method # "GET", NEW who, IsVisitor(who)
  PROVE  Guard(rules, p, method, who) = Guard(rules, p, method, [who EXCEPT !.token = NoToken])
<1> DEFINE w == [who EXCEPT !.token = NoToken]
<1>1. w.login = who.login /\ w.right = who.right  BY DEF IsVisitor
<1> HIDE DEF w
<1>2. Guard(rules, p, method, who) = Guard(rules, p, method, w)  BY <1>1 DEF Guard
<1>. QED  BY <1>2 DEF w

\* What was allowed when the rules were asked is what MayChange asks for.
LEMMA AllowedMeans ==
  ASSUME NEW a, AskOK(a), Allowed(share, a)
  PROVE  /\ SwitchOn(a.method) /\ MayWrite(a, a.path)
         /\ a.method \in {"COPY", "MOVE"} => MayWrite(a, a.dest)
<1>1. SwitchOn(a.method) /\ a.method # "GET"  BY DEF Allowed, SwitchOn
<1>2. Reader(a) = [a.who EXCEPT !.token = NoToken]  BY <1>1 DEF Reader
<1>3. IsVisitor(a.who)  BY DEF AskOK
<1>4. Guard(share.rules, a.path, a.method, a.who)
        = Guard(share.rules, a.path, a.method, [a.who EXCEPT !.token = NoToken])
  BY <1>1, <1>3, TokenIsForReading
<1>5. MayWrite(a, a.path)  BY <1>2, <1>4 DEF MayWrite, Allowed
<1>6. a.method \in {"COPY", "MOVE"} => MayWrite(a, a.dest)  BY <1>2 DEF MayWrite, Allowed
<1>. QED  BY <1>1, <1>5, <1>6

\* Whatever changes in this step, h changes, and h may.
Warranted(h) ==
  \A p \in Paths : EntryChanges(p) \/ DataChanges(p) => hand'[h] # hand[h] /\ MayChange(h, p)

\* The paths that the request of h is about.
About(h, t) ==
  t = ask[h].path \/ (ask[h].method \in {"COPY", "MOVE"} /\ t = ask[h].dest)

\* A handler on its way to a change may change what it is about.
LEMMA MayChangeThere ==
  ASSUME ServerOK, NEW h \in Handlers, hand[h].step \in ChangeSteps, NEW p \in Paths,
         \/ \E t \in Paths : About(h, t) /\ IsPrefix(t, p)
         \/ /\ \E t \in Paths : About(h, t) /\ IsPrefix(p, t)
            /\ disk.entry[p] = Absent /\ disk'.entry[p] = Folder
         \/ ~EntryChanges(p) /\ hand[h].file = disk.entry[p]
  PROVE  MayChange(h, p)
<1>1. hand[h].step # "none"  BY DEF ChangeSteps, TransferSteps
<1>2. AskOK(ask[h]) /\ Allowed(share, ask[h])  BY <1>1, Handler DEF StepFits
<1> DEFINE targets == {ask[h].path}
                      \cup (IF ask[h].method \in {"COPY", "MOVE"} THEN {ask[h].dest} ELSE {})
<1>3. \A t : t \in targets <=> About(h, t)  BY DEF About
<1>4. SwitchOn(ask[h].method) /\ \A t \in targets : MayWrite(ask[h], t)
  BY <1>2, AllowedMeans
<1> HIDE DEF targets
<1>5. \/ \E t \in targets : IsPrefix(t, p)
      \/ /\ \E t \in targets : IsPrefix(p, t)
         /\ disk.entry[p] = Absent /\ disk'.entry[p] = Folder
      \/ ~EntryChanges(p) /\ hand[h].file = disk.entry[p]
  BY <1>3
<1>. QED  BY <1>4, <1>5 DEF MayChange, targets

\* The data of no path change.
LEMMA DataStays ==
  ASSUME disk'.data = disk.data
  PROVE  \A p \in Paths : ~DataChanges(p)
BY DEF DataChanges

\* Where the disk is the same nothing needs a warrant.
LEMMA Unchanging ==
  ASSUME UNCHANGED disk
  PROVE  \A h : Warranted(h)
BY DEF Warranted, EntryChanges, DataChanges

\* h is at another step, or done.
LEMMA HandMoves ==
  ASSUME ServerOK, NEW h \in Handlers, NEW t, t # hand[h].step,
         \/ Step(h, t)
         \/ t = "done" /\ \E r \in Replies : Finish(h, r)
  PROVE  hand'[h] # hand[h]
<1>1. hand \in [Handlers -> Hands]  BY DEF ServerOK
<1>2. ASSUME Step(h, t) PROVE hand'[h].step = t
  BY <1>1, <1>2 DEF Step, Hands
<1>3. ASSUME NEW r \in Replies, Finish(h, r) PROVE hand'[h].step = "done"
  BY <1>1, <1>3, FreeHand DEF Finish
<1>. QED  BY <1>2, <1>3

\* UploadParent: only directories above the path come to be.
LEMMA UploadParentIsFine ==
  ASSUME ServerOK, NEW h \in Handlers, UploadParent(h)
  PROVE  ServerOK' /\ Warranted(h)
<1> DEFINE p == ask[h].path
<1>1. /\ hand[h].step = "parent" /\ UNCHANGED <<share, restarts, ask, gone>>
  BY DEF UploadParent, At, Unchanged
<1>2. StepFits(share, ask[h], "parent") /\ DiskOK(disk, clock) /\ p \in Paths
  BY <1>1, Handler
<1>3. "parent" \in ChangeSteps /\ "create" \in ChangeSteps /\ "create" \notin TransferSteps
  BY DEF ChangeSteps, TransferSteps
<1>4. StepFits(share, ask[h], "create")  BY <1>2, <1>3, ChangeGoesOn
<1>5. CASE ~CanEnsureParent(disk, p)
  <2>1. Fail(h) /\ UNCHANGED diskVars  BY <1>5 DEF UploadParent, Keep
  <2>. QED  BY <1>1, <2>1, DiskStays, FailIsFine, Unchanging DEF diskVars
<1>6. CASE CanEnsureParent(disk, p)
  <2>1. Step(h, "create") /\ disk' = EnsureParent(disk, p) /\ clock' = clock
    BY <1>6 DEF UploadParent, Change
  <2>2. /\ DiskOK(EnsureParent(disk, p), clock)
        /\ EnsureParent(disk, p).data = disk.data
        /\ \A r \in Paths : EnsureParent(disk, p).entry[r] # disk.entry[r] =>
             /\ IsPrefix(r, p)
             /\ disk.entry[r] = Absent /\ EnsureParent(disk, p).entry[r] = Folder
    BY <1>2, <1>6, EnsureParentDisk
  <2>3. ServerOK'  BY <1>1, <1>4, <2>1, <2>2, StepIsFine
  <2>4. ASSUME NEW r \in Paths, EntryChanges(r) \/ DataChanges(r)
        PROVE  hand'[h] # hand[h] /\ MayChange(h, r)
    <3>1. EntryChanges(r)  BY <2>1, <2>2, <2>4, DataStays
    <3>2. IsPrefix(r, p) /\ disk.entry[r] = Absent /\ disk'.entry[r] = Folder
      BY <2>1, <2>2, <3>1 DEF EntryChanges
    <3>3. About(h, p)  BY DEF About
    <3>4. MayChange(h, r)  BY <1>1, <1>2, <1>3, <3>2, <3>3, MayChangeThere
    <3>5. hand'[h] # hand[h]  BY <1>1, <2>1, HandMoves
    <3>. QED  BY <3>4, <3>5
  <2>. QED  BY <2>3, <2>4 DEF Warranted
<1>. QED  BY <1>5, <1>6

\* DestParent: only directories above the destination come to be.
LEMMA DestParentIsFine ==
  ASSUME ServerOK, NEW h \in Handlers, DestParent(h)
  PROVE  ServerOK' /\ Warranted(h)
<1> DEFINE q == ask[h].dest
<1>1. /\ hand[h].step = "destparent" /\ UNCHANGED <<share, restarts, ask, gone>>
  BY DEF DestParent, At, Unchanged
<1>2. StepFits(share, ask[h], "destparent") /\ DiskOK(disk, clock) /\ q \in Paths
  BY <1>1, Handler
<1>3. /\ "destparent" \in ChangeSteps /\ "destparent" \in TransferSteps
      /\ "destprobe" \in ChangeSteps
  BY DEF ChangeSteps, TransferSteps
<1>4. StepFits(share, ask[h], "destprobe")  BY <1>2, <1>3, ChangeGoesOn
<1>5. CASE ~CanEnsureParent(disk, q)
  <2>1. Fail(h) /\ UNCHANGED diskVars  BY <1>5 DEF DestParent, Keep
  <2>. QED  BY <1>1, <2>1, DiskStays, FailIsFine, Unchanging DEF diskVars
<1>6. CASE CanEnsureParent(disk, q)
  <2>1. Step(h, "destprobe") /\ disk' = EnsureParent(disk, q) /\ clock' = clock
    BY <1>6 DEF DestParent, Change
  <2>2. /\ DiskOK(EnsureParent(disk, q), clock)
        /\ EnsureParent(disk, q).data = disk.data
        /\ \A r \in Paths : EnsureParent(disk, q).entry[r] # disk.entry[r] =>
             /\ IsPrefix(r, q)
             /\ disk.entry[r] = Absent /\ EnsureParent(disk, q).entry[r] = Folder
    BY <1>2, <1>6, EnsureParentDisk
  <2>3. ServerOK'  BY <1>1, <1>4, <2>1, <2>2, StepIsFine
  <2>4. ASSUME NEW r \in Paths, EntryChanges(r) \/ DataChanges(r)
        PROVE  hand'[h] # hand[h] /\ MayChange(h, r)
    <3>1. EntryChanges(r)  BY <2>1, <2>2, <2>4, DataStays
    <3>2. IsPrefix(r, q) /\ disk.entry[r] = Absent /\ disk'.entry[r] = Folder
      BY <2>1, <2>2, <3>1 DEF EntryChanges
    <3>3. About(h, q)  BY <1>2, <1>3 DEF About, StepFits
    <3>4. MayChange(h, r)  BY <1>1, <1>2, <1>3, <3>2, <3>3, MayChangeThere
    <3>5. hand'[h] # hand[h]  BY <1>1, <2>1, HandMoves
    <3>. QED  BY <3>4, <3>5
  <2>. QED  BY <2>3, <2>4 DEF Warranted
<1>. QED  BY <1>5, <1>6

\* Mkcol: only directories down to the path come to be.
LEMMA MkcolIsFine ==
  ASSUME ServerOK, NEW h \in Handlers, Mkcol(h)
  PROVE  ServerOK' /\ Warranted(h)
<1> DEFINE p == ask[h].path
<1>1. /\ hand[h].step = "mkcol" /\ UNCHANGED <<share, restarts, ask, gone>>
  BY DEF Mkcol, At, Unchanged
<1>2. DiskOK(disk, clock) /\ p \in Paths  BY <1>1, Handler
<1>3. "mkcol" \in ChangeSteps  BY DEF ChangeSteps
<1>4. CASE ~CanMakeDirs(disk, p)
  <2>1. Fail(h) /\ UNCHANGED diskVars  BY <1>4 DEF Mkcol, Keep
  <2>. QED  BY <1>1, <2>1, DiskStays, FailIsFine, Unchanging DEF diskVars
<1>5. CASE CanMakeDirs(disk, p)
  <2>1. Finish(h, Status(201)) /\ disk' = MakeDirs(disk, p) /\ clock' = clock
    BY <1>5 DEF Mkcol, Change
  <2>2. /\ DiskOK(MakeDirs(disk, p), clock)
        /\ MakeDirs(disk, p).data = disk.data
        /\ \A r \in Paths : MakeDirs(disk, p).entry[r] # disk.entry[r] =>
             /\ IsPrefix(r, p)
             /\ disk.entry[r] = Absent /\ MakeDirs(disk, p).entry[r] = Folder
    BY <1>2, <1>5, MakeDirsDisk
  <2>3. Status(201) \in Replies  BY PlainReplies
  <2>4. ServerOK'  BY <1>1, <2>1, <2>2, <2>3, FinishIsFine
  <2>5. ASSUME NEW r \in Paths, EntryChanges(r) \/ DataChanges(r)
        PROVE  hand'[h] # hand[h] /\ MayChange(h, r)
    <3>1. EntryChanges(r)  BY <2>1, <2>2, <2>5, DataStays
    <3>2. IsPrefix(r, p) /\ disk.entry[r] = Absent /\ disk'.entry[r] = Folder
      BY <2>1, <2>2, <3>1 DEF EntryChanges
    <3>3. About(h, p)  BY DEF About
    <3>4. MayChange(h, r)  BY <1>1, <1>2, <1>3, <3>2, <3>3, MayChangeThere
    <3>5. hand'[h] # hand[h]  BY <1>1, <2>1, <2>3, HandMoves
    <3>. QED  BY <3>4, <3>5
  <2>. QED  BY <2>4, <2>5 DEF Warranted
<1>. QED  BY <1>4, <1>5

\* Delete: only what is below the path goes.
LEMMA DeleteIsFine ==
  ASSUME ServerOK, NEW h \in Handlers, Delete(h)
  PROVE  ServerOK' /\ Warranted(h)
<1> DEFINE p == ask[h].path
<1>1. /\ hand[h].step = "delete" /\ UNCHANGED <<share, restarts, ask, gone>>
  BY DEF Delete, At, Unchanged
<1>2. DiskOK(disk, clock) /\ p \in Paths  BY <1>1, Handler
<1>3. "delete" \in ChangeSteps  BY DEF ChangeSteps
<1>4. CASE Fail(h) /\ Keep
  BY <1>1, <1>4, DiskStays, FailIsFine, Unchanging DEF diskVars, Keep
<1>5. CASE Change(Cleared(disk, p)) /\ Finish(h, Status(204))
  <2>1. disk' = Cleared(disk, p) /\ clock' = clock  BY <1>5 DEF Change
  <2>2. /\ DiskOK(Cleared(disk, p), clock)
        /\ Cleared(disk, p).data = disk.data
        /\ \A r \in Paths : Cleared(disk, p).entry[r] # disk.entry[r] => IsPrefix(p, r)
    BY <1>2, ClearedDisk
  <2>3. Status(204) \in Replies  BY PlainReplies
  <2>4. ServerOK'  BY <1>1, <1>5, <2>1, <2>2, <2>3, FinishIsFine
  <2>5. ASSUME NEW r \in Paths, EntryChanges(r) \/ DataChanges(r)
        PROVE  hand'[h] # hand[h] /\ MayChange(h, r)
    <3>1. EntryChanges(r)  BY <2>1, <2>2, <2>5, DataStays
    <3>2. IsPrefix(p, r)  BY <2>1, <2>2, <3>1 DEF EntryChanges
    <3>3. About(h, p)  BY DEF About
    <3>4. MayChange(h, r)  BY <1>1, <1>2, <1>3, <3>2, <3>3, MayChangeThere
    <3>5. hand'[h] # hand[h]  BY <1>1, <1>5, <2>3, HandMoves
    <3>. QED  BY <3>4, <3>5
  <2>. QED  BY <2>4, <2>5 DEF Warranted
<1>. QED  BY <1>4, <1>5 DEF Delete

\* Discard: only the path goes, whoever's file is there now.
LEMMA DiscardIsFine ==
  ASSUME ServerOK, NEW h \in Handlers, Discard(h)
  PROVE  ServerOK' /\ Warranted(h)
<1> DEFINE p == ask[h].path
<1>1. /\ hand[h].step = "discard" /\ UNCHANGED <<share, restarts, ask, gone>> /\ Fail(h)
  BY DEF Discard, At, Unchanged
<1>2. DiskOK(disk, clock) /\ p \in Paths  BY <1>1, Handler
<1>3. "discard" \in ChangeSteps  BY DEF ChangeSteps
<1>4. CASE ~IsFile(disk.entry[p])
  <2>1. disk' = disk /\ clock' = clock  BY <1>4 DEF Discard, Change
  <2>. QED  BY <1>1, <1>2, <2>1, FailIsFine, Unchanging
<1>5. CASE IsFile(disk.entry[p])
  <2>1. disk' = WithEntry(disk, p, Absent) /\ clock' = clock
    BY <1>5 DEF Discard, Change
  <2>2. /\ DiskOK(WithEntry(disk, p, Absent), clock)
        /\ WithEntry(disk, p, Absent).data = disk.data
        /\ \A r \in Paths : WithEntry(disk, p, Absent).entry[r] # disk.entry[r] => r = p
    BY <1>2, <1>5, UnlinkedDisk
  <2>3. ServerOK'  BY <1>1, <2>1, <2>2, FailIsFine
  <2>4. ASSUME NEW r \in Paths, EntryChanges(r) \/ DataChanges(r)
        PROVE  hand'[h] # hand[h] /\ MayChange(h, r)
    <3>1. EntryChanges(r)  BY <2>1, <2>2, <2>4, DataStays
    <3>2. r = p  BY <2>1, <2>2, <3>1 DEF EntryChanges
    <3>3. About(h, p) /\ IsPrefix(p, r)  BY <1>2, <3>2, PathOrder DEF About
    <3>4. MayChange(h, r)  BY <1>1, <1>2, <1>3, <3>3, MayChangeThere
    <3>5. Finish(h, Status(500)) /\ Status(500) \in Replies  BY <1>1, PlainReplies DEF Fail
    <3>6. hand'[h] # hand[h]  BY <1>1, <3>5, HandMoves
    <3>. QED  BY <3>4, <3>6
  <2>. QED  BY <2>3, <2>4 DEF Warranted
<1>. QED  BY <1>4, <1>5

\* Move: only what is below either path changes.
LEMMA MoveIsFine ==
  ASSUME ServerOK, NEW h \in Handlers, Move(h)
  PROVE  ServerOK' /\ Warranted(h)
<1> DEFINE p == ask[h].path
           q == ask[h].dest
<1>1. /\ hand[h].step = "transfer" /\ ask[h].method = "MOVE"
      /\ UNCHANGED <<share, restarts, ask, gone>>
  BY DEF Move, At, Unchanged
<1>2. DiskOK(disk, clock) /\ p \in Paths /\ q \in Paths  BY <1>1, Handler
<1>3. "transfer" \in ChangeSteps  BY DEF ChangeSteps, TransferSteps
<1>4. CASE ~CanRename(disk, p, q)
  <2>1. Fail(h) /\ UNCHANGED diskVars  BY <1>4 DEF Move, Keep
  <2>. QED  BY <1>1, <2>1, DiskStays, FailIsFine, Unchanging DEF diskVars
<1>5. CASE CanRename(disk, p, q)
  <2>1. Finish(h, Status(204)) /\ disk' = Renamed(disk, p, q) /\ clock' = clock
    BY <1>5 DEF Move, Change
  <2>2. /\ DiskOK(Renamed(disk, p, q), clock)
        /\ Renamed(disk, p, q).data = disk.data
        /\ \A r \in Paths : Renamed(disk, p, q).entry[r] # disk.entry[r] =>
             IsPrefix(p, r) \/ IsPrefix(q, r)
    BY <1>2, <1>5, RenamedDisk
  <2>3. Status(204) \in Replies  BY PlainReplies
  <2>4. ServerOK'  BY <1>1, <2>1, <2>2, <2>3, FinishIsFine
  <2>5. ASSUME NEW r \in Paths, EntryChanges(r) \/ DataChanges(r)
        PROVE  hand'[h] # hand[h] /\ MayChange(h, r)
    <3>1. EntryChanges(r)  BY <2>1, <2>2, <2>5, DataStays
    <3>2. IsPrefix(p, r) \/ IsPrefix(q, r)  BY <2>1, <2>2, <3>1 DEF EntryChanges
    <3>3. About(h, p) /\ About(h, q)  BY <1>1 DEF About
    <3>4. MayChange(h, r)  BY <1>1, <1>2, <1>3, <3>2, <3>3, MayChangeThere
    <3>5. hand'[h] # hand[h]  BY <1>1, <2>1, <2>3, HandMoves
    <3>. QED  BY <3>4, <3>5
  <2>. QED  BY <2>4, <2>5 DEF Warranted
<1>. QED  BY <1>4, <1>5

\* The file at p gets other data.
LEMMA Overwriting ==
  ASSUME DiskOK(disk, clock), NEW p \in Paths, IsFile(disk.entry[p]),
         NEW data \in Seq(Blocks), Write(disk.entry[p], disk, data)
  PROVE  /\ DiskOK(disk', clock') /\ disk.entry[p] \in Files
         /\ \A r \in Paths : EntryChanges(r) \/ DataChanges(r) => r = p
<1> DEFINE e == disk.entry[p]
<1>1. /\ disk' = Touched(disk, e, data) /\ clock' = clock + 1
      /\ disk \in Disks /\ TreeOK(disk.entry) /\ disk.entry \in Entries
  BY DEF Write, DiskOK, TreeOK
<1>2. e \in Files  BY <1>1, EntryKinds
<1>3. DiskOK(disk', clock')  BY <1>1, <1>2, TouchedDisk
<1>4. disk'.entry = disk.entry /\ disk'.data = [disk.data EXCEPT ![e] = data]
  <2>1. /\ Touched(disk, e, data).entry = disk.entry
        /\ Touched(disk, e, data).data = [disk.data EXCEPT ![e] = data]
    BY <1>1, <1>2, TouchedIs
  <2>. QED  BY <1>1, <2>1
<1>5. ASSUME NEW r \in Paths, EntryChanges(r) \/ DataChanges(r) PROVE r = p
  <2>1. IsFile(disk.entry[r]) /\ disk'.data[disk.entry[r]] # disk.data[disk.entry[r]]
    BY <1>4, <1>5 DEF EntryChanges, DataChanges
  <2>2. disk.entry[r] \in Files  BY <1>1, <2>1, EntryKinds
  <2>3. disk.data \in [Files -> Seq(Blocks)]  BY <1>1 DEF Disks
  <2>4. disk.entry[r] = e  BY <1>4, <2>1, <2>2, <2>3
  <2>. QED  BY <1>1, <2>1, <2>4 DEF TreeOK
<1>. QED  BY <1>2, <1>3, <1>5

\* A new file comes to be at p.
LEMMA Creating ==
  ASSUME DiskOK(disk, clock), NEW p \in Paths, CanCreate(disk, p), Room,
         NEW data \in Seq(Blocks), Write(FreeFile, WithEntry(disk, p, FreeFile), data)
  PROVE  /\ DiskOK(disk', clock') /\ FreeFile \in Files
         /\ \A r \in Paths : EntryChanges(r) \/ DataChanges(r) => r = p
<1> DEFINE f == FreeFile
           d == WithEntry(disk, p, f)
<1>1. f \in Files /\ Unused(f)  BY DEF Room, FreeFile
<1> HIDE DEF f
<1>2. \A q \in Paths : disk.entry[q] # f  BY <1>1 DEF Unused
<1>3. /\ DiskOK(d, clock) /\ d.data = disk.data
      /\ \A r \in Paths : d.entry[r] # disk.entry[r] => r = p
  BY <1>1, <1>2, PlacedDisk
<1>4. /\ disk' = Touched(d, f, data) /\ clock' = clock + 1
      /\ d \in Disks /\ disk \in Disks /\ disk.entry \in Entries
  BY <1>3 DEF Write, DiskOK, TreeOK, f
<1> HIDE DEF d
<1>5. DiskOK(disk', clock')  BY <1>1, <1>3, <1>4, TouchedDisk
<1>6. disk'.entry = d.entry /\ disk'.data = [d.data EXCEPT ![f] = data]
  <2>1. /\ Touched(d, f, data).entry = d.entry
        /\ Touched(d, f, data).data = [d.data EXCEPT ![f] = data]
    BY <1>1, <1>4, TouchedIs
  <2>. QED  BY <1>4, <2>1
<1>7. ASSUME NEW r \in Paths, EntryChanges(r) PROVE r = p
  BY <1>3, <1>6, <1>7 DEF EntryChanges
<1>8. ASSUME NEW r \in Paths PROVE ~DataChanges(r)
  <2>1. SUFFICES ASSUME IsFile(disk.entry[r]) PROVE disk'.data[disk.entry[r]] = disk.data[disk.entry[r]]
    BY DEF DataChanges
  <2>2. disk.entry[r] \in Files /\ disk.entry[r] # f  BY <1>2, <1>4, <2>1, EntryKinds
  <2>3. disk.data \in [Files -> Seq(Blocks)]  BY <1>4 DEF Disks
  <2>. QED  BY <1>3, <1>6, <2>2, <2>3
<1>. QED  BY <1>1, <1>5, <1>7, <1>8 DEF f

\* An upload has its file open and begins.
LEMMA BodyStarts ==
  ASSUME ServerOK, NEW h \in Handlers, hand[h].step = "create",
         NEW f \in Files, NEW goal \in Int, goal >= Appending,
         hand' = [hand EXCEPT ![h].step = "body", ![h].file = f, ![h].goal = goal],
         UNCHANGED reply,
         DiskOK(disk', clock'), UNCHANGED <<share, restarts, ask, gone>>
  PROVE  ServerOK' /\ hand'[h] # hand[h]
<1> DEFINE u == [hand EXCEPT ![h].step = "body"]
           v == [u EXCEPT ![h].file = f]
           w == [v EXCEPT ![h].goal = goal]
<1>1. /\ hand \in [Handlers -> Hands] /\ reply \in [Handlers -> Replies]
      /\ StepFits(share, ask[h], "create") /\ Holds(hand[h])
  BY Handler DEF ServerOK
<1>2. "body" \in Steps /\ "create" \in ChangeSteps /\ "body" \in ChangeSteps
      /\ "body" \notin TransferSteps
  BY DEF Steps, ChangeSteps, TransferSteps
<1>3. hand' = w  OBVIOUS
<1>4. /\ u \in [Handlers -> Hands] /\ u[h].step = "body"
      /\ \A i \in Handlers : i # h => u[i] = hand[i]
  BY <1>1, <1>2 DEF Hands
<1> HIDE DEF u
<1>5. /\ v \in [Handlers -> Hands] /\ v[h].step = "body" /\ v[h].file = f
      /\ \A i \in Handlers : i # h => v[i] = hand[i]
  BY <1>4 DEF Hands
<1> HIDE DEF v
<1>6. /\ w \in [Handlers -> Hands] /\ w[h].step = "body" /\ w[h].file = f
      /\ w[h].goal = goal /\ \A i \in Handlers : i # h => w[i] = hand[i]
  BY <1>5 DEF Hands
<1> HIDE DEF w
<1>7. f # 0  BY Numbers DEF Absent
<1>8. Holds(w[h])  BY <1>6, <1>7 DEF Holds
<1>9. StepFits(share, ask[h], "body")  BY <1>1, <1>2, ChangeGoesOn
<1>10. HandFits(share, ask[h], hand'[h])  BY <1>3, <1>6, <1>8, <1>9 DEF HandFits
<1>11. hand'[h] # hand[h]  BY <1>3, <1>6
<1>12. ServerOK'  BY <1>1, <1>3, <1>6, <1>10, HandlerMoves
<1>. QED  BY <1>11, <1>12

\* What changes at the path of an upload is warranted.
LEMMA AtItsPath ==
  ASSUME ServerOK, NEW h \in Handlers, hand[h].step \in ChangeSteps, hand'[h] # hand[h],
         NEW p \in Paths, About(h, p),
         \A r \in Paths : EntryChanges(r) \/ DataChanges(r) => r = p
  PROVE  Warranted(h)
<1>1. IsPrefix(p, p)  BY PathOrder
<1>2. MayChange(h, p)  BY <1>1, MayChangeThere
<1>. QED  BY <1>2 DEF Warranted

\* Create: only the path and its file change.
LEMMA CreateIsFine ==
  ASSUME ServerOK, NEW h \in Handlers, Create(h)
  PROVE  ServerOK' /\ Warranted(h)
<1> DEFINE p == ask[h].path
           offset == UploadOffset(ask[h], hand[h].size)
           goal == IF offset = hand[h].size THEN Appending ELSE offset
           Begin(f, g) == /\ hand' = [hand EXCEPT ![h].step = "body", ![h].file = f,
                                                  ![h].goal = g]
                          /\ UNCHANGED reply
<1>1. /\ hand[h].step = "create" /\ hand[h].step # "none"
      /\ UNCHANGED <<share, restarts, ask, gone>>
  BY DEF Create, At, Unchanged
<1>2. /\ DiskOK(disk, clock) /\ disk.entry \in Entries /\ p \in Paths /\ AskOK(ask[h])
      /\ hand[h].size \in Nat /\ "create" \in ChangeSteps
  BY <1>1, Handler DEF Hands, ChangeSteps
<1>3. offset \in Nat  BY <1>2, RangeTypes DEF UploadOffset, AskOK
<1>4. goal \in Int /\ goal >= Appending  BY <1>3 DEF Appending
<1>5. 0 \in Int /\ 0 >= Appending /\ <<>> \in Seq(Blocks) /\ About(h, p)
  BY EmptySeq DEF Appending, About
<1>6. \/ Fail(h) /\ Keep
      \/ IsFile(disk.entry[p]) /\ Write(disk.entry[p], disk, <<>>) /\ Begin(disk.entry[p], 0)
      \/ /\ CanCreate(disk, p) /\ Room /\ Write(FreeFile, WithEntry(disk, p, FreeFile), <<>>)
         /\ Begin(FreeFile, 0)
      \/ IsFile(disk.entry[p]) /\ Keep /\ Begin(disk.entry[p], goal)
  BY DEF Create, CreateAt
<1> HIDE DEF goal, offset
<1>7. CASE Fail(h) /\ Keep
  BY <1>1, <1>7, DiskStays, FailIsFine, Unchanging DEF diskVars, Keep
<1>8. CASE IsFile(disk.entry[p]) /\ Write(disk.entry[p], disk, <<>>) /\ Begin(disk.entry[p], 0)
  <2>1. /\ DiskOK(disk', clock') /\ disk.entry[p] \in Files
        /\ \A r \in Paths : EntryChanges(r) \/ DataChanges(r) => r = p
    BY <1>2, <1>5, <1>8, Overwriting
  <2>2. ServerOK' /\ hand'[h] # hand[h]  BY <1>1, <1>5, <1>8, <2>1, BodyStarts
  <2>3. Warranted(h)  BY <1>1, <1>2, <1>5, <2>1, <2>2, AtItsPath
  <2>. QED  BY <2>2, <2>3
<1>9. CASE /\ CanCreate(disk, p) /\ Room
           /\ Write(FreeFile, WithEntry(disk, p, FreeFile), <<>>) /\ Begin(FreeFile, 0)
  <2>1. /\ DiskOK(disk', clock') /\ FreeFile \in Files
        /\ \A r \in Paths : EntryChanges(r) \/ DataChanges(r) => r = p
    BY <1>2, <1>5, <1>9, Creating
  <2>2. ServerOK' /\ hand'[h] # hand[h]  BY <1>1, <1>5, <1>9, <2>1, BodyStarts
  <2>3. Warranted(h)  BY <1>1, <1>2, <1>5, <2>1, <2>2, AtItsPath
  <2>. QED  BY <2>2, <2>3
<1>10. CASE IsFile(disk.entry[p]) /\ Keep /\ Begin(disk.entry[p], goal)
  <2>1. disk.entry[p] \in Files /\ UNCHANGED diskVars  BY <1>2, <1>10, EntryKinds DEF Keep
  <2>2. ServerOK'  BY <1>1, <1>4, <1>10, <2>1, DiskStays, BodyStarts
  <2>. QED  BY <2>1, <2>2, Unchanging DEF diskVars
<1>. QED  BY <1>6, <1>7, <1>8, <1>9, <1>10

\* What is written is made of blocks.
LEMMA WriteAtType ==
  ASSUME NEW data \in Seq(Blocks), NEW offset \in Nat, NEW b \in Blocks
  PROVE  WriteAt(data, offset, b) \in Seq(Blocks)
<1> DEFINE n == Higher(Len(data), offset + 1)
<1>1. Len(data) \in Nat  BY LenProperties
<1>2. n \in Nat  BY <1>1 DEF Higher
<1>3. Hole \in Blocks  BY DEF Hole, Blocks, Owners
<1> HIDE DEF n
<1>4. ASSUME NEW i \in 1..n
      PROVE  (IF i = offset + 1 THEN b ELSE IF i =< Len(data) THEN data[i] ELSE Hole) \in Blocks
  <2>1. CASE i =< Len(data)
    <3>1. i \in 1..Len(data)  BY <1>1, <1>2, <2>1
    <3>2. data[i] \in Blocks  BY <3>1, ElementOfSeq
    <3>. QED  BY <2>1, <3>2
  <2>2. CASE ~(i =< Len(data))  BY <2>2, <1>3
  <2>. QED  BY <2>1, <2>2
<1>5. [i \in 1..n |-> IF i = offset + 1 THEN b ELSE IF i =< Len(data) THEN data[i] ELSE Hole]
        \in Seq(Blocks)
  BY <1>2, <1>4, IsASeq
<1>. QED  BY <1>5 DEF WriteAt, n

\* Body: only the open file changes, wherever it is by now.
LEMMA BodyIsFine ==
  ASSUME ServerOK, NEW h \in Handlers, Body(h)
  PROVE  ServerOK' /\ Warranted(h)
<1> DEFINE f == hand[h].file
           data == disk.data[f]
           offset == IF hand[h].goal = Appending THEN Len(data) ELSE hand[h].goal + hand[h].at
           b == ask[h].body[hand[h].at + 1]
           u == [hand EXCEPT ![h].at = hand[h].at + 1]
<1>1. /\ hand[h].step = "body" /\ hand[h].step # "none" /\ hand[h].at < Len(ask[h].body)
      /\ hand' = u /\ UNCHANGED reply /\ UNCHANGED <<share, restarts, ask, gone>>
      /\ disk' = Touched(disk, f, WriteAt(data, offset, b)) /\ clock' = clock + 1
  BY DEF Body, Offset, At, Unchanged, Write
<1>2. /\ DiskOK(disk, clock) /\ disk \in Disks /\ disk.entry \in Entries
      /\ ask[h].body \in Seq(Blocks) /\ "body" \in ChangeSteps
      /\ hand \in [Handlers -> Hands] /\ reply \in [Handlers -> Replies]
      /\ hand[h] \in Hands /\ StepFits(share, ask[h], "body") /\ Holds(hand[h])
  BY <1>1, Handler DEF ServerOK, ChangeSteps, AskOK, DiskOK
<1>3. /\ f \in Files /\ hand[h].at \in Nat
      /\ hand[h].goal = Appending \/ hand[h].goal \in Nat
  BY <1>1, <1>2 DEF Hands, Holds, Appending
<1>4. data \in Seq(Blocks) /\ Len(data) \in Nat /\ disk.data \in [Files -> Seq(Blocks)]
  BY <1>2, <1>3, DataOf DEF Disks
<1>5. offset \in Nat  BY <1>3, <1>4
<1>6. b \in Blocks
  <2>1. Len(ask[h].body) \in Nat  BY <1>2, LenProperties
  <2>2. hand[h].at + 1 \in 1..Len(ask[h].body)  BY <1>1, <1>3, <2>1
  <2>. QED  BY <1>2, <2>2, ElementOfSeq
<1> HIDE DEF offset, b, data
<1>7. WriteAt(data, offset, b) \in Seq(Blocks)  BY <1>4, <1>5, <1>6, WriteAtType
<1>8. DiskOK(disk', clock')  BY <1>1, <1>2, <1>3, <1>7, TouchedDisk
<1>9. disk'.entry = disk.entry /\ disk'.data = [disk.data EXCEPT ![f] = WriteAt(data, offset, b)]
  <2> DEFINE got == WriteAt(data, offset, b)
  <2>1. disk' = Touched(disk, f, got)  BY <1>1
  <2> HIDE DEF got
  <2>2. /\ Touched(disk, f, got).entry = disk.entry
        /\ Touched(disk, f, got).data = [disk.data EXCEPT ![f] = got]
    BY <1>2, <1>3, TouchedIs
  <2>3. disk'.entry = disk.entry /\ disk'.data = [disk.data EXCEPT ![f] = got]
    BY <2>1, <2>2
  <2>. QED  BY <2>3 DEF got
<1>10. /\ u \in [Handlers -> Hands] /\ u[h].step = "body" /\ u[h].file = f
       /\ u[h].goal = hand[h].goal /\ u[h].at # hand[h].at
       /\ \A i \in Handlers : i # h => u[i] = hand[i]
  <2> DEFINE n == hand[h].at + 1
             k == [hand[h] EXCEPT !.at = n]
  <2>1. n \in Nat /\ n # hand[h].at  BY <1>3
  <2>2. u = [hand EXCEPT ![h] = k]  OBVIOUS
  <2> HIDE DEF n, f, u
  <2>3. /\ k \in Hands /\ k.step = hand[h].step /\ k.file = hand[h].file
        /\ k.goal = hand[h].goal /\ k.at = n
    BY <1>2, <2>1 DEF Hands
  <2> HIDE DEF k
  <2>4. u \in [Handlers -> Hands] /\ u[h] = k /\ \A i \in Handlers : i # h => u[i] = hand[i]
    BY <1>2, <2>2, <2>3
  <2>. QED  BY <1>1, <2>1, <2>3, <2>4 DEF f
<1> HIDE DEF u
<1>11. Holds(u[h])  BY <1>1, <1>2, <1>10 DEF Holds
<1>12. HandFits(share, ask[h], hand'[h])  BY <1>1, <1>2, <1>10, <1>11 DEF HandFits
<1>13. ServerOK'  BY <1>1, <1>2, <1>8, <1>10, <1>12, HandlerMoves
<1>14. ASSUME NEW r \in Paths, EntryChanges(r) \/ DataChanges(r)
       PROVE  hand'[h] # hand[h] /\ MayChange(h, r)
  <2>1. ~EntryChanges(r)  BY <1>9 DEF EntryChanges
  <2>2. IsFile(disk.entry[r]) /\ disk'.data[disk.entry[r]] # disk.data[disk.entry[r]]
    BY <1>14, <2>1 DEF DataChanges
  <2>3. disk.entry[r] \in Files  BY <1>2, <2>2, EntryKinds
  <2>4. hand[h].file = disk.entry[r]  BY <1>4, <1>9, <2>2, <2>3
  <2>5. MayChange(h, r)  BY <1>1, <1>2, <2>1, <2>4, MayChangeThere
  <2>6. hand'[h] # hand[h]  BY <1>1, <1>10
  <2>. QED  BY <2>5, <2>6
<1>. QED  BY <1>13, <1>14 DEF Warranted

\* Copy: only the destination and its file change.
LEMMA CopyIsFine ==
  ASSUME ServerOK, NEW h \in Handlers, Copy(h)
  PROVE  ServerOK' /\ Warranted(h)
<1> DEFINE p == ask[h].path
           q == ask[h].dest
           data == disk.data[disk.entry[p]]
<1>1. /\ hand[h].step = "transfer" /\ hand[h].step # "none" /\ ask[h].method = "COPY"
      /\ UNCHANGED <<share, restarts, ask, gone>>
  BY DEF Copy, At, Unchanged
<1>2. /\ DiskOK(disk, clock) /\ disk \in Disks /\ disk.entry \in Entries
      /\ p \in Paths /\ q \in Paths
      /\ "transfer" \in ChangeSteps /\ About(h, q) /\ Status(204) \in Replies
  BY <1>1, Handler, PlainReplies DEF ChangeSteps, TransferSteps, About, DiskOK
<1>3. CASE Fail(h) /\ Keep
  BY <1>1, <1>3, DiskStays, FailIsFine, Unchanging DEF diskVars, Keep
<1>4. CASE IsFile(disk.entry[p]) /\ CanCreate(disk, q) /\ ~(Fail(h) /\ Keep)
  <2>1. disk.entry[p] \in Files  BY <1>2, <1>4, EntryKinds
  <2>2. data \in Seq(Blocks) /\ <<>> \in Seq(Blocks)  BY <1>2, <2>1, DataOf, EmptySeq
  <2>3. \E got \in {data, <<>>} :
          /\ Finish(h, Status(204))
          /\ \/ IsFile(disk.entry[q]) /\ Write(disk.entry[q], disk, got)
             \/ Room /\ Write(FreeFile, WithEntry(disk, q, FreeFile), got)
    BY <1>4 DEF Copy, CreateAt
  <2> HIDE DEF data
  <2>4. PICK got \in {data, <<>>} :
          /\ Finish(h, Status(204))
          /\ \/ IsFile(disk.entry[q]) /\ Write(disk.entry[q], disk, got)
             \/ Room /\ Write(FreeFile, WithEntry(disk, q, FreeFile), got)
    BY <2>3
  <2>5. got \in Seq(Blocks)  BY <2>2
  <2>6. /\ DiskOK(disk', clock')
        /\ \A r \in Paths : EntryChanges(r) \/ DataChanges(r) => r = q
    BY <1>2, <1>4, <2>4, <2>5, Overwriting, Creating
  <2>7. ServerOK'  BY <1>1, <1>2, <2>4, <2>6, FinishIsFine
  <2>8. hand'[h] # hand[h]  BY <1>1, <1>2, <2>4, HandMoves
  <2>9. Warranted(h)  BY <1>1, <1>2, <2>6, <2>8, AtItsPath
  <2>. QED  BY <2>7, <2>9
<1>. QED  BY <1>3, <1>4 DEF Copy

-----------------------------------------------------------------------------
(* Requests come, connections break, the share starts again.               *)

\* A free handler takes a request, and all stays in order.
LEMMA RequestTaken ==
  ASSUME ServerOK, NEW h \in Handlers, NEW a, AskOK(a), ask' = [ask EXCEPT ![h] = a],
         NEW k \in Hands, HandFits(share, a, k), hand' = [hand EXCEPT ![h] = k],
         NEW r \in Replies, reply' = [reply EXCEPT ![h] = r],
         UNCHANGED <<share, disk, clock, restarts, gone>>
  PROVE  ServerOK'
<1>1. /\ hand \in [Handlers -> Hands] /\ reply \in [Handlers -> Replies]
      /\ DOMAIN ask = Handlers
      /\ \A i \in Handlers : HandFits(share, ask[i], hand[i])
      /\ \A i \in Handlers : hand[i].step # "none" => AskOK(ask[i])
  BY DEF ServerOK
<1>2. /\ hand' \in [Handlers -> Hands] /\ reply' \in [Handlers -> Replies]
      /\ DOMAIN ask' = Handlers
  BY <1>1
<1>3. ASSUME NEW i \in Handlers
      PROVE  HandFits(share', ask'[i], hand'[i]) /\ (hand'[i].step # "none" => AskOK(ask'[i]))
  <2>1. CASE i = h
    <3>1. ask'[i] = a /\ hand'[i] = k /\ share' = share  BY <1>1, <2>1
    <3>. QED  BY <3>1
  <2>2. CASE i # h
    <3>1. ask'[i] = ask[i] /\ hand'[i] = hand[i] /\ share' = share  BY <1>1, <2>2
    <3>. QED  BY <1>1, <3>1
  <2>. QED  BY <2>1, <2>2
<1>4. DiskOK(disk', clock')  BY DiskStays DEF diskVars
<1>. QED  BY <1>2, <1>3, <1>4 DEF ServerOK

\* Request a comes: it is settled, or its handler goes and looks at the disk.
LEMMA SubmitIsFine ==
  ASSUME ServerOK, NEW h \in Handlers, NEW a, AskOK(a), Submit(h, a)
  PROVE  ServerOK'
<1> DEFINE d == AtOnce(a)
           k == [Free EXCEPT !.step = "done"]
           l == [hand[h] EXCEPT !.step = "stat"]
<1>1. /\ hand[h].step = "none" /\ Follow(h, d) /\ ask' = [ask EXCEPT ![h] = a]
      /\ UNCHANGED <<share, disk, clock, restarts, gone>>
  BY DEF Submit, NextHandler
<1>2. Decided(share, a, d) /\ d.to \in {"done", "stat"}  BY AtOnceDecides
<1> HIDE DEF d
<1>3. /\ hand \in [Handlers -> Hands] /\ reply \in [Handlers -> Replies]
      /\ HandFits(share, ask[h], hand[h])
  BY DEF ServerOK
<1>4. CASE d.to = "done"
  <2>1. Finish(h, Status(d.status)) /\ Status(d.status) \in Replies
    BY <1>1, <1>2, <1>4, PlainReplies DEF Follow, Decided
  <2>2. hand' = [hand EXCEPT ![h] = k] /\ reply' = [reply EXCEPT ![h] = Status(d.status)]
    BY <2>1 DEF Finish
  <2>3. k \in Hands /\ Holds(k) /\ k.step = "done"  BY FreeHand
  <2> HIDE DEF k
  <2>4. StepFits(share, a, "done")  BY DEF StepFits, Steps, ChangeSteps, TransferSteps
  <2>5. HandFits(share, a, k)  BY <2>3, <2>4 DEF HandFits
  <2>. QED  BY <1>1, <2>1, <2>2, <2>3, <2>5, RequestTaken
<1>5. CASE d.to = "stat"
  <2>1. Step(h, "stat") /\ StepFits(share, a, "stat")
    BY <1>1, <1>2, <1>5 DEF Follow, Decided
  <2>2. hand' = [hand EXCEPT ![h] = l] /\ reply' = [reply EXCEPT ![h] = reply[h]]
    BY <1>3, <2>1 DEF Step
  <2>3. /\ l \in Hands /\ l.step = "stat" /\ l.file = hand[h].file /\ l.goal = hand[h].goal
    BY <1>3 DEF Hands, Steps
  <2> HIDE DEF l
  <2>4. Holds(l)  BY <1>1, <1>3, <2>3 DEF HandFits, Holds
  <2>5. HandFits(share, a, l)  BY <2>1, <2>3, <2>4 DEF HandFits
  <2>. QED  BY <1>1, <1>3, <2>2, <2>3, <2>5, RequestTaken
<1>. QED  BY <1>2, <1>4, <1>5

\* A connection breaks, and all stays in order.
LEMMA LoseIsFine ==
  ASSUME ServerOK, NEW h \in Handlers, Lose(h)
  PROVE  ServerOK'
<1>1. gone' \in [Handlers -> BOOLEAN]  BY DEF Lose, ServerOK
<1>2. DiskOK(disk', clock')  BY DiskStays DEF Lose, diskVars
<1>. QED  BY <1>1, <1>2 DEF Lose, ServerOK

\* The share starts again, and all stays in order.
LEMMA RestartIsFine ==
  ASSUME ServerOK, Restart
  PROVE  ServerOK'
<1> DEFINE k == [Free EXCEPT !.step = "done"]
           Cut(r) == [r EXCEPT !.whole = FALSE]
<1>1. /\ hand \in [Handlers -> Hands] /\ reply \in [Handlers -> Replies]
      /\ restarts \in 0..share.restarts /\ share \in Shares
      /\ \A i \in Handlers : HandFits(share, ask[i], hand[i])
      /\ \A i \in Handlers : hand[i].step # "none" => AskOK(ask[i])
  BY DEF ServerOK
<1>2. /\ restarts < share.restarts /\ restarts' = restarts + 1
      /\ hand' = [h \in Handlers |-> IF Running(h) THEN k ELSE hand[h]]
      /\ reply' = [h \in Handlers |-> IF Running(h) THEN Cut(reply[h]) ELSE reply[h]]
      /\ UNCHANGED <<share, disk, clock, ask, gone>>
  BY DEF Restart
<1>3. k \in Hands /\ Holds(k) /\ k.step = "done"  BY FreeHand
<1>4. \A r \in Replies : Cut(r) \in Replies  BY DEF Replies
<1> HIDE DEF k, Cut
<1>5. hand' \in [Handlers -> Hands] /\ reply' \in [Handlers -> Replies]  BY <1>1, <1>2, <1>3, <1>4
<1>6. share.restarts \in Nat  BY <1>1, ShareClientsAssumption DEF UsesOK
<1>7. restarts' \in 0..share'.restarts  BY <1>1, <1>2, <1>6
<1>8. ASSUME NEW i \in Handlers
      PROVE  HandFits(share', ask'[i], hand'[i]) /\ (hand'[i].step # "none" => AskOK(ask'[i]))
  <2>1. share' = share /\ ask'[i] = ask[i]  BY <1>2
  <2>2. CASE Running(i)
    <3>1. hand'[i] = k  BY <1>2, <2>2
    <3>2. StepFits(share, ask[i], "done")  BY DEF StepFits, Steps, ChangeSteps, TransferSteps
    <3>3. HandFits(share, ask[i], k)  BY <1>3, <3>2 DEF HandFits
    <3>4. AskOK(ask[i])  BY <1>1, <2>2 DEF Running
    <3>. QED  BY <2>1, <3>1, <3>3, <3>4
  <2>3. CASE ~Running(i)
    <3>1. hand'[i] = hand[i]  BY <1>2, <2>3
    <3>. QED  BY <1>1, <2>1, <3>1
  <2>. QED  BY <2>2, <2>3
<1>9. DiskOK(disk', clock')  BY <1>2, DiskStays DEF diskVars
<1>. QED  BY <1>2, <1>5, <1>7, <1>8, <1>9 DEF ServerOK

\* A handler goes on.
LEMMA HandleIsFine ==
  ASSUME ServerOK, NEW h \in Handlers, Handle(h)
  PROVE  ServerOK' /\ Warranted(h)
<1>1. CASE Stat(h) \/ Probe(h) \/ Contain(h)
  <2>1. UNCHANGED disk  BY <1>1 DEF Stat, Probe, Contain, diskVars
  <2>. QED  BY <1>1, <2>1, Unchanging, StatIsFine, ProbeIsFine, ContainIsFine
<1>2. CASE List(h) \/ Collect(h) \/ Describe(h)
  <2>1. UNCHANGED disk  BY <1>2 DEF List, Collect, Describe, diskVars
  <2>. QED  BY <1>2, <2>1, Unchanging, ListIsFine, CollectIsFine, DescribeIsFine
<1>3. CASE Open(h) \/ Meta(h) \/ Send(h)
  <2>1. UNCHANGED disk  BY <1>3 DEF Open, Meta, Send, diskVars
  <2>. QED  BY <1>3, <2>1, Unchanging, OpenIsFine, MetaIsFine, SendIsFine
<1>4. CASE BodyEnds(h) \/ BodyBreaks(h) \/ Measure(h)
  <2>1. UNCHANGED disk  BY <1>4 DEF BodyEnds, BodyBreaks, Measure, Keep, diskVars
  <2>. QED  BY <1>4, <2>1, Unchanging, BodyEndsIsFine, BodyBreaksIsFine, MeasureIsFine
<1>5. CASE CopyStat(h) \/ DestProbe(h) \/ DestContain(h)
  <2>1. UNCHANGED disk  BY <1>5 DEF CopyStat, DestProbe, DestContain, Keep, diskVars
  <2>. QED  BY <1>5, <2>1, Unchanging, CopyStatIsFine, DestProbeIsFine, DestContainIsFine
<1>6. CASE UploadParent(h) \/ Create(h) \/ Body(h) \/ Discard(h)
  BY <1>6, UploadParentIsFine, CreateIsFine, BodyIsFine, DiscardIsFine
<1>7. CASE Delete(h) \/ Mkcol(h) \/ DestParent(h) \/ Copy(h) \/ Move(h)
  BY <1>7, DeleteIsFine, MkcolIsFine, DestParentIsFine, CopyIsFine, MoveIsFine
<1>. QED  BY <1>1, <1>2, <1>3, <1>4, <1>5, <1>6, <1>7 DEF Handle

-----------------------------------------------------------------------------
(* The beginning.                                                          *)

\* The old files of a tree can be numbered.
LEMMA Numbering ==
  ASSUME NEW s \in Shares, NEW old, old = {p \in Paths : s.tree[p] = "file"}
  PROVE  /\ Cardinality(old) \in 0..MaxFiles
         /\ \E f \in [old -> 1..Cardinality(old)] : \A p, q \in old : f[p] = f[q] => p = q
<1> DEFINE n == Cardinality(old)
<1>1. IsFiniteSet(Paths) /\ old \in SUBSET Paths /\ MaxFiles \in Nat
  BY FileRequestsAssumption
<1>2. IsFiniteSet(old)  BY <1>1, FS_Subset
<1>3. n \in Nat /\ ExistsBijection(1..n, old)  BY <1>2, FS_CardinalityType
<1>4. n =< MaxFiles  BY ShareClientsAssumption DEF UsesOK
<1> HIDE DEF n
<1>5. ExistsBijection(old, 1..n)  BY <1>3, Fun_ExistsBijSymmetric
<1>6. PICK f : f \in Bijection(old, 1..n)  BY <1>5 DEF ExistsBijection
<1>7. f \in [old -> 1..n] /\ \A p, q \in old : f[p] = f[q] => p = q
  BY <1>6 DEF Bijection, Injection, IsInjective
<1>8. n \in 0..MaxFiles  BY <1>1, <1>3, <1>4
<1>. QED  BY <1>7, <1>8 DEF n

\* The data at the beginning.
LEMMA OldDataType ==
  ASSUME NEW f \in Nat, NEW n \in 0..2
  PROVE  /\ SubSeq(OldData(f), 1, n) \in Seq(Blocks)
         /\ Len(SubSeq(OldData(f), 1, n)) = n
<1> DEFINE a == 2 * f
           b == 2 * f + 1
           old == <<<<"old", a>>, <<"old", b>>>>
<1>1. a \in Nat /\ b \in Nat  OBVIOUS
<1>2. OldData(f) = old  BY DEF OldData
<1> HIDE DEF a, b
<1>3. <<"old", a>> \in Blocks /\ <<"old", b>> \in Blocks  BY <1>1 DEF Blocks, Owners
<1>4. Len(old) = 2 /\ \A i \in 1..2 : old[i] \in Blocks  BY <1>3
<1> HIDE DEF old
<1>5. \A i \in 1..n : old[i] \in Blocks  BY <1>4
<1>6. SubSeq(old, 1, n) \in Seq(Blocks) /\ Len(SubSeq(old, 1, n)) = n
  BY <1>5, SubSeqProperties
<1>. QED  BY <1>2, <1>6

\* The disk at the beginning is in order.
LEMMA FirstDisk ==
  ASSUME NEW s \in Shares
  PROVE  DiskOK(InitDisk(s), MaxFiles)
<1> DEFINE old == {p \in Paths : s.tree[p] = "file"}
           n == Cardinality(old)
           Number == CHOOSE f \in [old -> 1..n] : \A p, q \in old : f[p] = f[q] => p = q
           en == [p \in Paths |-> CASE s.tree[p] = "none" -> Absent
                                    [] s.tree[p] = "dir"  -> Folder
                                    [] OTHER              -> Number[p]]
           data == [f \in Files |-> IF f =< n THEN SubSeq(OldData(f), 1, s.oldsize) ELSE <<>>]
           stamp == [f \in Files |-> f]
<1>1. /\ s.tree \in [Paths -> {"none", "dir", "file"}]
      /\ s.oldsize \in 0..2
      /\ \A p \in Paths : s.tree[p] # "none" /\ p # <<>> => s.tree[Parent(p)] = "dir"
  BY FileRequestsAssumption, ShareClientsAssumption DEF ShareOK, UsesOK
<1>2. /\ n \in 0..MaxFiles
      /\ \E f \in [old -> 1..n] : \A p, q \in old : f[p] = f[q] => p = q
  BY Numbering
<1>3. InitDisk(s) = [entry |-> en, data |-> data, stamp |-> stamp]  BY DEF InitDisk
<1> HIDE DEF n
<1>4. Number \in [old -> 1..n] /\ \A p, q \in old : Number[p] = Number[q] => p = q
  BY <1>2
<1> HIDE DEF Number
<1>5. MaxFiles \in Nat  BY FileRequestsAssumption
<1>6. \A p \in old : Number[p] \in Files  BY <1>2, <1>4, <1>5 DEF Files
<1>7. \A p \in Paths : /\ s.tree[p] = "none" => en[p] = Absent
                       /\ s.tree[p] = "dir" => en[p] = Folder
                       /\ s.tree[p] = "file" => p \in old /\ en[p] = Number[p]
  BY <1>1
<1>8. en \in Entries
  <2>1. \A p \in Paths : en[p] \in {Absent, Folder} \cup Files  BY <1>1, <1>6, <1>7
  <2>. QED  BY <2>1 DEF Entries
<1> HIDE DEF en
<1>9. \A p \in Paths : IsFile(en[p]) => p \in old /\ en[p] = Number[p]
  BY <1>1, <1>7, Numbers
<1>10. \A p, q \in Paths : IsFile(en[p]) /\ en[p] = en[q] => p = q
  BY <1>4, <1>9
<1>11. ASSUME NEW p \in Paths, en[p] # Absent, p # <<>> PROVE en[Parent(p)] = Folder
  <2>1. s.tree[p] # "none"  BY <1>7, <1>11
  <2>2. Parent(p) \in Paths /\ s.tree[Parent(p)] = "dir"  BY <1>1, <1>11, <2>1, ParentIsPath
  <2>. QED  BY <1>7, <2>2
<1>12. TreeOK(en)  BY <1>8, <1>10, <1>11 DEF TreeOK
<1>13. data \in [Files -> Seq(Blocks)]
  <2>1. \A f \in Files : SubSeq(OldData(f), 1, s.oldsize) \in Seq(Blocks)
    BY <1>1, <1>5, OldDataType DEF Files
  <2>2. <<>> \in Seq(Blocks)  BY EmptySeq
  <2>. QED  BY <2>1, <2>2
<1>14. stamp \in [Files -> Nat] /\ \A f \in Files : stamp[f] =< MaxFiles
  BY <1>5 DEF Files
<1> HIDE DEF data, stamp
<1>15. InitDisk(s) \in Disks  BY <1>3, <1>8, <1>13, <1>14 DEF Disks
<1>. QED  BY <1>3, <1>5, <1>12, <1>14, <1>15 DEF DiskOK

\* The server begins in order.
LEMMA ServerBegins ==
  ASSUME Init
  PROVE  ServerOK
<1>1. /\ share \in Shares /\ disk = InitDisk(share) /\ clock = MaxFiles /\ restarts = 0
      /\ ask = [h \in Handlers |-> [by |-> "none"]]
      /\ hand = [h \in Handlers |-> Free]
      /\ gone = [h \in Handlers |-> FALSE]
      /\ reply = [h \in Handlers |-> NoReply]
  BY DEF Init
<1>2. DiskOK(disk, clock)  BY <1>1, FirstDisk
<1>3. Free \in Hands /\ Holds(Free) /\ Free.step = "none"  BY FreeHand DEF Free
<1>4. hand \in [Handlers -> Hands] /\ \A h \in Handlers : hand[h] = Free  BY <1>1, <1>3
<1>5. reply \in [Handlers -> Replies]  BY <1>1, PlainReplies
<1>6. share.restarts \in Nat  BY <1>1, ShareClientsAssumption DEF UsesOK
<1>7. restarts \in 0..share.restarts  BY <1>1, <1>6
<1>8. DOMAIN ask = Handlers /\ gone \in [Handlers -> BOOLEAN]  BY <1>1
<1>9. ASSUME NEW h \in Handlers PROVE HandFits(share, ask[h], hand[h])
  <2>1. StepFits(share, ask[h], "none")  BY DEF StepFits, Steps, ChangeSteps, TransferSteps
  <2>. QED  BY <1>3, <1>4, <2>1 DEF HandFits
<1>10. \A h \in Handlers : hand[h].step # "none" => AskOK(ask[h])  BY <1>3, <1>4
<1>. QED  BY <1>1, <1>2, <1>4, <1>5, <1>7, <1>8, <1>9, <1>10 DEF ServerOK

-----------------------------------------------------------------------------
(* The page, the agent and the browser.                                    *)

Waits == Handlers \cup {0}

PageOK ==
  page \in [st : {"idle", "busy", "failed", "ok"}, asked : SUBSET Handlers,
            sent : SUBSET Handlers, tries : Nat]

AgentOK ==
  /\ agent \in [st : {"idle", "waiting"}, h : Waits, calls : Nat, tool : Tools \cup {"none"},
                told : {"nothing", "ok", "offline", "login", "switch", "path", "http"},
                local : Seq(Blocks)]
  /\ agent.st = "waiting" => agent.h \in Handlers

Browsers == [st : {"idle", "getting", "broken", "ok", "refused"}, h : Waits, tries : Nat,
             part : Seq(Blocks), stamp : Nat, calm : BOOLEAN]
BrowserOK ==
  /\ browser \in Browsers
  /\ browser.st = "getting" => browser.h \in Handlers

ClientsOK == PageOK /\ AgentOK /\ BrowserOK

\* The server is in order, and so is who uses it.
ShareInv == ServerOK /\ ClientsOK /\ still \in BOOLEAN

\* The request a client starts from, with what it may put into it.
LEMMA PlainAsk ==
  ASSUME ServerOK, NEW by, NEW method
  PROVE  /\ AskOK(Request(by, method, Target))
         /\ Request(by, method, Target) =
              [by |-> by, method |-> method, path |-> Target, query |-> "", dest |-> <<>>,
               who |-> share.who, range |-> NoRange, ifrange |-> 0, body |-> <<>>]
<1> DEFINE r == Request(by, method, Target)
<1>1. Target \in Paths /\ IsVisitor(share.who)
  BY ShareClientsAssumption DEF ServerOK, UsesOK, Target
<1>2. <<>> \in Paths /\ <<>> \in Seq(Blocks)  BY FileRequestsAssumption, EmptySeq
<1>3. r = [by |-> by, method |-> method, path |-> Target, query |-> "", dest |-> <<>>,
           who |-> share.who, range |-> NoRange, ifrange |-> 0, body |-> <<>>]
  BY DEF Request, RequestOf
<1>4. NoRange.a \in Nat /\ NoRange.b \in Nat  BY DEF NoRange
<1> HIDE DEF r
<1>5. /\ r.path = Target /\ r.dest = <<>> /\ r.body = <<>> /\ r.range = NoRange
      /\ r.who = share.who
  BY <1>3
<1>6. AskOK(r)  BY <1>1, <1>2, <1>4, <1>5 DEF AskOK
<1>. QED  BY <1>3, <1>6 DEF r

\* A request with a query.
LEMMA AskWithQuery ==
  ASSUME ServerOK, NEW by, NEW method, NEW query
  PROVE  AskOK([Request(by, method, Target) EXCEPT !.query = query])
<1> DEFINE r == Request(by, method, Target)
           a == [r EXCEPT !.query = query]
<1>1. a.path = r.path /\ a.dest = r.dest /\ a.body = r.body /\ a.range = r.range /\ a.who = r.who
  BY DEF Request, RequestOf
<1>2. AskOK(r)  BY PlainAsk
<1> HIDE DEF a, r
<1>3. AskOK(a)  BY <1>1, <1>2 DEF AskOK
<1>. QED  BY <1>3 DEF a, r

\* A request with a body.
LEMMA AskWithBody ==
  ASSUME ServerOK, NEW by, NEW method, NEW body \in Seq(Blocks)
  PROVE  AskOK([Request(by, method, Target) EXCEPT !.body = body])
<1> DEFINE r == Request(by, method, Target)
           a == [r EXCEPT !.body = body]
<1>1. a.path = r.path /\ a.dest = r.dest /\ a.body = body /\ a.range = r.range /\ a.who = r.who
  BY DEF Request, RequestOf
<1>2. AskOK(r)  BY PlainAsk
<1> HIDE DEF a, r
<1>3. AskOK(a)  BY <1>1, <1>2 DEF AskOK
<1>. QED  BY <1>3 DEF a, r

\* A request with a body and a place for it.
LEMMA AskToAppend ==
  ASSUME ServerOK, NEW by, NEW method, NEW range, range.a \in Nat, range.b \in Nat,
         NEW body \in Seq(Blocks)
  PROVE  AskOK([Request(by, method, Target) EXCEPT !.range = range, !.body = body])
<1> DEFINE r == Request(by, method, Target)
           a == [r EXCEPT !.range = range, !.body = body]
<1>1. a.path = r.path /\ a.dest = r.dest /\ a.body = body /\ a.range = range /\ a.who = r.who
  BY DEF Request, RequestOf
<1>2. AskOK(r)  BY PlainAsk
<1> HIDE DEF a, r
<1>3. AskOK(a)  BY <1>1, <1>2 DEF AskOK
<1>. QED  BY <1>3 DEF a, r

\* A request for a part of a file.
LEMMA AskForRest ==
  ASSUME ServerOK, NEW by, NEW method, NEW range, range.a \in Nat, range.b \in Nat, NEW stamp
  PROVE  AskOK([Request(by, method, Target) EXCEPT !.range = range, !.ifrange = stamp])
<1> DEFINE r == Request(by, method, Target)
           a == [r EXCEPT !.range = range, !.ifrange = stamp]
<1>1. a.path = r.path /\ a.dest = r.dest /\ a.body = r.body /\ a.range = range /\ a.who = r.who
  BY DEF Request, RequestOf
<1>2. AskOK(r)  BY PlainAsk
<1> HIDE DEF a, r
<1>3. AskOK(a)  BY <1>1, <1>2 DEF AskOK
<1>. QED  BY <1>3 DEF a, r

\* The page's file and what is left of it.
LEMMA PageFileType ==
  /\ PageFile \in Seq(Blocks)
  /\ \A n \in Nat : SubSeq(PageFile, n + 1, Len(PageFile)) \in Seq(Blocks)
<1>1. /\ Len(PageFile) = 3 /\ PageFile[1] = <<"page", 1>> /\ PageFile[2] = <<"page", 2>>
      /\ PageFile[3] = <<"page", 3>>
  BY DEF PageFile
<1>2. \A i \in 1..3 : <<"page", i>> \in Blocks  BY DEF Blocks, Owners
<1>3. \A i \in 1..3 : PageFile[i] \in Blocks  BY <1>1, <1>2
<1>4. PageFile \in Seq(Blocks)
  <2>1. /\ <<"page", 1>> \in Blocks /\ <<"page", 2>> \in Blocks /\ <<"page", 3>> \in Blocks
    BY <1>2
  <2>. QED  BY <2>1 DEF PageFile
<1>5. ASSUME NEW n \in Nat PROVE SubSeq(PageFile, n + 1, Len(PageFile)) \in Seq(Blocks)
  <2>1. \A i \in (n + 1)..3 : PageFile[i] \in Blocks  BY <1>3
  <2>2. SubSeq(PageFile, n + 1, 3) \in Seq(Blocks)  BY <2>1, SubSeqProperties
  <2>. QED  BY <1>1, <2>2
<1>. QED  BY <1>4, <1>5

\* The page sends a file, or the rest of one.
LEMMA PageAjaxIsFine ==
  ASSUME ServerOK, NEW h \in Handlers, NEW offset \in Nat, PageAjax(h, offset)
  PROVE  ServerOK' /\ UNCHANGED disk
<1> DEFINE range == [kind |-> "append", a |-> 0, b |-> 0]
           rest  == SubSeq(PageFile, offset + 1, Len(PageFile))
<1>1. AskOK(Put) /\ AskOK(AppendRest(offset))
  <2>1. rest \in Seq(Blocks) /\ range.a \in Nat /\ range.b \in Nat  BY PageFileType
  <2>2. AskOK(Put)  BY PageFileType, AskWithBody DEF Put
  <2>3. AppendRest(offset) =
          [Request("page", "PATCH", Target) EXCEPT !.range = range, !.body = rest]
    BY DEF AppendRest
  <2> HIDE DEF range, rest
  <2>4. AskOK([Request("page", "PATCH", Target) EXCEPT !.range = range, !.body = rest])
    BY <2>1, AskToAppend
  <2>. QED  BY <2>2, <2>3, <2>4
<1>2. \E a \in {Put, AppendRest(offset)} : Submit(h, a)  BY DEF PageAjax
<1>. QED  BY <1>1, <1>2, SubmitIsFine DEF Submit

\* The server waits.
LEMMA ServerRests ==
  ASSUME ServerOK, UNCHANGED vars
  PROVE  ServerOK' /\ UNCHANGED disk
<1>1. UNCHANGED <<share, restarts, ask, hand, gone, reply>> /\ UNCHANGED disk
  BY DEF vars
<1>2. DiskOK(disk', clock')  BY DiskStays DEF vars, diskVars
<1>. QED  BY <1>1, <1>2 DEF ServerOK

\* The page waits.
LEMMA PageRests == ASSUME PageOK, UNCHANGED page PROVE PageOK'
BY DEF PageOK

\* The agent waits.
LEMMA AgentRests == ASSUME AgentOK, UNCHANGED agent PROVE AgentOK'
BY DEF AgentOK

\* The browser waits.
LEMMA BrowserRests == ASSUME BrowserOK, UNCHANGED browser PROVE BrowserOK'
BY DEF BrowserOK

\* The page goes on, and the disk stays the same.
LEMMA PageIsFine ==
  ASSUME ServerOK, PageOK,
         \/ PageUploads \/ PageUnreached \/ PageHears \/ PageLoses \/ PageProgress
         \/ PageRetries \/ PageResumes
  PROVE  ServerOK' /\ PageOK' /\ UNCHANGED <<disk, agent, browser>>
<1> USE DEF PageOK
<1>1. CASE PageUploads
  <2>1. PICK h \in Handlers :
          PageAjax(h, 0) /\ page' = [page EXCEPT !.st = "busy", !.sent = {h}]
    BY <1>1 DEF PageUploads
  <2>2. PageOK'  BY <2>1
  <2>. QED  BY <1>1, <2>1, <2>2, PageAjaxIsFine DEF PageUploads
<1>2. CASE PageUnreached
  <2>1. PageOK'  BY <1>2 DEF PageUnreached
  <2>. QED  BY <1>2, <2>1, ServerRests DEF PageUnreached
<1>3. CASE PageHears
  <2>1. PageOK'  BY <1>3 DEF PageHears, Show
  <2>. QED  BY <1>3, <2>1, ServerRests DEF PageHears
<1>4. CASE PageLoses
  <2>1. PICK h \in Handlers :
          /\ Lose(h)
          /\ page' = [page EXCEPT !.st = IF h \in page.sent THEN Show("failed") ELSE @,
                                  !.asked = @ \ {h}, !.sent = @ \ {h}]
    BY <1>4 DEF PageLoses
  <2>2. PageOK'  BY <2>1 DEF Show
  <2>3. ServerOK' /\ UNCHANGED disk  BY <2>1, LoseIsFine DEF Lose
  <2>. QED  BY <1>4, <2>2, <2>3 DEF PageLoses
<1>5. CASE PageProgress
  <2>1. PageOK'  BY <1>5 DEF PageProgress
  <2>. QED  BY <1>5, <2>1, ServerRests DEF PageProgress
<1>6. CASE PageRetries
  <2>1. PICK h \in Handlers : /\ Submit(h, Request("page", "HEAD", Target))
                              /\ page' = [page EXCEPT !.asked = @ \cup {h}, !.tries = @ + 1]
    BY <1>6 DEF PageRetries
  <2>2. PageOK'
    <3> DEFINE asked == page.asked \cup {h}
               tries == page.tries + 1
               u == [page EXCEPT !.asked = asked]
               All == [st : {"idle", "busy", "failed", "ok"}, asked : SUBSET Handlers,
                       sent : SUBSET Handlers, tries : Nat]
    <3>1. page' = [u EXCEPT !.tries = tries]  BY <2>1
    <3>2. u \in All
      <4>1. page \in All /\ asked \in SUBSET Handlers  OBVIOUS
      <4> HIDE DEF asked
      <4>. QED  BY <4>1
    <3>3. tries \in Nat  OBVIOUS
    <3> HIDE DEF u, tries
    <3>. QED  BY <3>1, <3>2, <3>3
  <2>3. AskOK(Request("page", "HEAD", Target))  BY PlainAsk
  <2>4. ServerOK' /\ UNCHANGED disk  BY <2>1, <2>3, SubmitIsFine DEF Submit
  <2>. QED  BY <1>6, <2>2, <2>4 DEF PageRetries
<1>7. CASE PageResumes
  <2>1. PICK i \in page.asked :
          LET r == reply[i] IN
          \/ page' = [page EXCEPT !.asked = @ \ {i}] /\ UNCHANGED vars
          \/ \E h \in Handlers :
               /\ PageAjax(h, IF r.status = 200 THEN r.size ELSE 0)
               /\ page' = [page EXCEPT !.asked = @ \ {i}, !.sent = @ \cup {h}]
    BY <1>7 DEF PageResumes
  <2> DEFINE n == IF reply[i].status = 200 THEN reply[i].size ELSE 0
  <2>2. n \in Nat
    <3>1. i \in Handlers  OBVIOUS
    <3>. QED  BY <3>1 DEF ServerOK, Replies
  <2>3. UNCHANGED <<agent, browser>>  BY <1>7 DEF PageResumes
  <2>4. CASE page' = [page EXCEPT !.asked = @ \ {i}] /\ UNCHANGED vars
    <3>1. PageOK'  BY <2>4
    <3>. QED  BY <2>3, <2>4, <3>1, ServerRests
  <2> HIDE DEF n
  <2>5. ASSUME NEW h \in Handlers, PageAjax(h, n),
               page' = [page EXCEPT !.asked = @ \ {i}, !.sent = @ \cup {h}]
        PROVE  ServerOK' /\ PageOK' /\ UNCHANGED disk
    <3>1. PageOK'  BY <2>5
    <3>. QED  BY <2>2, <2>5, <3>1, PageAjaxIsFine
  <2>. QED  BY <2>1, <2>3, <2>4, <2>5 DEF n
<1>. QED  BY <1>1, <1>2, <1>3, <1>4, <1>5, <1>6, <1>7

\* The agent's file.
LEMMA AgentFileType == AgentFile \in Seq(Blocks)
<1>1. <<"agent", 1>> \in Blocks  BY DEF Blocks, Owners
<1>. QED  BY <1>1 DEF AgentFile

\* The tools ask for what the server understands.
LEMMA ToolsAreFine ==
  ASSUME ServerOK, NEW tool \in Tools
  PROVE  AskOK(Tool(tool))
<1>1. /\ AgentFile \in Seq(Blocks) /\ <<>> \in Seq(Blocks) /\ 0 \in Nat
  BY AgentFileType, EmptySeq
<1>2. CASE tool = "upload"
  <2>1. Tool(tool) = [Request("agent", "PUT", Target) EXCEPT !.body = AgentFile]
    BY <1>2 DEF Tool
  <2>. QED  BY <1>1, <2>1, AskWithBody
<1>3. CASE tool \in {"download", "delete", "make_dir"}
  <2>1. \E m \in {"GET", "DELETE", "MKCOL"} : Tool(tool) = Request("agent", m, Target)
    BY <1>3 DEF Tool
  <2>. QED  BY <1>1, <2>1, PlainAsk
<1>4. CASE tool \in {"list", "search", "status"}
  <2>1. \E q \in {"json", "q", "internal"} :
          Tool(tool) = [Request("agent", "GET", Target) EXCEPT !.query = q]
    BY <1>4 DEF Tool
  <2>2. \A q : AskOK([Request("agent", "GET", Target) EXCEPT !.query = q])
    BY AskWithQuery
  <2>. QED  BY <2>1, <2>2
<1>. QED  BY <1>2, <1>3, <1>4 DEF Tools

\* What the agent is told.
LEMMA EnsureOkType ==
  ASSUME NEW n
  PROVE  EnsureOk(n) \in {"ok", "offline", "login", "switch", "path", "http"}
BY DEF EnsureOk

\* A call is answered, or its connection breaks.
LEMMA AgentAnswered ==
  ASSUME AgentOK, agent.st = "waiting", NEW told, NEW local \in Seq(Blocks),
         told \in {"nothing", "ok", "offline", "login", "switch", "path", "http"},
         agent' = [agent EXCEPT !.st = "idle", !.told = told, !.local = local]
  PROVE  AgentOK'
<1> DEFINE u == [agent EXCEPT !.st = "idle"]
           v == [u EXCEPT !.told = told]
           w == [v EXCEPT !.local = local]
           All == [st : {"idle", "waiting"}, h : Waits, calls : Nat, tool : Tools \cup {"none"},
                   told : {"nothing", "ok", "offline", "login", "switch", "path", "http"},
                   local : Seq(Blocks)]
<1>1. agent \in All  BY DEF AgentOK
<1>2. u \in All /\ u.st = "idle"  BY <1>1
<1> HIDE DEF u
<1>3. v \in All /\ v.st = "idle"  BY <1>2
<1> HIDE DEF v
<1>4. w \in All /\ w.st = "idle"  BY <1>3
<1>5. agent' = w  BY DEF u, v
<1> HIDE DEF w
<1>. QED  BY <1>4, <1>5 DEF AgentOK

\* The agent goes on, and the disk stays the same.
LEMMA AgentIsFine ==
  ASSUME ServerOK, AgentOK,
         (\E tool \in Tools : AgentCalls(tool)) \/ AgentHears \/ AgentLoses
  PROVE  ServerOK' /\ AgentOK' /\ UNCHANGED <<disk, page, browser>>
<1> DEFINE All == [st : {"idle", "waiting"}, h : Waits, calls : Nat, tool : Tools \cup {"none"},
                   told : {"nothing", "ok", "offline", "login", "switch", "path", "http"},
                   local : Seq(Blocks)]
           r == reply[agent.h]
           got == IF agent.tool = "download" /\ r.status = 200 THEN r.part ELSE agent.local
<1>1. agent \in All  BY DEF AgentOK
<1>2. ASSUME NEW tool \in Tools, AgentCalls(tool)
      PROVE  ServerOK' /\ AgentOK' /\ UNCHANGED <<disk, page, browser>>
  <2>1. PICK h \in Handlers :
          /\ Submit(h, Tool(tool))
          /\ agent' = [agent EXCEPT !.st = "waiting", !.h = h, !.calls = @ + 1,
                                    !.tool = tool, !.told = "nothing"]
    BY <1>2 DEF AgentCalls
  <2>2. ServerOK' /\ UNCHANGED disk  BY <2>1, ToolsAreFine, SubmitIsFine DEF Submit
  <2> DEFINE u == [agent EXCEPT !.st = "waiting"]
             v == [u EXCEPT !.h = h]
             c == agent.calls + 1
             w == [v EXCEPT !.calls = c]
             x == [w EXCEPT !.tool = tool]
             y == [x EXCEPT !.told = "nothing"]
  <2>3. agent' = y  BY <2>1
  <2>4. u \in All /\ u.st = "waiting"  BY <1>1
  <2> HIDE DEF u
  <2>5. v \in All /\ v.st = "waiting" /\ v.h = h  BY <2>4 DEF Waits
  <2> HIDE DEF v
  <2>6. w \in All /\ w.st = "waiting" /\ w.h = h  BY <1>1, <2>5
  <2> HIDE DEF w
  <2>7. x \in All /\ x.st = "waiting" /\ x.h = h  BY <2>6
  <2> HIDE DEF x
  <2>8. y \in All /\ y.st = "waiting" /\ y.h = h  BY <2>7
  <2> HIDE DEF y
  <2>9. AgentOK'  BY <2>3, <2>8 DEF AgentOK
  <2>. QED  BY <1>2, <2>2, <2>9 DEF AgentCalls
<1>3. agent.st = "waiting" => agent.h \in Handlers /\ got \in Seq(Blocks)
  BY <1>1 DEF AgentOK, ServerOK, Replies
<1>4. CASE AgentHears
  <2> DEFINE told == IF Ok(r.status) /\ ~r.whole THEN "offline" ELSE EnsureOk(r.status)
  <2>1. told \in {"nothing", "ok", "offline", "login", "switch", "path", "http"}
    BY EnsureOkType
  <2>2. /\ agent.st = "waiting" /\ UNCHANGED vars /\ UNCHANGED <<page, browser>>
        /\ agent' = [agent EXCEPT !.st = "idle", !.told = told, !.local = got]
    BY <1>4 DEF AgentHears
  <2> HIDE DEF told, got
  <2>3. AgentOK'  BY <1>3, <2>1, <2>2, AgentAnswered
  <2>. QED  BY <2>2, <2>3, ServerRests
<1>5. CASE AgentLoses
  <2>1. /\ agent.st = "waiting" /\ Lose(agent.h) /\ UNCHANGED <<page, browser>>
        /\ agent' = [agent EXCEPT !.st = "idle", !.told = "offline", !.local = got]
    BY <1>5 DEF AgentLoses
  <2>2. "offline" \in {"nothing", "ok", "offline", "login", "switch", "path", "http"}  OBVIOUS
  <2> HIDE DEF got
  <2>3. AgentOK'  BY <1>3, <2>1, <2>2, AgentAnswered
  <2>4. ServerOK' /\ UNCHANGED disk  BY <1>3, <2>1, LoseIsFine DEF Lose
  <2>. QED  BY <2>1, <2>3, <2>4
<1>. QED  BY <1>2, <1>4, <1>5

\* The browser asks for the file or the rest of it.
LEMMA BrowserAskIsFine ==
  ASSUME ServerOK, BrowserOK
  PROVE  AskOK(BrowserAsk)
<1> DEFINE range == [kind |-> "from", a |-> Len(browser.part), b |-> Word]
           stamp == browser.stamp
<1>1. Len(browser.part) \in Nat
  <2>1. browser.part \in Seq(Blocks)  BY DEF BrowserOK, Browsers
  <2>. QED  BY <2>1, LenProperties
<1>2. range.a \in Nat /\ range.b \in Nat  BY <1>1, FileRequestsAssumption
<1>3. AskOK(Request("browser", "GET", Target))  BY PlainAsk
<1>4. \/ BrowserAsk = Request("browser", "GET", Target)
      \/ BrowserAsk = [Request("browser", "GET", Target) EXCEPT !.range = range,
                                                               !.ifrange = stamp]
  BY DEF BrowserAsk
<1> HIDE DEF range, stamp
<1>5. AskOK([Request("browser", "GET", Target) EXCEPT !.range = range, !.ifrange = stamp])
  BY <1>2, AskForRest
<1>. QED  BY <1>3, <1>4, <1>5

\* The browser takes an answer.
LEMMA BrowserTook ==
  ASSUME BrowserOK, NEW st \in {"ok", "broken", "refused"}, NEW part \in Seq(Blocks),
         NEW stamp \in Nat, NEW calm \in BOOLEAN,
         browser' = [browser EXCEPT !.st = st, !.part = part, !.stamp = stamp, !.calm = calm]
  PROVE  BrowserOK'
<1> DEFINE u == [browser EXCEPT !.st = st]
           v == [u EXCEPT !.part = part]
           w == [v EXCEPT !.stamp = stamp]
           x == [w EXCEPT !.calm = calm]
<1>1. u \in Browsers /\ u.st # "getting"  BY DEF BrowserOK, Browsers
<1>2. browser' = x  OBVIOUS
<1> HIDE DEF u
<1>3. v \in Browsers /\ v.st # "getting"  BY <1>1 DEF Browsers
<1> HIDE DEF v
<1>4. w \in Browsers /\ w.st # "getting"  BY <1>3 DEF Browsers
<1> HIDE DEF w
<1>5. x \in Browsers /\ x.st # "getting"  BY <1>4 DEF Browsers
<1> HIDE DEF x
<1>. QED  BY <1>2, <1>5 DEF BrowserOK

\* The browser goes on, and the disk stays the same.
LEMMA BrowserIsFine ==
  ASSUME ServerOK, BrowserOK, still \in BOOLEAN, BrowserGets \/ BrowserLoses \/ BrowserTakes
  PROVE  ServerOK' /\ BrowserOK' /\ UNCHANGED <<disk, page, agent>>
<1>1. browser \in Browsers /\ browser.part \in Seq(Blocks) /\ browser.stamp \in Nat
      /\ browser.calm \in BOOLEAN
  BY DEF BrowserOK, Browsers
<1>2. CASE BrowserGets
  <2>1. PICK h \in Handlers :
          /\ Submit(h, BrowserAsk)
          /\ browser' = [browser EXCEPT !.st = "getting", !.h = h, !.tries = @ + 1]
    BY <1>2 DEF BrowserGets
  <2>2. ServerOK' /\ UNCHANGED disk
    BY <2>1, BrowserAskIsFine, SubmitIsFine DEF Submit
  <2> DEFINE u == [browser EXCEPT !.st = "getting"]
             v == [u EXCEPT !.h = h]
             w == [v EXCEPT !.tries = browser.tries + 1]
  <2>3. browser' = w  BY <2>1
  <2>4. u \in Browsers /\ u.st = "getting"  BY <1>1 DEF Browsers
  <2> HIDE DEF u
  <2>5. v \in Browsers /\ v.st = "getting" /\ v.h = h  BY <2>4 DEF Browsers, Waits
  <2> HIDE DEF v
  <2>6. w \in Browsers /\ w.st = "getting" /\ w.h = h  BY <1>1, <2>5 DEF Browsers
  <2> HIDE DEF w
  <2>7. BrowserOK'  BY <2>3, <2>6 DEF BrowserOK
  <2>. QED  BY <1>2, <2>2, <2>7 DEF BrowserGets
<1>3. CASE BrowserLoses
  <2>1. browser.h \in Handlers /\ Lose(browser.h)  BY <1>3 DEF BrowserLoses, BrowserOK
  <2>2. UNCHANGED <<page, agent, browser>>  BY <1>3 DEF BrowserLoses, clientVars
  <2>3. BrowserOK'  BY <2>2, BrowserRests
  <2>4. ServerOK' /\ UNCHANGED disk  BY <2>1, LoseIsFine DEF Lose
  <2>. QED  BY <2>2, <2>3, <2>4
<1>4. CASE BrowserTakes
  <2> DEFINE r == reply[browser.h]
             st == IF r.whole THEN "ok" ELSE "broken"
  <2>1. browser.h \in Handlers /\ UNCHANGED vars /\ UNCHANGED <<page, agent>>
    BY <1>4 DEF BrowserTakes, BrowserOK
  <2>2. r.part \in Seq(Blocks) /\ r.stamp \in Nat  BY <2>1 DEF ServerOK, Replies
  <2>3. browser.part \o r.part \in Seq(Blocks)  BY <1>1, <2>2, ConcatProperties
  <2>4. (browser.calm /\ still) \in BOOLEAN  OBVIOUS
  <2>5. st \in {"ok", "broken", "refused"}  OBVIOUS
  <2>6. \/ \E s \in {"broken", "refused"} : browser' = [browser EXCEPT !.st = s]
        \/ browser' = [browser EXCEPT !.st = st, !.part = r.part, !.stamp = r.stamp,
                                      !.calm = still]
        \/ browser' = [browser EXCEPT !.st = st, !.part = browser.part \o r.part,
                                      !.calm = browser.calm /\ still]
    BY <1>4 DEF BrowserTakes
  <2> HIDE DEF st
  <2>7. ASSUME NEW s \in {"broken", "refused"}, browser' = [browser EXCEPT !.st = s]
        PROVE  BrowserOK'
    <3>1. browser' \in Browsers /\ browser'.st # "getting"  BY <1>1, <2>7 DEF Browsers
    <3>. QED  BY <3>1 DEF BrowserOK
  <2>8. ASSUME browser' = [browser EXCEPT !.st = st, !.part = r.part, !.stamp = r.stamp,
                                          !.calm = still]
        PROVE  BrowserOK'
    BY <2>2, <2>4, <2>5, <2>8, BrowserTook
  <2>9. ASSUME browser' = [browser EXCEPT !.st = st, !.part = browser.part \o r.part,
                                          !.calm = browser.calm /\ still]
        PROVE  BrowserOK'
    <3> DEFINE part == browser.part \o r.part
               calm == browser.calm /\ still
    <3>1. part \in Seq(Blocks) /\ calm \in BOOLEAN  BY <2>3, <2>4
    <3>2. browser' = [browser EXCEPT !.st = st, !.part = part, !.calm = calm]  BY <2>9
    <3> HIDE DEF part, calm
    <3>3. browser' = [browser EXCEPT !.st = st, !.part = part, !.stamp = browser.stamp,
                                     !.calm = calm]
      BY <1>1, <3>2 DEF Browsers
    <3>. QED  BY <1>1, <2>5, <3>1, <3>3, BrowserTook
  <2>10. BrowserOK'  BY <2>6, <2>7, <2>8, <2>9
  <2>. QED  BY <2>1, <2>10, ServerRests
<1>. QED  BY <1>2, <1>3, <1>4

-----------------------------------------------------------------------------
(* The theorems.                                                           *)

\* Guests ask and leave, and the disk stays the same.
LEMMA GuestsAreFine ==
  ASSUME ServerOK, GuestSends \/ GuestLeaves
  PROVE  ServerOK' /\ UNCHANGED disk /\ UNCHANGED clientVars
<1>1. CASE GuestSends
  <2>1. PICK h \in Handlers, a \in GuestAsks(share) : Submit(h, a)  BY <1>1 DEF GuestSends
  <2>2. AskOK(a)  BY <2>1, ShareClientsAssumption DEF ServerOK, UsesOK
  <2>. QED  BY <1>1, <2>1, <2>2, SubmitIsFine DEF GuestSends, Submit
<1>2. CASE GuestLeaves
  <2>1. PICK h \in Handlers : Lose(h)  BY <1>2 DEF GuestLeaves, Guests
  <2>. QED  BY <1>2, <2>1, LoseIsFine DEF GuestLeaves, Lose
<1>. QED  BY <1>1, <1>2

\* The clients wait.
LEMMA ClientsRest ==
  ASSUME ClientsOK, UNCHANGED clientVars
  PROVE  ClientsOK'
<1>1. UNCHANGED page /\ UNCHANGED agent /\ UNCHANGED browser  BY DEF clientVars
<1>. QED  BY <1>1, PageRests, AgentRests, BrowserRests DEF ClientsOK

\* Every step keeps all in order, and where the disk changes, a handler may.
LEMMA StepsAreFine ==
  ASSUME ShareInv, [Next]_allVars
  PROVE  ShareInv' /\ (UNCHANGED disk \/ \E h \in Handlers : Warranted(h))
<1>1. ServerOK /\ ClientsOK /\ PageOK /\ AgentOK /\ BrowserOK /\ still \in BOOLEAN
  BY DEF ShareInv, ClientsOK
<1>2. ASSUME ServerStep, UNCHANGED clientVars
      PROVE  ServerOK' /\ ClientsOK' /\ (UNCHANGED disk \/ \E h \in Handlers : Warranted(h))
  <2>1. ServerOK' /\ (UNCHANGED disk \/ \E h \in Handlers : Warranted(h))
    BY <1>1, <1>2, HandleIsFine, RestartIsFine DEF ServerStep, Restart
  <2>. QED  BY <1>1, <1>2, <2>1, ClientsRest
<1>3. ASSUME GuestSends \/ GuestLeaves
      PROVE  ServerOK' /\ ClientsOK' /\ UNCHANGED disk
  BY <1>1, <1>3, GuestsAreFine, ClientsRest
<1>4. ASSUME \/ PageUploads \/ PageUnreached \/ PageHears \/ PageLoses \/ PageProgress
             \/ PageRetries \/ PageResumes
      PROVE  ServerOK' /\ ClientsOK' /\ UNCHANGED disk
  <2>1. ServerOK' /\ PageOK' /\ UNCHANGED <<disk, agent, browser>>  BY <1>1, <1>4, PageIsFine
  <2>2. AgentOK' /\ BrowserOK'  BY <1>1, <2>1, AgentRests, BrowserRests
  <2>. QED  BY <2>1, <2>2 DEF ClientsOK
<1>5. ASSUME (\E tool \in Tools : AgentCalls(tool)) \/ AgentHears \/ AgentLoses
      PROVE  ServerOK' /\ ClientsOK' /\ UNCHANGED disk
  <2>1. ServerOK' /\ AgentOK' /\ UNCHANGED <<disk, page, browser>>  BY <1>1, <1>5, AgentIsFine
  <2>2. PageOK' /\ BrowserOK'  BY <1>1, <2>1, PageRests, BrowserRests
  <2>. QED  BY <2>1, <2>2 DEF ClientsOK
<1>6. ASSUME BrowserGets \/ BrowserLoses \/ BrowserTakes
      PROVE  ServerOK' /\ ClientsOK' /\ UNCHANGED disk
  <2>1. ServerOK' /\ BrowserOK' /\ UNCHANGED <<disk, page, agent>>  BY <1>1, <1>6, BrowserIsFine
  <2>2. PageOK' /\ AgentOK'  BY <1>1, <2>1, PageRests, AgentRests
  <2>. QED  BY <2>1, <2>2 DEF ClientsOK
<1>7. CASE Next
  <2>1. Moves /\ still' \in BOOLEAN  BY <1>7 DEF Next, Watch
  <2>2. ServerOK' /\ ClientsOK' /\ (UNCHANGED disk \/ \E h \in Handlers : Warranted(h))
    BY <2>1, <1>2, <1>3, <1>4, <1>5, <1>6 DEF Moves
  <2>. QED  BY <2>1, <2>2 DEF ShareInv
<1>8. CASE UNCHANGED allVars
  <2>1. UNCHANGED vars /\ UNCHANGED clientVars /\ UNCHANGED still
    BY <1>8 DEF allVars, vars, clientVars
  <2>. QED  BY <1>1, <2>1, ServerRests, ClientsRest DEF ShareInv
<1>. QED  BY <1>7, <1>8

\* All that the server and its clients rely on, at all times.
THEOREM ShareInvariant == Spec => []ShareInv
<1>1. ASSUME Init PROVE ShareInv
  <2>1. PageOK /\ AgentOK  BY <1>1 DEF Init, PageOK, AgentOK, Waits
  <2>2. BrowserOK  BY <1>1, EmptySeq DEF Init, BrowserOK, Browsers, Waits
  <2>3. still \in BOOLEAN  BY <1>1 DEF Init
  <2>. QED  BY <1>1, <2>1, <2>2, <2>3, ServerBegins DEF ShareInv, ClientsOK
<1>2. ShareInv /\ [Next]_allVars => ShareInv'  BY StepsAreFine
<1>. QED  BY <1>1, <1>2, PTL DEF Spec

\* The disk is a tree in which no file has two names, and a handler holds a file
\* only where it uses one (TypeOK).
THEOREM TypeCorrect == Spec => []TypeOK
<1>1. ASSUME ShareInv PROVE TypeOK
  <2>1. ServerOK /\ PageOK /\ AgentOK /\ BrowserOK  BY <1>1 DEF ShareInv, ClientsOK
  <2>2. /\ disk.entry \in [Paths -> {Absent, Folder} \cup Files]
        /\ disk.data \in [Files -> Seq(Blocks)]
        /\ disk.stamp \in [Files -> Nat] /\ clock \in Nat
        /\ \A f \in Files : disk.stamp[f] =< clock
        /\ TreeOK(disk.entry)
    BY <2>1 DEF ServerOK, DiskOK, Disks, Entries
  <2>3. DOMAIN disk.data = Files /\ disk.stamp \in [Files -> 0..clock]  BY <2>2
  <2>4. /\ \A p, q \in Paths : IsFile(disk.entry[p]) /\ disk.entry[p] = disk.entry[q] => p = q
        /\ \A p \in Paths : disk.entry[p] # Absent /\ p # <<>> => disk.entry[Parent(p)] = Folder
    BY <2>2 DEF TreeOK
  <2>5. ASSUME NEW h \in Handlers
        PROVE  /\ hand[h].file \in Files \cup {0}
               /\ hand[h].file # 0 =>
                    hand[h].step \in {"meta", "send", "body", "measure", "discard"}
               /\ hand[h].goal >= 0 \/ hand[h].step \in {"body", "measure", "discard"}
    BY <2>1 DEF ServerOK, HandFits, Holds, Hands
  <2>6. restarts \in 0..share.restarts /\ gone \in [Handlers -> BOOLEAN]
    BY <2>1 DEF ServerOK
  <2>7. /\ page.st \in {"idle", "busy", "failed", "ok"}
        /\ page.asked \cup page.sent \subseteq Handlers
        /\ agent.st \in {"idle", "waiting"}
        /\ browser.st \in {"idle", "getting", "broken", "ok", "refused"}
    BY <2>1 DEF PageOK, AgentOK, BrowserOK, Browsers
  <2>. QED  BY <2>2, <2>3, <2>4, <2>5, <2>6, <2>7 DEF TypeOK
<1>. QED  BY <1>1, ShareInvariant, PTL

\* No path and no content changes but by a handler whose request may write there,
\* with the switches on (OnlyGrantedChanges).
THEOREM ChangesAreGranted == Spec => OnlyGrantedChanges
<1>1. ASSUME ShareInv, [Next]_allVars
      PROVE  [\A p \in Paths : EntryChanges(p) \/ DataChanges(p) =>
                \E h \in Handlers : hand'[h] # hand[h] /\ MayChange(h, p)]_allVars
  <2>1. UNCHANGED disk \/ \E h \in Handlers : Warranted(h)  BY <1>1, StepsAreFine
  <2>2. CASE UNCHANGED disk  BY <2>2 DEF EntryChanges, DataChanges
  <2>3. CASE \E h \in Handlers : Warranted(h)  BY <2>3 DEF Warranted
  <2>. QED  BY <2>1, <2>2, <2>3
<1>. QED  BY <1>1, ShareInvariant, PTL DEF Spec, OnlyGrantedChanges

-----------------------------------------------------------------------------
(* Versions: a file that is written has a stamp nobody had.                *)

\* No two files were last changed at the same time, and a u64 counts the blocks
\* of each.
VersionsOK ==
  /\ \A f, g \in Files : disk.stamp[f] = disk.stamp[g] => f = g
  /\ \A f \in Files : disk.stamp[f] > 0 /\ Len(disk.data[f]) < Word

\* What a step does to files: nothing, or one is written.
FilesKept == disk'.data = disk.data /\ disk'.stamp = disk.stamp /\ clock' = clock
FileWritten ==
  \E f \in Files, data \in Seq(Blocks) :
    /\ Len(data) < Word
    /\ disk'.data = [disk.data EXCEPT ![f] = data]
    /\ disk'.stamp = [disk.stamp EXCEPT ![f] = clock + 1]
    /\ clock' = clock + 1

\* Touched writes the file.
LEMMA TouchedWrites ==
  ASSUME NEW d \in Disks, d.data = disk.data, d.stamp = disk.stamp,
         NEW f \in Files, NEW data \in Seq(Blocks), Len(data) < Word, Write(f, d, data)
  PROVE  FileWritten
<1>1. disk' = Touched(d, f, data) /\ clock' = clock + 1  BY DEF Write
<1>2. /\ Touched(d, f, data).data = [d.data EXCEPT ![f] = data]
      /\ Touched(d, f, data).stamp = [d.stamp EXCEPT ![f] = clock + 1]
  BY TouchedIs, TouchedStamp
<1>. QED  BY <1>1, <1>2 DEF FileWritten

\* A change of entries leaves the files alone.
LEMMA EntriesOnly ==
  ASSUME NEW d \in Disks, NEW p \in Paths, NEW q \in Paths, NEW e
  PROVE  /\ MakeDirs(d, p).stamp = d.stamp /\ MakeDirs(d, p).data = d.data
         /\ Cleared(d, p).stamp = d.stamp /\ Cleared(d, p).data = d.data
         /\ Renamed(d, p, q).stamp = d.stamp /\ Renamed(d, p, q).data = d.data
         /\ WithEntry(d, p, e).stamp = d.stamp /\ WithEntry(d, p, e).data = d.data
BY DEF MakeDirs, Cleared, Renamed, WithEntry, Disks

\* Making a parent, too.
LEMMA ParentOnly ==
  ASSUME NEW d \in Disks, NEW p \in Paths
  PROVE  EnsureParent(d, p).stamp = d.stamp /\ EnsureParent(d, p).data = d.data
<1>1. CASE p = <<>> \/ d.entry[Parent(p)] # Absent  BY <1>1 DEF EnsureParent
<1>2. CASE ~(p = <<>> \/ d.entry[Parent(p)] # Absent)
  <2>1. Parent(p) \in Paths  BY <1>2, ParentIsPath
  <2>2. EnsureParent(d, p) = MakeDirs(d, Parent(p))  BY <1>2 DEF EnsureParent
  <2>. QED  BY <2>1, <2>2, EntriesOnly
<1>. QED  BY <1>1, <1>2

\* What is left of a file or written to one is never longer than a u64 counts.
LEMMA WriteAtLength ==
  ASSUME NEW data \in Seq(Blocks), NEW offset \in Nat, NEW b \in Blocks,
         Len(data) < Word, offset + 1 < Word
  PROVE  Len(WriteAt(data, offset, b)) < Word
<1> DEFINE n == Higher(Len(data), offset + 1)
<1>1. Len(data) \in Nat /\ Word \in Nat  BY LenProperties, FileRequestsAssumption
<1>2. n \in Nat /\ n < Word  BY <1>1 DEF Higher
<1> HIDE DEF n
<1>3. DOMAIN WriteAt(data, offset, b) = 1..n  BY DEF WriteAt, n
<1>4. /\ Len(WriteAt(data, offset, b)) \in Nat
      /\ DOMAIN WriteAt(data, offset, b) = 1..Len(WriteAt(data, offset, b))
  BY WriteAtType, LenProperties
<1>5. Len(WriteAt(data, offset, b)) = n  BY <1>2, <1>3, <1>4
<1>. QED  BY <1>2, <1>5

\* CreateAt writes the file at p or a new one.
LEMMA CreateWrites ==
  ASSUME ServerOK, NEW p \in Paths, NEW data \in Seq(Blocks), Len(data) < Word,
         \/ IsFile(disk.entry[p]) /\ Write(disk.entry[p], disk, data)
         \/ Room /\ Write(FreeFile, WithEntry(disk, p, FreeFile), data)
  PROVE  FileWritten
<1>1. disk \in Disks /\ disk.entry \in Entries  BY DEF ServerOK, DiskOK, TreeOK
<1>2. CASE IsFile(disk.entry[p]) /\ Write(disk.entry[p], disk, data)
  <2>1. disk.entry[p] \in Files  BY <1>1, <1>2, EntryKinds
  <2>. QED  BY <1>1, <1>2, <2>1, TouchedWrites
<1>3. CASE Room /\ Write(FreeFile, WithEntry(disk, p, FreeFile), data)
  <2> DEFINE f == FreeFile
             d == WithEntry(disk, p, f)
  <2>1. f \in Files  BY <1>3 DEF Room, FreeFile
  <2> HIDE DEF f
  <2>2. d.stamp = disk.stamp /\ d.data = disk.data  BY <1>1, EntriesOnly
  <2>3. d = [disk EXCEPT !.entry = [disk.entry EXCEPT ![p] = f]]  BY <1>1 DEF WithEntry, Disks
  <2>4. [disk.entry EXCEPT ![p] = f] \in Entries  BY <1>1, <2>1 DEF Entries
  <2>5. d \in Disks  BY <1>1, <2>3, <2>4 DEF Disks
  <2>6. Write(f, d, data)  BY <1>3 DEF f
  <2> HIDE DEF d
  <2>. QED  BY <2>1, <2>2, <2>5, <2>6, TouchedWrites
<1>. QED  BY <1>2, <1>3

\* Body writes the open file.
LEMMA BodyWrites ==
  ASSUME ServerOK, VersionsOK, NEW h \in Handlers, Body(h)
  PROVE  FileWritten
<1> DEFINE f == hand[h].file
           data == disk.data[f]
           offset == Offset(h)
           b == ask[h].body[hand[h].at + 1]
           got == WriteAt(data, offset, b)
<1>1. /\ hand[h].step = "body" /\ hand[h].step # "none" /\ hand[h].at < Len(ask[h].body)
      /\ Fits(h) /\ Write(f, disk, got)
  BY DEF Body, At
<1>2. /\ disk \in Disks /\ ask[h].body \in Seq(Blocks)
      /\ hand[h] \in Hands /\ Holds(hand[h])
  BY <1>1, Handler DEF AskOK, DiskOK
<1>3. /\ f \in Files /\ hand[h].at \in Nat
      /\ hand[h].goal = Appending \/ hand[h].goal \in Nat
  BY <1>1, <1>2 DEF Hands, Holds, Appending
<1>4. data \in Seq(Blocks) /\ Len(data) \in Nat /\ Len(data) < Word
  BY <1>2, <1>3, DataOf DEF VersionsOK
<1>5. offset \in Nat /\ offset + 1 < Word  BY <1>1, <1>3, <1>4 DEF Offset, Fits
<1>6. b \in Blocks
  <2>1. Len(ask[h].body) \in Nat  BY <1>2, LenProperties
  <2>2. hand[h].at + 1 \in 1..Len(ask[h].body)  BY <1>1, <1>3, <2>1
  <2>. QED  BY <1>2, <2>2, ElementOfSeq
<1> HIDE DEF offset, b, data, f
<1>7. got \in Seq(Blocks) /\ Len(got) < Word
  BY <1>4, <1>5, <1>6, WriteAtType, WriteAtLength
<1> HIDE DEF got
<1>. QED  BY <1>1, <1>2, <1>3, <1>7, TouchedWrites

\* Create empties a file or makes a new one.
LEMMA CreateKeepsOrWrites ==
  ASSUME ServerOK, NEW h \in Handlers, Create(h)
  PROVE  FilesKept \/ FileWritten
<1> DEFINE p == ask[h].path
<1>1. hand[h].step # "none"  BY DEF Create, At
<1>2. p \in Paths  BY <1>1, Handler
<1>3. <<>> \in Seq(Blocks) /\ Len(<<>>) < Word  BY EmptySeq, FileRequestsAssumption
<1>4. \/ Keep
      \/ IsFile(disk.entry[p]) /\ Write(disk.entry[p], disk, <<>>)
      \/ Room /\ Write(FreeFile, WithEntry(disk, p, FreeFile), <<>>)
  BY DEF Create, CreateAt
<1>5. CASE Keep  BY <1>5 DEF Keep, diskVars, FilesKept
<1>. QED  BY <1>2, <1>3, <1>4, <1>5, CreateWrites

\* Copy writes the destination.
LEMMA CopyKeepsOrWrites ==
  ASSUME ServerOK, VersionsOK, NEW h \in Handlers, Copy(h)
  PROVE  FilesKept \/ FileWritten
<1> DEFINE p == ask[h].path
           q == ask[h].dest
           data == disk.data[disk.entry[p]]
<1>1. hand[h].step # "none"  BY DEF Copy, At
<1>2. p \in Paths /\ q \in Paths /\ disk \in Disks /\ disk.entry \in Entries
  BY <1>1, Handler DEF DiskOK
<1>3. CASE Keep  BY <1>3 DEF Keep, diskVars, FilesKept
<1>4. CASE ~Keep
  <2>1. /\ IsFile(disk.entry[p])
        /\ \E got \in {data, <<>>} :
             \/ IsFile(disk.entry[q]) /\ Write(disk.entry[q], disk, got)
             \/ Room /\ Write(FreeFile, WithEntry(disk, q, FreeFile), got)
    BY <1>4 DEF Copy, CreateAt
  <2>2. disk.entry[p] \in Files  BY <1>2, <2>1, EntryKinds
  <2>3. data \in Seq(Blocks) /\ Len(data) < Word  BY <1>2, <2>2, DataOf DEF VersionsOK
  <2>4. <<>> \in Seq(Blocks) /\ Len(<<>>) < Word  BY EmptySeq, FileRequestsAssumption
  <2> HIDE DEF data
  <2>5. PICK got \in {data, <<>>} :
             \/ IsFile(disk.entry[q]) /\ Write(disk.entry[q], disk, got)
             \/ Room /\ Write(FreeFile, WithEntry(disk, q, FreeFile), got)
    BY <2>1
  <2>6. got \in Seq(Blocks) /\ Len(got) < Word  BY <2>3, <2>4
  <2>. QED  BY <1>2, <2>5, <2>6, CreateWrites
<1>. QED  BY <1>3, <1>4

\* Every step of a handler leaves the files alone or writes one.
LEMMA HandleKeepsOrWrites ==
  ASSUME ServerOK, VersionsOK, NEW h \in Handlers, Handle(h)
  PROVE  FilesKept \/ FileWritten
<1> DEFINE p == ask[h].path
           q == ask[h].dest
<1>1. hand[h].step # "none" => p \in Paths /\ q \in Paths /\ disk \in Disks
  BY Handler DEF DiskOK
<1>2. CASE UNCHANGED diskVars  BY <1>2 DEF diskVars, FilesKept
<1>3. CASE \/ Stat(h) \/ Probe(h) \/ Contain(h)
           \/ List(h) \/ Collect(h) \/ Describe(h) \/ Open(h) \/ Meta(h) \/ Send(h)
           \/ BodyEnds(h) \/ BodyBreaks(h) \/ Measure(h)
           \/ CopyStat(h) \/ DestProbe(h) \/ DestContain(h)
  BY <1>2, <1>3 DEF Stat, Probe, Contain, List, Collect, Describe, Open, Meta, Send,
                    BodyEnds, BodyBreaks, Measure, CopyStat, DestProbe, DestContain, Keep
<1>4. CASE UploadParent(h) \/ DestParent(h)
  <2>1. hand[h].step # "none" /\ clock' = clock
    BY <1>4 DEF UploadParent, DestParent, At, Change, Keep, diskVars
  <2>2. \/ UNCHANGED diskVars
        \/ \E r \in {p, q} : disk' = EnsureParent(disk, r)
    BY <1>4 DEF UploadParent, DestParent, Change, Keep
  <2>3. CASE \E r \in {p, q} : disk' = EnsureParent(disk, r)
    BY <1>1, <2>1, <2>3, ParentOnly DEF FilesKept
  <2>. QED  BY <1>2, <2>2, <2>3
<1>5. CASE Discard(h) \/ Delete(h) \/ Mkcol(h) \/ Move(h)
  <2>1. hand[h].step # "none" /\ clock' = clock
    BY <1>5 DEF Discard, Delete, Mkcol, Move, At, Change, Keep, diskVars
  <2>2. \/ UNCHANGED disk
        \/ disk' = WithEntry(disk, p, Absent) \/ disk' = Cleared(disk, p)
        \/ disk' = MakeDirs(disk, p) \/ disk' = Renamed(disk, p, q)
    BY <1>5 DEF Discard, Delete, Mkcol, Move, Change, Keep, diskVars
  <2>. QED  BY <1>1, <2>1, <2>2, EntriesOnly DEF FilesKept
<1>6. CASE Create(h)  BY <1>6, CreateKeepsOrWrites
<1>7. CASE Body(h)  BY <1>7, BodyWrites
<1>8. CASE Copy(h)  BY <1>8, CopyKeepsOrWrites
<1>. QED  BY <1>3, <1>4, <1>5, <1>6, <1>7, <1>8 DEF Handle

\* Versions stay versions.
LEMMA VersionsStay ==
  ASSUME ServerOK, VersionsOK, FilesKept \/ FileWritten
  PROVE  VersionsOK'
<1>1. /\ disk.data \in [Files -> Seq(Blocks)] /\ disk.stamp \in [Files -> Nat]
      /\ clock \in Nat /\ \A f \in Files : disk.stamp[f] =< clock
  BY DEF ServerOK, DiskOK, Disks
<1>2. CASE FilesKept  BY <1>2 DEF FilesKept, VersionsOK
<1>3. CASE FileWritten
  <2>1. PICK f \in Files, data \in Seq(Blocks) :
          /\ Len(data) < Word
          /\ disk'.data = [disk.data EXCEPT ![f] = data]
          /\ disk'.stamp = [disk.stamp EXCEPT ![f] = clock + 1]
          /\ clock' = clock + 1
    BY <1>3 DEF FileWritten
  <2>2. \A g \in Files : /\ disk'.data[g] = IF g = f THEN data ELSE disk.data[g]
                         /\ disk'.stamp[g] = IF g = f THEN clock + 1 ELSE disk.stamp[g]
    BY <1>1, <2>1
  <2>3. ASSUME NEW g \in Files, NEW k \in Files, disk'.stamp[g] = disk'.stamp[k]
        PROVE  g = k
    BY <1>1, <2>2, <2>3 DEF VersionsOK
  <2>4. ASSUME NEW g \in Files
        PROVE  disk'.stamp[g] > 0 /\ Len(disk'.data[g]) < Word
    BY <1>1, <2>1, <2>2 DEF VersionsOK
  <2>. QED  BY <2>3, <2>4 DEF VersionsOK
<1>. QED  BY <1>2, <1>3

-----------------------------------------------------------------------------
(* Parts of a file.                                                        *)

\* A number below w stays what it is when it is counted with w values.
LEMMA ModSmall ==
  ASSUME NEW w \in Nat \ {0}, NEW x \in 0..w - 1
  PROVE  x % w = x
BY SMTT(30)

\* w itself is 0 then.
LEMMA ModSelf ==
  ASSUME NEW w \in Nat \ {0}
  PROVE  w % w = 0
BY SMTT(30)

\* And -1 is the largest number there is.
LEMMA ModMinus ==
  ASSUME NEW w \in Nat \ {0}
  PROVE  (-1) % w = w - 1
BY SMTT(30)

\* The last a blocks of a file, also the last 0 and those of an empty file, are
\* what ParseRange and RangeSize say although they count with a u64.
LEMMA LastRange ==
  ASSUME NEW r, r.kind = "last", r.a \in Nat, NEW size \in Nat, size < Word,
         ParseRange(r, size).ok
  PROVE  /\ r.a =< size
         /\ ParseRange(r, size).start = size - r.a
         /\ RangeSize(ParseRange(r, size)) = r.a
<1> DEFINE p == ParseRange(r, size)
<1>1. Word \in Nat \ {0}  BY FileRequestsAssumption
<1>2. p.start = (size - r.a) % Word /\ p.end = (size - 1) % Word  BY DEF ParseRange
<1>3. r.a =< size  BY Zenon DEF ParseRange
<1>4. RangeSize(p) = (p.end - p.start + 1) % Word  BY DEF RangeSize
<1> HIDE DEF p
<1>5. r.a =< size /\ size - r.a \in 0..Word - 1  BY <1>1, <1>2, <1>3
<1>6. p.start = size - r.a  BY <1>1, <1>2, <1>5, ModSmall
<1>7. CASE size = 0
  <2>1. r.a = 0 /\ size - 1 = -1  BY <1>5, <1>7
  <2>2. p.end = Word - 1  BY <1>1, <1>2, <2>1, ModMinus
  <2>3. p.end - p.start + 1 = Word  BY <1>1, <1>6, <1>7, <2>1, <2>2
  <2>4. RangeSize(p) = 0  BY <1>1, <1>4, <2>3, ModSelf
  <2>. QED  BY <1>5, <1>6, <2>1, <2>4 DEF p
<1>8. CASE size # 0
  <2>1. size - 1 \in 0..Word - 1  BY <1>1, <1>8
  <2>2. p.end = size - 1  BY <1>1, <1>2, <2>1, ModSmall
  <2>3. p.end - p.start + 1 = r.a /\ r.a \in 0..Word - 1  BY <1>1, <1>5, <1>6, <2>2
  <2>4. RangeSize(p) = r.a  BY <1>1, <1>4, <2>3, ModSmall
  <2>. QED  BY <1>5, <1>6, <2>4 DEF p
<1>. QED  BY <1>7, <1>8

\* So is what begins at block a.
LEMMA FromRange ==
  ASSUME NEW r, r.kind = "from", r.a \in Nat, r.b \in Nat, NEW size \in Nat, size < Word,
         ParseRange(r, size).ok
  PROVE  /\ r.a < size
         /\ ParseRange(r, size).start = r.a
         /\ r.b = Word => r.a + RangeSize(ParseRange(r, size)) = size
         /\ r.b # Word => r.a + RangeSize(ParseRange(r, size)) = r.b + 1 /\ r.b < size
                          /\ r.a =< r.b
<1> DEFINE p == ParseRange(r, size)
<1>1. Word \in Nat \ {0}  BY FileRequestsAssumption
<1>2. p.start = r.a /\ p.end = IF r.b = Word THEN (size - 1) % Word ELSE r.b
  BY DEF ParseRange
<1>4. r.a < size /\ (r.b = Word \/ (r.b < size /\ r.a =< r.b))  BY Zenon DEF ParseRange
<1>3. RangeSize(p) = (p.end - p.start + 1) % Word  BY DEF RangeSize
<1> HIDE DEF p
<1>5. size - 1 \in 0..Word - 1  BY <1>1, <1>4
<1>6. (size - 1) % Word = size - 1  BY <1>1, <1>5, ModSmall
<1> DEFINE n == p.end - p.start + 1
<1>7. r.b = Word => n = size - r.a /\ n \in 0..Word - 1
  <2>1. CASE r.b = Word
    <3>1. p.end = size - 1  BY <1>2, <1>6, <2>1
    <3>. QED  BY <1>1, <1>2, <1>4, <3>1
  <2>. QED  BY <2>1
<1>8. r.b # Word => n = r.b - r.a + 1 /\ n \in 0..Word - 1
  <2>1. CASE r.b # Word
    <3>1. p.end = r.b  BY <1>2, <2>1
    <3>. QED  BY <1>1, <1>2, <1>4, <2>1, <3>1
  <2>. QED  BY <2>1
<1>9. n \in 0..Word - 1  BY <1>7, <1>8
<1>10. RangeSize(p) = n
  <2> HIDE DEF n
  <2>1. n % Word = n  BY <1>1, <1>9, ModSmall
  <2>. QED  BY <1>3, <2>1 DEF n
<1>11. r.b = Word => r.a + RangeSize(p) = size  BY <1>7, <1>10
<1>12. r.b # Word => r.a + RangeSize(p) = r.b + 1 /\ r.b < size /\ r.a =< r.b
  BY <1>4, <1>8, <1>10
<1>. QED  BY <1>2, <1>4, <1>11, <1>12 DEF p

\* Only these two are ever given.
LEMMA RangeKinds ==
  ASSUME NEW r, NEW size, ParseRange(r, size).ok
  PROVE  r.kind \in {"last", "from"}
BY DEF ParseRange

\* The plain download of a file, and the part of it that an answer with this
\* status gives: what comes after block PartFrom up to block PartTo.
Downloads(a) == a.method = "GET" /\ a.query = ""
PartFrom(a, status, data) ==
  IF status = 206 THEN ParseRange(a.range, Len(data)).start ELSE 0
PartTo(a, status, data) ==
  IF status = 206
  THEN ParseRange(a.range, Len(data)).start + RangeSize(ParseRange(a.range, Len(data)))
  ELSE Len(data)

\* A part is one of the file.
LEMMA PartIs ==
  ASSUME NEW a, a.range.a \in Nat, a.range.b \in Nat,
         NEW data \in Seq(Blocks), Len(data) < Word,
         NEW status, status = 206 => ParseRange(a.range, Len(data)).ok
  PROVE  /\ PartFrom(a, status, data) \in Nat /\ PartTo(a, status, data) \in Nat
         /\ PartFrom(a, status, data) =< PartTo(a, status, data)
         /\ PartTo(a, status, data) =< Len(data)
<1> DEFINE r == a.range
           n == Len(data)
           p == ParseRange(r, n)
<1>1. n \in Nat  BY LenProperties
<1>2. CASE status # 206  BY <1>1, <1>2 DEF PartFrom, PartTo
<1>3. CASE status = 206
  <2>1. p.ok /\ r.a \in Nat /\ r.b \in Nat /\ n < Word  BY <1>3
  <2>2. PartFrom(a, status, data) = p.start /\ PartTo(a, status, data) = p.start + RangeSize(p)
    BY <1>3 DEF PartFrom, PartTo
  <2> HIDE DEF r, n
  <2>3. r.kind \in {"last", "from"}  BY <2>1, RangeKinds
  <2>4. CASE r.kind = "last"
    <3>1. r.a =< n /\ p.start = n - r.a /\ RangeSize(p) = r.a  BY <1>1, <2>1, <2>4, LastRange
    <3>. QED  BY <1>1, <2>1, <2>2, <3>1 DEF n
  <2>5. CASE r.kind = "from"
    <3>1. /\ r.a < n /\ p.start = r.a
          /\ r.b = Word => r.a + RangeSize(p) = n
          /\ r.b # Word => r.a + RangeSize(p) = r.b + 1 /\ r.b < n /\ r.a =< r.b
      BY <1>1, <2>1, <2>5, FromRange
    <3>. QED  BY <1>1, <2>1, <2>2, <3>1 DEF n
  <2>. QED  BY <2>3, <2>4, <2>5
<1>. QED  BY <1>2, <1>3

\* A piece of a sequence has its elements.
LEMMA PieceOf ==
  ASSUME NEW d \in Seq(Blocks), NEW m \in Nat, NEW n \in Nat, m =< n, n =< Len(d)
  PROVE  /\ SubSeq(d, m + 1, n) \in Seq(Blocks) /\ Len(SubSeq(d, m + 1, n)) = n - m
         /\ \A i \in 1..n - m : SubSeq(d, m + 1, n)[i] = d[m + i]
<1>1. Len(d) \in Nat  BY LenProperties
<1> DEFINE p == m + 1
<1>2. \A i \in p..n : d[i] \in Blocks
  <2> SUFFICES ASSUME NEW i \in p..n PROVE d[i] \in Blocks  OBVIOUS
  <2>1. i \in 1..Len(d)  BY <1>1
  <2>. QED  BY <2>1, ElementOfSeq
<1>3. p \in Nat  OBVIOUS
<1>4. /\ SubSeq(d, p, n) \in Seq(Blocks)
      /\ Len(SubSeq(d, p, n)) = IF p <= n THEN n - p + 1 ELSE 0
      /\ \A i \in 1..n - p + 1 : SubSeq(d, p, n)[i] = d[p + i - 1]
  <2> HIDE DEF p
  <2>. QED  BY <1>2, <1>3, SubSeqProperties
<1> DEFINE s == SubSeq(d, p, n)
<1>5. s \in Seq(Blocks) /\ Len(s) = IF p <= n THEN n - p + 1 ELSE 0  BY <1>4
<1>6. \A i \in 1..n - p + 1 : s[i] = d[p + i - 1]  BY <1>4
<1>7. s = SubSeq(d, m + 1, n)  OBVIOUS
<1> HIDE DEF s
<1>8. Len(s) = n - m  BY <1>5
<1>9. ASSUME NEW i \in 1..n - m PROVE s[i] = d[m + i]
  <2>1. i \in 1..n - p + 1 /\ p + i - 1 = m + i  OBVIOUS
  <2>. QED  BY <2>1, <1>6
<1>. QED  BY <1>5, <1>7, <1>8, <1>9

\* Two pieces that follow each other are one.
LEMMA PiecesJoin ==
  ASSUME NEW d \in Seq(Blocks), NEW k \in Nat, NEW m \in Nat, NEW n \in Nat,
         k =< m, m =< n, n =< Len(d)
  PROVE  SubSeq(d, k + 1, m) \o SubSeq(d, m + 1, n) = SubSeq(d, k + 1, n)
<1>1. Len(d) \in Nat  BY LenProperties
<1> DEFINE s == SubSeq(d, k + 1, m)
           t == SubSeq(d, m + 1, n)
           u == SubSeq(d, k + 1, n)
<1>2. m =< Len(d)  BY <1>1
<1>3. s \in Seq(Blocks) /\ Len(s) = m - k /\ \A i \in 1..m - k : s[i] = d[k + i]
  BY <1>2, PieceOf
<1>4. t \in Seq(Blocks) /\ Len(t) = n - m /\ \A i \in 1..n - m : t[i] = d[m + i]
  BY PieceOf
<1>5. u \in Seq(Blocks) /\ Len(u) = n - k /\ \A i \in 1..n - k : u[i] = d[k + i]
  <2>1. k =< n  OBVIOUS
  <2>. QED  BY <2>1, PieceOf
<1> HIDE DEF s, t, u
<1> DEFINE c == s \o t
<1>6. /\ c \in Seq(Blocks) /\ Len(c) = Len(s) + Len(t)
      /\ \A i \in 1..Len(s) + Len(t) : c[i] = IF i =< Len(s) THEN s[i] ELSE t[i - Len(s)]
  BY <1>3, <1>4, ConcatProperties
<1> HIDE DEF c
<1>7. Len(c) = n - k  BY <1>3, <1>4, <1>6
<1>8. ASSUME NEW i \in 1..n - k PROVE c[i] = u[i]
  <2>1. i \in 1..Len(s) + Len(t)  BY <1>3, <1>4
  <2>2. CASE i =< m - k
    <3>1. c[i] = s[i] /\ i \in 1..m - k  BY <1>3, <1>6, <2>1, <2>2
    <3>. QED  BY <1>3, <1>5, <3>1
  <2>3. CASE ~(i =< m - k)
    <3>1. c[i] = t[i - (m - k)]  BY <1>3, <1>6, <2>1, <2>3
    <3>2. i - (m - k) \in 1..n - m /\ m + (i - (m - k)) = k + i  BY <2>3
    <3>3. t[i - (m - k)] = d[m + (i - (m - k))]  BY <1>4, <3>2
    <3>. QED  BY <1>5, <3>1, <3>2, <3>3
  <2>. QED  BY <2>2, <2>3
<1>9. c = u  BY <1>5, <1>6, <1>7, <1>8, SeqEqual
<1>. QED  BY <1>9 DEF c, s, t, u

\* So are a piece and the next block.
LEMMA PieceGrows ==
  ASSUME NEW d \in Seq(Blocks), NEW m \in Nat, NEW n \in Nat, m =< n, n < Len(d)
  PROVE  Append(SubSeq(d, m + 1, n), d[n + 1]) = SubSeq(d, m + 1, n + 1)
<1>1. Len(d) \in Nat  BY LenProperties
<1> DEFINE s == SubSeq(d, m + 1, n)
           u == SubSeq(d, m + 1, n + 1)
           b == d[n + 1]
<1>2. s \in Seq(Blocks) /\ Len(s) = n - m /\ \A i \in 1..n - m : s[i] = d[m + i]
  <2>1. n =< Len(d)  BY <1>1
  <2>. QED  BY <2>1, PieceOf
<1>3. /\ u \in Seq(Blocks) /\ Len(u) = n + 1 - m /\ \A i \in 1..n + 1 - m : u[i] = d[m + i]
  <2> DEFINE k == n + 1
  <2>1. k \in Nat /\ m =< k /\ k =< Len(d)  BY <1>1
  <2> HIDE DEF k
  <2>2. /\ SubSeq(d, m + 1, k) \in Seq(Blocks) /\ Len(SubSeq(d, m + 1, k)) = k - m
        /\ \A i \in 1..k - m : SubSeq(d, m + 1, k)[i] = d[m + i]
    BY <2>1, PieceOf
  <2>. QED  BY <2>2 DEF k
<1>4. b \in Blocks
  <2>1. n + 1 \in 1..Len(d)  BY <1>1
  <2>. QED  BY <2>1, ElementOfSeq
<1> HIDE DEF s, u
<1>5. b = d[m + (n + 1 - m)]  OBVIOUS
<1> HIDE DEF b
<1> DEFINE c == Append(s, b)
<1>6. /\ c \in Seq(Blocks) /\ Len(c) = Len(s) + 1
      /\ \A i \in 1..Len(s) : c[i] = s[i]
      /\ c[Len(s) + 1] = b
  BY <1>2, <1>4, AppendProperties
<1> HIDE DEF c
<1>7. Len(c) = Len(u)  BY <1>2, <1>3, <1>6
<1>8. ASSUME NEW i \in 1..Len(u) PROVE c[i] = u[i]
  <2>1. CASE i =< n - m  BY <1>2, <1>3, <1>6, <2>1
  <2>2. CASE ~(i =< n - m)
    <3>1. i = n + 1 - m /\ i = Len(s) + 1  BY <1>2, <1>3, <2>2
    <3>. QED  BY <1>3, <1>5, <1>6, <3>1
  <2>. QED  BY <2>1, <2>2
<1>9. c = u  BY <1>3, <1>6, <1>7, <1>8, SeqEqual
<1>. QED  BY <1>9 DEF c, s, u, b

-----------------------------------------------------------------------------
(* Downloads: a handler of one has seen of its path what is there.         *)

\* How much of the file an answer has come to.
Given(a, r, d) == PartFrom(a, r.status, d) + Len(r.part)

\* The answer r is on its way: a beginning of the part asked for of the data d.
Gives(a, r, d) ==
  /\ r.status \in {200, 206}
  /\ r.status = 206 => ParseRange(a.range, Len(d)).ok /\ a.range # NoRange
                       /\ a.ifrange \in {0, r.stamp}
  /\ r.stamp > 0
  /\ Given(a, r, d) =< PartTo(a, r.status, d)
  /\ r.part = SubSeq(d, PartFrom(a, r.status, d) + 1, Given(a, r, d))

Early == {"stat", "probe", "contain", "containparent", "list", "open", "meta"}

\* What holds of a handler of the download a, k and its answer r, if e is what
\* its path is and d the file there.
Reads(a, k, r, e, d) ==
  /\ k.step \in Early \cup {"send", "done"}
  /\ k.step \in Early => r = NoReply
  /\ k.step \in {"probe", "contain", "containparent"} => k.kind = KindOf(e)
  /\ k.step = "list" => e = Folder
  /\ k.step \in {"open", "meta", "send"} => IsFile(e)
  /\ k.step \in {"meta", "send"} => k.file = e
  /\ k.step = "send" => Gives(a, r, d) /\ k.at = Given(a, r, d)
                        /\ k.at + k.goal = PartTo(a, r.status, d)
  /\ k.step = "done" /\ r.status \in {200, 206} =>
       \/ /\ IsFile(e) /\ Gives(a, r, d)
          /\ r.whole => Given(a, r, d) = PartTo(a, r.status, d)
       \/ e = Folder /\ r.status = 200 /\ r.part = <<>> /\ r.stamp = 0

\* No file has another content under the stamp s than d.
Version(s, d) == s =< clock /\ \A f \in Files : disk.stamp[f] = s => disk.data[f] = d

Reading(h) ==
  /\ Reads(ask[h], hand[h], reply[h], disk.entry[ask[h].path], DataAt(ask[h].path))
  /\ reply[h].stamp # 0 => Version(reply[h].stamp, DataAt(ask[h].path))

\* What was the answer when its handler was done is all of it, if nobody left.
Finishes(h) ==
  hand'[h].step = "done" /\ reply'[h].status \in {200, 206} => reply'[h].whole \/ gone[h]

\* What is at a path is a file, with the data there.
LEMMA FileThere ==
  ASSUME ServerOK, VersionsOK, NEW p \in Paths, IsFile(disk.entry[p])
  PROVE  /\ disk.entry[p] \in Files /\ DataAt(p) = disk.data[disk.entry[p]]
         /\ DataAt(p) \in Seq(Blocks) /\ Len(DataAt(p)) \in Nat /\ Len(DataAt(p)) < Word
         /\ SizeAt(disk, p) = Len(DataAt(p))
         /\ disk.stamp[disk.entry[p]] \in Nat /\ disk.stamp[disk.entry[p]] > 0
         /\ Version(disk.stamp[disk.entry[p]], DataAt(p))
<1> DEFINE f == disk.entry[p]
<1>1. disk \in Disks /\ disk.entry \in Entries /\ \A g \in Files : disk.stamp[g] =< clock
  BY DEF ServerOK, DiskOK, TreeOK
<1>2. f \in Files  BY <1>1, EntryKinds
<1>3. DataAt(p) = disk.data[f] /\ SizeAt(disk, p) = Len(disk.data[f])  BY DEF DataAt, SizeAt
<1> HIDE DEF f
<1>4. disk.data[f] \in Seq(Blocks) /\ Len(disk.data[f]) \in Nat /\ disk.stamp[f] \in Nat
  BY <1>1, <1>2, DataOf
<1>5. Len(disk.data[f]) < Word /\ disk.stamp[f] > 0  BY <1>2 DEF VersionsOK
<1>6. Version(disk.stamp[f], disk.data[f])  BY <1>1, <1>2 DEF Version, VersionsOK
<1>. QED  BY <1>2, <1>3, <1>4, <1>5, <1>6 DEF f

\* The files do not change, and the handler is still one that reads.
LEMMA ReadsOn ==
  ASSUME NEW h \in Handlers, UNCHANGED diskVars, Unchanged,
         Reads(ask[h], hand'[h], reply'[h], disk.entry[ask[h].path], DataAt(ask[h].path)),
         reply'[h].stamp # 0 => Version(reply'[h].stamp, DataAt(ask[h].path))
  PROVE  Reading(h)'
<1>1. /\ ask'[h] = ask[h] /\ disk' = disk /\ clock' = clock
      /\ DataAt(ask[h].path)' = DataAt(ask[h].path)
  BY DEF diskVars, Unchanged, DataAt
<1>. QED  BY <1>1 DEF Reading, Version, DataAt

\* It is done with an answer that has nothing of a file.
LEMMA ReadsNothing ==
  ASSUME ServerOK, NEW h \in Handlers, UNCHANGED diskVars, Unchanged,
         NEW r, Finish(h, r), r.stamp = 0,
         r.status \in {200, 206} =>
           disk.entry[ask[h].path] = Folder /\ r.status = 200 /\ r.part = <<>> /\ r.whole
  PROVE  Reading(h)' /\ Finishes(h)
<1>1. hand'[h] = [Free EXCEPT !.step = "done"] /\ reply'[h] = r
  BY DEF Finish, ServerOK
<1>2. hand'[h].step = "done"  BY <1>1, FreeHand
<1> DEFINE k == hand'[h]
<1> HIDE DEF k
<1>3. ASSUME NEW e, NEW d, NEW a,
             r.status \in {200, 206} =>
               e = Folder /\ r.status = 200 /\ r.part = <<>> /\ r.stamp = 0
      PROVE  Reads(a, k, r, e, d)
  BY <1>2, <1>3 DEF Reads, Early, k
<1>4. Reads(ask[h], k, r, disk.entry[ask[h].path], DataAt(ask[h].path))  BY <1>3
<1>5. Reading(h)'  BY <1>1, <1>4, ReadsOn DEF k
<1>6. Finishes(h)  BY <1>1 DEF Finishes
<1>. QED  BY <1>5, <1>6

\* It is done with a status alone.
LEMMA ReadsStatus ==
  ASSUME ServerOK, NEW h \in Handlers, UNCHANGED diskVars, Unchanged,
         NEW n \in {404, 403, 500}, Finish(h, Status(n))
  PROVE  Reading(h)' /\ Finishes(h)
<1>1. Status(n).stamp = 0 /\ Status(n).status = n  BY DEF Status, NoReply
<1>2. Status(n).status \notin {200, 206}  BY <1>1
<1>. QED  BY <1>1, <1>2, ReadsNothing

\* It goes on to another step, and has no answer yet.
LEMMA ReadsStep ==
  ASSUME ServerOK, NEW h \in Handlers, UNCHANGED diskVars, Unchanged, Reading(h),
         hand[h].step \in Early, NEW t \in Early \ {"meta"}, Step(h, t),
         t \in {"probe", "contain", "containparent"} =>
           hand[h].kind = KindOf(disk.entry[ask[h].path]),
         t = "list" => disk.entry[ask[h].path] = Folder,
         t = "open" => IsFile(disk.entry[ask[h].path])
  PROVE  Reading(h)' /\ Finishes(h)
<1> DEFINE k == [hand[h] EXCEPT !.step = t]
           e == disk.entry[ask[h].path]
           d == DataAt(ask[h].path)
<1>1. hand \in [Handlers -> Hands]  BY DEF ServerOK
<1>2. hand'[h] = k /\ reply' = reply  BY <1>1 DEF Step
<1>3. k.step = t /\ k.kind = hand[h].kind  BY <1>1 DEF Hands
<1>4. reply[h] = NoReply  BY DEF Reading, Reads
<1>5. NoReply.stamp = 0 /\ NoReply.status = 0  BY DEF NoReply
<1> HIDE DEF k, e, d
<1>6. Reads(ask[h], k, NoReply, e, d)  BY <1>3 DEF Reads, Early, e
<1>7. Reading(h)'  BY <1>2, <1>4, <1>5, <1>6, ReadsOn DEF e, d
<1>8. Finishes(h)  BY <1>2, <1>4, <1>5 DEF Finishes
<1>. QED  BY <1>7, <1>8

\* Stat: what is seen is what is there.
LEMMA StatReads ==
  ASSUME ServerOK, NEW h \in Handlers, Reading(h), Stat(h)
  PROVE  Reading(h)' /\ Finishes(h)
<1> DEFINE e == disk.entry[ask[h].path]
           d == DataAt(ask[h].path)
           kind == KindOf(e)
           size == SizeAt(disk, ask[h].path)
           u == [hand EXCEPT ![h].step = "probe"]
           v == [u EXCEPT ![h].kind = kind]
           w == [v EXCEPT ![h].size = size]
<1>1. /\ hand[h].step = "stat" /\ hand' = w /\ reply' = reply
      /\ UNCHANGED diskVars /\ Unchanged
  BY DEF Stat, At
<1>2. hand \in [Handlers -> Hands] /\ ask[h].path \in Paths /\ disk \in Disks
  BY <1>1, Handler DEF ServerOK, DiskOK
<1>3. kind \in {"none", "dir", "file"} /\ size \in Nat  BY <1>2, Kinds, SizeIsNat
<1> HIDE DEF kind, size
<1>4. u \in [Handlers -> Hands] /\ u[h].step = "probe"  BY <1>2 DEF Hands, Steps
<1> HIDE DEF u
<1>5. v \in [Handlers -> Hands] /\ v[h].step = "probe" /\ v[h].kind = kind
  BY <1>3, <1>4 DEF Hands
<1> HIDE DEF v
<1>6. w[h].step = "probe" /\ w[h].kind = kind  BY <1>3, <1>5 DEF Hands
<1> HIDE DEF w, e, d
<1>7. reply[h] = NoReply /\ NoReply.stamp = 0 /\ NoReply.status = 0
  BY <1>1 DEF Reading, Reads, Early, NoReply
<1>8. Reads(ask[h], w[h], NoReply, e, d)  BY <1>6 DEF Reads, Early, kind
<1>9. Reading(h)'  BY <1>1, <1>7, <1>8, ReadsOn DEF e, d
<1>10. Finishes(h)  BY <1>1, <1>7 DEF Finishes
<1>. QED  BY <1>9, <1>10

\* Probe: what was seen leads on, or it is not there.
LEMMA ProbeReads ==
  ASSUME ServerOK, NEW h \in Handlers, Reading(h), Probe(h)
  PROVE  Reading(h)' /\ Finishes(h)
<1>1. /\ hand[h].step = "probe" /\ UNCHANGED diskVars /\ Unchanged
      /\ Judge(h, ask[h].path, "contain", "containparent", 404)
  BY DEF Probe, At
<1>2. hand[h].kind = KindOf(disk.entry[ask[h].path]) /\ hand[h].step \in Early
  BY <1>1 DEF Reading, Reads, Early
<1>3. "contain" \in Early \ {"meta"} /\ "containparent" \in Early \ {"meta"}  BY DEF Early
<1>4. CASE Step(h, "contain")  BY <1>1, <1>2, <1>3, <1>4, ReadsStep
<1>5. CASE Step(h, "containparent")  BY <1>1, <1>2, <1>3, <1>5, ReadsStep
<1>6. CASE Finish(h, Status(404))
  <2>1. 404 \in {404, 403, 500}  OBVIOUS
  <2>. QED  BY <1>1, <1>6, <2>1, ReadsStatus
<1>. QED  BY <1>1, <1>4, <1>5, <1>6 DEF Judge

\* Contain: a folder is listed, a file is opened.
LEMMA ContainReads ==
  ASSUME ServerOK, NEW h \in Handlers, Downloads(ask[h]), Reading(h), Contain(h)
  PROVE  Reading(h)' /\ Finishes(h)
<1> DEFINE e == disk.entry[ask[h].path]
           d == Dispatch(ask[h], hand[h].kind, hand[h].size)
<1>1. /\ hand[h].step \in {"contain", "containparent"}
      /\ UNCHANGED diskVars /\ Unchanged
      /\ Finish(h, Status(404)) \/ Follow(h, d)
  BY DEF Contain, At
<1>2. hand[h].kind = KindOf(e) /\ hand[h].step \in Early
  BY <1>1 DEF Reading, Reads, Early
<1>3. d = OnGet(ask[h], hand[h].kind)  BY DEF Dispatch, Downloads
<1>4. ask[h].query = ""  BY DEF Downloads
<1>5. \/ hand[h].kind = "dir" /\ d = Go("list")
      \/ hand[h].kind = "file" /\ d = Go("open")
      \/ d = Answer(404)
  BY <1>2, <1>3, <1>4, Kinds DEF OnGet
<1>6. ask[h].path \in Paths /\ disk.entry \in Entries  BY <1>1, Handler
<1>7. /\ hand[h].kind = "dir" => e = Folder
      /\ hand[h].kind = "file" => IsFile(e)
  BY <1>2, <1>6, EntryKinds DEF KindOf
<1> HIDE DEF d
<1>8. /\ d = Go("list") => (Follow(h, d) <=> Step(h, "list"))
      /\ d = Go("open") => (Follow(h, d) <=> Step(h, "open"))
      /\ d = Answer(404) => (Follow(h, d) <=> Finish(h, Status(404)))
  BY DEF Follow, Go, Answer
<1>9. "list" \in Early \ {"meta"} /\ "open" \in Early \ {"meta"}  BY DEF Early
<1>10. CASE hand[h].kind = "dir" /\ Step(h, "list")
  <2>1. e = Folder  BY <1>7, <1>10
  <2>. QED  BY <1>1, <1>2, <1>9, <1>10, <2>1, ReadsStep
<1>11. CASE hand[h].kind = "file" /\ Step(h, "open")
  <2>1. IsFile(e)  BY <1>7, <1>11
  <2>. QED  BY <1>1, <1>2, <1>9, <1>11, <2>1, ReadsStep
<1>12. CASE Finish(h, Status(404))
  <2>1. 404 \in {404, 403, 500}  OBVIOUS
  <2>. QED  BY <1>1, <1>12, <2>1, ReadsStatus
<1>. QED  BY <1>1, <1>5, <1>8, <1>10, <1>11, <1>12

\* List: the page of a folder.
LEMMA ListReads ==
  ASSUME ServerOK, NEW h \in Handlers, Downloads(ask[h]), Reading(h), List(h)
  PROVE  Reading(h)' /\ Finishes(h)
<1> DEFINE e == disk.entry[ask[h].path]
           names == Listed(disk, ask[h].path, ListingAccess(ask[h]))
           r == [Status(200) EXCEPT !.shown = names]
<1>1. hand[h].step = "list" /\ UNCHANGED diskVars /\ Unchanged  BY DEF List, At
<1>2. e = Folder  BY <1>1 DEF Reading, Reads
<1>3. Finish(h, Status(403)) \/ Finish(h, r)  BY DEF List, Downloads
<1>4. r.stamp = 0 /\ r.status = 200 /\ r.part = <<>> /\ r.whole  BY DEF Status, NoReply
<1> HIDE DEF r
<1>5. CASE Finish(h, Status(403))
  <2>1. 403 \in {404, 403, 500}  OBVIOUS
  <2>. QED  BY <1>1, <1>5, <2>1, ReadsStatus
<1>6. CASE Finish(h, r)  BY <1>1, <1>2, <1>4, <1>6, ReadsNothing
<1>. QED  BY <1>3, <1>5, <1>6

\* Open: the file is the one at the path.
LEMMA OpenReads ==
  ASSUME ServerOK, NEW h \in Handlers, Reading(h), Open(h)
  PROVE  Reading(h)' /\ Finishes(h)
<1> DEFINE e == disk.entry[ask[h].path]
           d == DataAt(ask[h].path)
           u == [hand EXCEPT ![h].step = "meta"]
           v == [u EXCEPT ![h].file = e]
<1>1. hand[h].step = "open" /\ UNCHANGED diskVars /\ Unchanged  BY DEF Open, At
<1>2. hand \in [Handlers -> Hands] /\ ask[h].path \in Paths /\ disk.entry \in Entries
  BY <1>1, Handler DEF ServerOK
<1>3. IsFile(e)  BY <1>1 DEF Reading, Reads
<1>4. hand' = v /\ reply' = reply  BY <1>3 DEF Open
<1>5. e \in Files  BY <1>2, <1>3, EntryKinds
<1> HIDE DEF e, d
<1>6. u \in [Handlers -> Hands] /\ u[h].step = "meta"  BY <1>2 DEF Hands, Steps
<1> HIDE DEF u
<1>7. v[h].step = "meta" /\ v[h].file = e  BY <1>5, <1>6 DEF Hands
<1> HIDE DEF v
<1>8. reply[h] = NoReply /\ NoReply.stamp = 0 /\ NoReply.status = 0
  BY <1>1 DEF Reading, Reads, Early, NoReply
<1>9. Reads(ask[h], v[h], NoReply, e, d)  BY <1>3, <1>7 DEF Reads, Early
<1>10. Reading(h)'  BY <1>1, <1>4, <1>8, <1>9, ReadsOn DEF e, d
<1>11. Finishes(h)  BY <1>4, <1>8 DEF Finishes
<1>. QED  BY <1>10, <1>11

\* What a header says.
LEMMA HeaderIs ==
  ASSUME NEW size \in Nat, NEW stamp \in Nat, NEW n \in Nat
  PROVE  /\ Header(size, stamp, n).status = n /\ Header(size, stamp, n).stamp = stamp
         /\ Header(size, stamp, n).part = <<>>
         /\ HeaderOnly(size, stamp, n).status = n /\ HeaderOnly(size, stamp, n).stamp = stamp
<1> DEFINE t == [NoReply EXCEPT !.size = size]
           u == [t EXCEPT !.stamp = stamp]
           v == [u EXCEPT !.whole = FALSE]
           w == [v EXCEPT !.status = n]
           x == [w EXCEPT !.whole = TRUE]
<1>1. t \in Replies /\ t.part = <<>>  BY PlainReplies DEF Replies, NoReply
<1> HIDE DEF t
<1>2. u \in Replies /\ u.part = <<>> /\ u.stamp = stamp  BY <1>1 DEF Replies
<1> HIDE DEF u
<1>3. v \in Replies /\ v.part = <<>> /\ v.stamp = stamp  BY <1>2 DEF Replies
<1> HIDE DEF v
<1>4. w \in Replies /\ w.part = <<>> /\ w.stamp = stamp /\ w.status = n  BY <1>3 DEF Replies
<1> HIDE DEF w
<1>5. x.stamp = stamp /\ x.status = n  BY <1>4 DEF Replies
<1>. QED  BY <1>4, <1>5 DEF t, u, v, w, x, Header, HeaderOnly

\* A handler that has sent a block.
LEMMA HandHasSent ==
  ASSUME hand \in [Handlers -> Hands], NEW h \in Handlers,
         hand' = [hand EXCEPT ![h].at = @ + 1, ![h].goal = @ - 1]
  PROVE  /\ hand'[h].step = hand[h].step /\ hand'[h].file = hand[h].file
         /\ hand'[h].at = hand[h].at + 1 /\ hand'[h].goal = hand[h].goal - 1
<1> DEFINE u == [hand EXCEPT ![h].at = @ + 1]
           v == [u EXCEPT ![h].goal = @ - 1]
<1>1. hand[h].at \in Nat /\ hand[h].goal \in Int  BY DEF Hands
<1>2. hand' = v  OBVIOUS
<1>3. /\ u \in [Handlers -> Hands] /\ u[h].step = hand[h].step /\ u[h].file = hand[h].file
      /\ u[h].at = hand[h].at + 1 /\ u[h].goal = hand[h].goal
  BY <1>1 DEF Hands
<1> HIDE DEF u
<1>4. /\ v[h].step = hand[h].step /\ v[h].file = hand[h].file /\ v[h].at = hand[h].at + 1
      /\ v[h].goal = hand[h].goal - 1
  BY <1>1, <1>3 DEF Hands
<1>. QED  BY <1>2, <1>4

\* A part of the file is about to be sent.
LEMMA SendStartsReads ==
  ASSUME ServerOK, VersionsOK, NEW h \in Handlers, hand[h].step = "meta", Reading(h),
         UNCHANGED diskVars, Unchanged,
         NEW n \in {200, 206}, NEW start \in Nat, NEW count \in Nat,
         hand'[h].step = "send", hand'[h].file = hand[h].file, hand'[h].at = start,
         hand'[h].goal = count,
         reply'[h].status = n, reply'[h].part = <<>>,
         reply'[h].stamp = disk.stamp[disk.entry[ask[h].path]],
         n = 206 => /\ ParseRange(ask[h].range, Len(DataAt(ask[h].path))).ok
                    /\ UseRange(ask[h], disk.stamp[disk.entry[ask[h].path]]),
         start = PartFrom(ask[h], n, DataAt(ask[h].path)),
         start + count = PartTo(ask[h], n, DataAt(ask[h].path))
  PROVE  Reading(h)' /\ Finishes(h)
<1> DEFINE a == ask[h]
           e == disk.entry[a.path]
           d == DataAt(a.path)
           stamp == disk.stamp[e]
           k == hand'[h]
           r == reply'[h]
<1>1. a.path \in Paths  BY Handler
<1>2. IsFile(e) /\ hand[h].file = e  BY DEF Reading, Reads
<1>3. stamp \in Nat /\ stamp > 0 /\ Version(stamp, d) /\ d \in Seq(Blocks)
  BY <1>1, <1>2, FileThere
<1>4. n = 206 => /\ ParseRange(a.range, Len(d)).ok /\ a.range # NoRange
                 /\ a.ifrange \in {0, stamp}
  BY DEF UseRange
<1>5. /\ r.status = n /\ r.part = <<>> /\ r.stamp = stamp
      /\ k.step = "send" /\ k.file = e /\ k.at = start /\ k.goal = count
      /\ start = PartFrom(a, n, d) /\ start + count = PartTo(a, n, d)
  BY <1>2
<1> HIDE DEF a, e, d, stamp, k, r
<1>6. Given(a, r, d) = start  BY <1>5, EmptySeq DEF Given
<1>7. SubSeq(d, start + 1, start) = <<>>  BY <1>3, SubSeqEmpty
<1>8. start =< start + count  OBVIOUS
<1>9. Gives(a, r, d)  BY <1>3, <1>4, <1>5, <1>6, <1>7, <1>8 DEF Gives
<1>10. Reads(a, k, r, e, d)  BY <1>2, <1>5, <1>6, <1>9 DEF Reads, Early
<1>11. Reading(h)'  BY <1>3, <1>5, <1>10, ReadsOn DEF a, e, d, k, r
<1>12. Finishes(h)  BY DEF Finishes
<1>. QED  BY <1>11, <1>12

\* Meta: what is sent is the part of the file that is there.
LEMMA MetaReads ==
  ASSUME ServerOK, VersionsOK, NEW h \in Handlers, Downloads(ask[h]), Reading(h), Meta(h)
  PROVE  Reading(h)' /\ Finishes(h)
<1> DEFINE a == ask[h]
           e == disk.entry[a.path]
           d == DataAt(a.path)
           size == SizeAt(disk, a.path)
           r == ParseRange(a.range, size)
           stamp == disk.stamp[e]
           Send_(status, start, count) ==
             /\ hand' = [hand EXCEPT ![h].step = "send", ![h].at = start, ![h].goal = count]
             /\ reply' = [reply EXCEPT ![h] = Header(size, stamp, status)]
<1>1. hand[h].step = "meta" /\ UNCHANGED diskVars /\ Unchanged  BY DEF Meta, At
<1>2. /\ AskOK(a) /\ a.path \in Paths /\ a.range.a \in Nat /\ a.range.b \in Nat
      /\ hand \in [Handlers -> Hands] /\ reply \in [Handlers -> Replies] /\ disk \in Disks
  BY <1>1, Handler DEF AskOK, ServerOK, DiskOK
<1>3. IsFile(e) /\ hand[h].file = e  BY <1>1 DEF Reading, Reads
<1>4. /\ d \in Seq(Blocks) /\ Len(d) \in Nat /\ Len(d) < Word /\ size = Len(d)
      /\ stamp \in Nat /\ stamp > 0 /\ Version(stamp, d)
  BY <1>2, <1>3, FileThere
<1>5. r.start \in Nat /\ RangeSize(r) \in Nat  BY <1>2, <1>4, RangeTypes
<1>6. a.method # "HEAD"  BY DEF Downloads
<1> DEFINE k == hand'[h]
           got == reply'[h]
<1>7. ASSUME NEW n \in {200, 206}, NEW start \in Nat, NEW count \in Nat,
             Send_(n, start, count),
             n = 206 => ParseRange(a.range, Len(d)).ok /\ UseRange(a, stamp),
             start = PartFrom(a, n, d), start + count = PartTo(a, n, d)
      PROVE  Reading(h)' /\ Finishes(h)
  <2> DEFINE u == [hand EXCEPT ![h].step = "send"]
             v == [u EXCEPT ![h].at = start]
             w == [v EXCEPT ![h].goal = count]
  <2>1. /\ k.step = "send" /\ k.file = hand[h].file /\ k.at = start /\ k.goal = count
    <3>1. "send" \in Steps /\ start \in Nat /\ count \in Nat  BY <1>7 DEF Steps
    <3>2. k = w[h]  BY <1>7
    <3> HIDE DEF k
    <3>3. u \in [Handlers -> Hands] /\ u[h].step = "send" /\ u[h].file = hand[h].file
      BY <1>2, <3>1 DEF Hands
    <3> HIDE DEF u
    <3>4. /\ v \in [Handlers -> Hands] /\ v[h].step = "send" /\ v[h].file = hand[h].file
          /\ v[h].at = start
      BY <3>1, <3>3 DEF Hands
    <3> HIDE DEF v
    <3>5. /\ w[h].step = "send" /\ w[h].file = hand[h].file /\ w[h].at = start
          /\ w[h].goal = count
      BY <3>1, <3>4 DEF Hands
    <3>. QED  BY <3>2, <3>5
  <2>2. got = Header(size, stamp, n)  BY <1>2, <1>7
  <2>3. got.status = n /\ got.stamp = stamp /\ got.part = <<>>
    <3>1. size \in Nat /\ n \in Nat  BY <1>4
    <3> HIDE DEF size, stamp, got
    <3>. QED  BY <1>4, <2>2, <3>1, HeaderIs
  <2> HIDE DEF Send_
  <2>. QED  BY <1>1, <1>7, <2>1, <2>3, SendStartsReads
<1>8. CASE ~UseRange(a, stamp)
  <2>1. Send_(200, 0, size)  BY <1>3, <1>6, <1>8 DEF Meta, Header
  <2>2. 0 = PartFrom(a, 200, d) /\ 0 + size = PartTo(a, 200, d)  BY <1>4 DEF PartFrom, PartTo
  <2>3. size \in Nat /\ 0 \in Nat /\ 200 \in {200, 206} /\ 200 # 206  BY <1>4
  <2> HIDE DEF size, stamp, r, d, e, a, Send_
  <2>. QED  BY <1>7, <2>1, <2>2, <2>3
<1>9. CASE UseRange(a, stamp) /\ r.ok
  <2> DEFINE start == r.start
             count == RangeSize(r)
  <2>1. Send_(206, start, count)  BY <1>3, <1>6, <1>9 DEF Meta, Header
  <2>2. start = PartFrom(a, 206, d) /\ start + count = PartTo(a, 206, d)
    BY <1>4 DEF PartFrom, PartTo
  <2>3. ParseRange(a.range, Len(d)).ok  BY <1>4, <1>9
  <2>4. 206 \in {200, 206} /\ start \in Nat /\ count \in Nat  BY <1>5
  <2> HIDE DEF size, stamp, r, d, e, a, Send_, start, count
  <2>. QED  BY <1>7, <1>9, <2>1, <2>2, <2>3, <2>4
<1>10. CASE UseRange(a, stamp) /\ ~r.ok
  <2> DEFINE head == HeaderOnly(size, stamp, 416)
             l == [Free EXCEPT !.step = "done"]
  <2>1. Finish(h, head)  BY <1>3, <1>10 DEF Meta, HeaderOnly
  <2>2. k = l /\ got = head  BY <1>2, <2>1 DEF Finish
  <2>3. l.step = "done"  BY FreeHand
  <2>4. size \in Nat  BY <1>4
  <2> HIDE DEF size, stamp, l
  <2>5. head.status = 416 /\ head.stamp = stamp  BY <1>4, <2>4, HeaderIs
  <2> HIDE DEF head, e, d, a, k, got
  <2>6. Reads(a, k, got, e, d)  BY <2>2, <2>3, <2>5 DEF Reads, Early
  <2>7. Reading(h)'  BY <1>1, <1>4, <2>2, <2>5, <2>6, ReadsOn DEF a, e, d, k, got
  <2>8. Finishes(h)  BY <2>2, <2>5 DEF Finishes, got
  <2>. QED  BY <2>7, <2>8
<1>. QED  BY <1>8, <1>9, <1>10

\* Send: block by block what is there, to the end of the part.
LEMMA SendReads ==
  ASSUME ServerOK, VersionsOK, NEW h \in Handlers, Reading(h), Send(h)
  PROVE  Reading(h)' /\ Finishes(h)
<1> DEFINE a == ask[h]
           e == disk.entry[a.path]
           d == DataAt(a.path)
           k == hand[h]
           l == hand'[h]
           r == reply[h]
           got == reply'[h]
           from == PartFrom(a, r.status, d)
           to == PartTo(a, r.status, d)
           whole == ~gone[h] /\ k.goal = 0
           b == d[k.at + 1]
<1>1. k.step = "send" /\ UNCHANGED diskVars /\ Unchanged  BY DEF Send, At
<1>2. /\ AskOK(a) /\ a.path \in Paths /\ a.range.a \in Nat /\ a.range.b \in Nat
      /\ hand \in [Handlers -> Hands] /\ reply \in [Handlers -> Replies]
      /\ k \in Hands /\ r \in Replies
  BY <1>1, Handler DEF AskOK, ServerOK
<1>3. IsFile(e) /\ k.file = e /\ Gives(a, r, d) /\ k.at = Given(a, r, d) /\ k.at + k.goal = to
  BY <1>1 DEF Reading, Reads
<1>4. d = disk.data[k.file] /\ d \in Seq(Blocks) /\ Len(d) \in Nat /\ Len(d) < Word
  BY <1>2, <1>3, FileThere
<1>5. r.status = 206 => ParseRange(a.range, Len(d)).ok  BY <1>3 DEF Gives
<1>6. from \in Nat /\ to \in Nat /\ from =< to /\ to =< Len(d)
  BY <1>2, <1>4, <1>5, PartIs
<1>7. k.at \in Nat /\ k.goal \in Int /\ r.part \in Seq(Blocks) /\ Len(r.part) \in Nat
      /\ r.stamp \in Nat
  BY <1>2, LenProperties DEF Hands, Replies
<1>8. k.at = from + Len(r.part) /\ k.at =< to /\ r.part = SubSeq(d, from + 1, k.at)
      /\ r.stamp > 0 /\ r.status \in {200, 206}
  BY <1>3 DEF Gives, Given
<1>9. Version(r.stamp, d)  BY <1>7, <1>8 DEF Reading
<1>13. /\ k.at \in Nat /\ k.goal \in Int /\ to \in Nat /\ Len(d) \in Nat
       /\ k.at + k.goal = to /\ k.at =< to /\ to =< Len(d)
  BY <1>3, <1>4, <1>6, <1>7, <1>8
<1>14. (k.at >= Len(d) => k.goal = 0) /\ (k.goal # 0 => k.at < Len(d) /\ k.at < to)
  <2> DEFINE at == k.at
             goal == k.goal
             len == Len(d)
  <2> HIDE DEF at, goal, len, to
  <2>1. (at >= len => goal = 0) /\ (goal # 0 => at < len /\ at < to)
    BY <1>13 DEF at, goal, len
  <2>. QED  BY <2>1 DEF at, goal, len
<1>10. \/ /\ gone[h] \/ k.goal = 0 \/ k.at >= Len(d)
          /\ Finish(h, [r EXCEPT !.whole = whole])
       \/ /\ k.goal # 0 /\ ~(k.at >= Len(d))
          /\ hand' = [hand EXCEPT ![h].at = @ + 1, ![h].goal = @ - 1]
          /\ reply' = [reply EXCEPT ![h].part = Append(@, b)]
  BY <1>4 DEF Send
<1>11. ASSUME gone[h] \/ k.goal = 0 \/ k.at >= Len(d), Finish(h, [r EXCEPT !.whole = whole])
       PROVE  Reading(h)' /\ Finishes(h)
  <2>1. l = [Free EXCEPT !.step = "done"] /\ got = [r EXCEPT !.whole = whole]
    BY <1>2, <1>11 DEF Finish
  <2>2. l.step = "done"  BY <2>1, FreeHand
  <2>3. whole \in BOOLEAN  OBVIOUS
  <2>4. whole => k.goal = 0  OBVIOUS
  <2>5. k.at >= Len(d) => k.goal = 0  BY <1>14
  <2>6. whole \/ gone[h]  BY <1>11, <2>5
  <2> HIDE DEF whole
  <2>7. /\ got.status = r.status /\ got.part = r.part /\ got.stamp = r.stamp
        /\ got.whole = whole
    BY <1>2, <2>1, <2>3 DEF Replies
  <2> HIDE DEF got, l, e, d, a, r, k
  <2>8. Given(a, got, d) = k.at /\ PartTo(a, got.status, d) = to
    BY <1>3, <2>7 DEF Given
  <2>9. Gives(a, got, d)  BY <1>3, <2>7 DEF Gives, Given
  <2>10. got.whole => Given(a, got, d) = PartTo(a, got.status, d)
    <3> HIDE DEF to
    <3>. QED  BY <1>3, <1>7, <2>4, <2>7, <2>8
  <2>11. Reads(a, l, got, e, d)  BY <1>3, <2>2, <2>9, <2>10 DEF Reads, Early
  <2>12. Reading(h)'  BY <1>1, <1>9, <2>7, <2>11, ReadsOn DEF a, e, d, l, got
  <2>13. Finishes(h)  BY <2>6, <2>7 DEF Finishes, got
  <2>. QED  BY <2>12, <2>13
<1>12. ASSUME k.goal # 0, ~(k.at >= Len(d)),
              hand' = [hand EXCEPT ![h].at = @ + 1, ![h].goal = @ - 1],
              reply' = [reply EXCEPT ![h].part = Append(@, b)]
       PROVE  Reading(h)' /\ Finishes(h)
  <2>1. l.step = "send" /\ l.file = e /\ l.at = k.at + 1 /\ l.goal = k.goal - 1
    <3>1. l.step = k.step /\ l.file = k.file /\ l.at = k.at + 1 /\ l.goal = k.goal - 1
      BY <1>2, <1>12, HandHasSent
    <3>. QED  BY <1>1, <1>3, <3>1
  <2>2. got = [r EXCEPT !.part = Append(r.part, b)]  BY <1>2, <1>12
  <2>3. k.at < Len(d) /\ k.at < to  BY <1>12, <1>14
  <2>4. b \in Blocks
    <3>1. k.at + 1 \in 1..Len(d)  BY <1>4, <1>7, <2>3
    <3>. QED  BY <1>4, <3>1, ElementOfSeq
  <2>5. Append(r.part, b) = SubSeq(d, from + 1, k.at + 1)
    <3> DEFINE n == k.at
    <3>1. n = from + Len(r.part) /\ n \in Nat /\ n < Len(d) /\ r.part = SubSeq(d, from + 1, n)
          /\ b = d[n + 1]
      BY <1>7, <1>8, <2>3
    <3> HIDE DEF d, n, from, r, b
    <3>4. from =< n  BY <1>6, <1>7, <3>1
    <3>2. Append(SubSeq(d, from + 1, n), d[n + 1]) = SubSeq(d, from + 1, n + 1)
      BY <1>4, <1>6, <3>1, <3>4, PieceGrows
    <3>3. Append(r.part, b) = SubSeq(d, from + 1, n + 1)  BY <3>1, <3>2
    <3>. QED  BY <3>3 DEF n
  <2> HIDE DEF b
  <2>6. Append(r.part, b) \in Seq(Blocks) /\ Len(Append(r.part, b)) = Len(r.part) + 1
    BY <1>7, <2>4, AppendProperties
  <2>7. /\ got.status = r.status /\ got.part = Append(r.part, b) /\ got.stamp = r.stamp
    BY <1>2, <2>2, <2>6 DEF Replies
  <2> HIDE DEF got, l, e, d, a, r, k
  <2>8. PartTo(a, got.status, d) = to /\ PartFrom(a, got.status, d) = from  BY <2>7
  <2> HIDE DEF to, from
  <2>9. Given(a, got, d) = k.at + 1  BY <1>6, <1>7, <1>8, <2>6, <2>7, <2>8 DEF Given
  <2>10. Given(a, got, d) =< to  BY <1>6, <1>7, <2>3, <2>9
  <2>11. got.part = SubSeq(d, from + 1, Given(a, got, d))  BY <2>5, <2>7, <2>9
  <2>12. Gives(a, got, d)  BY ZenonT(60), <1>3, <2>7, <2>8, <2>10, <2>11 DEF Gives
  <2>13. l.at = Given(a, got, d) /\ l.at + l.goal = PartTo(a, got.status, d)
    BY <1>3, <1>7, <2>1, <2>8, <2>9
  <2>14. Reads(a, l, got, e, d)  BY <1>3, <2>1, <2>12, <2>13 DEF Reads, Early
  <2>15. Reading(h)'  BY <1>1, <1>9, <2>7, <2>14, ReadsOn DEF a, e, d, l, got, r
  <2>16. Finishes(h)  BY <2>1 DEF Finishes, l
  <2>. QED  BY <2>15, <2>16
<1>. QED  BY <1>10, <1>11, <1>12

\* A handler of a download goes on: it reads, and changes nothing.
LEMMA OwnStep ==
  ASSUME ServerOK, VersionsOK, NEW h \in Handlers, Downloads(ask[h]), Reading(h), Handle(h)
  PROVE  Reading(h)' /\ Finishes(h) /\ UNCHANGED diskVars /\ Unchanged
<1>1. hand[h].step \in Early \cup {"send", "done"}  BY DEF Reading, Reads
<1>2. \/ Stat(h) \/ Probe(h) \/ Contain(h) \/ List(h) \/ Open(h) \/ Meta(h) \/ Send(h)
  BY <1>1 DEF Handle, Early, At, Collect, Describe, UploadParent, Create, Body, BodyEnds,
              BodyBreaks, Measure, Discard, Delete, Mkcol, CopyStat, DestParent, DestProbe,
              DestContain, Copy, Move
<1>3. UNCHANGED diskVars /\ Unchanged
  BY <1>2 DEF Stat, Probe, Contain, List, Open, Meta, Send
<1>. QED  BY <1>2, <1>3, StatReads, ProbeReads, ContainReads, ListReads, OpenReads, MetaReads,
             SendReads

-----------------------------------------------------------------------------
(* What a step does to the others.                                         *)

\* A decision never sends a handler back.
LEMMA DispatchGoes ==
  ASSUME NEW a, NEW kind, NEW size
  PROVE  Dispatch(a, kind, size).to # "none"
<1>1. \A n : Answer(n).to # "none"  BY DEF Answer
<1>2. \A t : Go(t).to = t  BY DEF Go
<1>3. OnGet(a, kind).to # "none"  BY <1>1, <1>2 DEF OnGet
<1>4. OnPut(kind, size).to # "none" /\ OnPatch(a, kind, size).to # "none"
  BY <1>1, <1>2 DEF OnPut, OnPatch
<1>5. OnDelete(kind).to # "none" /\ OnMkcol(kind).to # "none"
  BY <1>1, <1>2 DEF OnDelete, OnMkcol
<1>6. OnCopy(a, kind).to # "none"  BY <1>1, <1>2 DEF OnCopy
<1>7. OnMove(a, kind).to # "none"  BY <1>1, <1>2 DEF OnMove
<1>8. OnPropfind(kind).to # "none"  BY <1>1, <1>2 DEF OnPropfind
<1>9. OnOther(a, kind).to # "none"  BY <1>1 DEF OnOther
<1>. QED  BY <1>3, <1>4, <1>5, <1>6, <1>7, <1>8, <1>9 DEF Dispatch

\* Handler h is done or goes on, and nothing happens to the others' hands and
\* answers.
OnlyItself(h) ==
  /\ hand'[h].step # "none"
  /\ \A i \in Handlers : i # h => hand'[i] = hand[i] /\ reply'[i] = reply[i]

\* It is done.
LEMMA FinishMoves ==
  ASSUME ServerOK, NEW h \in Handlers, NEW r, Finish(h, r)
  PROVE  OnlyItself(h)
<1>1. hand \in [Handlers -> Hands] /\ reply \in [Handlers -> Replies]  BY DEF ServerOK
<1>2. [Free EXCEPT !.step = "done"].step = "done"  BY FreeHand
<1>. QED  BY <1>1, <1>2 DEF Finish, OnlyItself

\* It goes on to another step.
LEMMA StepMoves ==
  ASSUME ServerOK, NEW h \in Handlers, NEW t, t # "none", Step(h, t)
  PROVE  OnlyItself(h)
<1>1. hand \in [Handlers -> Hands] /\ reply \in [Handlers -> Replies]  BY DEF ServerOK
<1>. QED  BY <1>1 DEF Step, OnlyItself, Hands

\* It does what was decided.
LEMMA FollowMoves ==
  ASSUME ServerOK, NEW h \in Handlers, NEW d, d.to # "none", Follow(h, d)
  PROVE  OnlyItself(h)
BY FinishMoves, StepMoves DEF Follow

\* It is judged by what is at a path.
LEMMA JudgeMoves ==
  ASSUME ServerOK, NEW h \in Handlers, NEW p, NEW t, NEW u, NEW n, t # "none", u # "none",
         Judge(h, p, t, u, n)
  PROVE  OnlyItself(h)
BY FinishMoves, StepMoves DEF Judge

\* What keeps its step or goes to another one, with other things in its hand.
LEMMA HandMoved ==
  ASSUME ServerOK, NEW h \in Handlers, hand[h].step # "none",
         \/ \E k : hand' = [hand EXCEPT ![h].step = "probe", ![h].kind = k.kind, ![h].size = k.size]
         \/ \E f : hand' = [hand EXCEPT ![h].step = "meta", ![h].file = f]
         \/ \E s, n : hand' = [hand EXCEPT ![h].step = "send", ![h].at = s, ![h].goal = n]
         \/ hand' = [hand EXCEPT ![h].at = @ + 1, ![h].goal = @ - 1]
         \/ hand' = [hand EXCEPT ![h].at = @ + 1]
         \/ \E f, n : hand' = [hand EXCEPT ![h].step = "body", ![h].file = f, ![h].goal = n]
  PROVE  hand'[h].step # "none" /\ \A i \in Handlers : i # h => hand'[i] = hand[i]
<1>1. hand \in [Handlers -> Hands]  BY DEF ServerOK
<1>. QED  BY ZenonT(60), <1>1 DEF Hands

\* A handler's step is its own.
LEMMA HandleMoves ==
  ASSUME ServerOK, NEW h \in Handlers, Handle(h)
  PROVE  OnlyItself(h) /\ hand[h].step # "none" /\ UNCHANGED <<share, restarts, ask, gone>>
<1> DEFINE Otherwise == \A i \in Handlers : i # h => reply'[i] = reply[i]
<1>1. UNCHANGED <<share, restarts, ask, gone>>
  BY DEF Handle, Unchanged, Stat, Probe, Contain, List, Collect, Describe, Open, Meta, Send,
         UploadParent, Create, Body, BodyEnds, BodyBreaks, Measure, Discard, Delete, Mkcol,
         CopyStat, DestParent, DestProbe, DestContain, Copy, Move
<1>2. hand[h].step # "none"
  BY DEF Handle, At, Stat, Probe, Contain, List, Collect, Describe, Open, Meta, Send,
         UploadParent, Create, Body, BodyEnds, BodyBreaks, Measure, Discard, Delete, Mkcol,
         CopyStat, DestParent, DestProbe, DestContain, Copy, Move
<1>3. hand \in [Handlers -> Hands] /\ reply \in [Handlers -> Replies]  BY DEF ServerOK
<1>4. ASSUME Stat(h) PROVE OnlyItself(h)
  <2> DEFINE k == [kind |-> KindOf(disk.entry[ask[h].path]), size |-> SizeAt(disk, ask[h].path)]
  <2>1. /\ hand' = [hand EXCEPT ![h].step = "probe", ![h].kind = k.kind, ![h].size = k.size]
        /\ reply' = reply
    BY <1>4 DEF Stat
  <2> HIDE DEF k
  <2>2. hand'[h].step # "none" /\ \A i \in Handlers : i # h => hand'[i] = hand[i]
    BY <1>2, <2>1, HandMoved
  <2>. QED  BY <2>1, <2>2 DEF OnlyItself
<1>5. ASSUME Probe(h) \/ DestProbe(h) PROVE OnlyItself(h)
  <2>1. \/ Judge(h, ask[h].path, "contain", "containparent", 404)
        \/ Judge(h, ask[h].dest, "destcontain", "destcontainparent", 400)
    BY <1>5 DEF Probe, DestProbe
  <2>. QED  BY <2>1, JudgeMoves
<1>6. ASSUME Contain(h) PROVE OnlyItself(h)
  <2> DEFINE d == Dispatch(ask[h], hand[h].kind, hand[h].size)
  <2>1. Finish(h, Status(404)) \/ Follow(h, d)  BY <1>6 DEF Contain
  <2>2. d.to # "none"  BY DispatchGoes
  <2> HIDE DEF d
  <2>. QED  BY <2>1, <2>2, FinishMoves, FollowMoves
<1>7. ASSUME List(h) \/ Collect(h) \/ Describe(h) PROVE OnlyItself(h)
  <2>1. \E r : Finish(h, r)  BY <1>7 DEF List, Collect, Describe, Fail
  <2>. QED  BY <2>1, FinishMoves
<1>8. ASSUME Open(h) PROVE OnlyItself(h)
  <2>1. \/ Finish(h, Status(500))
        \/ (\E f : hand' = [hand EXCEPT ![h].step = "meta", ![h].file = f]) /\ reply' = reply
    BY <1>8 DEF Open, Fail
  <2>2. ASSUME \E f : hand' = [hand EXCEPT ![h].step = "meta", ![h].file = f], reply' = reply
        PROVE  OnlyItself(h)
    <3>1. hand'[h].step # "none" /\ \A i \in Handlers : i # h => hand'[i] = hand[i]
      BY <1>2, <2>2, HandMoved
    <3>. QED  BY <2>2, <3>1 DEF OnlyItself
  <2>. QED  BY <2>1, <2>2, FinishMoves
<1>9. ASSUME Meta(h) PROVE OnlyItself(h)
  <2>1. \/ \E r : Finish(h, r)
        \/ /\ \E s, n : hand' = [hand EXCEPT ![h].step = "send", ![h].at = s, ![h].goal = n]
           /\ \E r : reply' = [reply EXCEPT ![h] = r]
    BY ZenonT(60), <1>9 DEF Meta, Fail
  <2>2. ASSUME \E s, n : hand' = [hand EXCEPT ![h].step = "send", ![h].at = s, ![h].goal = n],
               \E r : reply' = [reply EXCEPT ![h] = r]
        PROVE  OnlyItself(h)
    <3>1. hand'[h].step # "none" /\ \A i \in Handlers : i # h => hand'[i] = hand[i]
      BY <1>2, <2>2, HandMoved
    <3>2. Otherwise  BY <1>3, <2>2
    <3>. QED  BY <3>1, <3>2 DEF OnlyItself
  <2>. QED  BY <2>1, <2>2, FinishMoves
<1>10. ASSUME Send(h) PROVE OnlyItself(h)
  <2>1. \/ \E r : Finish(h, r)
        \/ /\ hand' = [hand EXCEPT ![h].at = @ + 1, ![h].goal = @ - 1]
           /\ \E b : reply' = [reply EXCEPT ![h].part = b]
    BY <1>10 DEF Send
  <2>2. ASSUME hand' = [hand EXCEPT ![h].at = @ + 1, ![h].goal = @ - 1],
               \E b : reply' = [reply EXCEPT ![h].part = b]
        PROVE  OnlyItself(h)
    <3>1. hand'[h].step # "none" /\ \A i \in Handlers : i # h => hand'[i] = hand[i]
      BY <1>2, <2>2, HandMoved
    <3>2. Otherwise  BY <1>3, <2>2
    <3>. QED  BY <3>1, <3>2 DEF OnlyItself
  <2>. QED  BY <2>1, <2>2, FinishMoves
<1>11. ASSUME \/ UploadParent(h) \/ BodyEnds(h) \/ BodyBreaks(h) \/ Measure(h) \/ Discard(h)
              \/ Delete(h) \/ Mkcol(h) \/ CopyStat(h) \/ DestParent(h) \/ DestContain(h) \/ Move(h)
       PROVE  OnlyItself(h)
  <2>1. \/ \E r : Finish(h, r)
        \/ \E t \in {"create", "measure", "discard", "destparent", "destprobe", "transfer"} :
             Step(h, t)
    BY <1>11 DEF UploadParent, BodyEnds, BodyBreaks, Measure, Discard, Delete, Mkcol, CopyStat,
                 DestParent, DestContain, Move, Fail
  <2>. QED  BY <2>1, FinishMoves, StepMoves
<1>12. ASSUME Create(h) PROVE OnlyItself(h)
  <2>1. \/ \E r : Finish(h, r)
        \/ /\ \E f, n : hand' = [hand EXCEPT ![h].step = "body", ![h].file = f, ![h].goal = n]
           /\ reply' = reply
    BY <1>12 DEF Create, CreateAt, Fail
  <2>2. ASSUME \E f, n : hand' = [hand EXCEPT ![h].step = "body", ![h].file = f, ![h].goal = n],
               reply' = reply
        PROVE  OnlyItself(h)
    <3>1. hand'[h].step # "none" /\ \A i \in Handlers : i # h => hand'[i] = hand[i]
      BY <1>2, <2>2, HandMoved
    <3>. QED  BY <2>2, <3>1 DEF OnlyItself
  <2>. QED  BY <2>1, <2>2, FinishMoves
<1>13. ASSUME Body(h) PROVE OnlyItself(h)
  <2>1. hand' = [hand EXCEPT ![h].at = @ + 1] /\ reply' = reply  BY <1>13 DEF Body
  <2>2. hand'[h].step # "none" /\ \A i \in Handlers : i # h => hand'[i] = hand[i]
    BY <1>2, <2>1, HandMoved
  <2>. QED  BY <2>1, <2>2 DEF OnlyItself
<1>14. ASSUME Copy(h) PROVE OnlyItself(h)
  <2>1. \E r : Finish(h, r)  BY <1>14 DEF Copy, CreateAt, Fail
  <2>. QED  BY <2>1, FinishMoves
<1>15. OnlyItself(h)
  BY <1>4, <1>5, <1>6, <1>7, <1>8, <1>9, <1>10, <1>11, <1>12, <1>13, <1>14 DEF Handle
<1>. QED  BY <1>1, <1>2, <1>15

-----------------------------------------------------------------------------
(* Requests, from the beginning.                                           *)

\* A handler without a request has said nothing, and nobody has left it.
Untouched == \A h \in Handlers : hand[h].step = "none" => reply[h] = NoReply /\ ~gone[h]

\* A request is taken: nothing happens to the others.
LEMMA SubmitMoves ==
  ASSUME ServerOK, NEW h \in Handlers, NEW a, Submit(h, a)
  PROVE  /\ OnlyItself(h) /\ hand[h].step = "none" /\ ask'[h] = a
         /\ \A i \in Handlers : i # h => ask'[i] = ask[i]
         /\ UNCHANGED <<share, disk, clock, restarts, gone>>
<1>1. /\ hand[h].step = "none" /\ Follow(h, AtOnce(a)) /\ ask' = [ask EXCEPT ![h] = a]
      /\ UNCHANGED <<share, disk, clock, restarts, gone>>
  BY DEF Submit, NextHandler
<1>2. AtOnce(a).to # "none"  BY AtOnceDecides
<1>3. DOMAIN ask = Handlers  BY DEF ServerOK
<1>4. OnlyItself(h)  BY <1>1, <1>2, FollowMoves
<1>. QED  BY <1>1, <1>3, <1>4

\* The request of a download is refused at once, or goes and looks.
LEMMA DownloadsGo ==
  ASSUME NEW a, Downloads(a)
  PROVE  AtOnce(a) \in {Answer(401), Answer(403), Go("stat")}
<1> DEFINE g == Access(a)
           n == IF g.user = Nobody THEN 401 ELSE 403
<1>1. /\ a.query # "internal" /\ a.query # "tokengen"
      /\ a.method # "CHECKAUTH" /\ a.method # "LOGOUT"
  BY DEF Downloads
<1>2. CASE g.paths = Nothing
  <2>1. AtOnce(a) = Answer(n)  BY <1>1, <1>2 DEF AtOnce
  <2>2. n \in {401, 403}  OBVIOUS
  <2> HIDE DEF n
  <2>. QED  BY <2>1, <2>2
<1>3. CASE g.paths # Nothing
  <2> HIDE DEF g
  <2>1. AtOnce(a) = Go("stat")  BY <1>1, <1>3 DEF AtOnce, g
  <2>. QED  BY <2>1
<1>. QED  BY <1>2, <1>3

\* The handler of a download that was just asked for reads.
LEMMA SubmitReads ==
  ASSUME ServerOK, Untouched, NEW h \in Handlers, NEW a, Downloads(a), Submit(h, a)
  PROVE  Reading(h)' /\ (reply'[h].status \notin {200, 206})
<1> DEFINE k == [hand[h] EXCEPT !.step = "stat"]
           l == [Free EXCEPT !.step = "done"]
           e == disk'.entry[a.path]
           d == DataAt(a.path)'
           r == reply'[h]
<1>1. /\ hand[h].step = "none" /\ Follow(h, AtOnce(a)) /\ ask'[h] = a
  BY SubmitMoves DEF Submit
<1>2. reply[h] = NoReply /\ NoReply.stamp = 0 /\ NoReply.status = 0
  BY <1>1 DEF Untouched, NoReply
<1>3. hand \in [Handlers -> Hands] /\ reply \in [Handlers -> Replies]  BY DEF ServerOK
<1>4. CASE AtOnce(a) = Go("stat")
  <2>1. Step(h, "stat")  BY <1>1, <1>4 DEF Follow, Go
  <2>2. hand'[h] = k /\ r = NoReply  BY <1>2, <1>3, <2>1 DEF Step
  <2>3. k.step = "stat"  BY <1>3 DEF Hands
  <2> HIDE DEF k, e, d, r
  <2>4. Reads(a, k, r, e, d)  BY <2>2, <2>3 DEF Reads, Early
  <2>. QED  BY <1>1, <1>2, <2>2, <2>4 DEF Reading, e, d, r
<1>5. ASSUME NEW n \in {401, 403}, AtOnce(a) = Answer(n)
      PROVE  Reading(h)' /\ (reply'[h].status \notin {200, 206})
  <2>1. Finish(h, Status(n))  BY <1>1, <1>5 DEF Follow, Answer
  <2>2. hand'[h] = l /\ r = Status(n)  BY <1>3, <2>1 DEF Finish
  <2>3. l.step = "done"  BY FreeHand
  <2>4. Status(n).stamp = 0 /\ Status(n).status = n  BY DEF Status, NoReply
  <2>5. n \notin {200, 206}  BY <1>5
  <2> HIDE DEF l, e, d, r
  <2>6. Reads(a, l, r, e, d)  BY <2>2, <2>3, <2>4, <2>5 DEF Reads, Early
  <2>. QED  BY <1>1, <2>2, <2>4, <2>5, <2>6 DEF Reading, e, d, r
<1>. QED  BY <1>4, <1>5, DownloadsGo

\* A connection is lost: its handler has a request.
LEMMA LoseMoves ==
  ASSUME ServerOK, NEW h \in Handlers, Lose(h)
  PROVE  /\ hand[h].step \notin {"none", "done"} /\ gone'[h]
         /\ \A i \in Handlers : i # h => gone'[i] = gone[i]
         /\ UNCHANGED <<share, disk, clock, restarts, ask, hand, reply>>
BY DEF Lose, Running, ServerOK

\* The share starts again: handlers that have a request are done.
LEMMA RestartMoves ==
  ASSUME ServerOK, Restart
  PROVE  /\ restarts' > 0
         /\ UNCHANGED <<share, disk, clock, ask, gone>>
         /\ \A h \in Handlers : ~Running(h) => hand'[h] = hand[h] /\ reply'[h] = reply[h]
         /\ \A h \in Handlers : Running(h) => /\ hand'[h].step = "done"
                                              /\ reply'[h] = [reply[h] EXCEPT !.whole = FALSE]
<1>1. restarts \in 0..share.restarts /\ share \in Shares  BY DEF ServerOK
<1>2. share.restarts \in Nat  BY <1>1, ShareClientsAssumption DEF UsesOK
<1>3. restarts' > 0  BY <1>1, <1>2 DEF Restart
<1>4. [Free EXCEPT !.step = "done"].step = "done"  BY FreeHand
<1>. QED  BY <1>3, <1>4 DEF Restart

\* What a step does to the requests: a handler goes on, one is taken, a
\* connection is lost, the share starts again, or nothing.
ServerMoves ==
  \/ \E h \in Handlers : Handle(h)
  \/ \E h \in Handlers : \E a : Submit(h, a)
  \/ \E h \in Handlers : Lose(h)
  \/ Restart
  \/ UNCHANGED vars

\* Untouched stays so.
LEMMA UntouchedStays ==
  ASSUME ServerOK, Untouched, ServerMoves
  PROVE  Untouched'
<1>1. ASSUME NEW h \in Handlers, Handle(h) PROVE Untouched'
  BY <1>1, HandleMoves DEF OnlyItself, Untouched
<1>2. ASSUME NEW h \in Handlers, NEW a, Submit(h, a) PROVE Untouched'
  BY <1>2, SubmitMoves DEF OnlyItself, Untouched
<1>3. ASSUME NEW h \in Handlers, Lose(h) PROVE Untouched'
  BY <1>3, LoseMoves DEF Untouched
<1>4. ASSUME Restart PROVE Untouched'
  <2>1. \A h \in Handlers : hand'[h].step = "none" => ~Running(h)  BY <1>4, RestartMoves
  <2>. QED  BY <1>4, <2>1, RestartMoves DEF Untouched
<1>5. ASSUME UNCHANGED vars PROVE Untouched'  BY <1>5 DEF Untouched, vars
<1>. QED  BY <1>1, <1>2, <1>3, <1>4, <1>5 DEF ServerMoves

\* Every step is one of these to the server, whoever takes it.
LEMMA ServerHas ==
  ASSUME ShareInv, [Next]_allVars
  PROVE  ServerMoves
<1>1. /\ page.asked \cup page.sent \subseteq Handlers
      /\ agent.st = "waiting" => agent.h \in Handlers
      /\ browser.st = "getting" => browser.h \in Handlers
  BY DEF ShareInv, ClientsOK, PageOK, AgentOK, BrowserOK
<1>2. CASE ServerStep  BY <1>2 DEF ServerStep, ServerMoves
<1>3. CASE GuestSends \/ GuestLeaves
  BY <1>3 DEF GuestSends, GuestLeaves, Guests, ServerMoves
<1>4. CASE PageUploads \/ PageResumes \/ PageRetries
  BY <1>4 DEF PageUploads, PageResumes, PageRetries, PageAjax, ServerMoves
<1>5. CASE PageUnreached \/ PageHears \/ PageLoses \/ PageProgress
  BY <1>1, <1>5 DEF PageUnreached, PageHears, PageLoses, PageProgress, ServerMoves
<1>6. CASE (\E tool \in Tools : AgentCalls(tool)) \/ AgentHears \/ AgentLoses
  BY <1>1, <1>6 DEF AgentCalls, AgentHears, AgentLoses, ServerMoves
<1>7. CASE BrowserGets \/ BrowserLoses \/ BrowserTakes
  BY <1>1, <1>7 DEF BrowserGets, BrowserLoses, BrowserTakes, ServerMoves
<1>8. CASE UNCHANGED allVars  BY <1>8 DEF allVars, vars, ServerMoves
<1>. QED  BY <1>2, <1>3, <1>4, <1>5, <1>6, <1>7, <1>8 DEF Next, Moves

\* Every step leaves the files alone or writes one.
LEMMA ServerKeepsOrWrites ==
  ASSUME ServerOK, VersionsOK, ServerMoves
  PROVE  FilesKept \/ FileWritten
<1>1. CASE \E h \in Handlers : Handle(h)  BY <1>1, HandleKeepsOrWrites
<1>2. ASSUME UNCHANGED <<disk, clock>> PROVE FilesKept  BY <1>2 DEF FilesKept
<1>3. CASE \E h \in Handlers : \E a : Submit(h, a)  BY <1>2, <1>3 DEF Submit
<1>4. CASE (\E h \in Handlers : Lose(h)) \/ Restart  BY <1>2, <1>4 DEF Lose, Restart
<1>5. CASE UNCHANGED vars  BY <1>2, <1>5 DEF vars
<1>. QED  BY <1>1, <1>3, <1>4, <1>5 DEF ServerMoves

\* At the beginning no two files have the same stamp, and they are short.
LEMMA VersionsBegin ==
  ASSUME Init
  PROVE  VersionsOK /\ Untouched
<1>1. /\ share \in Shares /\ disk = InitDisk(share)
      /\ hand = [h \in Handlers |-> Free] /\ gone = [h \in Handlers |-> FALSE]
      /\ reply = [h \in Handlers |-> NoReply]
  BY DEF Init
<1>2. share.oldsize \in 0..2 /\ share.oldsize < Word /\ MaxFiles \in Nat
  BY <1>1, FileRequestsAssumption, ShareClientsAssumption DEF UsesOK
<1> DEFINE n == Cardinality({p \in Paths : share.tree[p] = "file"})
<1>3. /\ disk.stamp = [f \in Files |-> f]
      /\ disk.data = [f \in Files |-> IF f =< n THEN SubSeq(OldData(f), 1, share.oldsize)
                                      ELSE <<>>]
  BY <1>1 DEF InitDisk
<1> HIDE DEF n
<1>4. ASSUME NEW f \in Files PROVE disk.stamp[f] = f /\ f > 0 /\ Len(disk.data[f]) < Word
  <2>1. f \in Nat /\ f > 0  BY <1>2 DEF Files
  <2>2. Len(SubSeq(OldData(f), 1, share.oldsize)) = share.oldsize  BY <1>2, <2>1, OldDataType
  <2>3. Len(<<>>) = 0 /\ 0 < Word  BY <1>2, FileRequestsAssumption
  <2>4. disk.data[f] \in {SubSeq(OldData(f), 1, share.oldsize), <<>>}  BY <1>3
  <2>. QED  BY <1>2, <1>3, <2>1, <2>2, <2>3, <2>4
<1>5. VersionsOK  BY <1>4 DEF VersionsOK
<1>6. Untouched  BY <1>1 DEF Untouched
<1>. QED  BY <1>5, <1>6

\* Versions and answers from the beginning on.
ReadInv == ShareInv /\ VersionsOK /\ Untouched

\* Every step keeps them.
LEMMA ReadStays ==
  ASSUME ReadInv, [Next]_allVars
  PROVE  ReadInv' /\ ServerMoves /\ (FilesKept \/ FileWritten)
<1>1. ServerMoves  BY ServerHas DEF ReadInv
<1>2. ServerOK  BY DEF ReadInv, ShareInv
<1>3. FilesKept \/ FileWritten  BY <1>1, <1>2, ServerKeepsOrWrites DEF ReadInv
<1>4. ShareInv'  BY StepsAreFine DEF ReadInv
<1>5. VersionsOK' /\ Untouched'  BY <1>1, <1>2, <1>3, VersionsStay, UntouchedStays DEF ReadInv
<1>. QED  BY <1>1, <1>3, <1>4, <1>5 DEF ReadInv

-----------------------------------------------------------------------------
(* One guest alone.                                                        *)

Alone == share.clients = {"guest"} /\ share.guests = 1 /\ restarts = 0

\* The page has not begun, and waits for nothing.
PageIdles == page.st = "idle" /\ page.asked = {} /\ page.sent = {}

\* Then there is one request at most, and if it is a download its handler reads
\* and comes to the end of it.
GuestReads ==
  /\ PageIdles /\ agent.st = "idle" /\ browser.st = "idle"
  /\ \A h \in Handlers : hand[h].step # "none" => ask[h].by = "guest"
  /\ \A h, i \in Handlers : ask[h].by = "guest" /\ ask[i].by = "guest" => h = i
  /\ \A h \in Handlers : ask[h].by = "guest" /\ Downloads(ask[h]) =>
       /\ Reading(h) /\ ~gone[h]
       /\ hand[h].step = "done" /\ reply[h].status \in {200, 206} => reply[h].whole
GuestInv == Alone => GuestReads

\* Its handler goes on.
LEMMA GuestGoesOn ==
  ASSUME ServerOK, VersionsOK, GuestReads, NEW i \in Handlers, Handle(i), UNCHANGED clientVars
  PROVE  GuestReads'
<1>1. OnlyItself(i) /\ hand[i].step # "none" /\ UNCHANGED <<share, restarts, ask, gone>>
  BY HandleMoves
<1>2. UNCHANGED <<page, agent, browser>>  BY DEF clientVars
<1>3. ask[i].by = "guest" /\ \A h \in Handlers : ask[h].by = "guest" => h = i
  BY <1>1 DEF GuestReads
<1>4. \A h \in Handlers : hand'[h].step # "none" => ask'[h].by = "guest"
  BY <1>1, <1>3 DEF OnlyItself, GuestReads
<1>5. ASSUME Downloads(ask[i])
      PROVE  /\ Reading(i)' /\ ~gone'[i]
             /\ hand'[i].step = "done" /\ reply'[i].status \in {200, 206} => reply'[i].whole
  <2>1. Reading(i) /\ ~gone[i]  BY <1>3, <1>5 DEF GuestReads
  <2>2. Reading(i)' /\ Finishes(i)  BY <1>5, <2>1, OwnStep
  <2>. QED  BY <1>1, <2>1, <2>2 DEF Finishes
<1>. QED  BY <1>1, <1>2, <1>3, <1>4, <1>5 DEF GuestReads, PageIdles

\* It asks.
LEMMA GuestBegins ==
  ASSUME ServerOK, Untouched, GuestReads, share.guests = 1, GuestSends
  PROVE  GuestReads'
<1>1. PICK h \in Handlers, a \in GuestAsks(share) : Submit(h, a)  BY DEF GuestSends
<1>2. Cardinality(Guests) < 1 /\ UNCHANGED <<page, agent, browser>>
  BY DEF GuestSends, clientVars
<1>3. a.by = "guest"  BY ShareClientsAssumption DEF ServerOK, UsesOK
<1>4. Guests = {}
  <2>1. MaxRequests \in Int  BY FileRequestsAssumption
  <2>2. IsFiniteSet(Handlers)  BY <2>1, FS_Interval DEF Handlers
  <2>3. Guests \in SUBSET Handlers  BY DEF Guests
  <2>4. IsFiniteSet(Guests)  BY <2>2, <2>3, FS_Subset
  <2>5. Cardinality(Guests) \in Nat  BY <2>4, FS_CardinalityType
  <2>6. Cardinality(Guests) = 0  BY <1>2, <2>5
  <2>. QED  BY <2>4, <2>6, FS_EmptySet
<1>5. \A i \in Handlers : ask[i].by # "guest" /\ hand[i].step = "none"
  BY <1>4 DEF Guests, GuestReads
<1>6. /\ OnlyItself(h) /\ ask'[h] = a /\ gone' = gone
      /\ \A i \in Handlers : i # h => ask'[i] = ask[i]
  BY <1>1, SubmitMoves
<1>7. /\ \A i \in Handlers : hand'[i].step # "none" => i = h
      /\ \A i \in Handlers : ask'[i].by = "guest" => i = h
  BY <1>5, <1>6 DEF OnlyItself
<1>8. ASSUME Downloads(ask'[h])
      PROVE  Reading(h)' /\ ~gone'[h] /\ reply'[h].status \notin {200, 206}
  <2>1. Downloads(a)  BY <1>6, <1>8
  <2>2. Reading(h)' /\ reply'[h].status \notin {200, 206}  BY <1>1, <2>1, SubmitReads
  <2>. QED  BY <1>5, <1>6, <2>2 DEF Untouched
<1>. QED  BY <1>2, <1>3, <1>6, <1>7, <1>8 DEF GuestReads, PageIdles

\* It leaves: not while it downloads.
LEMMA GuestEnds ==
  ASSUME ServerOK, GuestReads, GuestLeaves
  PROVE  GuestReads'
<1>1. PICK h \in Guests : At(h, "body") /\ Lose(h)  BY DEF GuestLeaves
<1>2. h \in Handlers /\ ask[h].by = "guest" /\ UNCHANGED <<page, agent, browser>>
  BY DEF Guests, GuestLeaves, clientVars
<1>3. /\ UNCHANGED <<share, disk, clock, restarts, ask, hand, reply>>
      /\ \A i \in Handlers : i # h => gone'[i] = gone[i]
  BY <1>1, <1>2, LoseMoves
<1>4. ~Downloads(ask[h])
  <2>1. hand[h].step = "body"  BY <1>1 DEF At
  <2>. QED  BY <1>2, <2>1 DEF GuestReads, Reading, Reads, Early
<1>5. ASSUME NEW i \in Handlers, ask[i].by = "guest", Downloads(ask[i])
      PROVE  Reading(i)' /\ ~gone'[i]
  <2>1. i # h /\ Reading(i) /\ ~gone[i]  BY <1>4, <1>5 DEF GuestReads
  <2>. QED  BY <1>3, <2>1 DEF Reading, Version, DataAt
<1>. QED  BY <1>2, <1>3, <1>5 DEF GuestReads, PageIdles

\* Nobody else does anything.
LEMMA GuestStays ==
  ASSUME ReadInv, GuestInv, [Next]_allVars
  PROVE  GuestInv'
<1> SUFFICES ASSUME Alone' PROVE GuestReads'
  BY DEF GuestInv
<1>1. ServerOK /\ VersionsOK /\ Untouched  BY DEF ReadInv, ShareInv
<1>2. share' = share /\ restarts \in Nat
  <2>1. ServerMoves  BY ServerHas DEF ReadInv
  <2>2. share' = share
    BY <1>1, <2>1, HandleMoves DEF ServerMoves, Submit, Lose, Restart, vars
  <2>3. share \in Shares /\ restarts \in 0..share.restarts  BY <1>1 DEF ServerOK
  <2>4. share.restarts \in Nat  BY <2>3, ShareClientsAssumption DEF UsesOK
  <2>. QED  BY <2>2, <2>3, <2>4
<1>3. restarts' = 0 /\ share.clients = {"guest"} /\ share.guests = 1  BY <1>2 DEF Alone
<1>4. ~Restart  BY <1>2, <1>3 DEF Restart
<1>5. restarts' = restarts
  <2>1. ServerMoves  BY ServerHas DEF ReadInv
  <2>. QED  BY <1>1, <1>4, <2>1, HandleMoves DEF ServerMoves, Submit, Lose, vars
<1>6. GuestReads  BY <1>3, <1>5 DEF GuestInv, Alone
<1>7. PageIdles /\ agent.st = "idle" /\ browser.st = "idle"  BY <1>6 DEF GuestReads
<1>8. ~Uses("page") /\ ~Uses("agent") /\ ~Uses("browser")  BY <1>3 DEF Uses
<1>9. CASE ServerStep /\ UNCHANGED clientVars
  BY <1>1, <1>4, <1>6, <1>9, GuestGoesOn DEF ServerStep
<1>10. CASE GuestSends  BY <1>1, <1>3, <1>6, <1>10, GuestBegins
<1>11. CASE GuestLeaves  BY <1>1, <1>6, <1>11, GuestEnds
<1>12. CASE UNCHANGED allVars
  BY <1>6, <1>12 DEF GuestReads, PageIdles, Reading, Version, DataAt, allVars
<1>13. \/ ServerStep /\ UNCHANGED clientVars
       \/ GuestSends \/ GuestLeaves \/ UNCHANGED allVars
  BY <1>7, <1>8 DEF Next, Moves, PageIdles, PageUploads, PageUnreached, PageHears, PageLoses,
                    PageProgress, PageRetries, PageResumes, AgentCalls, AgentHears, AgentLoses,
                    BrowserGets, BrowserLoses, BrowserTakes
<1>. QED  BY <1>9, <1>10, <1>11, <1>12, <1>13

\* What versions, answers and a guest alone rely on, at all times.
THEOREM ReadInvariant == Spec => [](ReadInv /\ GuestInv)
<1>1. ASSUME Init PROVE VersionsOK /\ Untouched /\ GuestInv
  <2>1. VersionsOK /\ Untouched  BY <1>1, VersionsBegin
  <2>2. /\ PageIdles /\ agent.st = "idle" /\ browser.st = "idle"
        /\ \A h \in Handlers : hand[h].step = "none" /\ ask[h].by # "guest"
    BY <1>1 DEF Init, Free, PageIdles
  <2>3. GuestInv  BY <2>2 DEF GuestInv, GuestReads
  <2>. QED  BY <2>1, <2>3
<1>2. ShareInv /\ VersionsOK /\ Untouched /\ GuestInv /\ [Next]_allVars
      => (VersionsOK /\ Untouched /\ GuestInv)'
  BY ReadStays, GuestStays DEF ReadInv
<1>3. ShareInv /\ VersionsOK /\ Untouched /\ GuestInv => ReadInv /\ GuestInv  BY DEF ReadInv
<1>. QED  BY <1>1, <1>2, <1>3, ShareInvariant, PTL DEF Spec

\* A sequence is the piece of it from its beginning to its end.
LEMMA PieceIsAll ==
  ASSUME NEW d \in Seq(Blocks)
  PROVE  SubSeq(d, 1, Len(d)) = d
BY SubSeqFull

\* What a guest who is alone has read when his request is done.
LEMMA ReadsNow ==
  ASSUME ReadInv, GuestInv
  PROVE  ReadsAreExact
<1> SUFFICES ASSUME NEW h \in Handlers, Done(h), Alone, Downloads(ask[h]), reply[h].stamp # 0
             PROVE  LET a == ask[h]
                        data == disk.data[disk.entry[a.path]]
                    IN  /\ reply[h].status = 200 => reply[h].part = data
                        /\ reply[h].status = 206 =>
                             reply[h].part = IF a.range.kind = "last"
                               THEN SubSeq(data, Len(data) - a.range.a + 1, Len(data))
                               ELSE SubSeq(data, a.range.a + 1,
                                           IF a.range.b = Word THEN Len(data) ELSE a.range.b + 1)
  BY DEF ReadsAreExact, Alone, Downloads
<1> DEFINE a == ask[h]
           e == disk.entry[a.path]
           r == reply[h]
           d == DataAt(a.path)
           p == ParseRange(a.range, Len(d))
<1>1. ServerOK /\ VersionsOK /\ GuestReads  BY DEF ReadInv, ShareInv, GuestInv
<1>2. hand[h].step = "done" /\ hand[h].step # "none"  BY DEF Done
<1>3. /\ Reading(h)
      /\ r.status \in {200, 206} => r.whole
  BY <1>1, <1>2 DEF GuestReads
<1>4. a.path \in Paths /\ a.range.a \in Nat /\ a.range.b \in Nat
  BY <1>1, <1>2, Handler DEF AskOK
<1>5. ASSUME r.status \in {200, 206}
      PROVE  /\ IsFile(e) /\ r.part = SubSeq(d, PartFrom(a, r.status, d) + 1, PartTo(a, r.status, d))
             /\ r.status = 206 => p.ok
  BY <1>2, <1>3, <1>5 DEF Reading, Reads, Gives
<1>6. IsFile(e) => /\ d = disk.data[e] /\ d \in Seq(Blocks) /\ Len(d) \in Nat /\ Len(d) < Word
  BY <1>1, <1>4, FileThere
<1> HIDE DEF r, d
<1>7. CASE r.status = 200
  <2>1. r.part = SubSeq(d, 1, Len(d))  BY <1>5, <1>6, <1>7 DEF PartFrom, PartTo
  <2>2. r.part = disk.data[e]  BY <1>5, <1>6, <1>7, <2>1, PieceIsAll
  <2>. QED  BY <1>7, <2>2 DEF r
<1>8. CASE r.status = 206
  <2>1. /\ r.part = SubSeq(d, p.start + 1, p.start + RangeSize(p)) /\ p.ok /\ d = disk.data[e]
        /\ Len(d) \in Nat /\ Len(d) < Word
    BY <1>5, <1>6, <1>8 DEF PartFrom, PartTo
  <2>2. a.range.kind \in {"last", "from"}  BY <2>1, RangeKinds
  <2> DEFINE want == IF a.range.kind = "last"
                     THEN SubSeq(d, Len(d) - a.range.a + 1, Len(d))
                     ELSE SubSeq(d, a.range.a + 1,
                                 IF a.range.b = Word THEN Len(d) ELSE a.range.b + 1)
  <2>3. ASSUME a.range.kind = "last" PROVE r.part = want
    <3> DEFINE n == Len(d)
               k == a.range.a
    <3>1. k =< n /\ p.start = n - k /\ RangeSize(p) = k  BY <1>4, <2>1, <2>3, LastRange
    <3>2. n \in Nat /\ k \in Nat  BY <1>4, <2>1
    <3>3. r.part = SubSeq(d, n - k + 1, n)
      <4>1. r.part = SubSeq(d, n - k + 1, n - k + k)  BY <2>1, <3>1
      <4> HIDE DEF n, k
      <4>2. n - k + k = n  BY <3>2
      <4>. QED  BY <4>1, <4>2
    <3>. QED  BY <2>3, <3>3
  <2>4. ASSUME a.range.kind = "from" PROVE r.part = want
    <3>1. /\ p.start = a.range.a
          /\ a.range.b = Word => a.range.a + RangeSize(p) = Len(d)
          /\ a.range.b # Word => a.range.a + RangeSize(p) = a.range.b + 1
      BY <1>4, <2>1, <2>4, FromRange
    <3> DEFINE to == IF a.range.b = Word THEN Len(d) ELSE a.range.b + 1
    <3>2. p.start + RangeSize(p) = to  BY <3>1
    <3>3. r.part = SubSeq(d, a.range.a + 1, to)  BY <2>1, <3>1, <3>2
    <3>4. a.range.kind # "last"  BY <2>4
    <3>. QED  BY <3>3, <3>4
  <2>5. r.part = want  BY <2>2, <2>3, <2>4
  <2> HIDE DEF want
  <2>6. reply[h].part = want /\ reply[h].status # 200  BY <1>8, <2>5 DEF r
  <2>7. d = disk.data[e]  BY <2>1
  <2>. QED  BY <2>6, <2>7, Zenon DEF want
<1>. QED  BY <1>7, <1>8 DEF r

\* One request alone, with no restart, reads exactly what is there: a file
\* whole, or the part of it that was asked for, also of an empty file and of
\* its last 0 blocks (ReadsAreExact).
THEOREM ReadsExactly == Spec => []ReadsAreExact
<1>1. ReadInv /\ GuestInv => ReadsAreExact  BY ReadsNow
<1>. QED  BY <1>1, ReadInvariant, PTL
=============================================================================
