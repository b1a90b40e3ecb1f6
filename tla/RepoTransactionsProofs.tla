----------------------- MODULE RepoTransactionsProofs -----------------------
(***************************************************************************)
(* Proofs about RepoTransactions, for any locations, transactions, sets,   *)
(* retries, refusals, lost connections and purges.  What an operation does *)
(* to the data it does in LatestState, Layer and the like, which stay      *)
(* unopened here: the theorems are about who is told what.                 *)
(***************************************************************************)
EXTENDS RepoTransactions, FiniteSetTheorems, SequenceTheorems, TLAPS

-----------------------------------------------------------------------------
(* Induction over the natural numbers, for a set instead of a predicate.   *)

LEMMA LeastNumber ==
    ASSUME NEW T, T \subseteq Nat, T # {}
    PROVE  \E x \in T : \A y \in T : x <= y
<1>1. PICK x \in T : \A y \in T : ~ (<<y, x>> \in OpToRel(<, Nat))
  BY NatLessThanWellFounded, WFMin
<1>2. \A y, z \in Nat : y < z => <<y, z>> \in OpToRel(<, Nat)
  BY DEF OpToRel
<1>3. \A y \in T : ~ (y < x)
  BY <1>1, <1>2
<1>. QED
  BY <1>3

LEMMA NumbersByInduction ==
    ASSUME NEW T, 0 \in T, \A n \in T : n \in Nat => n + 1 \in T
    PROVE  Nat \subseteq T
<1>. SUFFICES ASSUME Nat \ T # {} PROVE FALSE
  OBVIOUS
<1>1. PICK x \in Nat \ T : \A y \in Nat \ T : x <= y
  BY LeastNumber
<1>2. x - 1 \in Nat /\ x - 1 \in T
  BY <1>1
<1>3. (x - 1) + 1 \in T
  BY <1>2
<1>. QED
  BY <1>1, <1>3

-----------------------------------------------------------------------------
(* Part of a sequence.                                                     *)

ThoseUnfolds(f, s, T, n) ==
    f = [i \in 0..n |-> IF i = 0 THEN <<>> ELSE IF s[i] \in T THEN Append(f[i - 1], s[i]) ELSE f[i - 1]]

LEMMA ThoseExists ==
    ASSUME NEW s, NEW T, NEW N \in Nat
    PROVE  \E f : ThoseUnfolds(f, s, T, N)
<1>. DEFINE Reach == {n \in Nat : \E f : ThoseUnfolds(f, s, T, n)}
<1>1. 0 \in Reach
  <2>. DEFINE f == [i \in 0..0 |-> <<>>]
  <2>1. ThoseUnfolds(f, s, T, 0)
    BY DEF ThoseUnfolds
  <2>. QED
    BY <2>1
<1>2. ASSUME NEW n \in Reach, n \in Nat PROVE n + 1 \in Reach
  <2>1. PICK f : ThoseUnfolds(f, s, T, n)
    BY <1>2
  <2>. DEFINE g == [i \in 0..(n + 1) |-> IF i <= n THEN f[i] ELSE IF s[i] \in T THEN Append(f[i - 1], s[i]) ELSE f[i - 1]]
  <2>2. \A i \in 0..(n + 1) : i # 0 => g[i - 1] = f[i - 1]
    BY <1>2
  <2>3. \A i \in 0..n : f[i] = IF i = 0 THEN <<>> ELSE IF s[i] \in T THEN Append(f[i - 1], s[i]) ELSE f[i - 1]
    BY <2>1, Zenon DEF ThoseUnfolds
  <2>4. \A i \in 0..(n + 1) : g[i] = IF i = 0 THEN <<>> ELSE IF s[i] \in T THEN Append(g[i - 1], s[i]) ELSE g[i - 1]
    BY <1>2, <2>2, <2>3
  <2>5. ThoseUnfolds(g, s, T, n + 1)
    <3>. HIDE DEF Reach
    <3>1. g = [i \in 0..(n + 1) |-> g[i]]
      OBVIOUS
    <3>. HIDE DEF g
    <3>. QED
      BY <2>4, <3>1, Zenon DEF ThoseUnfolds
  <2>. QED
    BY <2>5
<1>3. N \in Reach
  <2>. HIDE DEF Reach
  <2>. QED
    BY <1>1, <1>2, NumbersByInduction
<1>. QED
  BY <1>3

\* q is the part in T of the first n elements of s.
Part(q, s, T, n, S) ==
    /\ q \in Seq(S)
    /\ \A i \in 1..Len(q) : \E k \in 1..n : s[k] = q[i] /\ s[k] \in T
    /\ \A k \in 1..n : s[k] \in T => \E i \in 1..Len(q) : q[i] = s[k]
    /\ \A i, j \in 1..Len(q) : i < j => \E k, l \in 1..n : k < l /\ s[k] = q[i] /\ s[l] = q[j]
    /\ \A m \in Nat : (\A k \in 1..n : k > m => s[k] \notin T) => Len(q) <= m

LEMMA PartIsKept ==
    ASSUME NEW S, NEW s \in Seq(S), NEW T, NEW n \in Nat, n + 1 \in 1..Len(s),
           NEW q, Part(q, s, T, n, S)
    PROVE  Part(IF s[n + 1] \in T THEN Append(q, s[n + 1]) ELSE q, s, T, n + 1, S)
<1>1. q \in Seq(S) /\ s[n + 1] \in S /\ Len(q) \in Nat
  BY DEF Part
<1>2. CASE s[n + 1] \notin T
  <2>1. \A k \in 1..(n + 1) : s[k] \in T => k \in 1..n
    BY <1>2
  <2>2. \A k \in 1..n : k \in 1..(n + 1)
    OBVIOUS
  <2>3. ASSUME NEW m \in Nat, \A k \in 1..(n + 1) : k > m => s[k] \notin T
        PROVE  Len(q) <= m
    BY <2>2, <2>3 DEF Part
  <2>. QED
    BY <1>2, <2>1, <2>2, <2>3 DEF Part
<1>3. CASE s[n + 1] \in T
  <2>. DEFINE p == Append(q, s[n + 1])
  <2>1. /\ p \in Seq(S) /\ Len(p) = Len(q) + 1 /\ p[Len(q) + 1] = s[n + 1]
        /\ \A i \in 1..Len(q) : p[i] = q[i]
    BY <1>1
  <2>. HIDE DEF p
  <2>2. \A i \in 1..Len(p) : \E k \in 1..(n + 1) : s[k] = p[i] /\ s[k] \in T
    <3>. SUFFICES ASSUME NEW i \in 1..Len(p)
                  PROVE  \E k \in 1..(n + 1) : s[k] = p[i] /\ s[k] \in T
      OBVIOUS
    <3>1. CASE i = Len(p)
      BY <1>1, <1>3, <2>1, <3>1
    <3>2. CASE i # Len(p)
      <4>1. i \in 1..Len(q)
        BY <1>1, <2>1, <3>2
      <4>2. PICK k \in 1..n : s[k] = q[i] /\ s[k] \in T
        BY <4>1 DEF Part
      <4>. QED
        BY <2>1, <4>1, <4>2
    <3>. QED
      BY <3>1, <3>2
  <2>3. \A k \in 1..(n + 1) : s[k] \in T => \E i \in 1..Len(p) : p[i] = s[k]
    <3>. SUFFICES ASSUME NEW k \in 1..(n + 1), s[k] \in T
                  PROVE  \E i \in 1..Len(p) : p[i] = s[k]
      OBVIOUS
    <3>1. CASE k = n + 1
      BY <1>1, <2>1, <3>1
    <3>2. CASE k # n + 1
      <4>1. k \in 1..n
        BY <3>2
      <4>2. PICK i \in 1..Len(q) : q[i] = s[k]
        BY <4>1 DEF Part
      <4>. QED
        BY <1>1, <2>1, <4>2
    <3>. QED
      BY <3>1, <3>2
  <2>4. \A i, j \in 1..Len(p) : i < j => \E k, l \in 1..(n + 1) : k < l /\ s[k] = p[i] /\ s[l] = p[j]
    <3>. SUFFICES ASSUME NEW i \in 1..Len(p), NEW j \in 1..Len(p), i < j
                  PROVE  \E k, l \in 1..(n + 1) : k < l /\ s[k] = p[i] /\ s[l] = p[j]
      OBVIOUS
    <3>0. i \in 1..Len(q)
      BY <1>1, <2>1
    <3>1. CASE j = Len(p)
      <4>1. PICK k \in 1..n : s[k] = q[i]
        BY <3>0 DEF Part
      <4>2. k \in 1..(n + 1) /\ n + 1 \in 1..(n + 1) /\ k < n + 1
        OBVIOUS
      <4>3. s[k] = p[i] /\ s[n + 1] = p[j]
        BY <1>1, <2>1, <3>0, <3>1, <4>1
      <4>. QED
        BY <4>2, <4>3
    <3>2. CASE j # Len(p)
      <4>1. j \in 1..Len(q)
        BY <1>1, <2>1, <3>2
      <4>2. PICK k \in 1..n, l \in 1..n : k < l /\ s[k] = q[i] /\ s[l] = q[j]
        BY <3>0, <4>1 DEF Part
      <4>3. k \in 1..(n + 1) /\ l \in 1..(n + 1)
        OBVIOUS
      <4>4. s[k] = p[i] /\ s[l] = p[j]
        BY <2>1, <3>0, <4>1, <4>2
      <4>. QED
        BY <4>2, <4>3, <4>4
    <3>. QED
      BY <3>1, <3>2
  <2>5. ASSUME NEW m \in Nat, \A k \in 1..(n + 1) : k > m => s[k] \notin T
        PROVE  Len(p) <= m
    <3>1. n + 1 <= m
      BY <1>3, <2>5
    <3>2. Len(q) <= n
      <4>1. \A k \in 1..n : k > n => s[k] \notin T
        OBVIOUS
      <4>. QED
        BY <4>1 DEF Part
    <3>. QED
      BY <1>1, <2>1, <3>1, <3>2
  <2>6. Part(p, s, T, n + 1, S)
    BY <2>1, <2>2, <2>3, <2>4, <2>5, Zenon DEF Part
  <2>. QED
    BY <1>3, <2>6 DEF p
<1>. QED
  BY <1>2, <1>3

LEMMA ThoseArePart ==
    ASSUME NEW S, NEW s \in Seq(S), NEW T
    PROVE  Part(Those(s, T), s, T, Len(s), S)
<1>0. Len(s) \in Nat
  OBVIOUS
<1>. DEFINE f == CHOOSE g : ThoseUnfolds(g, s, T, Len(s))
<1>1. ThoseUnfolds(f, s, T, Len(s))
  BY <1>0, ThoseExists, Zenon
<1>2. Those(s, T) = f[Len(s)]
  BY Zenon DEF Those, ThoseUnfolds, f
<1>. HIDE DEF f
<1>3. \A i \in 0..Len(s) : f[i] = IF i = 0 THEN <<>>
                                ELSE IF s[i] \in T THEN Append(f[i - 1], s[i]) ELSE f[i - 1]
  BY <1>1, Zenon DEF ThoseUnfolds
<1>. DEFINE Good == {n \in Nat : n <= Len(s) => Part(f[n], s, T, n, S)}
<1>4. 0 \in Good
  <2>1. f[0] = <<>>
    BY <1>0, <1>3
  <2>2. Part(<<>>, s, T, 0, S)
    BY DEF Part
  <2>. QED
    BY <2>1, <2>2
<1>5. ASSUME NEW n \in Good, n \in Nat PROVE n + 1 \in Good
  <2>. SUFFICES ASSUME n + 1 <= Len(s) PROVE Part(f[n + 1], s, T, n + 1, S)
    BY <1>5
  <2>1. n + 1 \in 1..Len(s) /\ n + 1 \in 0..Len(s) /\ n + 1 # 0 /\ (n + 1) - 1 = n
    BY <1>0, <1>5
  <2>2. Part(f[n], s, T, n, S)
    BY <1>0, <1>5
  <2>3. f[n + 1] = IF s[n + 1] \in T THEN Append(f[n], s[n + 1]) ELSE f[n]
    BY <1>3, <2>1
  <2>. HIDE DEF Good
  <2>4. Part(IF s[n + 1] \in T THEN Append(f[n], s[n + 1]) ELSE f[n], s, T, n + 1, S)
    BY <1>5, <2>1, <2>2, PartIsKept
  <2>. QED
    BY <2>3, <2>4
<1>6. Len(s) \in Good
  <2>. HIDE DEF Good
  <2>. QED
    BY <1>0, <1>4, <1>5, NumbersByInduction
<1>. QED
  BY <1>0, <1>2, <1>6

LEMMA ThoseOf ==
    ASSUME NEW S, NEW s \in Seq(S), NEW T
    PROVE  /\ Those(s, T) \in Seq(S)
           /\ Range(Those(s, T)) = Range(s) \cap T
           /\ \A i, j \in DOMAIN Those(s, T) : i < j =>
                 \E k, l \in DOMAIN s : k < l /\ s[k] = Those(s, T)[i] /\ s[l] = Those(s, T)[j]
           /\ \A m \in Nat : (\A k \in DOMAIN s : k > m => s[k] \notin T) => Len(Those(s, T)) <= m
<1>. DEFINE q == Those(s, T)
<1>1. Part(q, s, T, Len(s), S)
  BY ThoseArePart
<1>. HIDE DEF q
<1>2. q \in Seq(S) /\ DOMAIN q = 1..Len(q) /\ DOMAIN s = 1..Len(s)
  BY <1>1 DEF Part
<1>3. \A x : x \in Range(q) <=> x \in Range(s) /\ x \in T
  <2>1. ASSUME NEW x \in Range(q) PROVE x \in Range(s) /\ x \in T
    <3>1. PICK i \in 1..Len(q) : q[i] = x
      BY <1>2, <2>1 DEF Range
    <3>2. PICK k \in 1..Len(s) : s[k] = q[i] /\ s[k] \in T
      BY <1>1 DEF Part
    <3>. QED
      BY <1>2, <3>1, <3>2 DEF Range
  <2>2. ASSUME NEW x \in Range(s), x \in T PROVE x \in Range(q)
    <3>1. PICK k \in 1..Len(s) : s[k] = x
      BY <1>2, <2>2 DEF Range
    <3>2. PICK i \in 1..Len(q) : q[i] = s[k]
      BY <1>1, <2>2, <3>1 DEF Part
    <3>. QED
      BY <1>2, <3>1, <3>2 DEF Range
  <2>. QED
    BY <2>1, <2>2
<1>4. ASSUME NEW i \in DOMAIN q, NEW j \in DOMAIN q, i < j
      PROVE  \E k, l \in DOMAIN s : k < l /\ s[k] = q[i] /\ s[l] = q[j]
  <2>1. i \in 1..Len(q) /\ j \in 1..Len(q)
    BY <1>2
  <2>2. PICK k \in 1..Len(s), l \in 1..Len(s) : k < l /\ s[k] = q[i] /\ s[l] = q[j]
    BY <1>1, <1>4, <2>1 DEF Part
  <2>. QED
    BY <1>2, <2>2
<1>5. \A m \in Nat : (\A k \in DOMAIN s : k > m => s[k] \notin T) => Len(q) <= m
  BY <1>1, <1>2 DEF Part
<1>. QED
  BY <1>2, <1>3, <1>4, <1>5 DEF q

LEMMA PartInOrder ==
    ASSUME NEW S, NEW s \in Seq(S), NEW T, NEW q, q = Those(s, T)
    PROVE  \A i, j \in DOMAIN q : i < j =>
              \E k, l \in DOMAIN s : k < l /\ s[k] = q[i] /\ s[l] = q[j]
  BY ThoseOf

LEMMA ThoseFacts ==
    ASSUME NEW S, NEW s \in Seq(S), NEW T, NEW q, q = Those(s, T)
    PROVE  /\ q \in Seq(S) /\ Range(q) = Range(s) \cap T
           /\ \A m \in Nat : (\A k \in DOMAIN s : k > m => s[k] \notin T) => Len(q) <= m
  BY ThoseOf

Queued(r, n) == UNION {Range(r.tree[m]) : m \in {n} \cup Under(n)}

LEMMA QueueOf ==
    ASSUME NEW r, NEW n
    PROVE  /\ BuildTransactionQueue(r, n) \in Seq(Txns)
           /\ Range(BuildTransactionQueue(r, n)) = Queued(r, n) \cap Txns
           /\ \A i, j \in DOMAIN BuildTransactionQueue(r, n) :
                 i # j => BuildTransactionQueue(r, n)[i] # BuildTransactionQueue(r, n)[j]
<1>. DEFINE s == [t \in Txns |-> t]
            q == BuildTransactionQueue(r, n)
<1>1. Txns = 1..NTxns /\ NTxns \in Nat
  BY ConstantsAssumption DEF Txns
<1>2. s \in Seq(Txns) /\ DOMAIN s = Txns /\ \A t \in Txns : s[t] = t
  BY <1>1
<1>3. q = Those(s, Queued(r, n))
  BY Zenon DEF BuildTransactionQueue, Queued, q, s
<1>4. Range(s) = Txns
  BY <1>2 DEF Range
<1>. HIDE DEF s, q
<1>5. /\ q \in Seq(Txns)
      /\ Range(q) = Range(s) \cap Queued(r, n)
      /\ \A i, j \in DOMAIN q : i < j => \E k, l \in DOMAIN s : k < l /\ s[k] = q[i] /\ s[l] = q[j]
  BY <1>2, <1>3, ThoseOf
<1>6. ASSUME NEW i \in DOMAIN q, NEW j \in DOMAIN q, i < j PROVE q[i] # q[j]
  <2>1. PICK k \in Txns, l \in Txns : k < l /\ s[k] = q[i] /\ s[l] = q[j]
    BY <1>2, <1>5, <1>6
  <2>. QED
    BY <1>1, <1>2, <2>1
<1>7. ASSUME NEW i \in DOMAIN q, NEW j \in DOMAIN q, i # j PROVE q[i] # q[j]
  <2>1. i \in Int /\ j \in Int
    BY <1>5
  <2>2. i < j \/ j < i
    BY <1>7, <2>1
  <2>. QED
    BY <1>6, <2>2
<1>. QED
  BY <1>4, <1>5, <1>7 DEF q

-----------------------------------------------------------------------------
(* The invariant.                                                          *)

OnWay(r, t) == r.txn[t].status \in {"sent", "sentNeedsAbort"}
OfTxns(put) == put.hash # NoHash
Within(p) == {p} \cup Under(p)

\* What the app can conclude from: the transaction was not applied.
Denials == {"set", "maxretry", "given up", "permission_denied"}

\* Puts that wait for their answer; those in X are about to be dropped.
Live(r, X) == {put \in Range(r.puts) : OfTxns(put)} \ X
Wired(r) == {put \in Range(r.wire) : OfTxns(put)}

\* Never applied, and never will be; `app` and `ans` stand for applied and the answers
\* among the replies.
NotApplied(r, app, t) == app[t] = 0 /\ \A w \in Wired(r) : t \notin Range(w.owners)
Unanswered(ans, t) == \A m \in ans : m.owner # t

HasFields(r) ==
    /\ {"txn", "tree", "puts", "wire", "connected", "done"} \subseteq DOMAIN r
    /\ DOMAIN r.txn = Txns /\ DOMAIN r.done = Txns /\ DOMAIN r.tree = Paths
    /\ \A t \in Txns : {"status", "path", "abort"} \subseteq DOMAIN r.txn[t]

IsPut(put) ==
    /\ {"owners", "path", "value", "hash", "sent"} \subseteq DOMAIN put
    /\ put.owners \in Seq(Txns \cup Sets) /\ put.owners # <<>>
    /\ put.path \in Paths
    /\ OfTxns(put) => put.owners \in Seq(Txns)
    /\ ~ OfTxns(put) => put.owners \in Seq(Sets)

Shape(r) ==
    /\ HasFields(r)
    /\ \A t \in Txns : /\ r.txn[t].status \in Statuses
                       /\ r.txn[t].path \in Paths
                       /\ r.done[t] \in Seq(Outcomes)
    /\ \A n \in Paths : r.tree[n] \in Seq(Txns)
    /\ r.puts \in Seq(Range(r.puts)) /\ r.wire \in Seq(Range(r.wire))
    /\ \A put \in Range(r.puts) \cup Range(r.wire) : IsPut(put)

\* A transaction in the tree is in the queue of its location, and its completion block
\* was not called, unless it has just completed.
Planted(r) ==
    \A n \in Paths : \A t \in Range(r.tree[n]) :
        /\ r.txn[t].path = n /\ r.txn[t].status # "none"
        /\ r.txn[t].status # "completed" => r.done[t] = <<>>

\* Transactions on their way are the first of their queue.
AheadOnWay(r) ==
    \A n \in Paths : \A i, j \in DOMAIN r.tree[n] :
        i < j /\ OnWay(r, r.tree[n][j]) => OnWay(r, r.tree[n][i])

ToldOnce(r) ==
    \A t \in Txns : /\ Len(r.done[t]) <= 1
                    /\ r.txn[t].status = "none" => r.done[t] = <<>>

\* What was said, and what can still be said, of a transaction is so.
Unsettled(r, ans, app) ==
    \A t \in Txns :
        /\ r.txn[t].status = "none" => NotApplied(r, app, t) /\ Unanswered(ans, t)
        /\ r.txn[t].status = "run" /\ t \in InTree(r)
              => NotApplied(r, app, t) /\ Unanswered(ans, t)
        /\ r.txn[t].status = "needsAbort" /\ t \in InTree(r) /\ r.txn[t].abort \in Denials
              => NotApplied(r, app, t)
        /\ Range(r.done[t]) \cap Denials # {} => NotApplied(r, app, t)
        /\ r.done[t] = <<"committed">> => app[t] = 1
        /\ r.txn[t].status = "needsAbort" => r.txn[t].abort \in Outcomes \ {"committed"}
        /\ r.txn[t].status = "sentNeedsAbort" => r.txn[t].abort \in {"set", "canceled"}

\* A put that waits for its answer: its transactions are on their way, all that are in
\* one queue together; it is on the wire, or it was answered, and truly.
Awaited(r, p, ans, app) ==
    /\ \A t \in Range(p.owners) :
          OnWay(r, t) /\ r.done[t] = <<>> /\ r.txn[t].path \in Within(p.path)
    /\ ~ p.sent => /\ \A t \in Range(p.owners) : NotApplied(r, app, t)
                   /\ \A t \in Range(p.owners) : Unanswered(ans, t)
    /\ \A n \in Paths : \A t, u \in Range(r.tree[n]) :
          t \in Range(p.owners) /\ OnWay(r, u) => u \in Range(p.owners)
    /\ \A w \in Wired(r) : Range(w.owners) \cap Range(p.owners) # {} => w.owners = p.owners
    /\ \A m \in ans : m.owner \in Range(p.owners) =>
          /\ m.owner = p.owners[1]
          /\ \A t \in Range(p.owners) : IF m.status = "ok" THEN app[t] = 1
                                                           ELSE NotApplied(r, app, t)

\* No two puts have a transaction in common.
Apart(puts, X) ==
    \A i, j \in DOMAIN puts :
        /\ i # j
        /\ OfTxns(puts[i]) /\ OfTxns(puts[j])
        /\ puts[i] \notin X /\ puts[j] \notin X
        => Range(puts[i].owners) \cap Range(puts[j].owners) = {}

OnWire(r, ans, app) ==
    /\ \A w \in Wired(r) : /\ \A t \in Range(w.owners) : app[t] = 0
                           /\ Unanswered(ans, w.owners[1])
    /\ Apart(r.wire, {})

Truthful(r, X, ans, app) ==
    /\ Shape(r) /\ Planted(r) /\ AheadOnWay(r) /\ ToldOnce(r)
    /\ Unsettled(r, ans, app)
    /\ \A p \in Live(r, X) : Awaited(r, p, ans, app)
    /\ Apart(r.puts, X)
    /\ OnWire(r, ans, app)

\* Between the operations: nothing in the tree is completed or about to be ended.
Clean(r) == \A t \in InTree(r) : r.txn[t].status \in {"run", "sent", "sentNeedsAbort"}

-----------------------------------------------------------------------------
(* Operations on the data leave the transactions, the tree and the puts.   *)

Same(r, s) ==
    /\ HasFields(s)
    /\ s.tree = r.tree /\ s.puts = r.puts /\ s.wire = r.wire
    /\ s.connected = r.connected /\ s.done = r.done
    /\ \A t \in Txns : /\ s.txn[t].status = r.txn[t].status
                       /\ s.txn[t].path = r.txn[t].path
                       /\ s.txn[t].abort = r.txn[t].abort

LEMMA SameSelf ==
    ASSUME NEW r, HasFields(r)
    PROVE  Same(r, r)
  BY DEF Same

LEMMA SameTransitive ==
    ASSUME NEW r, NEW s, NEW u, Same(r, s), Same(s, u)
    PROVE  Same(r, u)
  BY DEF Same

LEMMA SameIsTruthful ==
    ASSUME NEW r, NEW s, Same(r, s), NEW X, NEW ans, NEW app, Truthful(r, X, ans, app)
    PROVE  Truthful(s, X, ans, app)
<1>1. Shape(s) /\ Planted(s) /\ AheadOnWay(s) /\ ToldOnce(s)
  <2>1. Shape(s)
    BY DEF Truthful, Same, Shape
  <2>2. \A n \in Paths : Range(r.tree[n]) \subseteq Txns /\ \A i \in DOMAIN r.tree[n] : r.tree[n][i] \in Txns
    BY DEF Truthful, Shape, Range
  <2>3. Planted(s)
    BY <2>2 DEF Truthful, Same, Planted
  <2>4. AheadOnWay(s)
    BY <2>2 DEF Truthful, Same, AheadOnWay, OnWay
  <2>5. ToldOnce(s)
    BY DEF Truthful, Same, ToldOnce
  <2>. QED
    BY <2>1, <2>3, <2>4, <2>5
<1>2. InTree(s) = InTree(r) /\ Wired(s) = Wired(r) /\ Live(s, X) = Live(r, X)
  BY DEF Same, InTree, Wired, Live
<1>3. \A t : NotApplied(s, app, t) <=> NotApplied(r, app, t)
  BY <1>2 DEF NotApplied
<1>4. Unsettled(s, ans, app)
  BY <1>2, <1>3 DEF Truthful, Same, Unsettled
<1>5. \A p \in Live(s, X) : Awaited(s, p, ans, app)
  <2>1. ASSUME NEW p \in Live(r, X) PROVE Awaited(s, p, ans, app)
    <3>1. Awaited(r, p, ans, app)
      BY DEF Truthful
    <3>2. Range(p.owners) \subseteq Txns
      BY DEF Truthful, Shape, IsPut, Live, Range
    <3>3. \A n \in Paths : Range(r.tree[n]) \subseteq Txns
      BY DEF Truthful, Shape, Range
    <3>. QED
      BY <1>2, <1>3, <3>1, <3>2, <3>3 DEF Same, Awaited, OnWay
  <2>. QED
    BY <1>2, <2>1
<1>6. Apart(s.puts, X) /\ OnWire(s, ans, app)
  BY <1>2 DEF Truthful, Same, OnWire
<1>. QED
  BY <1>1, <1>4, <1>5, <1>6 DEF Truthful

IsOp(op) == "r" \in DOMAIN op /\ HasFields(op.r)

LEMMA ReevaluateSame ==
    ASSUME NEW r, HasFields(r), NEW p, NEW revert
    PROVE  Same(r, Reevaluate(r, p, revert))
  BY DEF Same, HasFields, Reevaluate

LEMMA RaiseSame ==
    ASSUME NEW r, HasFields(r), NEW events
    PROVE  Same(r, RaiseEvents(r, events))
  BY DEF Same, HasFields, RaiseEvents

LEMMA ApplySame ==
    ASSUME NEW op, NEW r, HasFields(r)
    PROVE  IsOp(Apply(op, r)) /\ Apply(op, r).r = r
  BY DEF Apply, IsOp

LEMMA QuietSame ==
    ASSUME NEW r, HasFields(r)
    PROVE  IsOp(Quiet(r)) /\ Quiet(r).r = r
  BY DEF Quiet, IsOp

LEMMA ServerOverwriteSame ==
    ASSUME NEW op, IsOp(op), NEW p, NEW value
    PROVE  /\ IsOp(ApplyServerOverwrite(op, p, value))
           /\ Same(op.r, ApplyServerOverwrite(op, p, value).r)
<1>. DEFINE s == [op.r EXCEPT !.cache = value @@ @, !.loaded = @ \/ p = Root]
            u == Reevaluate(s, p, FALSE)
<1>1. Same(op.r, s)
  BY DEF IsOp, Same, HasFields
<1>2. Same(s, u)
  <2>1. HasFields(s)
    BY <1>1 DEF Same
  <2>. HIDE DEF s
  <2>. QED
    BY <2>1, ReevaluateSame
<1>3. HasFields(u) /\ Same(op.r, u)
  BY <1>1, <1>2, SameTransitive DEF Same
<1>4. ApplyServerOverwrite(op, p, value) = Apply(op, u)
  BY DEF ApplyServerOverwrite
<1>. HIDE DEF u
<1>. QED
  BY <1>3, <1>4, ApplySame

LEMMA UserOverwriteSame ==
    ASSUME NEW op, IsOp(op), NEW owner, NEW p, NEW value, NEW visible
    PROVE  /\ IsOp(ApplyUserOverwrite(op, owner, p, value, visible))
           /\ Same(op.r, ApplyUserOverwrite(op, owner, p, value, visible).r)
<1>. DEFINE w == [owner |-> owner, path |-> p, value |-> value, visible |-> visible]
            written == [op.r EXCEPT !.writes = Append(@, w)]
            shown == [written EXCEPT !.visibleWrites = AddWrite(@, p, value),
                                     !.event = value @@ @,
                                     !.complete = @ \/ p = Root]
            result == ApplyUserOverwrite(op, owner, p, value, visible)
<1>1. Same(op.r, written)
  BY DEF IsOp, Same, HasFields
<1>2. Same(written, shown)
  BY <1>1 DEF Same, HasFields
<1>3. HasFields(shown) /\ Same(op.r, shown)
  BY <1>1, <1>2, SameTransitive DEF Same
<1>4. result = IF ~ visible THEN [op EXCEPT !.r = written] ELSE Apply(op, shown)
  BY DEF ApplyUserOverwrite
<1>. HIDE DEF written, shown, result
<1>5. IsOp(Apply(op, shown)) /\ Apply(op, shown).r = shown
  BY <1>3, ApplySame
<1>6. IsOp([op EXCEPT !.r = written]) /\ [op EXCEPT !.r = written].r = written
  BY <1>1 DEF IsOp, Same
<1>. QED
  BY <1>1, <1>3, <1>4, <1>5, <1>6 DEF result

LEMMA RemoveWriteSame ==
    ASSUME NEW op, IsOp(op), NEW i, NEW revert
    PROVE  IsOp(RemoveWrite(op, i, revert)) /\ Same(op.r, RemoveWrite(op, i, revert).r)
<1>. DEFINE s == [op.r EXCEPT !.writes = RemoveAt(@, i), !.visibleWrites = Remaining(op.r, i)]
            u == Reevaluate(s, op.r.writes[i].path, revert)
            v == [op.r EXCEPT !.writes = RemoveAt(@, i)]
            result == RemoveWrite(op, i, revert)
<1>1. Same(op.r, s)
  BY DEF IsOp, Same, HasFields
<1>2. Same(s, u)
  <2>1. HasFields(s)
    BY <1>1 DEF Same
  <2>. HIDE DEF s
  <2>. QED
    BY <2>1, ReevaluateSame
<1>3. HasFields(u) /\ Same(op.r, u)
  BY <1>1, <1>2, SameTransitive DEF Same
<1>4. Same(op.r, v)
  BY DEF IsOp, Same, HasFields
<1>5. result = IF WasVisible(op.r, i) THEN Apply(op, u) ELSE [op EXCEPT !.r = v]
  BY DEF RemoveWrite, IsOp
<1>. HIDE DEF u, v, result
<1>6. IsOp(Apply(op, u)) /\ Apply(op, u).r = u
  BY <1>3, ApplySame
<1>7. IsOp([op EXCEPT !.r = v]) /\ [op EXCEPT !.r = v].r = v
  BY <1>4 DEF IsOp, Same
<1>. QED
  BY <1>3, <1>4, <1>5, <1>6, <1>7 DEF result

LEMMA AckSame ==
    ASSUME NEW op, IsOp(op), NEW owner, NEW revert
    PROVE  IsOp(AckUserWrite(op, owner, revert)) /\ Same(op.r, AckUserWrite(op, owner, revert).r)
<1>. DEFINE i == OldestWrite(op.r, owner)
            u == [op EXCEPT !.r.trap = "no such write"]
<1>1. IsOp(u) /\ Same(op.r, u.r)
  BY DEF IsOp, Same, HasFields
<1>2. AckUserWrite(op, owner, revert) = IF i = 0 THEN u ELSE RemoveWrite(op, i, revert)
  BY DEF AckUserWrite
<1>. HIDE DEF i, u
<1>. QED
  BY <1>1, <1>2, RemoveWriteSame

LEMMA RevertSame ==
    ASSUME NEW op, IsOp(op), NEW owner
    PROVE  IsOp(RevertUserWrite(op, owner)) /\ Same(op.r, RevertUserWrite(op, owner).r)
  BY AckSame DEF RevertUserWrite

LEMMA RemoveAllSame ==
    ASSUME NEW r, HasFields(r)
    PROVE  IsOp(RemoveAllWrites(r)) /\ Same(r, RemoveAllWrites(r).r)
<1>. DEFINE none == [r EXCEPT !.writes = <<>>, !.visibleWrites = NothingWritten]
            u == Reevaluate(none, Root, TRUE)
<1>1. Same(r, none)
  BY DEF Same, HasFields
<1>2. HasFields(none) /\ Same(none, u)
  <2>1. HasFields(none)
    BY <1>1 DEF Same
  <2>. HIDE DEF none
  <2>. QED
    BY <2>1, ReevaluateSame
<1>3. HasFields(u) /\ Same(r, u)
  BY <1>1, <1>2, SameTransitive DEF Same
<1>4. RemoveAllWrites(r) = IF r.writes = <<>> THEN Quiet(none) ELSE Apply(Quiet(r), u)
  BY DEF RemoveAllWrites
<1>. HIDE DEF none, u
<1>. QED
  BY <1>1, <1>2, <1>3, <1>4, ApplySame, QuietSame

LEMMA RunAgainSame ==
    ASSUME NEW r, HasFields(r), NEW t \in Txns, NEW input, NEW excluded
    PROVE  IsOp(RunAgain(r, t, input, excluded)) /\ Same(r, RunAgain(r, t, input, excluded).r)
<1>. DEFINE blind == \E u \in excluded \ {t} : r.txn[u].status \in {"sent", "sentNeedsAbort"}
            s == [r EXCEPT !.txn[t].output = Block(t, input),
                           !.txn[t].shadowed = FALSE,
                           !.txn[t].blind = blind]
<1>1. RunAgain(r, t, input, excluded)
        = ApplyUserOverwrite(Quiet(s), t, r.txn[t].path, Block(t, input), t \notin Hidden)
  BY DEF RunAgain
<1>. HIDE DEF blind
<1>2. Same(r, s)
  BY DEF Same, HasFields
<1>. HIDE DEF s
<1>3. IsOp(Quiet(s)) /\ Quiet(s).r = s
  BY <1>2, QuietSame DEF Same
<1>4. /\ IsOp(RunAgain(r, t, input, excluded))
      /\ Same(s, RunAgain(r, t, input, excluded).r)
  BY <1>1, <1>3, UserOverwriteSame
<1>. QED
  BY <1>2, <1>4, SameTransitive

LEMMA ShadowingSame ==
    ASSUME NEW op, IsOp(op), NEW cache
    PROVE  IsOp(Shadowing(op, cache)) /\ Same(op.r, Shadowing(op, cache).r)
<1>1. CASE op.events # <<>>
  BY <1>1, SameSelf DEF Shadowing, IsOp
<1>2. CASE op.events = <<>>
  BY <1>2 DEF Shadowing, IsOp, Same, HasFields
<1>. QED
  BY <1>1, <1>2

AckedUnfolds(f, r, queue, revert, n) ==
    f = [i \in 0..n |-> IF i = 0 THEN Quiet(r)
                        ELSE AckUserWrite(f[i - 1], queue[i], revert)]

LEMMA AckedExists ==
    ASSUME NEW r, NEW queue, NEW revert, NEW N \in Nat
    PROVE  \E f : AckedUnfolds(f, r, queue, revert, N)
<1>. DEFINE Reach == {n \in Nat : \E f : AckedUnfolds(f, r, queue, revert, n)}
<1>1. 0 \in Reach
  <2>. DEFINE f == [i \in 0..0 |-> Quiet(r)]
  <2>1. AckedUnfolds(f, r, queue, revert, 0)
    BY DEF AckedUnfolds
  <2>. QED
    BY <2>1
<1>2. ASSUME NEW n \in Reach, n \in Nat PROVE n + 1 \in Reach
  <2>1. PICK f : AckedUnfolds(f, r, queue, revert, n)
    BY <1>2
  <2>. DEFINE g == [i \in 0..(n + 1) |-> IF i <= n THEN f[i]
                                         ELSE AckUserWrite(f[i - 1], queue[i], revert)]
  <2>2. \A i \in 0..(n + 1) : i # 0 => g[i - 1] = f[i - 1]
    BY <1>2
  <2>3. \A i \in 0..n : f[i] = IF i = 0 THEN Quiet(r)
                               ELSE AckUserWrite(f[i - 1], queue[i], revert)
    BY <2>1, Zenon DEF AckedUnfolds
  <2>4. \A i \in 0..(n + 1) : g[i] = IF i = 0 THEN Quiet(r)
                                     ELSE AckUserWrite(g[i - 1], queue[i], revert)
    BY <1>2, <2>2, <2>3
  <2>5. AckedUnfolds(g, r, queue, revert, n + 1)
    <3>. HIDE DEF Reach
    <3>1. g = [i \in 0..(n + 1) |-> g[i]]
      OBVIOUS
    <3>. HIDE DEF g
    <3>. QED
      BY <2>4, <3>1, Zenon DEF AckedUnfolds
  <2>. QED
    BY <2>5
<1>3. N \in Reach
  <2>. HIDE DEF Reach
  <2>. QED
    BY <1>1, <1>2, NumbersByInduction
<1>. QED
  BY <1>3

LEMMA AckAllSame ==
    ASSUME NEW r, HasFields(r), NEW S, NEW queue \in Seq(S), NEW revert
    PROVE  IsOp(AckUserWrites(r, queue, revert)) /\ Same(r, AckUserWrites(r, queue, revert).r)
<1>0. Len(queue) \in Nat
  OBVIOUS
<1>. DEFINE f == CHOOSE g : AckedUnfolds(g, r, queue, revert, Len(queue))
<1>1. AckedUnfolds(f, r, queue, revert, Len(queue))
  BY <1>0, AckedExists, Zenon
<1>2. AckUserWrites(r, queue, revert) = f[Len(queue)]
  BY Zenon DEF AckUserWrites, AckedUnfolds, f
<1>. HIDE DEF f
<1>3. \A i \in 0..Len(queue) : f[i] = IF i = 0 THEN Quiet(r)
                                    ELSE AckUserWrite(f[i - 1], queue[i], revert)
  BY <1>1, Zenon DEF AckedUnfolds
<1>. DEFINE Good == {n \in Nat : n <= Len(queue) => IsOp(f[n]) /\ Same(r, f[n].r)}
<1>4. 0 \in Good
  <2>1. f[0] = Quiet(r)
    BY <1>0, <1>3
  <2>. QED
    BY <2>1, QuietSame, SameSelf
<1>5. ASSUME NEW n \in Good, n \in Nat PROVE n + 1 \in Good
  <2>. SUFFICES ASSUME n + 1 <= Len(queue) PROVE IsOp(f[n + 1]) /\ Same(r, f[n + 1].r)
    BY <1>5
  <2>1. IsOp(f[n]) /\ Same(r, f[n].r)
    BY <1>0, <1>5
  <2>2. f[n + 1] = AckUserWrite(f[n], queue[n + 1], revert)
    BY <1>0, <1>3, <1>5
  <2>. HIDE DEF Good
  <2>3. IsOp(f[n + 1]) /\ Same(f[n].r, f[n + 1].r)
    BY <2>1, <2>2, AckSame
  <2>. QED
    BY <2>1, <2>3, SameTransitive
<1>6. Len(queue) \in Good
  <2>. HIDE DEF Good
  <2>. QED
    BY <1>0, <1>4, <1>5, NumbersByInduction
<1>. QED
  BY <1>0, <1>2, <1>6

LEMMA RevertAbortedSame ==
    ASSUME NEW r, HasFields(r), NEW S, NEW aborted \in Seq(S), NEW error
    PROVE  Same(r, Raise(RevertAborted(r, aborted, error)))
<1>. DEFINE op == RevertAborted(r, aborted, error)
<1>1. IsOp(op) /\ Same(r, op.r)
  BY AckAllSame, QuietSame, SameSelf DEF RevertAborted
<1>. HIDE DEF op
<1>2. Same(op.r, Raise(op))
  BY <1>1, RaiseSame DEF Raise, IsOp
<1>. QED
  BY <1>1, <1>2, SameTransitive DEF op

-----------------------------------------------------------------------------
(* What ends or refuses transactions.                                      *)

LEMMA TreeOf ==
    ASSUME NEW r, Shape(r)
    PROVE  /\ \A n \in Paths : /\ r.tree[n] \in Seq(Txns)
                               /\ Range(r.tree[n]) \subseteq Txns
                               /\ \A i \in DOMAIN r.tree[n] : r.tree[n][i] \in Txns
           /\ \A t : t \in InTree(r) <=> \E n \in Paths : t \in Range(r.tree[n])
           /\ InTree(r) \subseteq Txns
<1>1. \A n \in Paths : /\ r.tree[n] \in Seq(Txns)
                       /\ Range(r.tree[n]) \subseteq Txns
                       /\ \A i \in DOMAIN r.tree[n] : r.tree[n][i] \in Txns
  BY DEF Shape, Range
<1>2. \A t : t \in InTree(r) <=> \E n \in Paths : t \in Range(r.tree[n])
  BY DEF InTree
<1>. QED
  BY <1>1, <1>2

LEMMA PutsOf ==
    ASSUME NEW r, Shape(r), NEW X
    PROVE  /\ \A p \in Live(r, X) \cup Wired(r) :
                 /\ IsPut(p) /\ OfTxns(p) /\ p.owners \in Seq(Txns) /\ p.owners # <<>>
                 /\ Range(p.owners) \subseteq Txns
                 /\ p.owners[1] \in Range(p.owners) /\ p.owners[1] \in Txns
                 /\ p.path \in Paths
<1>. SUFFICES ASSUME NEW p \in Live(r, X) \cup Wired(r)
              PROVE  /\ IsPut(p) /\ OfTxns(p) /\ p.owners \in Seq(Txns) /\ p.owners # <<>>
                     /\ Range(p.owners) \subseteq Txns
                     /\ p.owners[1] \in Range(p.owners) /\ p.owners[1] \in Txns
                     /\ p.path \in Paths
  BY Zenon
<1>1. IsPut(p) /\ OfTxns(p)
  BY DEF Live, Wired, Shape
<1>2. p.owners \in Seq(Txns) /\ p.owners # <<>> /\ p.path \in Paths
  BY <1>1 DEF IsPut
<1>3. 1 \in DOMAIN p.owners
  BY <1>2
<1>. QED
  BY <1>1, <1>2, <1>3 DEF Range

LEMMA FirstEntry ==
    ASSUME NEW e
    PROVE  Append(<<>>, e) = <<e>> /\ Len(<<e>>) = 1
  OBVIOUS

\* The transactions of T may complete with this outcome.
MayComplete(r, X, T, outcome, app) ==
    /\ T \subseteq Txns /\ outcome \in Outcomes
    /\ \A t \in T : r.done[t] = <<>>
    /\ \A p \in Live(r, X) : T \cap Range(p.owners) = {}
    /\ outcome \in Denials => \A t \in T : NotApplied(r, app, t)
    /\ outcome = "committed" => \A t \in T : app[t] = 1
    /\ \A n \in Paths : \A t, u \in Range(r.tree[n]) :
          t \in T /\ OnWay(r, t) /\ OnWay(r, u) => u \in T

LEMMA CompleteFields ==
    ASSUME NEW r, HasFields(r), NEW T, NEW outcome
    PROVE  /\ HasFields(Complete(r, T, outcome))
           /\ Complete(r, T, outcome).tree = r.tree
           /\ Complete(r, T, outcome).puts = r.puts
           /\ Complete(r, T, outcome).wire = r.wire
           /\ Complete(r, T, outcome).connected = r.connected
           /\ \A t \in Txns :
                /\ Complete(r, T, outcome).txn[t].status
                     = IF t \in T THEN "completed" ELSE r.txn[t].status
                /\ Complete(r, T, outcome).txn[t].path = r.txn[t].path
                /\ Complete(r, T, outcome).txn[t].abort = r.txn[t].abort
                /\ Complete(r, T, outcome).done[t]
                     = IF t \in T THEN Append(r.done[t], outcome) ELSE r.done[t]
  BY DEF Complete, HasFields

LEMMA CompleteIsTruthful ==
    ASSUME NEW r, NEW X, NEW ans, NEW app, Truthful(r, X, ans, app),
           NEW T, NEW outcome, MayComplete(r, X, T, outcome, app)
    PROVE  Truthful(Complete(r, T, outcome), X, ans, app)
<1>. DEFINE s == Complete(r, T, outcome)
<1>1. /\ HasFields(s) /\ s.tree = r.tree /\ s.puts = r.puts /\ s.wire = r.wire
      /\ \A t \in Txns :
           /\ s.txn[t].status = IF t \in T THEN "completed" ELSE r.txn[t].status
           /\ s.txn[t].path = r.txn[t].path
           /\ s.txn[t].abort = r.txn[t].abort
           /\ s.done[t] = IF t \in T THEN Append(r.done[t], outcome) ELSE r.done[t]
  BY CompleteFields DEF Truthful, Shape
<1>. HIDE DEF s
<1>2. ASSUME NEW t \in T PROVE s.done[t] = <<outcome>> /\ t \in Txns
  <2>1. t \in Txns /\ r.done[t] = <<>>
    BY DEF MayComplete
  <2>2. s.done[t] = Append(r.done[t], outcome)
    BY <1>1, <2>1
  <2>. QED
    BY <2>1, <2>2, FirstEntry
<1>3. \A t \in Txns : OnWay(s, t) <=> OnWay(r, t) /\ t \notin T
  BY <1>1 DEF OnWay
<1>4. InTree(s) = InTree(r) /\ Wired(s) = Wired(r) /\ Live(s, X) = Live(r, X)
  BY <1>1 DEF InTree, Wired, Live
<1>5. \A t : NotApplied(s, app, t) <=> NotApplied(r, app, t)
  BY <1>4 DEF NotApplied
<1>6. Shape(r)
  BY DEF Truthful
<1>7. Shape(s)
  <2>1. <<outcome>> \in Seq(Outcomes)
    BY DEF MayComplete
  <2>. QED
    BY <1>1, <1>2, <1>6, <2>1 DEF Shape, Statuses
<1>8. Planted(s)
  <2>1. Planted(r)
    BY DEF Truthful
  <2>. QED
    BY <1>1, <1>6, <2>1, TreeOf DEF Planted
<1>9. AheadOnWay(s)
  <2>. SUFFICES ASSUME NEW n \in Paths, NEW i \in DOMAIN r.tree[n], NEW j \in DOMAIN r.tree[n],
                       i < j, OnWay(s, r.tree[n][j])
                PROVE  OnWay(s, r.tree[n][i])
    BY <1>1 DEF AheadOnWay
  <2>1. r.tree[n][i] \in Txns /\ r.tree[n][j] \in Txns
    BY <1>6, TreeOf
  <2>2. r.tree[n][i] \in Range(r.tree[n]) /\ r.tree[n][j] \in Range(r.tree[n])
    BY DEF Range
  <2>3. OnWay(r, r.tree[n][j]) /\ r.tree[n][j] \notin T
    BY <1>3, <2>1
  <2>4. OnWay(r, r.tree[n][i])
    BY <2>3 DEF Truthful, AheadOnWay
  <2>5. r.tree[n][i] \notin T
    BY <2>2, <2>3, <2>4 DEF MayComplete
  <2>. QED
    BY <1>3, <2>1, <2>4, <2>5
<1>10. ToldOnce(s)
  <2>1. ToldOnce(r)
    BY DEF Truthful
  <2>2. \A t \in T : Len(s.done[t]) = 1
    BY <1>2, FirstEntry
  <2>3. ASSUME NEW t \in Txns
        PROVE  Len(s.done[t]) <= 1 /\ (s.txn[t].status = "none" => s.done[t] = <<>>)
    <3>1. CASE t \in T
      <4>1. s.txn[t].status = "completed"
        BY <1>1, <3>1
      <4>2. Len(s.done[t]) = 1
        BY <2>2, <3>1
      <4>3. Len(s.done[t]) <= 1
        BY <4>2
      <4>. QED
        BY <4>1, <4>3
    <3>2. CASE t \notin T
      BY <1>1, <2>1, <3>2 DEF ToldOnce
    <3>. QED
      BY <3>1, <3>2
  <2>. QED
    BY <2>3 DEF ToldOnce
<1>11. Unsettled(s, ans, app)
  <2>. SUFFICES ASSUME NEW t \in Txns
                PROVE  /\ s.txn[t].status = "none" => NotApplied(s, app, t) /\ Unanswered(ans, t)
                       /\ s.txn[t].status = "run" /\ t \in InTree(s)
                             => NotApplied(s, app, t) /\ Unanswered(ans, t)
                       /\ s.txn[t].status = "needsAbort" /\ t \in InTree(s)
                          /\ s.txn[t].abort \in Denials => NotApplied(s, app, t)
                       /\ Range(s.done[t]) \cap Denials # {} => NotApplied(s, app, t)
                       /\ s.done[t] = <<"committed">> => app[t] = 1
                       /\ s.txn[t].status = "needsAbort"
                             => s.txn[t].abort \in Outcomes \ {"committed"}
                       /\ s.txn[t].status = "sentNeedsAbort" => s.txn[t].abort \in {"set", "canceled"}
    BY DEF Unsettled
  <2>1. CASE t \notin T
    BY <1>1, <1>4, <1>5, <2>1 DEF Truthful, Unsettled
  <2>2. CASE t \in T
    <3>1. s.txn[t].status = "completed" /\ s.done[t] = <<outcome>>
      BY <1>1, <1>2, <2>2
    <3>2. Range(s.done[t]) = {outcome}
      BY <3>1 DEF Range
    <3>. QED
      BY <1>5, <2>2, <3>1, <3>2 DEF MayComplete
  <2>. QED
    BY <2>1, <2>2
<1>12. \A p \in Live(s, X) : Awaited(s, p, ans, app)
  <2>. SUFFICES ASSUME NEW p \in Live(r, X) PROVE Awaited(s, p, ans, app)
    BY <1>4
  <2>1. Awaited(r, p, ans, app)
    BY DEF Truthful
  <2>2. Range(p.owners) \subseteq Txns /\ Range(p.owners) \cap T = {}
    BY <1>6, PutsOf DEF MayComplete
  <2>3. \A n \in Paths : Range(r.tree[n]) \subseteq Txns
    BY <1>6, TreeOf
  <2>. QED
    BY <1>1, <1>3, <1>4, <1>5, <2>1, <2>2, <2>3 DEF Awaited
<1>13. Apart(s.puts, X) /\ OnWire(s, ans, app)
  BY <1>1, <1>4 DEF Truthful, OnWire
<1>. QED
  BY <1>7, <1>8, <1>9, <1>10, <1>11, <1>12, <1>13 DEF Truthful, s

\* The transactions of O may be refused with this status.
MayRefuse(r, X, O, status, ans, app) ==
    /\ O \subseteq Txns
    /\ status \in {"datastale", "permission_denied", "disconnect", "canceled"}
    /\ \A t \in O : OnWay(r, t) /\ r.done[t] = <<>>
    /\ \A p \in Live(r, X) : O \cap Range(p.owners) = {}
    /\ \A n \in Paths : \A t, u \in Range(r.tree[n]) : t \in O /\ OnWay(r, u) => u \in O
    /\ status \in {"datastale", "permission_denied"} => \A t \in O : NotApplied(r, app, t)
    /\ status = "datastale" => \A t \in O : Unanswered(ans, t)

LEMMA RefusedFields ==
    ASSUME NEW r, HasFields(r), NEW queue, NEW status
    PROVE  /\ HasFields(Refused(r, queue, status))
           /\ Refused(r, queue, status).tree = r.tree
           /\ Refused(r, queue, status).puts = r.puts
           /\ Refused(r, queue, status).wire = r.wire
           /\ Refused(r, queue, status).connected = r.connected
           /\ Refused(r, queue, status).done = r.done
           /\ \A t \in Txns :
                /\ Refused(r, queue, status).txn[t].status
                     = IF t \notin Range(queue) THEN r.txn[t].status
                       ELSE IF status # "datastale" \/ r.txn[t].status = "sentNeedsAbort"
                       THEN "needsAbort" ELSE "run"
                /\ Refused(r, queue, status).txn[t].path = r.txn[t].path
                /\ Refused(r, queue, status).txn[t].abort
                     = IF t \in Range(queue) /\ status # "datastale" THEN status
                       ELSE r.txn[t].abort
<1>. DEFINE s == Refused(r, queue, status)
<1>1. /\ HasFields(s) /\ s.tree = r.tree /\ s.puts = r.puts /\ s.wire = r.wire
      /\ s.connected = r.connected /\ s.done = r.done
  BY DEF Refused, HasFields
<1>2. ASSUME NEW t \in Txns
      PROVE  /\ s.txn[t].path = r.txn[t].path
             /\ s.txn[t].abort = IF t \in Range(queue) /\ status # "datastale" THEN status
                                 ELSE r.txn[t].abort
  BY DEF Refused, HasFields
<1>3. ASSUME NEW t \in Txns
      PROVE  s.txn[t].status = IF t \notin Range(queue) THEN r.txn[t].status
                               ELSE IF status # "datastale" \/ r.txn[t].status = "sentNeedsAbort"
                               THEN "needsAbort" ELSE "run"
  BY DEF Refused, HasFields
<1>. HIDE DEF s
<1>. QED
  BY <1>1, <1>2, <1>3 DEF s

LEMMA RefusedIsTruthful ==
    ASSUME NEW r, NEW X, NEW ans, NEW app, Truthful(r, X, ans, app),
           NEW queue, NEW status, MayRefuse(r, X, Range(queue), status, ans, app)
    PROVE  Truthful(Refused(r, queue, status), X, ans, app)
<1>. DEFINE s == Refused(r, queue, status)
            O == Range(queue)
<1>1. /\ HasFields(s) /\ s.tree = r.tree /\ s.puts = r.puts /\ s.wire = r.wire /\ s.done = r.done
      /\ \A t \in Txns :
           /\ s.txn[t].status = IF t \notin O THEN r.txn[t].status
                                ELSE IF status # "datastale" \/ r.txn[t].status = "sentNeedsAbort"
                                THEN "needsAbort" ELSE "run"
           /\ s.txn[t].path = r.txn[t].path
           /\ s.txn[t].abort = IF t \in O /\ status # "datastale" THEN status ELSE r.txn[t].abort
  BY RefusedFields DEF Truthful, Shape
<1>. HIDE DEF s
<1>2. MayRefuse(r, X, O, status, ans, app)
  OBVIOUS
<1>. HIDE DEF O
<1>3. \A t \in Txns : OnWay(s, t) <=> OnWay(r, t) /\ t \notin O
  BY <1>1 DEF OnWay
<1>4. InTree(s) = InTree(r) /\ Wired(s) = Wired(r) /\ Live(s, X) = Live(r, X)
  BY <1>1 DEF InTree, Wired, Live
<1>5. \A t : NotApplied(s, app, t) <=> NotApplied(r, app, t)
  BY <1>4 DEF NotApplied
<1>6. Shape(r)
  BY DEF Truthful
<1>7. Shape(s)
  BY <1>1, <1>6 DEF Shape, Statuses
<1>8. Planted(s)
  <2>1. Planted(r)
    BY DEF Truthful
  <2>2. \A t \in O : r.done[t] = <<>>
    BY <1>2 DEF MayRefuse
  <2>. QED
    BY <1>1, <1>6, <2>1, <2>2, TreeOf DEF Planted
<1>9. AheadOnWay(s)
  <2>. SUFFICES ASSUME NEW n \in Paths, NEW i \in DOMAIN r.tree[n], NEW j \in DOMAIN r.tree[n],
                       i < j, OnWay(s, r.tree[n][j])
                PROVE  OnWay(s, r.tree[n][i])
    BY <1>1 DEF AheadOnWay
  <2>1. r.tree[n][i] \in Txns /\ r.tree[n][j] \in Txns
    BY <1>6, TreeOf
  <2>2. r.tree[n][i] \in Range(r.tree[n]) /\ r.tree[n][j] \in Range(r.tree[n])
    BY DEF Range
  <2>3. OnWay(r, r.tree[n][j]) /\ r.tree[n][j] \notin O
    BY <1>3, <2>1
  <2>4. OnWay(r, r.tree[n][i])
    BY <2>3 DEF Truthful, AheadOnWay
  <2>5. r.tree[n][i] \notin O
    BY <1>2, <2>2, <2>3 DEF MayRefuse
  <2>. QED
    BY <1>3, <2>1, <2>4, <2>5
<1>10. ToldOnce(s)
  <2>1. ToldOnce(r)
    BY DEF Truthful
  <2>. QED
    BY <1>1, <2>1 DEF ToldOnce
<1>11. Unsettled(s, ans, app)
  <2>. SUFFICES ASSUME NEW t \in Txns
                PROVE  /\ s.txn[t].status = "none" => NotApplied(s, app, t) /\ Unanswered(ans, t)
                       /\ s.txn[t].status = "run" /\ t \in InTree(s)
                             => NotApplied(s, app, t) /\ Unanswered(ans, t)
                       /\ s.txn[t].status = "needsAbort" /\ t \in InTree(s)
                          /\ s.txn[t].abort \in Denials => NotApplied(s, app, t)
                       /\ Range(s.done[t]) \cap Denials # {} => NotApplied(s, app, t)
                       /\ s.done[t] = <<"committed">> => app[t] = 1
                       /\ s.txn[t].status = "needsAbort"
                             => s.txn[t].abort \in Outcomes \ {"committed"}
                       /\ s.txn[t].status = "sentNeedsAbort" => s.txn[t].abort \in {"set", "canceled"}
    BY DEF Unsettled
  <2>1. CASE t \notin O
    BY <1>1, <1>4, <1>5, <2>1 DEF Truthful, Unsettled
  <2>2. CASE t \in O
    <3>1. r.done[t] = <<>> /\ OnWay(r, t)
      BY <1>2, <2>2 DEF MayRefuse
    <3>2. Range(s.done[t]) = {} /\ s.done[t] # <<"committed">>
      BY <1>1, <3>1 DEF Range
    <3>3. r.txn[t].status = "sentNeedsAbort" => r.txn[t].abort \in {"set", "canceled"}
      BY DEF Truthful, Unsettled
    <3>4. CASE status = "datastale"
      BY <1>1, <1>2, <1>5, <2>2, <3>2, <3>3, <3>4 DEF MayRefuse, Outcomes
    <3>5. CASE status # "datastale"
      BY <1>1, <1>2, <1>5, <2>2, <3>2, <3>5 DEF MayRefuse, Outcomes, Denials
    <3>. QED
      BY <3>4, <3>5
  <2>. QED
    BY <2>1, <2>2
<1>12. \A p \in Live(s, X) : Awaited(s, p, ans, app)
  <2>. SUFFICES ASSUME NEW p \in Live(r, X) PROVE Awaited(s, p, ans, app)
    BY <1>4
  <2>1. Awaited(r, p, ans, app)
    BY DEF Truthful
  <2>2. Range(p.owners) \subseteq Txns /\ Range(p.owners) \cap O = {}
    BY <1>2, <1>6, PutsOf DEF MayRefuse
  <2>3. \A n \in Paths : Range(r.tree[n]) \subseteq Txns
    BY <1>6, TreeOf
  <2>. QED
    BY <1>1, <1>3, <1>4, <1>5, <2>1, <2>2, <2>3 DEF Awaited
<1>13. Apart(s.puts, X) /\ OnWire(s, ans, app)
  BY <1>1, <1>4 DEF Truthful, OnWire
<1>. QED
  BY <1>7, <1>8, <1>9, <1>10, <1>11, <1>12, <1>13 DEF Truthful, s

LEMMA FewerLive ==
    ASSUME NEW r, NEW X, NEW Y, X \subseteq Y, NEW ans, NEW app, Truthful(r, X, ans, app)
    PROVE  Truthful(r, Y, ans, app)
<1>1. Live(r, Y) \subseteq Live(r, X)
  BY DEF Live
<1>2. Apart(r.puts, Y)
  BY DEF Truthful, Apart
<1>. QED
  BY <1>1, <1>2 DEF Truthful

WithoutPuts(r, Y) == [r EXCEPT !.puts = Those(@, Range(@) \ Y)]

LEMMA SelfRange ==
    ASSUME NEW S, NEW s \in Seq(S)
    PROVE  s \in Seq(Range(s))
  BY DEF Range

LEMMA WithoutPutsFields ==
    ASSUME NEW r, Shape(r), NEW Y
    PROVE  /\ HasFields(WithoutPuts(r, Y))
           /\ WithoutPuts(r, Y).txn = r.txn /\ WithoutPuts(r, Y).tree = r.tree
           /\ WithoutPuts(r, Y).wire = r.wire /\ WithoutPuts(r, Y).connected = r.connected
           /\ WithoutPuts(r, Y).done = r.done
           /\ Range(WithoutPuts(r, Y).puts) = Range(r.puts) \ Y
           /\ WithoutPuts(r, Y).puts \in Seq(Range(WithoutPuts(r, Y).puts))
<1>. DEFINE s == WithoutPuts(r, Y)
            q == Those(r.puts, Range(r.puts) \ Y)
<1>1. HasFields(s) /\ s.txn = r.txn /\ s.tree = r.tree /\ s.wire = r.wire
      /\ s.connected = r.connected /\ s.done = r.done /\ s.puts = q
  BY DEF WithoutPuts, Shape, HasFields
<1>2. r.puts \in Seq(Range(r.puts))
  BY DEF Shape
<1>3. q \in Seq(Range(r.puts)) /\ Range(q) = Range(r.puts) \cap (Range(r.puts) \ Y)
  BY <1>2, ThoseOf
<1>4. q \in Seq(Range(q))
  BY <1>3, SelfRange
<1>. HIDE DEF s, q
<1>. QED
  BY <1>1, <1>3, <1>4 DEF s

LEMMA WithoutPutsIsTruthful ==
    ASSUME NEW r, NEW X, NEW Y, NEW Z, X \subseteq Y \cup Z, NEW ans, NEW app,
           Truthful(r, X, ans, app)
    PROVE  Truthful(WithoutPuts(r, Y), Z, ans, app)
<1>. DEFINE s == WithoutPuts(r, Y)
<1>0. Shape(r)
  BY DEF Truthful
<1>1. /\ HasFields(s) /\ s.txn = r.txn /\ s.tree = r.tree /\ s.wire = r.wire
      /\ s.connected = r.connected /\ s.done = r.done
      /\ Range(s.puts) = Range(r.puts) \ Y /\ s.puts \in Seq(Range(s.puts))
  BY <1>0, WithoutPutsFields
<1>2. s.puts = Those(r.puts, Range(r.puts) \ Y)
  BY <1>0 DEF WithoutPuts, Shape, HasFields
<1>. HIDE DEF s
<1>3. Shape(s)
  BY <1>0, <1>1 DEF Shape
<1>4. Planted(s) /\ AheadOnWay(s) /\ ToldOnce(s)
  BY <1>1 DEF Truthful, Planted, AheadOnWay, ToldOnce, OnWay
<1>5. InTree(s) = InTree(r) /\ Wired(s) = Wired(r) /\ Live(s, Z) \subseteq Live(r, X)
  BY <1>1 DEF InTree, Wired, Live
<1>6. \A t : NotApplied(s, app, t) <=> NotApplied(r, app, t)
  BY <1>5 DEF NotApplied
<1>7. Unsettled(s, ans, app)
  BY <1>1, <1>5, <1>6 DEF Truthful, Unsettled
<1>8. \A p \in Live(s, Z) : Awaited(s, p, ans, app)
  <2>1. ASSUME NEW p \in Live(r, X) PROVE Awaited(s, p, ans, app)
    <3>1. Awaited(r, p, ans, app)
      BY DEF Truthful
    <3>. QED
      BY <1>1, <1>5, <1>6, <3>1 DEF Awaited, OnWay
  <2>. QED
    BY <1>5, <2>1
<1>9. Apart(s.puts, Z)
  <2>. SUFFICES ASSUME NEW i \in DOMAIN s.puts, NEW j \in DOMAIN s.puts, i # j,
                       OfTxns(s.puts[i]), OfTxns(s.puts[j]), s.puts[i] \notin Z, s.puts[j] \notin Z
                PROVE  Range(s.puts[i].owners) \cap Range(s.puts[j].owners) = {}
    BY Zenon DEF Apart
  <2>1. s.puts[i] \notin Y /\ s.puts[j] \notin Y
    BY <1>1 DEF Range
  <2>2. \E k, l \in DOMAIN r.puts : k # l /\ r.puts[k] = s.puts[i] /\ r.puts[l] = s.puts[j]
    <3>1. r.puts \in Seq(Range(r.puts))
      BY <1>0 DEF Shape
    <3>2. \A a, b \in DOMAIN s.puts : a < b =>
             \E k, l \in DOMAIN r.puts : k < l /\ r.puts[k] = s.puts[a] /\ r.puts[l] = s.puts[b]
      BY <1>2, <3>1, PartInOrder
    <3>3. i \in Int /\ j \in Int /\ \A k \in DOMAIN r.puts : k \in Int
      BY <1>1, <3>1
    <3>4. CASE i < j
      <4>1. PICK k \in DOMAIN r.puts, l \in DOMAIN r.puts :
                k < l /\ r.puts[k] = s.puts[i] /\ r.puts[l] = s.puts[j]
        BY <3>2, <3>4
      <4>. QED
        BY <3>3, <4>1
    <3>5. CASE j < i
      <4>1. PICK k \in DOMAIN r.puts, l \in DOMAIN r.puts :
                k < l /\ r.puts[k] = s.puts[j] /\ r.puts[l] = s.puts[i]
        BY <3>2, <3>5
      <4>. QED
        BY <3>3, <4>1
    <3>. QED
      BY <3>3, <3>4, <3>5
  <2>3. PICK k \in DOMAIN r.puts, l \in DOMAIN r.puts :
            k # l /\ r.puts[k] = s.puts[i] /\ r.puts[l] = s.puts[j]
    BY <2>2
  <2>4. Apart(r.puts, X)
    BY DEF Truthful
  <2>. QED
    BY <2>1, <2>3, <2>4 DEF Apart
<1>10. OnWire(s, ans, app)
  BY <1>1, <1>5 DEF Truthful, OnWire
<1>. QED
  BY <1>3, <1>4, <1>7, <1>8, <1>9, <1>10 DEF Truthful, s

-----------------------------------------------------------------------------
(* What is completed leaves the tree; what is ready is sent.               *)

LEMMA PruneFields ==
    ASSUME NEW r, Shape(r)
    PROVE  /\ HasFields(Prune(r))
           /\ Prune(r).txn = r.txn /\ Prune(r).puts = r.puts
           /\ Prune(r).wire = r.wire /\ Prune(r).connected = r.connected
           /\ Prune(r).done = r.done
           /\ \A n \in Paths :
                Prune(r).tree[n] = Those(r.tree[n], {t \in Txns : r.txn[t].status # "completed"})
  BY DEF Prune, Shape, HasFields

LEMMA PruneIsTruthful ==
    ASSUME NEW r, NEW X, NEW ans, NEW app, Truthful(r, X, ans, app)
    PROVE  /\ Truthful(Prune(r), X, ans, app)
           /\ \A t \in InTree(Prune(r)) : t \in InTree(r) /\ r.txn[t].status # "completed"
<1>. DEFINE s == Prune(r)
            K == {t \in Txns : r.txn[t].status # "completed"}
<1>0. Shape(r)
  BY DEF Truthful
<1>1. /\ HasFields(s) /\ s.txn = r.txn /\ s.puts = r.puts /\ s.wire = r.wire
      /\ s.connected = r.connected /\ s.done = r.done
      /\ \A n \in Paths : s.tree[n] = Those(r.tree[n], K)
  BY <1>0, PruneFields
<1>. HIDE DEF s
<1>2. ASSUME NEW n \in Paths
      PROVE  /\ s.tree[n] \in Seq(Txns)
             /\ Range(s.tree[n]) = Range(r.tree[n]) \cap K
             /\ \A i, j \in DOMAIN s.tree[n] : i < j =>
                   \E k, l \in DOMAIN r.tree[n] :
                       k < l /\ r.tree[n][k] = s.tree[n][i] /\ r.tree[n][l] = s.tree[n][j]
  <2>1. r.tree[n] \in Seq(Txns)
    BY <1>0, TreeOf
  <2>2. s.tree[n] = Those(r.tree[n], K)
    BY <1>1
  <2>. HIDE DEF K
  <2>3. s.tree[n] \in Seq(Txns) /\ Range(s.tree[n]) = Range(r.tree[n]) \cap K
    BY <2>1, <2>2, ThoseOf
  <2>4. \A i, j \in DOMAIN s.tree[n] : i < j =>
           \E k, l \in DOMAIN r.tree[n] :
               k < l /\ r.tree[n][k] = s.tree[n][i] /\ r.tree[n][l] = s.tree[n][j]
    BY <2>1, <2>2, PartInOrder
  <2>. QED
    BY <2>3, <2>4
<1>3. Shape(s)
  BY <1>0, <1>1, <1>2 DEF Shape
<1>4. \A t \in InTree(s) : t \in InTree(r) /\ r.txn[t].status # "completed"
  BY <1>2 DEF InTree
<1>5. Planted(s)
  BY <1>1, <1>2 DEF Truthful, Planted
<1>6. AheadOnWay(s)
  <2>. SUFFICES ASSUME NEW n \in Paths, NEW i \in DOMAIN s.tree[n], NEW j \in DOMAIN s.tree[n],
                       i < j, OnWay(s, s.tree[n][j])
                PROVE  OnWay(s, s.tree[n][i])
    BY DEF AheadOnWay
  <2>1. PICK k \in DOMAIN r.tree[n], l \in DOMAIN r.tree[n] :
            k < l /\ r.tree[n][k] = s.tree[n][i] /\ r.tree[n][l] = s.tree[n][j]
    BY <1>2
  <2>. QED
    BY <1>1, <2>1 DEF Truthful, AheadOnWay, OnWay
<1>7. ToldOnce(s)
  BY <1>1 DEF Truthful, ToldOnce
<1>8. Wired(s) = Wired(r) /\ Live(s, X) = Live(r, X)
  BY <1>1 DEF Wired, Live
<1>9. \A t : NotApplied(s, app, t) <=> NotApplied(r, app, t)
  BY <1>8 DEF NotApplied
<1>10. Unsettled(s, ans, app)
  BY <1>1, <1>4, <1>9 DEF Truthful, Unsettled
<1>11. \A p \in Live(s, X) : Awaited(s, p, ans, app)
  <2>. SUFFICES ASSUME NEW p \in Live(r, X) PROVE Awaited(s, p, ans, app)
    BY <1>8
  <2>1. Awaited(r, p, ans, app)
    BY DEF Truthful
  <2>2. \A n \in Paths : Range(s.tree[n]) \subseteq Range(r.tree[n])
    BY <1>2
  <2>. QED
    BY <1>1, <1>8, <1>9, <2>1, <2>2 DEF Awaited, OnWay
<1>12. Apart(s.puts, X) /\ OnWire(s, ans, app)
  BY <1>1, <1>8 DEF Truthful, OnWire
<1>. QED
  BY <1>3, <1>4, <1>5, <1>6, <1>7, <1>10, <1>11, <1>12 DEF Truthful, s

\* Puts are only added, and sent when there is a connection.
Grows(r, s) ==
    /\ s.connected = r.connected
    /\ Range(r.puts) \subseteq Range(s.puts)
    /\ \A p \in Range(s.puts) \ Range(r.puts) : p.sent = r.connected
    /\ ~ r.connected => s.wire = r.wire

LEMMA GrowsSelf ==
    ASSUME NEW r
    PROVE  Grows(r, r)
  BY DEF Grows

LEMMA GrowsTransitive ==
    ASSUME NEW r, NEW s, NEW u, Grows(r, s), Grows(s, u)
    PROVE  Grows(r, u)
  BY DEF Grows

LEMMA SameGrows ==
    ASSUME NEW r, NEW s, Same(r, s), InTree(r) \subseteq Txns
    PROVE  Grows(r, s) /\ InTree(s) = InTree(r) /\ (Clean(r) => Clean(s)) /\ HasFields(s)
<1>1. InTree(s) = InTree(r) /\ HasFields(s)
  BY DEF Same, InTree
<1>2. Clean(r) => Clean(s)
  BY <1>1 DEF Same, Clean
<1>3. Grows(r, s)
  BY DEF Same, Grows
<1>. QED
  BY <1>1, <1>2, <1>3

LEMMA EntryAppended ==
    ASSUME NEW S, NEW s \in Seq(S), NEW e
    PROVE  /\ Append(s, e) \in Seq(S \cup {e})
           /\ Len(s) \in Nat /\ DOMAIN s = 1..Len(s)
           /\ DOMAIN Append(s, e) = 1..(Len(s) + 1)
           /\ Append(s, e)[Len(s) + 1] = e
           /\ \A i \in 1..Len(s) : Append(s, e)[i] = s[i]
<1>1. s \in Seq(S \cup {e})
  OBVIOUS
<1>. QED
  BY <1>1

LEMMA RangeOfAppended ==
    ASSUME NEW S, NEW s \in Seq(S), NEW e
    PROVE  Range(Append(s, e)) = Range(s) \cup {e}
<1>. DEFINE q == Append(s, e)
<1>1. /\ DOMAIN q = 1..(Len(s) + 1) /\ q[Len(s) + 1] = e /\ \A i \in 1..Len(s) : q[i] = s[i]
      /\ Len(s) \in Nat /\ DOMAIN s = 1..Len(s)
  BY EntryAppended
<1>. HIDE DEF q
<1>2. ASSUME NEW x \in Range(q) PROVE x \in Range(s) \cup {e}
  <2>1. PICK i \in 1..(Len(s) + 1) : q[i] = x
    BY <1>1, <1>2 DEF Range
  <2>2. i = Len(s) + 1 \/ i \in 1..Len(s)
    BY <1>1
  <2>. QED
    BY <1>1, <2>1, <2>2 DEF Range
<1>3. e \in Range(q)
  <2>1. Len(s) + 1 \in DOMAIN q
    BY <1>1
  <2>. QED
    BY <1>1, <2>1 DEF Range
<1>4. ASSUME NEW x \in Range(s) PROVE x \in Range(q)
  <2>1. PICK i \in 1..Len(s) : s[i] = x
    BY <1>1, <1>4 DEF Range
  <2>2. i \in DOMAIN q /\ q[i] = x
    BY <1>1, <2>1
  <2>. QED
    BY <2>2 DEF Range
<1>. QED
  BY <1>2, <1>3, <1>4 DEF q

LEMMA AppendedRange ==
    ASSUME NEW s, s \in Seq(Range(s)), NEW e
    PROVE  /\ Range(Append(s, e)) = Range(s) \cup {e}
           /\ Append(s, e) \in Seq(Range(Append(s, e)))
<1>1. Range(Append(s, e)) = Range(s) \cup {e}
  <2>. DEFINE S == Range(s)
  <2>1. s \in Seq(S)
    OBVIOUS
  <2>. HIDE DEF S
  <2>. QED
    BY <2>1, RangeOfAppended, Zenon
<1>2. Append(s, e) \in Seq(Range(s) \cup {e})
  <2>. DEFINE S == Range(s)
  <2>1. s \in Seq(S)
    OBVIOUS
  <2>. HIDE DEF S
  <2>2. Append(s, e) \in Seq(S \cup {e})
    BY <2>1
  <2>. QED
    BY <2>2 DEF S
<1>. QED
  BY <1>1, <1>2, Zenon

LEMMA AppendApart ==
    ASSUME NEW puts, puts \in Seq(Range(puts)), NEW X, Apart(puts, X), NEW e,
           OfTxns(e) /\ e \notin X =>
              \A p \in Range(puts) : OfTxns(p) /\ p \notin X => Range(p.owners) \cap Range(e.owners) = {}
    PROVE  Apart(Append(puts, e), X)
<1>. DEFINE q == Append(puts, e)
<1>1. /\ Len(puts) \in Nat /\ DOMAIN puts = 1..Len(puts) /\ DOMAIN q = 1..(Len(puts) + 1)
      /\ q[Len(puts) + 1] = e /\ \A i \in 1..Len(puts) : q[i] = puts[i]
  BY EntryAppended
<1>. HIDE DEF q
<1>. SUFFICES ASSUME NEW i \in DOMAIN q, NEW j \in DOMAIN q, i # j,
                     OfTxns(q[i]), OfTxns(q[j]), q[i] \notin X, q[j] \notin X
              PROVE  Range(q[i].owners) \cap Range(q[j].owners) = {}
  BY Zenon DEF Apart, q
<1>2. CASE i \in 1..Len(puts) /\ j \in 1..Len(puts)
  BY <1>1, <1>2 DEF Apart
<1>3. CASE i = Len(puts) + 1
  <2>1. j \in 1..Len(puts) /\ q[j] \in Range(puts) /\ q[i] = e
    BY <1>1, <1>3 DEF Range
  <2>. QED
    BY <2>1
<1>4. CASE j = Len(puts) + 1
  <2>1. i \in 1..Len(puts) /\ q[i] \in Range(puts) /\ q[j] = e
    BY <1>1, <1>4 DEF Range
  <2>. QED
    BY <2>1
<1>. QED
  BY <1>1, <1>2, <1>3, <1>4

PutOf(r, owners, p, value, hash) ==
    [owners |-> owners, path |-> p, value |-> value, hash |-> hash, sent |-> r.connected]

LEMMA PutDataFields ==
    ASSUME NEW r, HasFields(r), NEW owners, NEW p, NEW value, NEW hash
    PROVE  LET put == PutOf(r, owners, p, value, hash)
               s == PutData(r, owners, p, value, hash)
           IN  /\ HasFields(s) /\ s.txn = r.txn /\ s.tree = r.tree
               /\ s.connected = r.connected /\ s.done = r.done
               /\ s.puts = Append(r.puts, put)
               /\ s.wire = IF r.connected THEN Append(r.wire, put) ELSE r.wire
<1>. DEFINE put == PutOf(r, owners, p, value, hash)
            s == PutData(r, owners, p, value, hash)
<1>1. s = [r EXCEPT !.puts = Append(@, put), !.wire = IF r.connected THEN Append(@, put) ELSE @]
  BY DEF PutData, PutOf
<1>. HIDE DEF put
<1>2. /\ HasFields(s) /\ s.txn = r.txn /\ s.tree = r.tree
      /\ s.connected = r.connected /\ s.done = r.done
      /\ s.puts = Append(r.puts, put)
      /\ s.wire = IF r.connected THEN Append(r.wire, put) ELSE r.wire
  <2>. HIDE DEF s
  <2>. QED
    BY <1>1 DEF HasFields
<1>. QED
  BY <1>2 DEF put

LEMMA PutFields ==
    ASSUME NEW r, NEW owners, NEW p, NEW value, NEW hash
    PROVE  LET put == PutOf(r, owners, p, value, hash)
           IN  /\ DOMAIN put = {"owners", "path", "value", "hash", "sent"}
               /\ put.owners = owners /\ put.path = p /\ put.hash = hash
               /\ put.sent = r.connected
  BY DEF PutOf

\* All transactions at and below the location are ready, and there is one at it.
Ready(r, queue, n) ==
    /\ n \in Paths /\ r.tree[n] # <<>>
    /\ queue = BuildTransactionQueue(r, n)
    /\ \A t \in Range(queue) : r.txn[t].status = "run"

LEMMA WithinPaths ==
    ASSUME NEW n \in Paths
    PROVE  Within(n) \subseteq Paths
  BY DEF Within, Under, Paths

LEMMA ReadyQueue ==
    ASSUME NEW r, NEW X, NEW ans, NEW app, Truthful(r, X, ans, app),
           NEW n, NEW queue, Ready(r, queue, n)
    PROVE  /\ queue \in Seq(Txns) /\ queue # <<>> /\ Range(queue) \subseteq Txns
           /\ \A t \in Range(queue) :
                 /\ t \in InTree(r) /\ r.txn[t].path \in Within(n)
                 /\ r.txn[t].status = "run" /\ r.done[t] = <<>>
                 /\ NotApplied(r, app, t) /\ Unanswered(ans, t)
           /\ \A m \in Paths : \A t, u \in Range(r.tree[m]) :
                 t \in Range(queue) => u \in Range(queue)
           /\ \A p \in Live(r, X) : Range(p.owners) \cap Range(queue) = {}
<1>0. Shape(r) /\ Planted(r) /\ Unsettled(r, ans, app)
  BY DEF Truthful
<1>1. queue \in Seq(Txns) /\ Range(queue) = Queued(r, n) \cap Txns
  BY QueueOf DEF Ready
<1>2. Within(n) \subseteq Paths /\ n \in Within(n)
  BY WithinPaths DEF Ready, Within
<1>3. \A t : t \in Range(queue) <=> \E m \in Within(n) : t \in Range(r.tree[m])
  <2>1. \A m \in Within(n) : Range(r.tree[m]) \subseteq Txns
    BY <1>0, <1>2, TreeOf
  <2>2. Queued(r, n) = UNION {Range(r.tree[m]) : m \in Within(n)}
    BY DEF Queued, Within
  <2>. QED
    BY <1>1, <2>1, <2>2
<1>4. queue # <<>>
  <2>1. r.tree[n] \in Seq(Txns) /\ r.tree[n] # <<>>
    BY <1>0, TreeOf DEF Ready
  <2>2. 1 \in DOMAIN r.tree[n]
    BY <2>1
  <2>3. r.tree[n][1] \in Range(queue)
    BY <1>2, <1>3, <2>2 DEF Range
  <2>. QED
    BY <2>3 DEF Range
<1>5. ASSUME NEW t \in Range(queue)
      PROVE  /\ t \in InTree(r) /\ r.txn[t].path \in Within(n) /\ t \in Txns
             /\ r.txn[t].status = "run" /\ r.done[t] = <<>>
             /\ NotApplied(r, app, t) /\ Unanswered(ans, t)
  <2>1. PICK m \in Within(n) : t \in Range(r.tree[m])
    BY <1>3
  <2>2. r.txn[t].status = "run" /\ t \in Txns /\ m \in Paths
    BY <1>1, <1>2 DEF Ready
  <2>3. t \in InTree(r)
    BY <2>1, <2>2 DEF InTree
  <2>4. r.txn[t].path = m /\ r.done[t] = <<>>
    BY <1>0, <2>1, <2>2 DEF Planted
  <2>. QED
    BY <1>0, <2>2, <2>3, <2>4 DEF Unsettled
<1>6. ASSUME NEW m \in Paths, NEW t \in Range(r.tree[m]), NEW u \in Range(r.tree[m]),
             t \in Range(queue)
      PROVE  u \in Range(queue)
  <2>1. r.txn[t].path = m
    BY <1>0 DEF Planted
  <2>. QED
    BY <1>3, <1>5, <1>6, <2>1
<1>7. ASSUME NEW p \in Live(r, X) PROVE Range(p.owners) \cap Range(queue) = {}
  <2>1. \A t \in Range(p.owners) : OnWay(r, t)
    BY DEF Truthful, Awaited
  <2>. QED
    BY <1>5, <2>1 DEF OnWay
<1>. QED
  BY <1>1, <1>4, <1>5, <1>6, <1>7

LEMMA LatestStateIsSome ==
    ASSUME NEW r, NEW p \in Paths, NEW excluded
    PROVE  LatestState(r, p, excluded) # NoHash
<1>1. DOMAIN LatestState(r, p, excluded) = Under(p)
  BY DEF LatestState, Restrict
<1>2. Under(p) # {}
  BY ConstantsAssumption DEF Under, Paths
<1>3. DOMAIN NoHash = {}
  BY DEF NoHash
<1>. QED
  BY <1>1, <1>2, <1>3

Sent(r, s, queue, put) ==
    /\ HasFields(s) /\ s.tree = r.tree /\ s.connected = r.connected /\ s.done = r.done
    /\ s.puts = Append(r.puts, put)
    /\ s.wire = IF r.connected THEN Append(r.wire, put) ELSE r.wire
    /\ \A t \in Txns : /\ s.txn[t].status = IF t \in Range(queue) THEN "sent" ELSE r.txn[t].status
                       /\ s.txn[t].path = r.txn[t].path
                       /\ s.txn[t].abort = r.txn[t].abort

LEMMA SendFields ==
    ASSUME NEW r, HasFields(r), NEW queue, NEW p \in Paths
    PROVE  \E put : /\ Sent(r, SendTransactionQueue(r, queue, p), queue, put)
                    /\ DOMAIN put = {"owners", "path", "value", "hash", "sent"}
                    /\ put.owners = queue /\ put.path = p /\ put.hash # NoHash
                    /\ put.sent = r.connected
<1>. DEFINE latest == LatestState(r, p, Range(queue))
            marked == [r EXCEPT !.txn = [t \in Txns |->
                         IF t \in Range(queue)
                         THEN [r.txn[t] EXCEPT !.status = "sent", !.retries = @ + 1]
                         ELSE r.txn[t]]]
            snapshot == Snapshot(r, queue, latest)
            put == PutOf(marked, queue, p, snapshot, latest)
            s == SendTransactionQueue(r, queue, p)
<1>1. s = PutData(marked, queue, p, snapshot, latest)
  BY Zenon DEF SendTransactionQueue
<1>2. latest # NoHash
  BY LatestStateIsSome
<1>. HIDE DEF latest, snapshot, s
<1>3. /\ HasFields(marked) /\ marked.tree = r.tree /\ marked.connected = r.connected
      /\ marked.done = r.done /\ marked.puts = r.puts /\ marked.wire = r.wire
      /\ \A t \in Txns : /\ marked.txn[t].path = r.txn[t].path
                         /\ marked.txn[t].abort = r.txn[t].abort
  BY DEF HasFields
<1>4. \A t \in Txns : marked.txn[t].status = IF t \in Range(queue) THEN "sent" ELSE r.txn[t].status
  BY DEF HasFields
<1>. HIDE DEF marked
<1>5. /\ HasFields(s) /\ s.txn = marked.txn /\ s.tree = marked.tree
      /\ s.connected = marked.connected /\ s.done = marked.done
      /\ s.puts = Append(marked.puts, put)
      /\ s.wire = IF marked.connected THEN Append(marked.wire, put) ELSE marked.wire
  BY <1>1, <1>3, PutDataFields
<1>6. /\ DOMAIN put = {"owners", "path", "value", "hash", "sent"}
      /\ put.owners = queue /\ put.path = p /\ put.hash = latest
      /\ put.sent = marked.connected
  BY PutFields
<1>. HIDE DEF put
<1>7. Sent(r, s, queue, put)
  BY <1>3, <1>4, <1>5 DEF Sent
<1>. QED
  BY <1>2, <1>3, <1>6, <1>7 DEF s

LEMMA PutSentIsTruthful ==
    ASSUME NEW r, NEW X, NEW ans, NEW app, Truthful(r, X, ans, app),
           NEW n, NEW queue, Ready(r, queue, n),
           NEW s, NEW put, Sent(r, s, queue, put),
           DOMAIN put = {"owners", "path", "value", "hash", "sent"},
           put.owners = queue, put.path = n, put.hash # NoHash, put.sent = r.connected
    PROVE  Truthful(s, X, ans, app)
<1>. DEFINE O == Range(queue)
<1>0. Shape(r) /\ n \in Paths
  BY DEF Truthful, Ready
<1>1. /\ queue \in Seq(Txns) /\ queue # <<>> /\ O \subseteq Txns
      /\ \A t \in O :
            /\ t \in InTree(r) /\ r.txn[t].path \in Within(n)
            /\ r.txn[t].status = "run" /\ r.done[t] = <<>>
            /\ NotApplied(r, app, t) /\ Unanswered(ans, t)
      /\ \A m \in Paths : \A t, u \in Range(r.tree[m]) : t \in O => u \in O
      /\ \A p \in Live(r, X) : Range(p.owners) \cap O = {}
  BY ReadyQueue
<1>2. queue[1] \in O
  <2>1. 1 \in DOMAIN queue
    BY <1>1
  <2>. QED
    BY <2>1 DEF Range
<1>3. Range(put.owners) = O /\ OfTxns(put)
  BY DEF OfTxns
<1>. HIDE DEF O
<1>4. /\ HasFields(s) /\ s.tree = r.tree /\ s.connected = r.connected /\ s.done = r.done
      /\ s.puts = Append(r.puts, put)
      /\ s.wire = IF r.connected THEN Append(r.wire, put) ELSE r.wire
      /\ \A t \in Txns : /\ s.txn[t].status = IF t \in O THEN "sent" ELSE r.txn[t].status
                         /\ s.txn[t].path = r.txn[t].path
                         /\ s.txn[t].abort = r.txn[t].abort
  BY DEF Sent, O
<1>5. /\ Range(s.puts) = Range(r.puts) \cup {put} /\ s.puts \in Seq(Range(s.puts))
      /\ s.wire \in Seq(Range(s.wire)) /\ Range(r.wire) \subseteq Range(s.wire)
      /\ Range(s.wire) = IF r.connected THEN Range(r.wire) \cup {put} ELSE Range(r.wire)
  <2>1. r.puts \in Seq(Range(r.puts)) /\ r.wire \in Seq(Range(r.wire))
    BY <1>0 DEF Shape
  <2>2. /\ Append(r.puts, put) \in Seq(Range(Append(r.puts, put)))
        /\ Range(Append(r.puts, put)) = Range(r.puts) \cup {put}
    BY <2>1, AppendedRange
  <2>3. /\ Append(r.wire, put) \in Seq(Range(Append(r.wire, put)))
        /\ Range(Append(r.wire, put)) = Range(r.wire) \cup {put}
    BY <2>1, AppendedRange
  <2>4. CASE r.connected
    BY <1>4, <2>2, <2>3, <2>4
  <2>5. CASE ~ r.connected
    BY <1>4, <2>1, <2>2, <2>5
  <2>. QED
    BY <2>4, <2>5
<1>6. /\ Live(s, X) \subseteq Live(r, X) \cup {put}
      /\ Wired(s) \subseteq Wired(r) \cup {put} /\ Wired(r) \subseteq Wired(s)
      /\ ~ r.connected => Wired(s) = Wired(r)
      /\ InTree(s) = InTree(r)
  BY <1>4, <1>5 DEF Live, Wired, InTree
<1>7. \A t \in Txns : OnWay(s, t) <=> OnWay(r, t) \/ t \in O
  BY <1>4 DEF OnWay
<1>8. \A t : t \notin O => (NotApplied(s, app, t) <=> NotApplied(r, app, t))
  BY <1>3, <1>6 DEF NotApplied
<1>9. Shape(s)
  <2>1. IsPut(put)
    BY <1>0, <1>1, <1>3 DEF IsPut
  <2>. QED
    BY <1>0, <1>4, <1>5, <2>1 DEF Shape, Statuses
<1>10. Planted(s)
  <2>1. Planted(r)
    BY DEF Truthful
  <2>. QED
    BY <1>0, <1>1, <1>4, <2>1, TreeOf DEF Planted
<1>11. AheadOnWay(s)
  <2>. SUFFICES ASSUME NEW m \in Paths, NEW i \in DOMAIN r.tree[m], NEW j \in DOMAIN r.tree[m],
                       i < j, OnWay(s, r.tree[m][j])
                PROVE  OnWay(s, r.tree[m][i])
    BY <1>4 DEF AheadOnWay
  <2>1. r.tree[m][i] \in Txns /\ r.tree[m][j] \in Txns
    BY <1>0, TreeOf
  <2>2. r.tree[m][i] \in Range(r.tree[m]) /\ r.tree[m][j] \in Range(r.tree[m])
    BY DEF Range
  <2>3. CASE r.tree[m][j] \in O
    BY <1>1, <1>7, <2>1, <2>2, <2>3
  <2>4. CASE r.tree[m][j] \notin O
    <3>1. OnWay(r, r.tree[m][i])
      BY <1>7, <2>1, <2>4 DEF Truthful, AheadOnWay
    <3>. QED
      BY <1>7, <2>1, <3>1
  <2>. QED
    BY <2>3, <2>4
<1>12. ToldOnce(s)
  <2>1. ToldOnce(r)
    BY DEF Truthful
  <2>. QED
    BY <1>4, <2>1 DEF ToldOnce
<1>13. Unsettled(s, ans, app)
  <2>. SUFFICES ASSUME NEW t \in Txns
                PROVE  /\ s.txn[t].status = "none" => NotApplied(s, app, t) /\ Unanswered(ans, t)
                       /\ s.txn[t].status = "run" /\ t \in InTree(s)
                             => NotApplied(s, app, t) /\ Unanswered(ans, t)
                       /\ s.txn[t].status = "needsAbort" /\ t \in InTree(s)
                          /\ s.txn[t].abort \in Denials => NotApplied(s, app, t)
                       /\ Range(s.done[t]) \cap Denials # {} => NotApplied(s, app, t)
                       /\ s.done[t] = <<"committed">> => app[t] = 1
                       /\ s.txn[t].status = "needsAbort"
                             => s.txn[t].abort \in Outcomes \ {"committed"}
                       /\ s.txn[t].status = "sentNeedsAbort" => s.txn[t].abort \in {"set", "canceled"}
    BY DEF Unsettled
  <2>1. CASE t \notin O
    BY <1>4, <1>6, <1>8, <2>1 DEF Truthful, Unsettled
  <2>2. CASE t \in O
    <3>1. s.txn[t].status = "sent" /\ s.done[t] = <<>>
      BY <1>1, <1>4, <2>2
    <3>2. Range(s.done[t]) = {} /\ s.done[t] # <<"committed">>
      BY <3>1 DEF Range
    <3>. QED
      BY <3>1, <3>2
  <2>. QED
    BY <2>1, <2>2
<1>14. ASSUME NEW p \in Live(r, X) PROVE Awaited(s, p, ans, app)
  <2>1. Awaited(r, p, ans, app)
    BY DEF Truthful
  <2>2. Range(p.owners) \subseteq Txns /\ Range(p.owners) \cap O = {}
    BY <1>0, <1>1, PutsOf
  <2>3. \A m \in Paths : Range(r.tree[m]) \subseteq Txns
    BY <1>0, TreeOf
  <2>4. \A t \in Range(p.owners) :
           OnWay(s, t) /\ s.done[t] = <<>> /\ s.txn[t].path \in Within(p.path)
    BY <1>4, <1>7, <2>1, <2>2 DEF Awaited
  <2>5. \A t \in Range(p.owners) : NotApplied(s, app, t) <=> NotApplied(r, app, t)
    BY <1>8, <2>2
  <2>6. \A m \in Paths : \A t, u \in Range(s.tree[m]) :
           t \in Range(p.owners) /\ OnWay(s, u) => u \in Range(p.owners)
    BY <1>1, <1>4, <1>7, <2>1, <2>2, <2>3 DEF Awaited
  <2>7. \A w \in Wired(s) : Range(w.owners) \cap Range(p.owners) # {} => w.owners = p.owners
    BY <1>3, <1>6, <2>1, <2>2 DEF Awaited
  <2>. QED
    BY <2>1, <2>4, <2>5, <2>6, <2>7 DEF Awaited
<1>15. Awaited(s, put, ans, app)
  <2>1. \A t \in O : OnWay(s, t) /\ s.done[t] = <<>> /\ s.txn[t].path \in Within(n)
    BY <1>1, <1>4, <1>7
  <2>2. ~ put.sent => /\ \A t \in O : NotApplied(s, app, t)
                      /\ \A t \in O : Unanswered(ans, t)
    BY <1>1, <1>6 DEF NotApplied
  <2>3. \A m \in Paths : \A t, u \in Range(s.tree[m]) : t \in O => u \in O
    BY <1>1, <1>4
  <2>4. \A w \in Wired(s) : Range(w.owners) \cap O # {} => w.owners = put.owners
    BY <1>1, <1>6 DEF NotApplied
  <2>5. \A m \in ans : m.owner \notin O
    BY <1>1 DEF Unanswered
  <2>. QED
    BY <1>3, <2>1, <2>2, <2>3, <2>4, <2>5 DEF Awaited
<1>16. Apart(s.puts, X)
  <2>1. r.puts \in Seq(Range(r.puts)) /\ Apart(r.puts, X)
    BY <1>0 DEF Shape, Truthful
  <2>2. \A p \in Range(r.puts) : OfTxns(p) /\ p \notin X => Range(p.owners) \cap Range(put.owners) = {}
    BY <1>1, <1>3 DEF Live
  <2>3. Apart(Append(r.puts, put), X)
    BY <2>1, <2>2, AppendApart
  <2>. QED
    BY <1>4, <2>3
<1>17. OnWire(s, ans, app)
  <2>1. OnWire(r, ans, app)
    BY DEF Truthful
  <2>2. \A t \in O : app[t] = 0
    BY <1>1 DEF NotApplied
  <2>3. Unanswered(ans, put.owners[1])
    BY <1>1, <1>2
  <2>4. Apart(s.wire, {})
    <3>1. r.wire \in Seq(Range(r.wire)) /\ Apart(r.wire, {})
      BY <1>0, <2>1 DEF Shape, OnWire
    <3>2. \A p \in Range(r.wire) :
             OfTxns(p) /\ p \notin {} => Range(p.owners) \cap Range(put.owners) = {}
      BY <1>1, <1>3 DEF Wired, NotApplied
    <3>3. Apart(Append(r.wire, put), {})
      BY <3>1, <3>2, AppendApart
    <3>. QED
      BY <1>4, <3>1, <3>3
  <2>. QED
    BY <1>3, <1>6, <2>1, <2>2, <2>3, <2>4 DEF OnWire
<1>. QED
  BY <1>6, <1>9, <1>10, <1>11, <1>12, <1>13, <1>14, <1>15, <1>16, <1>17 DEF Truthful

LEMMA SentGrows ==
    ASSUME NEW r, Shape(r), NEW s, NEW queue, NEW put, Sent(r, s, queue, put),
           put.sent = r.connected
    PROVE  Grows(r, s) /\ (Clean(r) => Clean(s))
<1>1. r.puts \in Seq(Range(r.puts))
  BY DEF Shape
<1>2. Range(s.puts) = Range(r.puts) \cup {put}
  BY <1>1, AppendedRange DEF Sent
<1>3. Grows(r, s)
  BY <1>2 DEF Grows, Sent
<1>4. InTree(s) = InTree(r) /\ InTree(r) \subseteq Txns
  BY TreeOf DEF Sent, InTree
<1>5. Clean(r) => Clean(s)
  BY <1>4 DEF Sent, Clean
<1>. QED
  BY <1>3, <1>5

\* What the operations that send and run again keep.
Keeps(r, s, X, ans, app) ==
    /\ Truthful(s, X, ans, app)
    /\ Grows(r, s)
    /\ Clean(r) => Clean(s)

LEMMA KeepsSelf ==
    ASSUME NEW r, NEW X, NEW ans, NEW app, Truthful(r, X, ans, app)
    PROVE  Keeps(r, r, X, ans, app)
  BY GrowsSelf DEF Keeps

LEMMA KeepsTransitive ==
    ASSUME NEW r, NEW s, NEW u, NEW X, NEW ans, NEW app,
           Keeps(r, s, X, ans, app), Keeps(s, u, X, ans, app)
    PROVE  Keeps(r, u, X, ans, app)
  BY GrowsTransitive DEF Keeps

LEMMA SendReadyKeeps ==
    ASSUME NEW r, NEW X, NEW ans, NEW app, Truthful(r, X, ans, app), NEW n \in Paths
    PROVE  Keeps(r, SendReadyAtNode(r, n), X, ans, app)
<1>. DEFINE queue == BuildTransactionQueue(r, n)
            s == SendTransactionQueue(r, queue, n)
<1>1. SendReadyAtNode(r, n)
        = IF r.tree[n] # <<>> /\ \A t \in Range(queue) : r.txn[t].status = "run" THEN s ELSE r
  BY Zenon DEF SendReadyAtNode
<1>2. CASE ~ (r.tree[n] # <<>> /\ \A t \in Range(queue) : r.txn[t].status = "run")
  <2>. HIDE DEF queue
  <2>. QED
    BY <1>1, <1>2, KeepsSelf
<1>3. CASE r.tree[n] # <<>> /\ \A t \in Range(queue) : r.txn[t].status = "run"
  <2>1. Ready(r, queue, n)
    BY <1>3, Zenon DEF Ready
  <2>2. Shape(r) /\ HasFields(r)
    BY DEF Truthful, Shape
  <2>. HIDE DEF queue
  <2>3. PICK put : /\ Sent(r, s, queue, put)
                   /\ DOMAIN put = {"owners", "path", "value", "hash", "sent"}
                   /\ put.owners = queue /\ put.path = n /\ put.hash # NoHash
                   /\ put.sent = r.connected
    BY <2>2, SendFields
  <2>. HIDE DEF s
  <2>4. Truthful(s, X, ans, app)
    BY <2>1, <2>3, PutSentIsTruthful
  <2>5. Grows(r, s) /\ (Clean(r) => Clean(s))
    BY <2>2, <2>3, SentGrows
  <2>6. Keeps(r, s, X, ans, app)
    BY <2>4, <2>5 DEF Keeps
  <2>. QED
    BY <1>1, <1>3, <2>6
<1>. QED
  BY <1>2, <1>3

SentUnfolds(f, r, kids, n) ==
    f = [i \in 0..n |-> IF i = 0 THEN r ELSE SendReadyAtNode(f[i - 1], kids[i])]

LEMMA SentExists ==
    ASSUME NEW r, NEW kids, NEW N \in Nat
    PROVE  \E f : SentUnfolds(f, r, kids, N)
<1>. DEFINE Reach == {n \in Nat : \E f : SentUnfolds(f, r, kids, n)}
<1>1. 0 \in Reach
  <2>. DEFINE f == [i \in 0..0 |-> r]
  <2>1. SentUnfolds(f, r, kids, 0)
    BY DEF SentUnfolds
  <2>. QED
    BY <2>1
<1>2. ASSUME NEW n \in Reach, n \in Nat PROVE n + 1 \in Reach
  <2>1. PICK f : SentUnfolds(f, r, kids, n)
    BY <1>2
  <2>. DEFINE g == [i \in 0..(n + 1) |-> IF i <= n THEN f[i]
                                         ELSE SendReadyAtNode(f[i - 1], kids[i])]
  <2>2. \A i \in 0..(n + 1) : i # 0 => g[i - 1] = f[i - 1]
    BY <1>2
  <2>3. \A i \in 0..n : f[i] = IF i = 0 THEN r ELSE SendReadyAtNode(f[i - 1], kids[i])
    BY <2>1, Zenon DEF SentUnfolds
  <2>4. \A i \in 0..(n + 1) : g[i] = IF i = 0 THEN r ELSE SendReadyAtNode(g[i - 1], kids[i])
    BY <1>2, <2>2, <2>3
  <2>5. SentUnfolds(g, r, kids, n + 1)
    <3>. HIDE DEF Reach
    <3>1. g = [i \in 0..(n + 1) |-> g[i]]
      OBVIOUS
    <3>. HIDE DEF g
    <3>. QED
      BY <2>4, <3>1, Zenon DEF SentUnfolds
  <2>. QED
    BY <2>5
<1>3. N \in Reach
  <2>. HIDE DEF Reach
  <2>. QED
    BY <1>1, <1>2, NumbersByInduction
<1>. QED
  BY <1>3

LEMMA SomeOrder ==
    SetToSeq(Kids) \in Seq(Kids)
<1>1. PICK n \in Nat : ExistsBijection(1..n, Kids)
  BY ConstantsAssumption, FS_NatBijection
<1>2. Cardinality(Kids) = n
  BY <1>1, FS_CountingElements
<1>3. \E f \in [1..n -> Kids] : IsInjective(f)
  <2>1. PICK g \in Bijection(1..n, Kids) : TRUE
    BY <1>1 DEF ExistsBijection
  <2>. QED
    BY <2>1 DEF Bijection, Injection, IsInjective
<1>4. SetToSeq(Kids) \in [1..n -> Kids]
  BY <1>2, <1>3 DEF SetToSeq
<1>. QED
  BY <1>4

LEMMA SendAllKeeps ==
    ASSUME NEW r, NEW X, NEW ans, NEW app, Truthful(r, X, ans, app)
    PROVE  /\ Truthful(SendAllReadyTransactions(r), X, ans, app)
           /\ Grows(r, SendAllReadyTransactions(r))
           /\ (\A t \in InTree(r) : r.txn[t].status # "needsAbort")
                 => Clean(SendAllReadyTransactions(r))
<1>. DEFINE p == Prune(r)
            kids == SetToSeq(Kids)
            f == CHOOSE g : SentUnfolds(g, p, kids, Len(kids))
            result == SendAllReadyTransactions(r)
<1>0. kids \in Seq(Kids) /\ Len(kids) \in Nat
  BY SomeOrder
<1>1. SentUnfolds(f, p, kids, Len(kids))
  BY <1>0, SentExists, Zenon
<1>2. result = IF p.tree[Root] # <<>> THEN SendReadyAtNode(p, Root) ELSE f[Len(kids)]
  BY Zenon DEF SendAllReadyTransactions, SentUnfolds, f
<1>. HIDE DEF f, result
<1>3. /\ Truthful(p, X, ans, app)
      /\ \A t \in InTree(p) : t \in InTree(r) /\ r.txn[t].status # "completed"
  BY PruneIsTruthful
<1>4. Grows(r, p) /\ p.txn = r.txn
  <2>1. p.txn = r.txn /\ p.puts = r.puts /\ p.wire = r.wire /\ p.connected = r.connected
    BY PruneFields DEF Truthful
  <2>. HIDE DEF p
  <2>. QED
    BY <2>1 DEF Grows
<1>. HIDE DEF p, kids
<1>5. (\A t \in InTree(r) : r.txn[t].status # "needsAbort") => Clean(p)
  <2>1. Shape(p) /\ Planted(p)
    BY <1>3 DEF Truthful
  <2>2. ASSUME NEW t \in InTree(p) PROVE p.txn[t].status \in Statuses \ {"none", "completed"}
    <3>1. t \in Txns
      BY <2>1, TreeOf
    <3>2. PICK n \in Paths : t \in Range(p.tree[n])
      BY DEF InTree
    <3>. QED
      BY <1>3, <1>4, <2>1, <3>1, <3>2 DEF Planted, Shape
  <2>. QED
    BY <1>3, <1>4, <2>2 DEF Clean, Statuses
<1>6. Keeps(p, result, X, ans, app)
  <2>1. CASE p.tree[Root] # <<>>
    BY <1>2, <1>3, <2>1, SendReadyKeeps DEF Paths
  <2>2. CASE p.tree[Root] = <<>>
    <3>1. \A i \in 0..Len(kids) : f[i] = IF i = 0 THEN p ELSE SendReadyAtNode(f[i - 1], kids[i])
      BY <1>1, Zenon DEF SentUnfolds
    <3>. DEFINE Good == {n \in Nat : n <= Len(kids) => Keeps(p, f[n], X, ans, app)}
    <3>2. 0 \in Good
      <4>1. f[0] = p
        BY <1>0, <3>1
      <4>. QED
        BY <1>3, <4>1, KeepsSelf
    <3>3. ASSUME NEW n \in Good, n \in Nat PROVE n + 1 \in Good
      <4>. SUFFICES ASSUME n + 1 <= Len(kids) PROVE Keeps(p, f[n + 1], X, ans, app)
        BY <3>3
      <4>1. Keeps(p, f[n], X, ans, app)
        BY <1>0, <3>3
      <4>2. f[n + 1] = SendReadyAtNode(f[n], kids[n + 1])
        BY <1>0, <3>1, <3>3
      <4>3. kids[n + 1] \in Paths
        BY <1>0, <3>3 DEF Paths
      <4>. HIDE DEF Good
      <4>4. Keeps(f[n], f[n + 1], X, ans, app)
        BY <4>1, <4>2, <4>3, SendReadyKeeps DEF Keeps
      <4>. QED
        BY <4>1, <4>4, KeepsTransitive
    <3>4. Len(kids) \in Good
      <4>. HIDE DEF Good
      <4>. QED
        BY <1>0, <3>2, <3>3, NumbersByInduction
    <3>5. Keeps(p, f[Len(kids)], X, ans, app)
      BY <1>0, <3>4
    <3>. QED
      BY <1>2, <2>2, <3>5
  <2>. QED
    BY <2>1, <2>2
<1>7. Truthful(result, X, ans, app) /\ Grows(r, result)
  BY <1>4, <1>6, GrowsTransitive DEF Keeps
<1>8. (\A t \in InTree(r) : r.txn[t].status # "needsAbort") => Clean(result)
  BY <1>5, <1>6 DEF Keeps
<1>. QED
  BY <1>7, <1>8 DEF result

-----------------------------------------------------------------------------
(* Running a queue again.                                                  *)

LEMMA RerunSame ==
    ASSUME NEW r, HasFields(r), NEW t \in Txns, NEW input, NEW excluded, NEW end
    PROVE  IsOp(Rerun(r, t, input, excluded, end)) /\ Same(r, Rerun(r, t, input, excluded, end).r)
<1>. DEFINE before == IF end = "no" THEN RunAgain(r, t, input, excluded) ELSE Quiet(r)
<1>1. Rerun(r, t, input, excluded, end)
        = IF end = "canceled" \/ r.txn[t].status \notin {"run", "needsAbort"} THEN Quiet(r)
          ELSE RevertUserWrite(before, t)
  BY DEF Rerun
<1>2. IsOp(Quiet(r)) /\ Same(r, Quiet(r).r)
  BY QuietSame, SameSelf
<1>3. IsOp(before) /\ Same(r, before.r)
  BY <1>2, RunAgainSame
<1>. HIDE DEF before
<1>4. IsOp(RevertUserWrite(before, t)) /\ Same(r, RevertUserWrite(before, t).r)
  BY <1>3, RevertSame, SameTransitive
<1>. QED
  BY <1>1, <1>2, <1>4

\* One transaction of the queue has run again or has ended.
OneRerun(r, s, t, X, ans, app) ==
    /\ Truthful(s, X, ans, app)
    /\ s.tree = r.tree /\ s.puts = r.puts /\ s.wire = r.wire /\ s.connected = r.connected
    /\ \A u \in Txns : u # t => s.txn[u].status = r.txn[u].status
    /\ s.txn[t].status # "needsAbort"

LEMMA MayEnd ==
    ASSUME NEW r, NEW X, NEW ans, NEW app, Truthful(r, X, ans, app),
           NEW t \in InTree(r), NEW input, Ending(r.txn[t], t, input) # "no"
    PROVE  MayComplete(r, X, {t}, Ending(r.txn[t], t, input), app)
<1>. DEFINE x == r.txn[t]
            end == Ending(x, t, input)
<1>1. Shape(r) /\ Planted(r) /\ Unsettled(r, ans, app)
  BY DEF Truthful
<1>2. t \in Txns
  BY <1>1, TreeOf
<1>3. \/ x.status = "needsAbort" /\ end = x.abort
      \/ x.status = "run" /\ end \in {"maxretry", "given up"}
  BY DEF Ending
<1>. HIDE DEF end
<1>4. PICK n \in Paths : t \in Range(r.tree[n])
  BY DEF InTree
<1>5. r.done[t] = <<>> /\ x.status # "none"
  BY <1>1, <1>3, <1>4 DEF Planted
<1>6. end \in Outcomes \ {"committed"} /\ (end \in Denials => NotApplied(r, app, t))
  <2>1. CASE x.status = "needsAbort"
    BY <1>1, <1>2, <1>3, <2>1 DEF Unsettled
  <2>2. CASE x.status = "run"
    BY <1>1, <1>2, <1>3, <2>2 DEF Unsettled, Outcomes
  <2>. QED
    BY <1>3, <2>1, <2>2
<1>7. ~ OnWay(r, t)
  BY <1>3 DEF OnWay
<1>8. \A p \in Live(r, X) : t \notin Range(p.owners)
  BY <1>7 DEF Truthful, Awaited
<1>9. MayComplete(r, X, {t}, end, app)
  <2>. HIDE DEF x
  <2>1. r.txn[t].status # "none"
    BY <1>5 DEF x
  <2>. QED
    BY <1>2, <1>5, <1>6, <1>7, <1>8, <2>1 DEF MayComplete
<1>. QED
  BY <1>9 DEF end

LEMMA RerunNextIsOne ==
    ASSUME NEW acc, NEW X, NEW ans, NEW app, Truthful(acc.r, X, ans, app),
           NEW t \in InTree(acc.r)
    PROVE  OneRerun(acc.r, RerunNext(acc, t).r, t, X, ans, app)
<1>. DEFINE r == acc.r
            input == LatestState(r, r.txn[t].path, acc.excluded)
            end == Ending(r.txn[t], t, input)
            op == Rerun(r, t, input, acc.excluded, end)
            u == IF acc.events THEN Raise(op) ELSE op.r
            s == IF end = "no" THEN u ELSE Complete(u, {t}, end)
<1>1. RerunNext(acc, t).r = s
  BY DEF RerunNext, RerunOn, AfterRerun
<1>2. Shape(r) /\ HasFields(r) /\ t \in Txns
  BY TreeOf DEF Truthful, Shape
<1>3. IsOp(op) /\ Same(r, op.r)
  <2>. HIDE DEF end, input
  <2>. QED
    BY <1>2, RerunSame
<1>4. Same(r, u)
  <2>. HIDE DEF op
  <2>1. Same(op.r, Raise(op))
    BY <1>3, RaiseSame DEF Raise, IsOp
  <2>. QED
    BY <1>3, <2>1, SameTransitive
<1>. HIDE DEF u, op
<1>5. Truthful(u, X, ans, app)
  BY <1>4, SameIsTruthful
<1>6. /\ u.tree = r.tree /\ u.puts = r.puts /\ u.wire = r.wire /\ u.connected = r.connected
      /\ u.done = r.done /\ HasFields(u)
      /\ \A v \in Txns : u.txn[v].status = r.txn[v].status
  BY <1>4 DEF Same
<1>7. CASE end = "no"
  <2>1. r.txn[t].status # "needsAbort"
    <3>1. r.txn[t].status = "needsAbort" => r.txn[t].abort \in Outcomes
      BY <1>2 DEF Truthful, Unsettled
    <3>. QED
      BY <1>7, <3>1 DEF Ending, Outcomes
  <2>. HIDE DEF end
  <2>. QED
    BY <1>1, <1>2, <1>5, <1>6, <1>7, <2>1 DEF OneRerun
<1>8. CASE end # "no"
  <2>1. MayComplete(r, X, {t}, end, app)
    <3>. HIDE DEF input
    <3>. QED
      BY <1>8, MayEnd
  <2>. HIDE DEF end
  <2>2. MayComplete(u, X, {t}, end, app)
    <3>1. Live(u, X) = Live(r, X) /\ Wired(u) = Wired(r)
      BY <1>6 DEF Live, Wired
    <3>2. NotApplied(r, app, t) => NotApplied(u, app, t)
      BY <3>1 DEF NotApplied
    <3>3. \A n \in Paths : Range(r.tree[n]) \subseteq Txns
      BY <1>2, TreeOf
    <3>. QED
      BY <1>2, <1>6, <2>1, <3>1, <3>2, <3>3 DEF MayComplete, OnWay
  <2>3. Truthful(Complete(u, {t}, end), X, ans, app)
    BY <1>5, <2>2, CompleteIsTruthful
  <2>4. /\ Complete(u, {t}, end).tree = u.tree
        /\ Complete(u, {t}, end).puts = u.puts
        /\ Complete(u, {t}, end).wire = u.wire
        /\ Complete(u, {t}, end).connected = u.connected
        /\ \A v \in Txns : Complete(u, {t}, end).txn[v].status
                             = IF v \in {t} THEN "completed" ELSE u.txn[v].status
    BY <1>6, CompleteFields
  <2>. QED
    BY <1>1, <1>2, <1>6, <1>8, <2>3, <2>4 DEF OneRerun
<1>. QED
  BY <1>7, <1>8

RerunUnfolds(f, start, queue, n) ==
    f = [i \in 0..n |-> IF i = 0 THEN start
                        ELSE RerunNext(f[i - 1], queue[i])]

LEMMA RerunExists ==
    ASSUME NEW start, NEW queue, NEW N \in Nat
    PROVE  \E f : RerunUnfolds(f, start, queue, N)
<1>. DEFINE Reach == {n \in Nat : \E f : RerunUnfolds(f, start, queue, n)}
<1>1. 0 \in Reach
  <2>. DEFINE f == [i \in 0..0 |-> start]
  <2>1. RerunUnfolds(f, start, queue, 0)
    BY DEF RerunUnfolds
  <2>. QED
    BY <2>1
<1>2. ASSUME NEW n \in Reach, n \in Nat PROVE n + 1 \in Reach
  <2>1. PICK f : RerunUnfolds(f, start, queue, n)
    BY <1>2
  <2>. DEFINE g == [i \in 0..(n + 1) |-> IF i <= n THEN f[i]
                                         ELSE RerunNext(f[i - 1], queue[i])]
  <2>2. \A i \in 0..(n + 1) : i # 0 => g[i - 1] = f[i - 1]
    BY <1>2
  <2>3. \A i \in 0..n : f[i] = IF i = 0 THEN start
                               ELSE RerunNext(f[i - 1], queue[i])
    BY <2>1, Zenon DEF RerunUnfolds
  <2>4. \A i \in 0..(n + 1) : g[i] = IF i = 0 THEN start
                                     ELSE RerunNext(g[i - 1], queue[i])
    BY <1>2, <2>2, <2>3
  <2>5. RerunUnfolds(g, start, queue, n + 1)
    <3>. HIDE DEF Reach
    <3>1. g = [i \in 0..(n + 1) |-> g[i]]
      OBVIOUS
    <3>. HIDE DEF g
    <3>. QED
      BY <2>4, <3>1, Zenon DEF RerunUnfolds
  <2>. QED
    BY <2>5
<1>3. N \in Reach
  <2>. HIDE DEF Reach
  <2>. QED
    BY <1>1, <1>2, NumbersByInduction
<1>. QED
  BY <1>3

\* The whole queue has run again or ended.
QueueRerun(r, s, T, X, ans, app) ==
    /\ Truthful(s, X, ans, app)
    /\ s.tree = r.tree /\ s.puts = r.puts /\ s.wire = r.wire /\ s.connected = r.connected
    /\ \A u \in Txns : u \notin T => s.txn[u].status = r.txn[u].status
    /\ \A t \in T : s.txn[t].status # "needsAbort"

LEMMA RerunEachIsTruthful ==
    ASSUME NEW r, NEW X, NEW ans, NEW app, Truthful(r, X, ans, app),
           NEW queue \in Seq(Txns), Range(queue) \subseteq InTree(r), NEW excluded
    PROVE  QueueRerun(r, RerunEach(r, queue, excluded), Range(queue), X, ans, app)
<1>. DEFINE start == [r |-> r, excluded |-> excluded, events |-> TRUE]
            f == CHOOSE g : RerunUnfolds(g, start, queue, Len(queue))
            Before(n) == {queue[i] : i \in 1..n}
<1>0. Len(queue) \in Nat /\ Range(queue) = Before(Len(queue)) /\ Range(queue) \subseteq Txns
  BY DEF Range
<1>1. RerunUnfolds(f, start, queue, Len(queue))
  BY <1>0, RerunExists, Zenon
<1>2. RerunEach(r, queue, excluded) = f[Len(queue)].r
  BY Zenon DEF RerunEach, RerunUnfolds, f, start
<1>3. start.r = r
  OBVIOUS
<1>. HIDE DEF f, start
<1>4. \A i \in 0..Len(queue) : f[i] = IF i = 0 THEN start ELSE RerunNext(f[i - 1], queue[i])
  BY <1>1, Zenon DEF RerunUnfolds
<1>. DEFINE Good == {n \in Nat : n <= Len(queue) => QueueRerun(r, f[n].r, Before(n), X, ans, app)}
<1>5. 0 \in Good
  <2>1. f[0].r = r
    BY <1>0, <1>3, <1>4
  <2>2. Before(0) = {}
    OBVIOUS
  <2>. QED
    BY <2>1, <2>2 DEF QueueRerun
<1>6. ASSUME NEW n \in Good, n \in Nat PROVE n + 1 \in Good
  <2>. SUFFICES ASSUME n + 1 <= Len(queue)
                PROVE  QueueRerun(r, f[n + 1].r, Before(n + 1), X, ans, app)
    BY <1>6
  <2>1. QueueRerun(r, f[n].r, Before(n), X, ans, app)
    BY <1>0, <1>6
  <2>2. f[n + 1] = RerunNext(f[n], queue[n + 1])
    BY <1>0, <1>4, <1>6
  <2>3. queue[n + 1] \in Range(queue)
    BY <1>0, <1>6 DEF Range
  <2>4. Before(n + 1) = Before(n) \cup {queue[n + 1]} /\ Before(n) \subseteq Txns
    BY <1>0, <1>6
  <2>. HIDE DEF Good, Before
  <2>5. queue[n + 1] \in InTree(f[n].r) /\ queue[n + 1] \in Txns
    BY <1>0, <2>1, <2>3 DEF QueueRerun, InTree
  <2>6. OneRerun(f[n].r, f[n + 1].r, queue[n + 1], X, ans, app)
    BY <2>1, <2>2, <2>5, RerunNextIsOne DEF QueueRerun
  <2>. QED
    BY <2>1, <2>4, <2>5, <2>6 DEF QueueRerun, OneRerun
<1>7. Len(queue) \in Good
  <2>. HIDE DEF Good
  <2>. QED
    BY <1>0, <1>5, <1>6, NumbersByInduction
<1>8. QueueRerun(r, f[Len(queue)].r, Before(Len(queue)), X, ans, app)
  BY <1>0, <1>7
<1>. HIDE DEF Before
<1>. QED
  BY <1>0, <1>2, <1>8

LEMMA RerunForPathKeeps ==
    ASSUME NEW r, NEW X, NEW ans, NEW app, Truthful(r, X, ans, app), NEW p \in Paths,
           \A t \in InTree(r) :
               /\ r.txn[t].status # "completed"
               /\ r.txn[t].status = "needsAbort" => r.txn[t].path \in Within(p)
    PROVE  /\ Truthful(RerunTransactionsForPath(r, p), X, ans, app)
           /\ Grows(r, RerunTransactionsForPath(r, p))
           /\ Clean(RerunTransactionsForPath(r, p))
<1>. DEFINE n == AncestorTransactionNode(r, p)
            queue == BuildTransactionQueue(r, n)
            s == RerunEach(r, queue, Range(queue))
            result == RerunTransactionsForPath(r, p)
<1>0. Shape(r) /\ Planted(r)
  BY DEF Truthful
<1>1. result = IF queue = <<>> THEN r ELSE SendAllReadyTransactions(s)
  BY Zenon DEF RerunTransactionsForPath, RerunTransactionQueue
<1>2. n \in Paths /\ (n = p \/ n = Root)
  BY DEF AncestorTransactionNode, Paths
<1>3. Within(p) \subseteq Within(n) /\ Within(n) \subseteq Paths
  BY <1>2 DEF Within, Under, Paths
<1>. HIDE DEF n, result
<1>4. queue \in Seq(Txns) /\ \A t : t \in Range(queue) <=> \E m \in Within(n) : t \in Range(r.tree[m])
  <2>1. queue \in Seq(Txns) /\ Range(queue) = Queued(r, n) \cap Txns
    BY QueueOf
  <2>2. \A m \in Within(n) : Range(r.tree[m]) \subseteq Txns
    BY <1>0, <1>3, TreeOf
  <2>3. Queued(r, n) = UNION {Range(r.tree[m]) : m \in Within(n)}
    BY DEF Queued, Within
  <2>. QED
    BY <2>1, <2>2, <2>3
<1>. HIDE DEF queue
<1>5. Range(queue) \subseteq InTree(r)
  BY <1>3, <1>4 DEF InTree
<1>6. ASSUME NEW t \in InTree(r), r.txn[t].status = "needsAbort" PROVE t \in Range(queue)
  <2>1. PICK m \in Paths : t \in Range(r.tree[m])
    BY DEF InTree
  <2>2. r.txn[t].path = m
    BY <1>0, <2>1 DEF Planted
  <2>. QED
    BY <1>3, <1>4, <1>6, <2>1, <2>2
<1>7. CASE queue = <<>>
  <2>1. Range(queue) = {}
    BY <1>7 DEF Range
  <2>2. ASSUME NEW t \in InTree(r) PROVE r.txn[t].status \in {"run", "sent", "sentNeedsAbort"}
    <3>1. PICK m \in Paths : t \in Range(r.tree[m])
      BY DEF InTree
    <3>2. t \in Txns
      BY <1>0, TreeOf
    <3>3. r.txn[t].status \in Statuses \ {"none", "completed", "needsAbort"}
      BY <1>0, <1>6, <2>1, <3>1, <3>2 DEF Planted, Shape
    <3>. QED
      BY <3>3 DEF Statuses
  <2>. QED
    BY <1>1, <1>7, <2>2, GrowsSelf DEF Clean, result
<1>8. CASE queue # <<>>
  <2>1. QueueRerun(r, s, Range(queue), X, ans, app)
    BY <1>4, <1>5, RerunEachIsTruthful
  <2>. HIDE DEF s
  <2>2. Truthful(s, X, ans, app) /\ Grows(r, s)
    BY <2>1 DEF QueueRerun, Grows
  <2>3. \A t \in InTree(s) : s.txn[t].status # "needsAbort"
    <3>1. InTree(s) = InTree(r) /\ InTree(r) \subseteq Txns
      BY <1>0, <2>1, TreeOf DEF QueueRerun, InTree
    <3>. QED
      BY <1>6, <2>1, <3>1 DEF QueueRerun
  <2>4. /\ Truthful(SendAllReadyTransactions(s), X, ans, app)
        /\ Grows(s, SendAllReadyTransactions(s))
        /\ Clean(SendAllReadyTransactions(s))
    BY <2>2, <2>3, SendAllKeeps
  <2>. QED
    BY <1>1, <1>8, <2>2, <2>4, GrowsTransitive DEF result
<1>. QED
  BY <1>7, <1>8 DEF result

-----------------------------------------------------------------------------
(* Aborting.                                                               *)

\* What an abort marks, and what it leaves in the queue.
Marked(r, n) == Those(r.tree[n], {t \in Txns : r.txn[t].status = "sent"})
Kept(r, n) == IF Marked(r, n) = <<>> THEN <<>> ELSE SubSeq(r.tree[n], 1, Len(Marked(r, n)))

\* In a queue the transactions on their way come first, so as many as were marked are
\* all on their way.
LEMMA KeptAreOnWay ==
    ASSUME NEW r, Shape(r), AheadOnWay(r), NEW n \in Paths
    PROVE  /\ Kept(r, n) \in Seq(Txns) /\ Range(Kept(r, n)) \subseteq Range(r.tree[n])
           /\ \A i \in DOMAIN Kept(r, n) : OnWay(r, Kept(r, n)[i])
           /\ \A t \in Range(Kept(r, n)) : OnWay(r, t)
           /\ \A t : t \in Range(Marked(r, n))
                       <=> t \in Range(r.tree[n]) /\ r.txn[t].status = "sent"
<1>. DEFINE sent == Marked(r, n)
            kept == Kept(r, n)
            queue == r.tree[n]
            T == {t \in Txns : r.txn[t].status = "sent"}
<1>a. sent = Those(queue, T)
  BY DEF Marked
<1>b. kept = IF sent = <<>> THEN <<>> ELSE SubSeq(queue, 1, Len(sent))
  BY DEF Kept
<1>. HIDE DEF sent, kept
<1>1. queue \in Seq(Txns) /\ Range(queue) \subseteq Txns /\ Len(queue) \in Nat
  BY TreeOf
<1>2. /\ sent \in Seq(Txns) /\ Range(sent) = Range(queue) \cap T
      /\ \A m \in Nat : (\A k \in DOMAIN queue : k > m => queue[k] \notin T) => Len(sent) <= m
  <2>. HIDE DEF queue, T
  <2>. QED
    BY <1>1, <1>a, ThoseFacts
<1>3. \A t : t \in Range(sent) <=> t \in Range(queue) /\ r.txn[t].status = "sent"
  BY <1>1, <1>2
<1>4. DOMAIN queue = 1..Len(queue) /\ Len(sent) \in Nat
  BY <1>1, <1>2
<1>5. Len(sent) <= Len(queue)
  <2>1. \A k \in DOMAIN queue : k > Len(queue) => queue[k] \notin T
    BY <1>1, <1>4
  <2>. QED
    BY <1>1, <1>2, <2>1
<1>6. ASSUME NEW i \in 1..Len(sent) PROVE OnWay(r, queue[i])
  <2>. SUFFICES ASSUME ~ OnWay(r, queue[i]) PROVE FALSE
    OBVIOUS
  <2>1. i \in DOMAIN queue /\ i - 1 \in Nat
    BY <1>1, <1>4, <1>5
  <2>2. ASSUME NEW k \in DOMAIN queue, k > i - 1 PROVE queue[k] \notin T
    <3>1. k = i \/ i < k
      BY <1>4, <2>2
    <3>2. ~ OnWay(r, queue[k])
      BY <2>1, <3>1 DEF AheadOnWay
    <3>. QED
      BY <3>2 DEF OnWay
  <2>3. Len(sent) <= i - 1
    BY <1>2, <2>1, <2>2
  <2>. QED
    BY <1>4, <2>3
<1>7. CASE sent = <<>>
  <2>1. kept = <<>>
    BY <1>7, <1>b
  <2>. HIDE DEF queue, T
  <2>2. <<>> \in Seq(Txns) /\ DOMAIN <<>> = {}
    OBVIOUS
  <2>3. kept \in Seq(Txns) /\ DOMAIN kept = {}
    BY <2>1, <2>2, Zenon
  <2>4. Range(kept) = {}
    BY <2>3 DEF Range
  <2>. QED
    BY <1>3, <2>3, <2>4 DEF queue, sent, kept
<1>8. CASE sent # <<>>
  <2>1. kept = SubSeq(queue, 1, Len(sent))
    BY <1>8, <1>b
  <2>. HIDE DEF queue, T
  <2>2. kept \in Seq(Txns) /\ Len(kept) = Len(sent) /\ \A i \in 1..Len(sent) : kept[i] = queue[i]
    <3>1. 1 \in Int /\ Len(sent) \in Int /\ \A i \in 1..Len(sent) : queue[i] \in Txns
      <4>1. \A i \in DOMAIN queue : queue[i] \in Txns
        BY TreeOf DEF queue
      <4>2. Len(queue) \in Nat /\ Len(sent) \in Nat /\ Len(sent) <= Len(queue)
        BY <1>1, <1>4, <1>5
      <4>3. \A i \in 1..Len(sent) : i \in DOMAIN queue
        BY <1>4, <4>2
      <4>. QED
        BY <4>1, <4>2, <4>3
    <3>2. kept \in Seq(Txns)
      BY <2>1, <3>1, SubSeqProperties
    <3>3. Len(kept) = IF 1 <= Len(sent) THEN Len(sent) - 1 + 1 ELSE 0
      BY <1>1, <2>1, <3>1, SubSeqProperties
    <3>4. \A i \in 1..(Len(sent) - 1 + 1) : kept[i] = queue[1 + i - 1]
      BY <1>1, <2>1, <3>1, SubSeqProperties
    <3>. QED
      BY <1>4, <3>2, <3>3, <3>4
  <2>3. DOMAIN kept = 1..Len(sent)
    BY <2>2
  <2>4. \A i \in DOMAIN kept : kept[i] = queue[i] /\ i \in DOMAIN queue
    BY <1>1, <1>4, <1>5, <2>2, <2>3
  <2>5. Range(kept) \subseteq Range(queue) /\ \A i \in DOMAIN kept : OnWay(r, kept[i])
    BY <1>6, <2>3, <2>4 DEF Range
  <2>6. \A t \in Range(kept) : OnWay(r, t)
    BY <2>5 DEF Range
  <2>. QED
    BY <1>3, <2>2, <2>5, <2>6 DEF queue, sent, kept
<1>. QED
  BY <1>7, <1>8

\* What an abort of the queue of n makes of the repository.
Aborted(r, s, n, error, aborted) ==
    /\ HasFields(s)
    /\ s.puts = r.puts /\ s.wire = r.wire /\ s.connected = r.connected
    /\ \A m \in Paths : s.tree[m] = IF m = n THEN Kept(r, n) ELSE r.tree[m]
    /\ \A t \in Txns :
         /\ s.txn[t].status = IF t \in Range(Marked(r, n)) THEN "sentNeedsAbort" ELSE r.txn[t].status
         /\ s.txn[t].abort = IF t \in Range(Marked(r, n)) THEN error ELSE r.txn[t].abort
         /\ s.txn[t].path = r.txn[t].path
         /\ s.done[t] = IF t \in Range(aborted) THEN Append(r.done[t], error) ELSE r.done[t]

LEMMA AbortFields ==
    ASSUME NEW r, Shape(r), NEW n \in Paths, NEW error
    PROVE  Aborted(r, AbortTransactionsAtNode(r, n, error), n, error, Unsent(r, r.tree[n]))
<1>. DEFINE sent == Marked(r, n)
            kept == Kept(r, n)
            aborted == Unsent(r, r.tree[n])
            u == Raise(RevertAborted(r, aborted, error))
            s == [u EXCEPT
                   !.txn = [t \in Txns |-> IF t \in Range(sent)
                              THEN [@[t] EXCEPT !.status = "sentNeedsAbort", !.abort = error]
                              ELSE @[t]],
                   !.done = [t \in Txns |-> IF t \in Range(aborted) THEN Append(@[t], error)
                                            ELSE @[t]],
                   !.tree[n] = kept]
<1>1. AbortTransactionsAtNode(r, n, error) = s
  BY Zenon DEF AbortTransactionsAtNode, Marked, Kept
<1>2. aborted \in Seq(Txns)
  <2>1. r.tree[n] \in Seq(Txns)
    BY TreeOf
  <2>. QED
    BY <2>1, ThoseOf DEF Unsent
<1>. HIDE DEF sent, kept, aborted
<1>3. Same(r, u)
  BY <1>2, RevertAbortedSame DEF Shape
<1>. HIDE DEF u
<1>4. /\ HasFields(u) /\ u.tree = r.tree /\ u.puts = r.puts /\ u.wire = r.wire
      /\ u.connected = r.connected /\ u.done = r.done
      /\ \A t \in Txns : /\ u.txn[t].status = r.txn[t].status
                         /\ u.txn[t].path = r.txn[t].path
                         /\ u.txn[t].abort = r.txn[t].abort
  BY <1>3 DEF Same
<1>5. /\ s.puts = u.puts /\ s.wire = u.wire /\ s.connected = u.connected
      /\ DOMAIN s = DOMAIN u
      /\ s.txn = [t \in Txns |-> IF t \in Range(sent)
                              THEN [u.txn[t] EXCEPT !.status = "sentNeedsAbort", !.abort = error]
                              ELSE u.txn[t]]
      /\ s.done = [t \in Txns |-> IF t \in Range(aborted) THEN Append(u.done[t], error)
                                  ELSE u.done[t]]
      /\ s.tree = [u.tree EXCEPT ![n] = kept]
  BY <1>4 DEF HasFields
<1>. HIDE DEF s
<1>6. HasFields(s)
  <2>1. {"txn", "tree", "puts", "wire", "connected", "done"} \subseteq DOMAIN s
    BY <1>4, <1>5 DEF HasFields
  <2>2. DOMAIN s.txn = Txns /\ DOMAIN s.done = Txns /\ DOMAIN s.tree = Paths
    BY <1>4, <1>5 DEF HasFields
  <2>3. ASSUME NEW t \in Txns PROVE {"status", "path", "abort"} \subseteq DOMAIN s.txn[t]
    <3>1. DOMAIN s.txn[t] = DOMAIN u.txn[t]
      <4>1. s.txn[t] = IF t \in Range(sent)
                       THEN [u.txn[t] EXCEPT !.status = "sentNeedsAbort", !.abort = error]
                       ELSE u.txn[t]
        BY <1>5
      <4>. QED
        BY <4>1
    <3>. QED
      BY <1>4, <3>1 DEF HasFields
  <2>. QED
    BY <2>1, <2>2, <2>3 DEF HasFields
<1>7. \A m \in Paths : s.tree[m] = IF m = n THEN kept ELSE r.tree[m]
  BY <1>4, <1>5 DEF HasFields
<1>8. ASSUME NEW t \in Txns
      PROVE  /\ s.txn[t].status = IF t \in Range(sent) THEN "sentNeedsAbort" ELSE r.txn[t].status
             /\ s.txn[t].abort = IF t \in Range(sent) THEN error ELSE r.txn[t].abort
             /\ s.txn[t].path = r.txn[t].path
             /\ s.done[t] = IF t \in Range(aborted) THEN Append(r.done[t], error) ELSE r.done[t]
  <2>1. s.txn[t] = IF t \in Range(sent)
                   THEN [u.txn[t] EXCEPT !.status = "sentNeedsAbort", !.abort = error]
                   ELSE u.txn[t]
    BY <1>5
  <2>2. s.done[t] = IF t \in Range(aborted) THEN Append(r.done[t], error) ELSE r.done[t]
    <3>1. s.done[t] = IF t \in Range(aborted) THEN Append(u.done[t], error) ELSE u.done[t]
      BY <1>5, Zenon
    <3>. QED
      BY <1>4, <3>1
  <2>3. {"status", "path", "abort"} \subseteq DOMAIN u.txn[t]
    BY <1>4 DEF HasFields
  <2>4. CASE t \in Range(sent)
    BY <1>4, <2>1, <2>2, <2>3, <2>4
  <2>5. CASE t \notin Range(sent)
    BY <1>4, <2>1, <2>2, <2>5
  <2>. QED
    BY <2>4, <2>5
<1>. QED
  BY <1>1, <1>4, <1>5, <1>6, <1>7, <1>8 DEF Aborted, sent, kept, aborted

LEMMA AbortAtNodeKeeps ==
    ASSUME NEW r, NEW X, NEW ans, NEW app, Truthful(r, X, ans, app), Clean(r),
           NEW n \in Paths, NEW error \in {"set", "canceled"}
    PROVE  /\ Truthful(AbortTransactionsAtNode(r, n, error), X, ans, app)
           /\ Clean(AbortTransactionsAtNode(r, n, error))
           /\ Grows(r, AbortTransactionsAtNode(r, n, error))
<1>. DEFINE s == AbortTransactionsAtNode(r, n, error)
            sent == Marked(r, n)
            aborted == Unsent(r, r.tree[n])
            kept == Kept(r, n)
<1>0. Shape(r) /\ Planted(r) /\ AheadOnWay(r) /\ ToldOnce(r) /\ Unsettled(r, ans, app)
  BY DEF Truthful
<1>1. Aborted(r, s, n, error, aborted)
  BY <1>0, AbortFields
<1>2. /\ kept \in Seq(Txns) /\ Range(kept) \subseteq Range(r.tree[n])
      /\ \A i \in DOMAIN kept : OnWay(r, kept[i])
      /\ \A t \in Range(kept) : OnWay(r, t)
      /\ \A t : t \in Range(sent) <=> t \in Range(r.tree[n]) /\ r.txn[t].status = "sent"
  BY <1>0, KeptAreOnWay
<1>3. \A t \in Range(aborted) :
         /\ t \in Range(r.tree[n]) /\ t \in Txns /\ ~ OnWay(r, t)
         /\ r.txn[t].status = "run" /\ t \in InTree(r)
         /\ r.done[t] = <<>> /\ NotApplied(r, app, t)
  <2>. SUFFICES ASSUME NEW t \in Range(aborted)
                PROVE  /\ t \in Range(r.tree[n]) /\ t \in Txns /\ ~ OnWay(r, t)
                       /\ r.txn[t].status = "run" /\ t \in InTree(r)
                       /\ r.done[t] = <<>> /\ NotApplied(r, app, t)
    BY Zenon
  <2>. DEFINE T == {v \in Txns : r.txn[v].status \notin {"sent", "sentNeedsAbort"}}
  <2>1. r.tree[n] \in Seq(Txns) /\ aborted = Those(r.tree[n], T)
    BY <1>0, TreeOf DEF Unsent
  <2>. HIDE DEF aborted, T
  <2>2. Range(aborted) = Range(r.tree[n]) \cap T
    BY <2>1, ThoseFacts
  <2>3. t \in Range(r.tree[n]) /\ t \in Txns /\ ~ OnWay(r, t)
    BY <2>2 DEF T, OnWay
  <2>4. t \in InTree(r)
    BY <2>3 DEF InTree
  <2>5. r.txn[t].status = "run"
    BY <2>3, <2>4 DEF Clean, OnWay
  <2>. QED
    BY <1>0, <2>3, <2>4, <2>5 DEF Planted, Unsettled
<1>. HIDE DEF s, sent, aborted, kept
<1>4. /\ HasFields(s)
      /\ s.puts = r.puts /\ s.wire = r.wire /\ s.connected = r.connected
      /\ \A m \in Paths : s.tree[m] = IF m = n THEN kept ELSE r.tree[m]
      /\ \A t \in Txns :
           /\ s.txn[t].status = IF t \in Range(sent) THEN "sentNeedsAbort" ELSE r.txn[t].status
           /\ s.txn[t].abort = IF t \in Range(sent) THEN error ELSE r.txn[t].abort
           /\ s.txn[t].path = r.txn[t].path
           /\ t \notin Range(aborted) => s.done[t] = r.done[t]
           /\ t \in Range(aborted) => s.done[t] = <<error>>
  <2>1. \A t \in Txns : s.done[t] = IF t \in Range(aborted) THEN Append(r.done[t], error)
                                    ELSE r.done[t]
    BY <1>1 DEF Aborted
  <2>2. \A t \in Range(aborted) : r.done[t] = <<>>
    BY <1>3
  <2>3. \A t \in Txns : /\ t \notin Range(aborted) => s.done[t] = r.done[t]
                        /\ t \in Range(aborted) => s.done[t] = <<error>>
    BY <2>1, <2>2, FirstEntry
  <2>. QED
    BY <1>1, <2>3 DEF Aborted, sent, kept
<1>5. /\ \A m \in Paths : Range(s.tree[m]) \subseteq Range(r.tree[m])
      /\ InTree(s) \subseteq InTree(r) /\ InTree(s) \subseteq Txns
      /\ \A t \in InTree(s) : t \notin Range(aborted)
  <2>1. \A m \in Paths : Range(s.tree[m]) \subseteq Range(r.tree[m])
    BY <1>2, <1>4
  <2>2. InTree(s) \subseteq InTree(r) /\ InTree(s) \subseteq Txns
    BY <1>0, <2>1, TreeOf DEF InTree
  <2>3. ASSUME NEW t \in InTree(s) PROVE t \notin Range(aborted)
    <3>1. PICK m \in Paths : t \in Range(s.tree[m])
      BY DEF InTree
    <3>2. CASE m = n
      BY <1>2, <1>3, <1>4, <3>1, <3>2
    <3>3. CASE m # n
      BY <1>0, <1>3, <2>1, <3>1, <3>3 DEF Planted
    <3>. QED
      BY <3>2, <3>3
  <2>. QED
    BY <2>1, <2>2, <2>3
<1>6. \A t \in Txns : OnWay(s, t) <=> OnWay(r, t)
  BY <1>2, <1>4 DEF OnWay
<1>7. Live(s, X) = Live(r, X) /\ Wired(s) = Wired(r)
  BY <1>4 DEF Live, Wired
<1>8. \A t : NotApplied(s, app, t) <=> NotApplied(r, app, t)
  BY <1>7 DEF NotApplied
<1>9. Shape(s)
  <2>1. \A m \in Paths : s.tree[m] \in Seq(Txns)
    BY <1>0, <1>2, <1>4, TreeOf
  <2>2. <<error>> \in Seq(Outcomes)
    <3>1. error \in Outcomes
      BY DEF Outcomes
    <3>. QED
      BY <3>1
  <2>3. \A t \in Txns : s.done[t] \in Seq(Outcomes)
    BY <1>0, <1>4, <2>2 DEF Shape
  <2>. QED
    BY <1>0, <1>4, <2>1, <2>3 DEF Shape, Statuses
<1>10. Planted(s)
  <2>. SUFFICES ASSUME NEW m \in Paths, NEW t \in Range(s.tree[m])
                PROVE  /\ s.txn[t].path = m /\ s.txn[t].status # "none"
                       /\ s.txn[t].status # "completed" => s.done[t] = <<>>
    BY DEF Planted
  <2>1. t \in InTree(s)
    BY DEF InTree
  <2>2. t \in Txns /\ t \notin Range(aborted) /\ t \in Range(r.tree[m])
    BY <1>5, <2>1
  <2>3. /\ r.txn[t].path = m /\ r.txn[t].status # "none"
        /\ r.txn[t].status # "completed" => r.done[t] = <<>>
    BY <1>0, <2>2 DEF Planted
  <2>4. r.txn[t].status # "completed"
    BY <1>5, <2>1 DEF Clean
  <2>. QED
    BY <1>4, <2>2, <2>3, <2>4
<1>11. AheadOnWay(s)
  <2>. SUFFICES ASSUME NEW m \in Paths, NEW i \in DOMAIN s.tree[m], NEW j \in DOMAIN s.tree[m],
                       i < j, OnWay(s, s.tree[m][j])
                PROVE  OnWay(s, s.tree[m][i])
    BY DEF AheadOnWay
  <2>1. s.tree[m] \in Seq(Txns)
    BY <1>9, TreeOf
  <2>2. s.tree[m][i] \in Txns /\ s.tree[m][j] \in Txns
    BY <2>1
  <2>3. CASE m = n
    BY <1>2, <1>4, <1>6, <2>2, <2>3
  <2>4. CASE m # n
    BY <1>0, <1>4, <1>6, <2>2, <2>4 DEF AheadOnWay
  <2>. QED
    BY <2>3, <2>4
<1>12. ToldOnce(s)
  <2>. SUFFICES ASSUME NEW t \in Txns
                PROVE  /\ Len(s.done[t]) <= 1
                       /\ s.txn[t].status = "none" => s.done[t] = <<>>
    BY DEF ToldOnce
  <2>1. CASE t \in Range(aborted)
    <3>1. Len(s.done[t]) = 1
      BY <1>4, <2>1, FirstEntry
    <3>2. s.txn[t].status # "none"
      BY <1>3, <1>4, <2>1
    <3>3. Len(s.done[t]) <= 1
      BY <3>1
    <3>. QED
      BY <3>2, <3>3
  <2>2. CASE t \notin Range(aborted)
    <3>1. s.done[t] = r.done[t] /\ (s.txn[t].status = "none" => r.txn[t].status = "none")
      BY <1>4, <2>2
    <3>. QED
      BY <1>0, <3>1 DEF ToldOnce
  <2>. QED
    BY <2>1, <2>2
<1>13. Unsettled(s, ans, app)
  <2>. SUFFICES ASSUME NEW t \in Txns
                PROVE  /\ s.txn[t].status = "none" => NotApplied(s, app, t) /\ Unanswered(ans, t)
                       /\ s.txn[t].status = "run" /\ t \in InTree(s)
                             => NotApplied(s, app, t) /\ Unanswered(ans, t)
                       /\ s.txn[t].status = "needsAbort" /\ t \in InTree(s)
                          /\ s.txn[t].abort \in Denials => NotApplied(s, app, t)
                       /\ Range(s.done[t]) \cap Denials # {} => NotApplied(s, app, t)
                       /\ s.done[t] = <<"committed">> => app[t] = 1
                       /\ s.txn[t].status = "needsAbort"
                             => s.txn[t].abort \in Outcomes \ {"committed"}
                       /\ s.txn[t].status = "sentNeedsAbort" => s.txn[t].abort \in {"set", "canceled"}
    BY DEF Unsettled
  <2>1. CASE t \in Range(aborted)
    <3>1. s.done[t] = <<error>> /\ NotApplied(s, app, t) /\ t \notin InTree(s)
      BY <1>3, <1>4, <1>5, <1>8, <2>1
    <3>2. s.txn[t].status = "run"
      BY <1>2, <1>3, <1>4, <2>1
    <3>. QED
      BY <3>1, <3>2
  <2>2. CASE t \notin Range(aborted)
    <3>1. s.done[t] = r.done[t] /\ (t \in InTree(s) => t \in InTree(r))
      BY <1>4, <1>5, <2>2
    <3>2. CASE t \in Range(sent)
      BY <1>0, <1>4, <1>8, <3>1, <3>2 DEF Unsettled
    <3>3. CASE t \notin Range(sent)
      BY <1>0, <1>4, <1>8, <3>1, <3>3 DEF Unsettled
    <3>. QED
      BY <3>2, <3>3
  <2>. QED
    BY <2>1, <2>2
<1>14. ASSUME NEW p \in Live(r, X) PROVE Awaited(s, p, ans, app)
  <2>1. Awaited(r, p, ans, app)
    BY DEF Truthful
  <2>2. Range(p.owners) \subseteq Txns
    BY <1>0, PutsOf
  <2>3. \A m \in Paths : Range(r.tree[m]) \subseteq Txns
    BY <1>0, TreeOf
  <2>4. \A t \in Range(p.owners) : t \notin Range(aborted)
    BY <1>3, <2>1 DEF Awaited
  <2>5. \A t \in Range(p.owners) :
           OnWay(s, t) /\ s.done[t] = <<>> /\ s.txn[t].path \in Within(p.path)
    BY <1>4, <1>6, <2>1, <2>2, <2>4 DEF Awaited
  <2>6. \A m \in Paths : \A t, u \in Range(s.tree[m]) :
           t \in Range(p.owners) /\ OnWay(s, u) => u \in Range(p.owners)
    BY <1>5, <1>6, <2>1, <2>3 DEF Awaited
  <2>. QED
    BY <1>7, <1>8, <2>1, <2>5, <2>6 DEF Awaited
<1>15. Apart(s.puts, X) /\ OnWire(s, ans, app)
  BY <1>4, <1>7 DEF Truthful, OnWire
<1>16. Clean(s)
  BY <1>4, <1>5 DEF Clean
<1>17. Grows(r, s)
  BY <1>4 DEF Grows
<1>18. Truthful(s, X, ans, app)
  BY <1>7, <1>9, <1>10, <1>11, <1>12, <1>13, <1>14, <1>15 DEF Truthful
<1>. QED
  BY <1>16, <1>17, <1>18 DEF s

AbortUnfolds(f, start, children, error, n) ==
    f = [i \in 0..n |-> IF i = 0 THEN start
                        ELSE AbortTransactionsAtNode(f[i - 1], children[i], error)]

LEMMA AbortExists ==
    ASSUME NEW start, NEW children, NEW error, NEW N \in Nat
    PROVE  \E f : AbortUnfolds(f, start, children, error, N)
<1>. DEFINE Reach == {n \in Nat : \E f : AbortUnfolds(f, start, children, error, n)}
<1>1. 0 \in Reach
  <2>. DEFINE f == [i \in 0..0 |-> start]
  <2>1. AbortUnfolds(f, start, children, error, 0)
    BY DEF AbortUnfolds
  <2>. QED
    BY <2>1
<1>2. ASSUME NEW n \in Reach, n \in Nat PROVE n + 1 \in Reach
  <2>1. PICK f : AbortUnfolds(f, start, children, error, n)
    BY <1>2
  <2>. DEFINE g == [i \in 0..(n + 1) |-> IF i <= n THEN f[i]
                                         ELSE AbortTransactionsAtNode(f[i - 1], children[i], error)]
  <2>2. \A i \in 0..(n + 1) : i # 0 => g[i - 1] = f[i - 1]
    BY <1>2
  <2>3. \A i \in 0..n : f[i] = IF i = 0 THEN start
                               ELSE AbortTransactionsAtNode(f[i - 1], children[i], error)
    BY <2>1, Zenon DEF AbortUnfolds
  <2>4. \A i \in 0..(n + 1) : g[i] = IF i = 0 THEN start
                                     ELSE AbortTransactionsAtNode(g[i - 1], children[i], error)
    BY <1>2, <2>2, <2>3
  <2>5. AbortUnfolds(g, start, children, error, n + 1)
    <3>. HIDE DEF Reach
    <3>1. g = [i \in 0..(n + 1) |-> g[i]]
      OBVIOUS
    <3>. HIDE DEF g
    <3>. QED
      BY <2>4, <3>1, Zenon DEF AbortUnfolds
  <2>. QED
    BY <2>5
<1>3. N \in Reach
  <2>. HIDE DEF Reach
  <2>. QED
    BY <1>1, <1>2, NumbersByInduction
<1>. QED
  BY <1>3

LEMMA AbortAtPathKeeps ==
    ASSUME NEW r, NEW X, NEW ans, NEW app, Truthful(r, X, ans, app), Clean(r),
           NEW p \in Paths, NEW error \in {"set", "canceled"},
           NEW order, p = Root => order \in Seq(Kids)
    PROVE  /\ Truthful(AbortTransactionsAtPath(r, p, error, order), X, ans, app)
           /\ Clean(AbortTransactionsAtPath(r, p, error, order))
           /\ Grows(r, AbortTransactionsAtPath(r, p, error, order))
<1>. DEFINE children == IF p = Root THEN Those(order, {k \in Kids : r.tree[k] # <<>>}) ELSE <<p>>
            start == AbortTransactionsAtNode(r, Root, error)
            f == CHOOSE g : AbortUnfolds(g, start, children, error, Len(children))
            s == f[Len(children)]
            result == AbortTransactionsAtPath(r, p, error, order)
            Fine(u) == Truthful(u, X, ans, app) /\ Clean(u) /\ Grows(r, u)
<1>0. children \in Seq(Paths)
  <2>1. CASE p = Root
    <3>1. children = Those(order, {k \in Kids : r.tree[k] # <<>>})
      BY <2>1
    <3>2. children \in Seq(Kids)
      BY <2>1, <3>1, ThoseOf
    <3>. HIDE DEF children
    <3>3. Kids \subseteq Paths
      BY DEF Paths
    <3>. QED
      BY <3>2, <3>3
  <2>2. CASE p # Root
    BY <2>2
  <2>. QED
    BY <2>1, <2>2
<1>1. Len(children) \in Nat
  BY <1>0
<1>2. AbortUnfolds(f, start, children, error, Len(children))
  <2>. HIDE DEF children, start
  <2>. QED
    BY <1>1, AbortExists, Zenon
<1>3. result = IF MutatedWhileEnumerated(r, children) THEN [s EXCEPT !.trap = "enumeration"] ELSE s
  BY Zenon DEF AbortTransactionsAtPath, AbortUnfolds, f, start, children
<1>4. Fine(start)
  <2>1. Root \in Paths
    BY DEF Paths
  <2>. QED
    BY <2>1, AbortAtNodeKeeps
<1>. HIDE DEF f, start, children, result
<1>5. \A i \in 0..Len(children) :
         f[i] = IF i = 0 THEN start ELSE AbortTransactionsAtNode(f[i - 1], children[i], error)
  BY <1>2, Zenon DEF AbortUnfolds
<1>. DEFINE Good == {n \in Nat : n <= Len(children) => Fine(f[n])}
<1>. HIDE DEF Fine
<1>6. 0 \in Good
  <2>1. f[0] = start
    BY <1>1, <1>5
  <2>. QED
    BY <1>4, <2>1
<1>7. ASSUME NEW n \in Good, n \in Nat PROVE n + 1 \in Good
  <2>. SUFFICES ASSUME n + 1 <= Len(children) PROVE Fine(f[n + 1])
    BY <1>7
  <2>1. Fine(f[n])
    BY <1>1, <1>7
  <2>2. f[n + 1] = AbortTransactionsAtNode(f[n], children[n + 1], error)
    BY <1>1, <1>5, <1>7
  <2>3. children[n + 1] \in Paths
    BY <1>0, <1>1, <1>7
  <2>. HIDE DEF Good
  <2>4. Truthful(f[n], X, ans, app) /\ Clean(f[n]) /\ Grows(r, f[n])
    BY <2>1 DEF Fine
  <2>5. /\ Truthful(f[n + 1], X, ans, app) /\ Clean(f[n + 1])
        /\ Grows(f[n], f[n + 1])
    BY <2>2, <2>3, <2>4, AbortAtNodeKeeps
  <2>. QED
    BY <2>4, <2>5, GrowsTransitive DEF Fine
<1>8. Len(children) \in Good
  <2>. HIDE DEF Good
  <2>. QED
    BY <1>1, <1>6, <1>7, NumbersByInduction
<1>9. Truthful(s, X, ans, app) /\ Clean(s) /\ Grows(r, s)
  BY <1>1, <1>8 DEF Fine
<1>. HIDE DEF s
<1>10. CASE ~ MutatedWhileEnumerated(r, children)
  BY <1>3, <1>9, <1>10 DEF result
<1>11. CASE MutatedWhileEnumerated(r, children)
  <2>. DEFINE u == [s EXCEPT !.trap = "enumeration"]
  <2>1. Same(s, u)
    <3>1. HasFields(s)
      BY <1>9 DEF Truthful, Shape
    <3>. QED
      BY <3>1 DEF Same, HasFields
  <2>2. result = u
    BY <1>3, <1>11
  <2>. HIDE DEF u
  <2>3. Truthful(u, X, ans, app)
    BY <1>9, <2>1, SameIsTruthful
  <2>4. InTree(s) \subseteq Txns
    BY <1>9, TreeOf DEF Truthful
  <2>5. Grows(s, u) /\ Clean(u)
    BY <1>9, <2>1, <2>4, SameGrows
  <2>. QED
    BY <1>9, <2>2, <2>3, <2>5, GrowsTransitive DEF result
<1>. QED
  BY <1>10, <1>11

-----------------------------------------------------------------------------
(* Answers.                                                                *)

\* The operation left the repository as it should be between the operations.
Holds(r, s, X, ans, app) == Truthful(s, X, ans, app) /\ Clean(s) /\ Grows(r, s)

LEMMA SameMayComplete ==
    ASSUME NEW r, Shape(r), NEW u, Same(r, u), NEW X, NEW T, NEW outcome, NEW app,
           MayComplete(r, X, T, outcome, app)
    PROVE  MayComplete(u, X, T, outcome, app)
<1>1. Live(u, X) = Live(r, X) /\ Wired(u) = Wired(r)
  BY DEF Same, Live, Wired
<1>2. \A t : NotApplied(r, app, t) => NotApplied(u, app, t)
  BY <1>1 DEF NotApplied
<1>3. \A n \in Paths : Range(r.tree[n]) \subseteq Txns
  BY TreeOf
<1>. QED
  BY <1>1, <1>2, <1>3 DEF Same, MayComplete, OnWay

LEMMA CleanRerunHolds ==
    ASSUME NEW r, NEW X, NEW ans, NEW app, Truthful(r, X, ans, app), Clean(r), NEW p \in Paths
    PROVE  Holds(r, RerunTransactionsForPath(r, p), X, ans, app)
<1>1. \A t \in InTree(r) :
         /\ r.txn[t].status # "completed"
         /\ r.txn[t].status = "needsAbort" => r.txn[t].path \in Within(p)
  BY DEF Clean
<1>. QED
  BY <1>1, RerunForPathKeeps DEF Holds

LEMMA SameHolds ==
    ASSUME NEW r, NEW s, NEW u, NEW X, NEW ans, NEW app, Holds(r, s, X, ans, app), Same(s, u)
    PROVE  Holds(r, u, X, ans, app)
<1>1. Truthful(s, X, ans, app) /\ Clean(s) /\ Grows(r, s) /\ InTree(s) \subseteq Txns
  BY TreeOf DEF Holds, Truthful
<1>2. Truthful(u, X, ans, app)
  BY <1>1, SameIsTruthful
<1>3. Clean(u) /\ Grows(s, u)
  BY <1>1, SameGrows
<1>. QED
  BY <1>1, <1>2, <1>3, GrowsTransitive DEF Holds

LEMMA RaisedHolds ==
    ASSUME NEW r, NEW s, NEW X, NEW ans, NEW app, Holds(r, s, X, ans, app), NEW events
    PROVE  Holds(r, RaiseEvents(s, events), X, ans, app)
<1>1. HasFields(s)
  BY DEF Holds, Truthful, Shape
<1>2. Same(s, RaiseEvents(s, events))
  BY <1>1, RaiseSame
<1>. QED
  BY <1>2, SameHolds

LEMMA HoldsTransitive ==
    ASSUME NEW r, NEW s, NEW u, NEW X, NEW ans, NEW app, Grows(r, s), Holds(s, u, X, ans, app)
    PROVE  Holds(r, u, X, ans, app)
  BY GrowsTransitive DEF Holds

LEMMA RerunAndRaiseHolds ==
    ASSUME NEW op, NEW r, NEW X, NEW ans, NEW app, Truthful(r, X, ans, app), Clean(r),
           Same(r, op.r), NEW p \in Paths
    PROVE  Holds(r, RerunAndRaise(op, p), X, ans, app)
<1>1. Holds(r, r, X, ans, app)
  BY GrowsSelf DEF Holds
<1>2. Holds(r, op.r, X, ans, app)
  BY <1>1, SameHolds
<1>3. Holds(r, RerunTransactionsForPath(op.r, p), X, ans, app)
  <2>1. Holds(op.r, RerunTransactionsForPath(op.r, p), X, ans, app)
    BY <1>2, CleanRerunHolds DEF Holds
  <2>. QED
    BY <1>2, <2>1, HoldsTransitive DEF Holds
<1>. DEFINE s == IF op.events = <<>> THEN op.r ELSE RerunTransactionsForPath(op.r, p)
<1>4. Holds(r, s, X, ans, app)
  BY <1>2, <1>3
<1>5. RerunAndRaise(op, p) = RaiseEvents(s, op.events)
  BY DEF RerunAndRaise
<1>. HIDE DEF s
<1>. QED
  BY <1>4, <1>5, RaisedHolds

LEMMA AckWriteHolds ==
    ASSUME NEW r, NEW X, NEW ans, NEW app, Truthful(r, X, ans, app), Clean(r),
           NEW s, NEW p \in Paths, NEW status
    PROVE  Holds(r, AckWrite(r, s, p, status), X, ans, app)
<1>. DEFINE op == AckUserWrite(Quiet(r), s, status # "ok")
<1>1. AckWrite(r, s, p, status) = IF status = "canceled" THEN r ELSE RerunAndRaise(op, p)
  BY DEF AckWrite
<1>2. HasFields(r)
  BY DEF Truthful, Shape
<1>3. Same(r, op.r)
  <2>1. IsOp(Quiet(r)) /\ Quiet(r).r = r
    BY <1>2, QuietSame
  <2>. QED
    BY <2>1, AckSame
<1>. HIDE DEF op
<1>4. Holds(r, r, X, ans, app)
  BY GrowsSelf DEF Holds
<1>5. Holds(r, RerunAndRaise(op, p), X, ans, app)
  BY <1>3, RerunAndRaiseHolds
<1>. QED
  BY <1>1, <1>4, <1>5

\* A put of transactions may be answered with this status.
Answerable(r, X, put, status, ans, app) ==
    /\ put.owners \in Seq(Txns) /\ put.path \in Paths
    /\ \A t \in Range(put.owners) :
          OnWay(r, t) /\ r.done[t] = <<>> /\ r.txn[t].path \in Within(put.path)
    /\ \A n \in Paths : \A t, u \in Range(r.tree[n]) :
          t \in Range(put.owners) /\ OnWay(r, u) => u \in Range(put.owners)
    /\ \A p \in Live(r, X) : Range(put.owners) \cap Range(p.owners) = {}
    /\ status \in {"ok", "datastale", "permission_denied", "disconnect", "canceled"}
    /\ status = "ok" => \A t \in Range(put.owners) : app[t] = 1
    /\ status \in {"datastale", "permission_denied"}
          => \A t \in Range(put.owners) : NotApplied(r, app, t)
    /\ status = "datastale" => \A t \in Range(put.owners) : Unanswered(ans, t)

LEMMA CommittedHolds ==
    ASSUME NEW r, NEW X, NEW ans, NEW app, Truthful(r, X, ans, app), Clean(r),
           NEW put, Answerable(r, X, put, "ok", ans, app)
    PROVE  Holds(r, Committed(AckUserWrites(r, put.owners, FALSE), put.owners).r, X, ans, app)
<1>. DEFINE O == Range(put.owners)
            op == AckUserWrites(r, put.owners, FALSE)
            s == Complete(op.r, O, "committed")
            u == SendAllReadyTransactions(s)
<1>0. Shape(r) /\ HasFields(r) /\ put.owners \in Seq(Txns) /\ O \subseteq Txns
  BY DEF Truthful, Shape, Answerable, Range
<1>1. IsOp(op) /\ Same(r, op.r)
  BY <1>0, AckAllSame
<1>2. Committed(op, put.owners).r = u
  BY <1>1 DEF Committed, IsOp
<1>. HIDE DEF op
<1>3. MayComplete(r, X, O, "committed", app)
  <2>1. \A t \in O : r.done[t] = <<>> /\ r.txn[t].status # "none" /\ app[t] = 1
    BY DEF Answerable, OnWay
  <2>2. \A p \in Live(r, X) : O \cap Range(p.owners) = {}
    BY DEF Answerable
  <2>3. \A n \in Paths : \A t, v \in Range(r.tree[n]) :
           t \in O /\ OnWay(r, t) /\ OnWay(r, v) => v \in O
    BY DEF Answerable
  <2>4. "committed" \in Outcomes /\ "committed" \notin Denials
    BY DEF Outcomes, Denials
  <2>. HIDE DEF O
  <2>. QED
    BY <1>0, <2>1, <2>2, <2>3, <2>4 DEF MayComplete
<1>. HIDE DEF O
<1>4. Truthful(op.r, X, ans, app) /\ HasFields(op.r)
  BY <1>1, SameIsTruthful DEF IsOp
<1>5. MayComplete(op.r, X, O, "committed", app)
  BY <1>0, <1>1, <1>3, SameMayComplete
<1>6. Truthful(s, X, ans, app)
  BY <1>4, <1>5, CompleteIsTruthful
<1>7. /\ s.tree = op.r.tree /\ s.puts = op.r.puts /\ s.wire = op.r.wire
      /\ s.connected = op.r.connected
      /\ \A t \in Txns : s.txn[t].status = IF t \in O THEN "completed" ELSE op.r.txn[t].status
  BY <1>4, CompleteFields
<1>. HIDE DEF s
<1>8. Grows(r, s)
  BY <1>1, <1>7 DEF Same, Grows
<1>9. \A t \in InTree(s) : s.txn[t].status # "needsAbort"
  <2>1. InTree(s) = InTree(r) /\ InTree(r) \subseteq Txns
    BY <1>0, <1>1, <1>7, TreeOf DEF Same, InTree
  <2>. QED
    BY <1>1, <1>7, <2>1 DEF Same, Clean
<1>10. Truthful(u, X, ans, app) /\ Clean(u) /\ Grows(s, u)
  BY <1>6, <1>9, SendAllKeeps
<1>. HIDE DEF u
<1>11. Holds(r, u, X, ans, app)
  BY <1>8, <1>10, GrowsTransitive DEF Holds
<1>. QED
  BY <1>2, <1>11 DEF op

LEMMA TransactionAnsweredHolds ==
    ASSUME NEW r, NEW X, NEW ans, NEW app, Truthful(r, X, ans, app), Clean(r),
           NEW put, NEW status, Answerable(r, X, put, status, ans, app)
    PROVE  Holds(r, TransactionAnswered(r, put.owners, put.path, status), X, ans, app)
<1>. DEFINE op == IF status = "ok"
                  THEN Committed(AckUserWrites(r, put.owners, FALSE), put.owners)
                  ELSE Quiet(Refused(r, put.owners, status))
            s == RerunTransactionsForPath(op.r, put.path)
<1>1. TransactionAnswered(r, put.owners, put.path, status) = RaiseEvents(s, op.events)
  BY Zenon DEF TransactionAnswered
<1>2. put.path \in Paths
  BY DEF Answerable
<1>3. CASE status = "ok"
  <2>1. Holds(r, op.r, X, ans, app)
    BY <1>3, CommittedHolds
  <2>. HIDE DEF op
  <2>2. Holds(op.r, s, X, ans, app)
    BY <1>2, <2>1, CleanRerunHolds DEF Holds
  <2>. HIDE DEF s
  <2>3. Holds(r, s, X, ans, app)
    BY <2>1, <2>2, HoldsTransitive DEF Holds
  <2>. QED
    BY <1>1, <2>3, RaisedHolds
<1>4. CASE status # "ok"
  <2>. DEFINE v == Refused(r, put.owners, status)
              O == Range(put.owners)
  <2>0. Shape(r) /\ HasFields(r) /\ O \subseteq Txns
    BY DEF Truthful, Shape, Answerable, Range
  <2>1. op.r = v
    BY <1>4 DEF Quiet
  <2>. HIDE DEF op
  <2>2. MayRefuse(r, X, O, status, ans, app)
    <3>. HIDE DEF O
    <3>. QED
      BY <1>4, <2>0 DEF Answerable, MayRefuse, O
  <2>3. Truthful(v, X, ans, app)
    BY <2>2, RefusedIsTruthful
  <2>4. /\ v.tree = r.tree /\ v.puts = r.puts /\ v.wire = r.wire /\ v.connected = r.connected
        /\ \A t \in Txns : /\ t \notin O => v.txn[t].status = r.txn[t].status
                           /\ t \in O => v.txn[t].status \in {"needsAbort", "run"}
                           /\ v.txn[t].path = r.txn[t].path
    BY <2>0, RefusedFields
  <2>. HIDE DEF v, O
  <2>5. Grows(r, v)
    BY <2>4 DEF Grows
  <2>6. \A t \in InTree(v) :
           /\ v.txn[t].status # "completed"
           /\ v.txn[t].status = "needsAbort" => v.txn[t].path \in Within(put.path)
    <3>1. InTree(v) = InTree(r) /\ InTree(r) \subseteq Txns
      BY <2>0, <2>4, TreeOf DEF InTree
    <3>2. \A t \in O : r.txn[t].path \in Within(put.path)
      BY DEF Answerable, O
    <3>. QED
      BY <2>4, <3>1, <3>2 DEF Clean
  <2>7. Holds(v, s, X, ans, app)
    BY <1>2, <2>1, <2>3, <2>6, RerunForPathKeeps DEF Holds
  <2>. HIDE DEF s
  <2>8. Holds(r, s, X, ans, app)
    BY <2>5, <2>7, HoldsTransitive
  <2>. QED
    BY <1>1, <2>8, RaisedHolds
<1>. QED
  BY <1>3, <1>4

LEMMA PutAnsweredHolds ==
    ASSUME NEW r, NEW X, NEW ans, NEW app, Truthful(r, X, ans, app), Clean(r),
           NEW put, IsPut(put), NEW status,
           OfTxns(put) => Answerable(r, X, put, status, ans, app)
    PROVE  Holds(r, PutAnswered(r, put, status), X, ans, app)
<1>1. PutAnswered(r, put, status)
        = IF put.hash = NoHash THEN AckWrite(r, put.owners[1], put.path, status)
          ELSE TransactionAnswered(r, put.owners, put.path, status)
  BY DEF PutAnswered
<1>2. put.path \in Paths
  BY DEF IsPut
<1>3. CASE put.hash = NoHash
  BY <1>1, <1>2, <1>3, AckWriteHolds
<1>4. CASE put.hash # NoHash
  BY <1>1, <1>4, TransactionAnsweredHolds DEF OfTxns
<1>. QED
  BY <1>3, <1>4

LEMMA FewerAnswers ==
    ASSUME NEW r, NEW X, NEW ans, NEW app, Truthful(r, X, ans, app), NEW few, few \subseteq ans
    PROVE  Truthful(r, X, few, app)
<1>1. \A t : Unanswered(ans, t) => Unanswered(few, t)
  BY DEF Unanswered
<1>2. Unsettled(r, few, app)
  BY <1>1 DEF Truthful, Unsettled
<1>3. \A p \in Live(r, X) : Awaited(r, p, few, app)
  BY <1>1 DEF Truthful, Awaited
<1>4. OnWire(r, few, app)
  BY <1>1 DEF Truthful, OnWire
<1>. QED
  BY <1>2, <1>3, <1>4 DEF Truthful

LEMMA Counted ==
    ASSUME NEW T, IsFiniteSet(T), NEW order \in SetToSeqs(T)
    PROVE  /\ order \in Seq(T) /\ Range(order) = T
           /\ \A i, j \in DOMAIN order : i # j => order[i] # order[j]
<1>. DEFINE n == Cardinality(T)
<1>1. order \in [1..n -> T] /\ \A i, j \in 1..n : i # j => order[i] # order[j]
  BY DEF SetToSeqs
<1>2. n \in Nat
  BY FS_CardinalityType
<1>. HIDE DEF n
<1>3. order \in Seq(T) /\ DOMAIN order = 1..n
  BY <1>1, <1>2
<1>4. order \in Injection(1..n, T)
  BY <1>1 DEF Injection, IsInjective
<1>5. IsFiniteSet(1..n) /\ Cardinality(1..n) = n
  <2>1. 1 \in Int /\ n \in Int
    BY <1>2
  <2>2. Cardinality(1..n) = IF 1 > n THEN 0 ELSE n - 1 + 1
    BY <2>1, FS_Interval
  <2>. QED
    BY <1>2, <2>1, <2>2, FS_Interval
<1>6. order \in Surjection(1..n, T)
  <2>1. Cardinality(1..n) = Cardinality(T)
    BY <1>5 DEF n
  <2>. QED
    BY <1>4, <2>1, FS_Injection
<1>7. Range(order) = T
  BY <1>3, <1>6 DEF Surjection, Range
<1>. QED
  BY <1>1, <1>3, <1>7

LEMMA RangeIsFinite ==
    ASSUME NEW S, NEW s \in Seq(S)
    PROVE  IsFiniteSet(Range(s))
<1>1. Len(s) \in Nat /\ DOMAIN s = 1..Len(s)
  OBVIOUS
<1>2. s \in Surjection(1..Len(s), Range(s))
  BY <1>1 DEF Surjection, Range
<1>3. ExistsSurjection(1..Len(s), Range(s))
  BY <1>2 DEF ExistsSurjection
<1>. QED
  BY <1>1, <1>3, FS_NatSurjection

-----------------------------------------------------------------------------
(* The invariant of the state.                                             *)

Answers(q) == {m \in Range(q) : m.type = "answer"}

\* No two answers are for one transaction.
GoodReplies(q) ==
    /\ q \in Seq(Range(q))
    /\ \A m \in Range(q) :
          /\ m.type = "data" => m.path \in Paths
          /\ m.type = "answer" => /\ m.owner \in Txns \cup Sets
                                  /\ m.status \in {"ok", "datastale", "permission_denied"}
    /\ \A i, j \in DOMAIN q :
          /\ i # j /\ q[i].type = "answer" /\ q[j].type = "answer" /\ q[i].owner \in Txns
          => q[i].owner # q[j].owner

\* Without a connection nothing is on its way.
CutOff(r, q) ==
    ~ r.connected => /\ r.wire = <<>> /\ q = <<>>
                     /\ \A p \in Live(r, {}) : ~ p.sent

IInv ==
    /\ Truthful(client, {}, Answers(replies), applied)
    /\ Clean(client)
    /\ CutOff(client, replies)
    /\ GoodReplies(replies)
    /\ applied \in [Txns -> {0, 1}]
    /\ "sets" \in DOMAIN left /\ left.sets \subseteq Sets

LEMMA GrowsIsCutOff ==
    ASSUME NEW r, NEW s, NEW q, NEW qq, Grows(r, s), CutOff(r, q), q = <<>> => qq = <<>>
    PROVE  CutOff(s, qq)
<1>. SUFFICES ASSUME ~ s.connected
              PROVE  s.wire = <<>> /\ qq = <<>> /\ \A p \in Live(s, {}) : ~ p.sent
  BY DEF CutOff
<1>1. ~ r.connected /\ r.wire = <<>> /\ q = <<>> /\ s.wire = r.wire
  BY DEF Grows, CutOff
<1>2. ASSUME NEW p \in Live(s, {}) PROVE ~ p.sent
  <2>1. CASE p \in Range(r.puts)
    BY <1>1, <1>2, <2>1 DEF Live, CutOff
  <2>2. CASE p \notin Range(r.puts)
    BY <1>1, <1>2, <2>2 DEF Live, Grows
  <2>. QED
    BY <2>1, <2>2
<1>. QED
  BY <1>1, <1>2

\* A step of the client alone.
LEMMA HoldsKeepsInv ==
    ASSUME IInv, Holds(client, client', {}, Answers(replies), applied),
           UNCHANGED <<replies, applied>>, "sets" \in DOMAIN left' /\ left'.sets \subseteq Sets
    PROVE  IInv'
<1>1. Truthful(client', {}, Answers(replies'), applied') /\ Clean(client')
  BY DEF Holds
<1>2. CutOff(client', replies')
  BY GrowsIsCutOff DEF Holds, IInv
<1>3. GoodReplies(replies') /\ applied' \in [Txns -> {0, 1}]
  BY DEF IInv
<1>. QED
  BY <1>1, <1>2, <1>3 DEF IInv

-----------------------------------------------------------------------------
(* A transaction is started.                                               *)

Queue(r, t, p) == [r EXCEPT !.txn[t] = [status |-> "run", path |-> p, retries |-> 0,
                                         output |-> Block(t, LatestState(r, p, {})), abort |-> "no",
                                         blind |-> FALSE, shadowed |-> FALSE],
                             !.tree[p] = Append(@, t)]

LEMMA QueueFields ==
    ASSUME NEW r, HasFields(r), NEW t \in Txns, NEW p \in Paths
    PROVE  /\ HasFields(Queue(r, t, p))
           /\ Queue(r, t, p).puts = r.puts /\ Queue(r, t, p).wire = r.wire
           /\ Queue(r, t, p).connected = r.connected /\ Queue(r, t, p).done = r.done
           /\ \A n \in Paths : Queue(r, t, p).tree[n] = IF n = p THEN Append(r.tree[p], t)
                                                        ELSE r.tree[n]
           /\ Queue(r, t, p).txn[t].status = "run" /\ Queue(r, t, p).txn[t].path = p
           /\ Queue(r, t, p).txn[t].abort = "no"
           /\ \A u \in Txns : u # t => Queue(r, t, p).txn[u] = r.txn[u]
<1>. DEFINE x == [status |-> "run", path |-> p, retries |-> 0,
                  output |-> Block(t, LatestState(r, p, {})), abort |-> "no",
                  blind |-> FALSE, shadowed |-> FALSE]
            s == Queue(r, t, p)
<1>1. s = [r EXCEPT !.txn[t] = x, !.tree[p] = Append(@, t)]
  BY DEF Queue
<1>2. x.status = "run" /\ x.path = p /\ x.abort = "no" /\ {"status", "path", "abort"} \subseteq DOMAIN x
  OBVIOUS
<1>. HIDE DEF x, s
<1>3. /\ DOMAIN s = DOMAIN r /\ s.puts = r.puts /\ s.wire = r.wire
      /\ s.connected = r.connected /\ s.done = r.done
      /\ s.txn = [r.txn EXCEPT ![t] = x]
      /\ s.tree = [r.tree EXCEPT ![p] = Append(r.tree[p], t)]
  BY <1>1 DEF HasFields
<1>4. s.txn[t] = x /\ \A u \in Txns : u # t => s.txn[u] = r.txn[u]
  BY <1>3 DEF HasFields
<1>5. \A n \in Paths : s.tree[n] = IF n = p THEN Append(r.tree[p], t) ELSE r.tree[n]
  BY <1>3 DEF HasFields
<1>6. HasFields(s)
  <2>1. DOMAIN s.txn = Txns /\ DOMAIN s.tree = Paths /\ DOMAIN s.done = Txns
    BY <1>3 DEF HasFields
  <2>2. \A u \in Txns : {"status", "path", "abort"} \subseteq DOMAIN s.txn[u]
    BY <1>2, <1>4 DEF HasFields
  <2>. QED
    BY <1>3, <2>1, <2>2 DEF HasFields
<1>. QED
  BY <1>2, <1>3, <1>4, <1>5, <1>6 DEF s

LEMMA QueueIsTruthful ==
    ASSUME NEW r, NEW X, NEW ans, NEW app, Truthful(r, X, ans, app), Clean(r),
           NEW t \in Txns, r.txn[t].status = "none", NEW p \in Paths
    PROVE  Truthful(Queue(r, t, p), X, ans, app) /\ Clean(Queue(r, t, p)) /\ Grows(r, Queue(r, t, p))
<1>. DEFINE s == Queue(r, t, p)
<1>0. Shape(r) /\ Planted(r) /\ AheadOnWay(r) /\ ToldOnce(r) /\ Unsettled(r, ans, app)
  BY DEF Truthful
<1>1. /\ HasFields(s)
      /\ s.puts = r.puts /\ s.wire = r.wire
      /\ s.connected = r.connected /\ s.done = r.done
      /\ \A n \in Paths : s.tree[n] = IF n = p THEN Append(r.tree[p], t) ELSE r.tree[n]
      /\ s.txn[t].status = "run" /\ s.txn[t].path = p /\ s.txn[t].abort = "no"
      /\ \A u \in Txns : u # t => s.txn[u] = r.txn[u]
  BY <1>0, QueueFields DEF Shape
<1>. HIDE DEF s
<1>2. /\ Append(r.tree[p], t) \in Seq(Txns)
      /\ Range(Append(r.tree[p], t)) = Range(r.tree[p]) \cup {t}
      /\ Len(r.tree[p]) \in Nat /\ DOMAIN r.tree[p] = 1..Len(r.tree[p])
      /\ DOMAIN Append(r.tree[p], t) = 1..(Len(r.tree[p]) + 1)
      /\ Append(r.tree[p], t)[Len(r.tree[p]) + 1] = t
      /\ \A i \in 1..Len(r.tree[p]) : Append(r.tree[p], t)[i] = r.tree[p][i]
  <2>1. r.tree[p] \in Seq(Txns)
    BY <1>0, TreeOf
  <2>. DEFINE q == r.tree[p]
  <2>2. q \in Seq(Txns)
    BY <2>1
  <2>. HIDE DEF q
  <2>3. /\ Append(q, t) \in Seq(Txns)
        /\ Len(q) \in Nat /\ DOMAIN q = 1..Len(q)
        /\ DOMAIN Append(q, t) = 1..(Len(q) + 1)
        /\ Append(q, t)[Len(q) + 1] = t
        /\ \A i \in 1..Len(q) : Append(q, t)[i] = q[i]
    BY <2>2
  <2>4. Range(Append(q, t)) = Range(q) \cup {t}
    BY <2>2, RangeOfAppended
  <2>. QED
    BY <2>3, <2>4 DEF q
<1>3. \A n \in Paths : Range(s.tree[n]) = Range(r.tree[n]) \cup (IF n = p THEN {t} ELSE {})
  BY <1>1, <1>2
<1>4. InTree(s) = InTree(r) \cup {t} /\ InTree(r) \subseteq Txns
  <2>1. \A u : u \in InTree(s) <=> \E n \in Paths : u \in Range(s.tree[n])
    BY DEF InTree
  <2>2. \A u : u \in InTree(r) <=> \E n \in Paths : u \in Range(r.tree[n])
    BY DEF InTree
  <2>3. \A u : u \in InTree(s) <=> u \in InTree(r) \/ u = t
    BY <1>3, <2>1, <2>2
  <2>. QED
    BY <1>0, <2>3, TreeOf
<1>5. t \notin InTree(r) /\ ~ OnWay(r, t) /\ ~ OnWay(s, t)
  <2>1. t \notin InTree(r)
    BY DEF Clean
  <2>. QED
    BY <1>1, <2>1 DEF OnWay
<1>6. \A u \in Txns : OnWay(s, u) <=> OnWay(r, u)
  BY <1>1, <1>5 DEF OnWay
<1>7. Live(s, X) = Live(r, X) /\ Wired(s) = Wired(r)
  BY <1>1 DEF Live, Wired
<1>8. \A u : NotApplied(s, app, u) <=> NotApplied(r, app, u)
  BY <1>7 DEF NotApplied
<1>9. Shape(s)
  <2>1. \A n \in Paths : s.tree[n] \in Seq(Txns)
    BY <1>0, <1>1, <1>2, TreeOf
  <2>2. ASSUME NEW u \in Txns PROVE s.txn[u].status \in Statuses /\ s.txn[u].path \in Paths
    BY <1>0, <1>1 DEF Shape, Statuses
  <2>. QED
    BY <1>0, <1>1, <2>1, <2>2 DEF Shape
<1>10. Planted(s)
  <2>. SUFFICES ASSUME NEW n \in Paths, NEW u \in Range(s.tree[n])
                PROVE  /\ s.txn[u].path = n /\ s.txn[u].status # "none"
                       /\ s.txn[u].status # "completed" => s.done[u] = <<>>
    BY DEF Planted
  <2>1. CASE u = t
    <3>1. n = p
      <4>1. u \notin Range(r.tree[n])
        BY <1>5, <2>1 DEF InTree
      <4>. QED
        BY <1>3, <4>1
    <3>. QED
      BY <1>0, <1>1, <2>1, <3>1 DEF ToldOnce
  <2>2. CASE u # t
    <3>1. u \in Range(r.tree[n]) /\ u \in Txns
      BY <1>0, <1>3, <2>2, TreeOf
    <3>. QED
      BY <1>0, <1>1, <2>2, <3>1 DEF Planted
  <2>. QED
    BY <2>1, <2>2
<1>11. AheadOnWay(s)
  <2>. SUFFICES ASSUME NEW n \in Paths, NEW i \in DOMAIN s.tree[n], NEW j \in DOMAIN s.tree[n],
                       i < j, OnWay(s, s.tree[n][j])
                PROVE  OnWay(s, s.tree[n][i])
    BY DEF AheadOnWay
  <2>1. s.tree[n][i] \in Txns /\ s.tree[n][j] \in Txns
    BY <1>9, TreeOf
  <2>2. CASE n # p
    BY <1>0, <1>1, <1>6, <2>1, <2>2 DEF AheadOnWay
  <2>3. CASE n = p
    <3>1. j # Len(r.tree[p]) + 1
      BY <1>1, <1>2, <1>5, <2>3
    <3>2. i \in 1..Len(r.tree[p]) /\ j \in 1..Len(r.tree[p])
      <4>1. s.tree[n] = Append(r.tree[p], t)
        BY <1>1, <2>3
      <4>2. i \in 1..(Len(r.tree[p]) + 1) /\ j \in 1..(Len(r.tree[p]) + 1)
        BY <1>2, <4>1
      <4>3. \A L \in Nat : \A a, b \in 1..(L + 1) :
               a < b /\ b # L + 1 => a \in 1..L /\ b \in 1..L
        OBVIOUS
      <4>. QED
        BY <1>2, <3>1, <4>2, <4>3
    <3>3. s.tree[n][i] = r.tree[p][i] /\ s.tree[n][j] = r.tree[p][j]
      BY <1>1, <1>2, <2>3, <3>2
    <3>4. OnWay(r, r.tree[p][j])
      BY <1>6, <2>1, <3>3
    <3>5. OnWay(r, r.tree[p][i])
      BY <1>0, <1>2, <3>2, <3>4 DEF AheadOnWay
    <3>. QED
      BY <1>6, <2>1, <3>3, <3>5
  <2>. QED
    BY <2>2, <2>3
<1>12. ToldOnce(s)
  <2>. SUFFICES ASSUME NEW u \in Txns
                PROVE  Len(s.done[u]) <= 1 /\ (s.txn[u].status = "none" => s.done[u] = <<>>)
    BY DEF ToldOnce
  <2>. QED
    BY <1>0, <1>1 DEF ToldOnce
<1>13. Unsettled(s, ans, app)
  <2>. SUFFICES ASSUME NEW u \in Txns
                PROVE  /\ s.txn[u].status = "none" => NotApplied(s, app, u) /\ Unanswered(ans, u)
                       /\ s.txn[u].status = "run" /\ u \in InTree(s)
                             => NotApplied(s, app, u) /\ Unanswered(ans, u)
                       /\ s.txn[u].status = "needsAbort" /\ u \in InTree(s)
                          /\ s.txn[u].abort \in Denials => NotApplied(s, app, u)
                       /\ Range(s.done[u]) \cap Denials # {} => NotApplied(s, app, u)
                       /\ s.done[u] = <<"committed">> => app[u] = 1
                       /\ s.txn[u].status = "needsAbort"
                             => s.txn[u].abort \in Outcomes \ {"committed"}
                       /\ s.txn[u].status = "sentNeedsAbort" => s.txn[u].abort \in {"set", "canceled"}
    BY DEF Unsettled
  <2>1. CASE u = t
    <3>1. NotApplied(s, app, t) /\ Unanswered(ans, t)
      BY <1>0, <1>8 DEF Unsettled
    <3>2. s.done[t] = <<>>
      BY <1>0, <1>1 DEF ToldOnce
    <3>. QED
      BY <1>1, <2>1, <3>1, <3>2
  <2>2. CASE u # t
    BY <1>0, <1>1, <1>4, <1>8, <2>2 DEF Unsettled
  <2>. QED
    BY <2>1, <2>2
<1>14. ASSUME NEW put \in Live(r, X) PROVE Awaited(s, put, ans, app)
  <2>1. Awaited(r, put, ans, app)
    BY DEF Truthful
  <2>2. Range(put.owners) \subseteq Txns /\ t \notin Range(put.owners)
    BY <1>0, <1>5, <2>1, PutsOf DEF Awaited
  <2>3. \A n \in Paths : Range(r.tree[n]) \subseteq Txns
    BY <1>0, TreeOf
  <2>4. \A u \in Range(put.owners) :
           OnWay(s, u) /\ s.done[u] = <<>> /\ s.txn[u].path \in Within(put.path)
    BY <1>1, <1>6, <2>1, <2>2 DEF Awaited
  <2>5. \A n \in Paths : \A u, v \in Range(s.tree[n]) :
           u \in Range(put.owners) /\ OnWay(s, v) => v \in Range(put.owners)
    BY <1>3, <1>5, <1>6, <2>1, <2>2, <2>3 DEF Awaited
  <2>. QED
    BY <1>7, <1>8, <2>1, <2>4, <2>5 DEF Awaited
<1>15. Apart(s.puts, X) /\ OnWire(s, ans, app)
  BY <1>1, <1>7 DEF Truthful, OnWire
<1>16. Clean(s)
  BY <1>1, <1>4 DEF Clean
<1>17. Grows(r, s)
  BY <1>1 DEF Grows
<1>18. Truthful(s, X, ans, app)
  BY <1>7, <1>9, <1>10, <1>11, <1>12, <1>13, <1>14, <1>15 DEF Truthful
<1>. QED
  BY <1>16, <1>17, <1>18 DEF s

LEMMA GiveUpHolds ==
    ASSUME NEW r, NEW ans, NEW app, Truthful(r, {}, ans, app), Clean(r),
           NEW t \in Txns, r.txn[t].status = "none"
    PROVE  Holds(r, Complete(r, {t}, "given up"), {}, ans, app)
<1>. DEFINE T == {t}
            s == Complete(r, T, "given up")
<1>1. Shape(r) /\ HasFields(r) /\ Unsettled(r, ans, app) /\ ToldOnce(r)
  BY DEF Truthful, Shape
<1>2. t \notin InTree(r)
  BY DEF Clean
<1>3. MayComplete(r, {}, T, "given up", app)
  <2>1. r.done[t] = <<>> /\ NotApplied(r, app, t) /\ ~ OnWay(r, t)
    BY <1>1 DEF Unsettled, ToldOnce, OnWay
  <2>2. \A put \in Live(r, {}) : t \notin Range(put.owners)
    BY <2>1 DEF Truthful, Awaited
  <2>3. "given up" \in Outcomes /\ "given up" # "committed"
    BY DEF Outcomes
  <2>. QED
    BY <2>1, <2>2, <2>3 DEF MayComplete
<1>4. \A u : u \in T <=> u = t
  OBVIOUS
<1>. HIDE DEF T
<1>5. Truthful(s, {}, ans, app)
  BY <1>3, CompleteIsTruthful
<1>6. /\ s.tree = r.tree /\ s.puts = r.puts /\ s.wire = r.wire
      /\ s.connected = r.connected
      /\ \A u \in Txns : s.txn[u].status = IF u \in T THEN "completed" ELSE r.txn[u].status
  <2>. DEFINE outcome == "given up"
  <2>. HIDE DEF outcome
  <2>1. HasFields(r)
    BY <1>1
  <2>2. /\ Complete(r, T, outcome).tree = r.tree
        /\ Complete(r, T, outcome).puts = r.puts
        /\ Complete(r, T, outcome).wire = r.wire
        /\ Complete(r, T, outcome).connected = r.connected
    BY <2>1, CompleteFields
  <2>3. \A u \in Txns : Complete(r, T, outcome).txn[u].status
           = IF u \in T THEN "completed" ELSE r.txn[u].status
    BY <2>1, CompleteFields
  <2>. QED
    BY <2>2, <2>3 DEF outcome
<1>. HIDE DEF s
<1>7. Clean(s)
  <2>1. InTree(s) = InTree(r) /\ InTree(r) \subseteq Txns
    BY <1>1, <1>6, TreeOf DEF InTree
  <2>. QED
    BY <1>2, <1>4, <1>6, <2>1 DEF Clean
<1>8. Grows(r, s)
  BY <1>6 DEF Grows
<1>. QED
  BY <1>5, <1>7, <1>8 DEF Holds, s, T

LEMMA StartKeepsInv ==
    ASSUME IInv, NEW t \in Txns, NEW p \in TxnPaths, StartTransaction(t, p)
    PROVE  IInv'
<1>. DEFINE input == LatestState(client, p, {})
            q == Queue(client, t, p)
            op == ApplyUserOverwrite(Quiet(q), t, p, Block(t, input), t \notin Hidden)
            ans == Answers(replies)
<1>0. /\ Truthful(client, {}, ans, applied) /\ Clean(client)
      /\ client.txn[t].status = "none" /\ p \in Paths
  BY ConstantsAssumption DEF IInv, StartTransaction
<1>1. client' = IF GivesUp(t, input) THEN Complete(client, {t}, "given up")
                ELSE SendAllReadyTransactions(Raise(op))
  BY Zenon DEF StartTransaction, Queue
<1>4. ASSUME GivesUp(t, input) PROVE Holds(client, client', {}, ans, applied)
  BY <1>0, <1>1, <1>4, GiveUpHolds
<1>5. ASSUME ~ GivesUp(t, input) PROVE Holds(client, client', {}, ans, applied)
  <2>1. Truthful(q, {}, ans, applied) /\ Clean(q) /\ Grows(client, q)
    BY <1>0, QueueIsTruthful
  <2>. HIDE DEF q
  <2>2. IsOp(Quiet(q)) /\ Quiet(q).r = q
    BY <2>1, QuietSame DEF Truthful, Shape
  <2>3. IsOp(op) /\ Same(q, op.r)
    BY <2>2, UserOverwriteSame
  <2>. HIDE DEF op
  <2>. DEFINE u == Raise(op)
  <2>4. Holds(client, u, {}, ans, applied)
    <3>1. Holds(client, q, {}, ans, applied)
      BY <2>1 DEF Holds
    <3>2. Holds(client, op.r, {}, ans, applied)
      BY <2>3, <3>1, SameHolds
    <3>. QED
      BY <3>2, RaisedHolds DEF Raise
  <2>. HIDE DEF u
  <2>5. \A v \in InTree(u) : u.txn[v].status # "needsAbort"
    BY <2>4 DEF Holds, Clean
  <2>6. Holds(u, SendAllReadyTransactions(u), {}, ans, applied)
    BY <2>4, <2>5, SendAllKeeps DEF Holds
  <2>7. Holds(client, SendAllReadyTransactions(u), {}, ans, applied)
    BY <2>4, <2>6, HoldsTransitive DEF Holds
  <2>. QED
    BY <1>1, <1>5, <2>7 DEF u
<1>6. Holds(client, client', {}, ans, applied)
  BY <1>4, <1>5
<1>. QED
  BY <1>6, HoldsKeepsInv DEF StartTransaction, IInv

-----------------------------------------------------------------------------
(* A set.                                                                  *)

LEMMA TxnsAreNotSets ==
    Txns \cap Sets = {}
  BY ConstantsAssumption DEF Txns, Sets

LEMMA PutSetHolds ==
    ASSUME NEW r, NEW X, NEW ans, NEW app, Truthful(r, X, ans, app), Clean(r),
           NEW s \in Sets, NEW p \in Paths, NEW value
    PROVE  Holds(r, PutData(r, <<s>>, p, value, NoHash), X, ans, app)
<1>. DEFINE put == PutOf(r, <<s>>, p, value, NoHash)
            u == PutData(r, <<s>>, p, value, NoHash)
<1>0. Shape(r) /\ HasFields(r)
  BY DEF Truthful, Shape
<1>1. /\ HasFields(u) /\ u.txn = r.txn /\ u.tree = r.tree
      /\ u.connected = r.connected /\ u.done = r.done
      /\ u.puts = Append(r.puts, put)
      /\ u.wire = IF r.connected THEN Append(r.wire, put) ELSE r.wire
  BY <1>0, PutDataFields
<1>2. /\ DOMAIN put = {"owners", "path", "value", "hash", "sent"}
      /\ put.owners = <<s>> /\ put.path = p /\ put.hash = NoHash
      /\ put.sent = r.connected
  BY PutFields
<1>. HIDE DEF put, u
<1>3. IsPut(put) /\ ~ OfTxns(put)
  <2>1. <<s>> \in Seq(Sets) /\ <<s>> \in Seq(Txns \cup Sets) /\ <<s>> # <<>>
    OBVIOUS
  <2>. QED
    BY <1>2, <2>1 DEF IsPut, OfTxns
<1>4. /\ Range(u.puts) = Range(r.puts) \cup {put} /\ u.puts \in Seq(Range(u.puts))
      /\ u.wire \in Seq(Range(u.wire))
      /\ Range(u.wire) = IF r.connected THEN Range(r.wire) \cup {put} ELSE Range(r.wire)
  <2>1. r.puts \in Seq(Range(r.puts)) /\ r.wire \in Seq(Range(r.wire))
    BY <1>0 DEF Shape
  <2>2. /\ Append(r.puts, put) \in Seq(Range(Append(r.puts, put)))
        /\ Range(Append(r.puts, put)) = Range(r.puts) \cup {put}
    BY <2>1, AppendedRange
  <2>3. /\ Append(r.wire, put) \in Seq(Range(Append(r.wire, put)))
        /\ Range(Append(r.wire, put)) = Range(r.wire) \cup {put}
    BY <2>1, AppendedRange
  <2>4. CASE r.connected
    BY <1>1, <2>2, <2>3, <2>4
  <2>5. CASE ~ r.connected
    BY <1>1, <2>1, <2>2, <2>5
  <2>. QED
    BY <2>4, <2>5
<1>5. Live(u, X) = Live(r, X) /\ Wired(u) = Wired(r) /\ InTree(u) = InTree(r)
  BY <1>1, <1>3, <1>4 DEF Live, Wired, InTree
<1>6. \A t : NotApplied(u, app, t) <=> NotApplied(r, app, t)
  BY <1>5 DEF NotApplied
<1>7. Shape(u)
  BY <1>0, <1>1, <1>3, <1>4 DEF Shape
<1>8. Planted(u) /\ AheadOnWay(u) /\ ToldOnce(u)
  BY <1>1 DEF Truthful, Planted, AheadOnWay, ToldOnce, OnWay
<1>9. Unsettled(u, ans, app)
  BY <1>1, <1>5, <1>6 DEF Truthful, Unsettled
<1>10. ASSUME NEW w \in Live(r, X) PROVE Awaited(u, w, ans, app)
  <2>1. Awaited(r, w, ans, app)
    BY DEF Truthful
  <2>. QED
    BY <1>1, <1>5, <1>6, <2>1 DEF Awaited, OnWay
<1>11. Apart(u.puts, X)
  <2>1. r.puts \in Seq(Range(r.puts)) /\ Apart(r.puts, X)
    BY <1>0 DEF Shape, Truthful
  <2>2. Apart(Append(r.puts, put), X)
    BY <1>3, <2>1, AppendApart
  <2>. QED
    BY <1>1, <2>2
<1>12. OnWire(u, ans, app)
  <2>1. OnWire(r, ans, app)
    BY DEF Truthful
  <2>2. Apart(u.wire, {})
    <3>1. r.wire \in Seq(Range(r.wire)) /\ Apart(r.wire, {})
      BY <1>0, <2>1 DEF Shape, OnWire
    <3>2. Apart(Append(r.wire, put), {})
      BY <1>3, <3>1, AppendApart
    <3>. QED
      BY <1>1, <3>1, <3>2
  <2>. QED
    BY <1>5, <2>1, <2>2 DEF OnWire
<1>13. Clean(u)
  BY <1>1, <1>5 DEF Clean
<1>14. Grows(r, u)
  BY <1>1, <1>2, <1>4 DEF Grows
<1>15. Truthful(u, X, ans, app)
  BY <1>5, <1>7, <1>8, <1>9, <1>10, <1>11, <1>12 DEF Truthful
<1>. QED
  BY <1>13, <1>14, <1>15 DEF Holds, u

LEMMA AbortedHolds ==
    ASSUME NEW r, NEW s, NEW X, NEW ans, NEW app, Holds(r, s, X, ans, app),
           NEW p \in Paths, NEW error \in {"set", "canceled"},
           NEW order, p = Root => order \in Seq(Kids)
    PROVE  Holds(r, AbortTransactionsAtPath(s, p, error, order), X, ans, app)
<1>1. Holds(s, AbortTransactionsAtPath(s, p, error, order), X, ans, app)
  BY AbortAtPathKeeps DEF Holds
<1>. QED
  BY <1>1, HoldsTransitive DEF Holds

LEMMA OrderOf ==
    ASSUME NEW p, NEW order \in Orders(p)
    PROVE  p = Root => order \in Seq(Kids)
<1>. SUFFICES ASSUME p = Root PROVE order \in Seq(Kids)
  OBVIOUS
<1>1. order \in SetToSeqs(Kids)
  BY DEF Orders
<1>. QED
  BY <1>1, Counted, ConstantsAssumption

SetOn(r, s, p, value, order) ==
    LET written == Raise(ApplyUserOverwrite(Quiet(r), s, p, value, TRUE))
        put == PutData(written, <<s>>, p, value, NoHash)
        aborted == AbortTransactionsAtPath(put, p, "set", order)
    IN  RerunTransactionsForPath(aborted, AncestorTransactionNode(put, p))

LEMMA SetOnHolds ==
    ASSUME NEW r, NEW X, NEW ans, NEW app, Truthful(r, X, ans, app), Clean(r),
           NEW s \in Sets, NEW p \in Paths, NEW value, NEW order, p = Root => order \in Seq(Kids)
    PROVE  Holds(r, SetOn(r, s, p, value, order), X, ans, app)
<1>. DEFINE op == ApplyUserOverwrite(Quiet(r), s, p, value, TRUE)
            written == Raise(op)
            put == PutData(written, <<s>>, p, value, NoHash)
            aborted == AbortTransactionsAtPath(put, p, "set", order)
            n == AncestorTransactionNode(put, p)
<1>1. SetOn(r, s, p, value, order) = RerunTransactionsForPath(aborted, n)
  BY Zenon DEF SetOn
<1>2. IsOp(Quiet(r)) /\ Quiet(r).r = r
  BY QuietSame DEF Truthful, Shape
<1>3. IsOp(op) /\ Same(r, op.r)
  BY <1>2, UserOverwriteSame
<1>. HIDE DEF op
<1>4. Holds(r, written, X, ans, app)
  <2>1. Holds(r, r, X, ans, app)
    BY GrowsSelf DEF Holds
  <2>2. Holds(r, op.r, X, ans, app)
    BY <1>3, <2>1, SameHolds
  <2>. QED
    BY <2>2, RaisedHolds DEF Raise
<1>. HIDE DEF written
<1>5. Holds(r, put, X, ans, app)
  <2>1. Holds(written, put, X, ans, app)
    BY <1>4, PutSetHolds DEF Holds
  <2>. QED
    BY <1>4, <2>1, HoldsTransitive DEF Holds
<1>6. n \in Paths
  BY DEF AncestorTransactionNode, Paths
<1>. HIDE DEF put, n
<1>7. Holds(r, aborted, X, ans, app)
  BY <1>5, AbortedHolds
<1>. HIDE DEF aborted
<1>8. Holds(aborted, RerunTransactionsForPath(aborted, n), X, ans, app)
  BY <1>6, <1>7, CleanRerunHolds DEF Holds
<1>. QED
  BY <1>1, <1>7, <1>8, HoldsTransitive DEF Holds

LEMMA LeastSet ==
    ASSUME NEW T, T \subseteq Sets, T # {}
    PROVE  Min(T) \in T
<1>1. T \subseteq Nat
  BY ConstantsAssumption DEF Sets
<1>2. PICK x \in T : \A y \in T : x <= y
  BY <1>1, LeastNumber
<1>. QED
  BY <1>2 DEF Min

LEMMA SetKeepsInv ==
    ASSUME IInv, NEW p \in SetPaths, NEW order \in Orders(p), Set(p, order)
    PROVE  IInv'
<1>. DEFINE s == Min(left.sets)
            value == [k \in Under(p) |-> <<s>>]
<1>1. Truthful(client, {}, Answers(replies), applied) /\ Clean(client) /\ p \in Paths
  BY ConstantsAssumption DEF IInv
<1>2. s \in left.sets /\ left.sets \subseteq Sets
  BY LeastSet DEF Set, IInv
<1>3. client' = SetOn(client, s, p, value, order)
  BY Zenon DEF Set, SetOn
<1>4. p = Root => order \in Seq(Kids)
  BY OrderOf
<1>5. "sets" \in DOMAIN left' /\ left'.sets \subseteq Sets
  <2>1. left' = [left EXCEPT !.sets = @ \ {s}]
    BY DEF Set
  <2>. HIDE DEF s
  <2>. QED
    BY <1>2, <2>1 DEF IInv
<1>. HIDE DEF s, value
<1>6. Holds(client, client', {}, Answers(replies), applied)
  <2>1. s \in Sets
    BY <1>2
  <2>. QED
    BY <1>1, <1>3, <1>4, <2>1, SetOnHolds
<1>. QED
  BY <1>5, <1>6, HoldsKeepsInv DEF Set


-----------------------------------------------------------------------------
(* Puts are purged.                                                        *)

LEMMA LiveIsAnswerable ==
    ASSUME NEW r, NEW X, NEW ans, NEW app, Truthful(r, X, ans, app),
           NEW put \in Live(r, X), NEW Y, Y = X \cup {put},
           NEW status \in {"ok", "datastale", "permission_denied", "disconnect", "canceled"},
           status = "ok" => \A t \in Range(put.owners) : app[t] = 1,
           status \in {"datastale", "permission_denied"}
              => \A t \in Range(put.owners) : NotApplied(r, app, t),
           status = "datastale" => \A t \in Range(put.owners) : Unanswered(ans, t)
    PROVE  Truthful(r, Y, ans, app) /\ IsPut(put) /\ Answerable(r, Y, put, status, ans, app)
<1>1. Truthful(r, Y, ans, app)
  BY FewerLive
<1>2. put \in Range(r.puts) /\ OfTxns(put) /\ put \notin X
  BY DEF Live
<1>3. IsPut(put)
  BY <1>2 DEF Truthful, Shape
<1>4. Awaited(r, put, ans, app)
  BY DEF Truthful
<1>5. ASSUME NEW p \in Live(r, Y) PROVE Range(put.owners) \cap Range(p.owners) = {}
  <2>1. p \in Range(r.puts) /\ OfTxns(p) /\ p \notin X /\ p # put
    BY <1>5 DEF Live
  <2>2. PICK i \in DOMAIN r.puts, j \in DOMAIN r.puts : r.puts[i] = put /\ r.puts[j] = p
    BY <1>2, <2>1 DEF Range
  <2>3. Apart(r.puts, X)
    BY DEF Truthful
  <2>. QED
    BY <1>2, <2>1, <2>2, <2>3 DEF Apart
<1>6. put.owners \in Seq(Txns) /\ put.path \in Paths
  BY <1>2, <1>3 DEF IsPut
<1>7. /\ \A t \in Range(put.owners) :
            OnWay(r, t) /\ r.done[t] = <<>> /\ r.txn[t].path \in Within(put.path)
      /\ \A n \in Paths : \A t, u \in Range(r.tree[n]) :
            t \in Range(put.owners) /\ OnWay(r, u) => u \in Range(put.owners)
  BY <1>4 DEF Awaited
<1>8. Answerable(r, Y, put, status, ans, app)
  BY <1>5, <1>6, <1>7 DEF Answerable
<1>. QED
  BY <1>1, <1>3, <1>8

EmptyPuts(r) == [r EXCEPT !.puts = <<>>]

LEMMA EmptyPutsIsTruthful ==
    ASSUME NEW r, NEW X, NEW ans, NEW app, Truthful(r, X, ans, app), Clean(r)
    PROVE  /\ Truthful(EmptyPuts(r), {}, ans, app) /\ Clean(EmptyPuts(r))
           /\ EmptyPuts(r).connected = r.connected /\ EmptyPuts(r).wire = r.wire
           /\ Live(EmptyPuts(r), {}) = {}
<1>. DEFINE s == EmptyPuts(r)
<1>0. Shape(r) /\ HasFields(r)
  BY DEF Truthful, Shape
<1>1. /\ HasFields(s) /\ s.txn = r.txn /\ s.tree = r.tree /\ s.wire = r.wire
      /\ s.connected = r.connected /\ s.done = r.done /\ s.puts = <<>>
  BY <1>0 DEF EmptyPuts, HasFields
<1>. HIDE DEF s
<1>2. Range(s.puts) = {} /\ s.puts \in Seq(Range(s.puts)) /\ Apart(s.puts, {})
  <2>1. DOMAIN <<>> = {} /\ <<>> \in Seq({})
    OBVIOUS
  <2>2. Range(s.puts) = {}
    BY <1>1, <2>1 DEF Range
  <2>. QED
    BY <1>1, <2>1, <2>2 DEF Apart
<1>3. Shape(s)
  BY <1>0, <1>1, <1>2 DEF Shape
<1>4. Planted(s) /\ AheadOnWay(s) /\ ToldOnce(s)
  BY <1>1 DEF Truthful, Planted, AheadOnWay, ToldOnce, OnWay
<1>5. InTree(s) = InTree(r) /\ Wired(s) = Wired(r) /\ Live(s, {}) = {}
  BY <1>1, <1>2 DEF InTree, Wired, Live
<1>6. \A t : NotApplied(s, app, t) <=> NotApplied(r, app, t)
  BY <1>5 DEF NotApplied
<1>7. Unsettled(s, ans, app)
  BY <1>1, <1>5, <1>6 DEF Truthful, Unsettled
<1>8. OnWire(s, ans, app)
  BY <1>1, <1>5 DEF Truthful, OnWire
<1>9. Clean(s)
  BY <1>1, <1>5 DEF Clean
<1>. QED
  BY <1>1, <1>2, <1>3, <1>4, <1>5, <1>7, <1>8, <1>9 DEF Truthful, s

CanceledUnfolds(f, start, puts, n) ==
    f = [i \in 0..n |-> IF i = 0 THEN start
                        ELSE PutAnswered(f[i - 1], puts[i], "canceled")]

LEMMA CanceledExists ==
    ASSUME NEW start, NEW puts, NEW N \in Nat
    PROVE  \E f : CanceledUnfolds(f, start, puts, N)
<1>. DEFINE Reach == {n \in Nat : \E f : CanceledUnfolds(f, start, puts, n)}
<1>1. 0 \in Reach
  <2>. DEFINE f == [i \in 0..0 |-> start]
  <2>1. CanceledUnfolds(f, start, puts, 0)
    BY DEF CanceledUnfolds
  <2>. QED
    BY <2>1
<1>2. ASSUME NEW n \in Reach, n \in Nat PROVE n + 1 \in Reach
  <2>1. PICK f : CanceledUnfolds(f, start, puts, n)
    BY <1>2
  <2>. DEFINE g == [i \in 0..(n + 1) |-> IF i <= n THEN f[i]
                                         ELSE PutAnswered(f[i - 1], puts[i], "canceled")]
  <2>2. \A i \in 0..(n + 1) : i # 0 => g[i - 1] = f[i - 1]
    BY <1>2
  <2>3. \A i \in 0..n : f[i] = IF i = 0 THEN start
                               ELSE PutAnswered(f[i - 1], puts[i], "canceled")
    BY <2>1, Zenon DEF CanceledUnfolds
  <2>4. \A i \in 0..(n + 1) : g[i] = IF i = 0 THEN start
                                     ELSE PutAnswered(g[i - 1], puts[i], "canceled")
    BY <1>2, <2>2, <2>3
  <2>5. CanceledUnfolds(g, start, puts, n + 1)
    <3>. HIDE DEF Reach
    <3>1. g = [i \in 0..(n + 1) |-> g[i]]
      OBVIOUS
    <3>. HIDE DEF g
    <3>. QED
      BY <2>4, <3>1, Zenon DEF CanceledUnfolds
  <2>. QED
    BY <2>5
<1>3. N \in Reach
  <2>. HIDE DEF Reach
  <2>. QED
    BY <1>1, <1>2, NumbersByInduction
<1>. QED
  BY <1>3

\* All puts are told, one after the other.
AllCanceled(start, puts) ==
    LET answered[i \in 0..Len(puts)] ==
            IF i = 0 THEN start ELSE PutAnswered(answered[i - 1], puts[i], "canceled")
    IN  answered[Len(puts)]

LEMMA AllCanceledHolds ==
    ASSUME NEW r, NEW ans, NEW app, Truthful(r, {}, ans, app), Clean(r)
    PROVE  \E X : Holds(r, AllCanceled(r, r.puts), X, ans, app)
<1>. DEFINE puts == r.puts
            N == Len(puts)
            f == CHOOSE g : CanceledUnfolds(g, r, puts, N)
            Before(n) == {puts[i] : i \in 1..n}
<1>0. /\ N \in Nat /\ DOMAIN puts = 1..N /\ \A i \in 1..N : puts[i] \in Range(puts)
      /\ Apart(puts, {}) /\ \A put \in Range(puts) : IsPut(put)
  <2>1. puts \in Seq(Range(puts))
    BY DEF Truthful, Shape
  <2>2. N \in Nat /\ DOMAIN puts = 1..N
    BY <2>1
  <2>. QED
    BY <2>2 DEF Truthful, Shape, Range
<1>1. CanceledUnfolds(f, r, puts, N)
  BY <1>0, CanceledExists, Zenon
<1>2. AllCanceled(r, puts) = f[N]
  BY Zenon DEF AllCanceled, CanceledUnfolds, f
<1>. HIDE DEF f
<1>3. \A i \in 0..N : f[i] = IF i = 0 THEN r ELSE PutAnswered(f[i - 1], puts[i], "canceled")
  BY <1>1, Zenon DEF CanceledUnfolds
<1>. DEFINE Good == {n \in Nat : n <= N => Holds(r, f[n], Before(n), ans, app)}
<1>4. 0 \in Good
  <2>1. f[0] = r
    BY <1>0, <1>3
  <2>2. Before(0) = {}
    OBVIOUS
  <2>. QED
    BY <2>1, <2>2, GrowsSelf DEF Holds
<1>5. ASSUME NEW n \in Good, n \in Nat PROVE n + 1 \in Good
  <2>. SUFFICES ASSUME n + 1 <= N PROVE Holds(r, f[n + 1], Before(n + 1), ans, app)
    BY <1>5
  <2>. DEFINE s == f[n]
              put == puts[n + 1]
  <2>1. Holds(r, s, Before(n), ans, app)
    BY <1>0, <1>5
  <2>2. f[n + 1] = PutAnswered(s, put, "canceled")
    BY <1>0, <1>3, <1>5
  <2>3. n + 1 \in 1..N /\ put \in Range(puts)
    BY <1>0, <1>5
  <2>4. Before(n + 1) = Before(n) \cup {put}
    BY <1>5
  <2>5. OfTxns(put) => put \notin Before(n)
    <3>. SUFFICES ASSUME OfTxns(put), NEW i \in 1..n, puts[i] = put PROVE FALSE
      OBVIOUS
    <3>1. i \in 1..N /\ i # n + 1
      BY <1>0, <1>5
    <3>2. Range(put.owners) \cap Range(put.owners) = {}
      BY <1>0, <2>3, <3>1 DEF Apart
    <3>3. put.owners \in Seq(Txns) /\ put.owners # <<>>
      BY <1>0, <2>3 DEF IsPut
    <3>4. 1 \in DOMAIN put.owners
      BY <3>3
    <3>. QED
      BY <3>2, <3>4 DEF Range
  <2>6. put \in Range(s.puts)
    BY <2>1, <2>3 DEF Holds, Grows
  <2>. HIDE DEF Good, Before, s, put
  <2>7. Truthful(s, Before(n), ans, app) /\ Clean(s) /\ Grows(r, s)
    BY <2>1 DEF Holds
  <2>8. /\ Truthful(s, Before(n + 1), ans, app) /\ IsPut(put)
        /\ OfTxns(put) => Answerable(s, Before(n + 1), put, "canceled", ans, app)
    <3>1. CASE OfTxns(put)
      <4>1. put \in Live(s, Before(n))
        BY <2>5, <2>6, <3>1 DEF Live
      <4>. QED
        BY <2>4, <2>7, <4>1, LiveIsAnswerable
    <3>2. CASE ~ OfTxns(put)
      <4>1. Truthful(s, Before(n + 1), ans, app)
        BY <2>4, <2>7, FewerLive
      <4>. QED
        BY <1>0, <2>3, <3>2, <4>1
    <3>. QED
      BY <3>1, <3>2
  <2>9. Holds(s, f[n + 1], Before(n + 1), ans, app)
    BY <2>2, <2>7, <2>8, PutAnsweredHolds
  <2>. QED
    BY <2>7, <2>9, HoldsTransitive
<1>6. N \in Good
  <2>. HIDE DEF Good
  <2>. QED
    BY <1>0, <1>4, <1>5, NumbersByInduction
<1>7. Holds(r, f[N], Before(N), ans, app)
  <2>1. N <= N
    BY <1>0
  <2>. HIDE DEF N
  <2>. QED
    BY <1>6, <2>1, Zenon
<1>. HIDE DEF Before
<1>. QED
  BY <1>2, <1>7

LEMMA PurgeKeepsInv ==
    ASSUME IInv, NEW order \in Orders(Root), PurgeOutstandingWrites(order)
    PROVE  IInv'
<1>. DEFINE ans == Answers(replies)
            purged == Raise(RemoveAllWrites(client))
            aborted == AbortTransactionsAtPath(purged, Root, "canceled", order)
            s == AllCanceled(aborted, aborted.puts)
<1>1. /\ Truthful(client, {}, ans, applied) /\ Clean(client) /\ CutOff(client, replies)
      /\ Root \in Paths
  BY DEF IInv, Paths
<1>2. client' = EmptyPuts(s)
  BY Zenon DEF PurgeOutstandingWrites, AllCanceled, EmptyPuts
<1>3. Holds(client, purged, {}, ans, applied)
  <2>1. HasFields(client)
    BY <1>1 DEF Truthful, Shape
  <2>2. Same(client, RemoveAllWrites(client).r)
    BY <2>1, RemoveAllSame
  <2>3. Holds(client, client, {}, ans, applied)
    BY <1>1, GrowsSelf DEF Holds
  <2>4. Holds(client, RemoveAllWrites(client).r, {}, ans, applied)
    BY <2>2, <2>3, SameHolds
  <2>. QED
    BY <2>4, RaisedHolds DEF Raise
<1>. HIDE DEF purged
<1>4. Holds(client, aborted, {}, ans, applied)
  <2>1. order \in Seq(Kids)
    BY OrderOf
  <2>. QED
    BY <1>1, <1>3, <2>1, AbortedHolds
<1>. HIDE DEF aborted
<1>5. PICK X : Holds(aborted, s, X, ans, applied)
  BY <1>4, AllCanceledHolds DEF Holds
<1>. HIDE DEF s
<1>6. /\ Truthful(client', {}, ans, applied) /\ Clean(client')
      /\ client'.connected = s.connected /\ client'.wire = s.wire /\ Live(client', {}) = {}
  BY <1>2, <1>5, EmptyPutsIsTruthful DEF Holds
<1>7. Grows(client, s)
  BY <1>4, <1>5, GrowsTransitive DEF Holds
<1>8. CutOff(client', replies)
  BY <1>1, <1>6, <1>7 DEF CutOff, Grows
<1>9. replies' = replies /\ applied' = applied
  BY DEF PurgeOutstandingWrites
<1>10. "sets" \in DOMAIN left' /\ left'.sets \subseteq Sets
  BY DEF PurgeOutstandingWrites, IInv
<1>. QED
  BY <1>6, <1>8, <1>9, <1>10 DEF IInv


-----------------------------------------------------------------------------
(* The connection is lost.                                                 *)

Cut(r) == [r EXCEPT !.connected = FALSE, !.wire = <<>>]

LEMMA CutIsTruthful ==
    ASSUME NEW r, NEW X, NEW ans, NEW app, Truthful(r, X, ans, app), Clean(r)
    PROVE  /\ Truthful(Cut(r), X, {}, app) /\ Clean(Cut(r))
           /\ ~ Cut(r).connected /\ Cut(r).wire = <<>> /\ Cut(r).puts = r.puts
<1>. DEFINE s == Cut(r)
<1>0. Shape(r) /\ HasFields(r)
  BY DEF Truthful, Shape
<1>1. /\ HasFields(s) /\ s.txn = r.txn /\ s.tree = r.tree /\ s.wire = <<>>
      /\ s.connected = FALSE /\ s.done = r.done /\ s.puts = r.puts
  BY <1>0 DEF Cut, HasFields
<1>. HIDE DEF s
<1>2. Range(s.wire) = {} /\ s.wire \in Seq(Range(s.wire)) /\ Apart(s.wire, {})
  <2>1. DOMAIN <<>> = {} /\ <<>> \in Seq({})
    OBVIOUS
  <2>2. Range(s.wire) = {}
    BY <1>1, <2>1 DEF Range
  <2>. QED
    BY <1>1, <2>1, <2>2 DEF Apart
<1>3. Shape(s)
  BY <1>0, <1>1, <1>2 DEF Shape
<1>4. Planted(s) /\ AheadOnWay(s) /\ ToldOnce(s)
  BY <1>1 DEF Truthful, Planted, AheadOnWay, ToldOnce, OnWay
<1>5. InTree(s) = InTree(r) /\ Wired(s) = {} /\ Live(s, X) = Live(r, X)
  BY <1>1, <1>2 DEF InTree, Wired, Live
<1>6. \A t : /\ NotApplied(r, app, t) => NotApplied(s, app, t)
             /\ Unanswered({}, t)
  BY <1>5 DEF NotApplied, Unanswered
<1>7. Unsettled(s, {}, app)
  BY <1>1, <1>5, <1>6 DEF Truthful, Unsettled
<1>8. ASSUME NEW p \in Live(r, X) PROVE Awaited(s, p, {}, app)
  <2>1. Awaited(r, p, ans, app)
    BY DEF Truthful
  <2>. QED
    BY <1>1, <1>5, <1>6, <2>1 DEF Awaited, OnWay
<1>9. OnWire(s, {}, app)
  BY <1>2, <1>5 DEF OnWire
<1>10. Clean(s) /\ Apart(s.puts, X)
  BY <1>1, <1>5 DEF Clean, Truthful
<1>. QED
  BY <1>1, <1>3, <1>4, <1>5, <1>7, <1>8, <1>9, <1>10 DEF Truthful, s

LoseOne(r, put) == WithoutPuts(PutAnswered(r, put, "disconnect"), {put})

LostUnfolds(f, start, order, n) ==
    f = [i \in 0..n |-> IF i = 0 THEN start
                        ELSE LoseOne(f[i - 1], order[i])]

LEMMA LostExists ==
    ASSUME NEW start, NEW order, NEW N \in Nat
    PROVE  \E f : LostUnfolds(f, start, order, N)
<1>. DEFINE Reach == {n \in Nat : \E f : LostUnfolds(f, start, order, n)}
<1>1. 0 \in Reach
  <2>. DEFINE f == [i \in 0..0 |-> start]
  <2>1. LostUnfolds(f, start, order, 0)
    BY DEF LostUnfolds
  <2>. QED
    BY <2>1
<1>2. ASSUME NEW n \in Reach, n \in Nat PROVE n + 1 \in Reach
  <2>1. PICK f : LostUnfolds(f, start, order, n)
    BY <1>2
  <2>. DEFINE g == [i \in 0..(n + 1) |-> IF i <= n THEN f[i]
                                         ELSE LoseOne(f[i - 1], order[i])]
  <2>2. \A i \in 0..(n + 1) : i # 0 => g[i - 1] = f[i - 1]
    BY <1>2
  <2>3. \A i \in 0..n : f[i] = IF i = 0 THEN start
                               ELSE LoseOne(f[i - 1], order[i])
    BY <2>1, Zenon DEF LostUnfolds
  <2>4. \A i \in 0..(n + 1) : g[i] = IF i = 0 THEN start
                                     ELSE LoseOne(g[i - 1], order[i])
    BY <1>2, <2>2, <2>3
  <2>5. LostUnfolds(g, start, order, n + 1)
    <3>. HIDE DEF Reach
    <3>1. g = [i \in 0..(n + 1) |-> g[i]]
      OBVIOUS
    <3>. HIDE DEF g
    <3>. QED
      BY <2>4, <3>1, Zenon DEF LostUnfolds
  <2>. QED
    BY <2>5
<1>3. N \in Reach
  <2>. HIDE DEF Reach
  <2>. QED
    BY <1>1, <1>2, NumbersByInduction
<1>. QED
  BY <1>3

\* The sent transactions are told, one put after the other.
AllLost(start, order) ==
    LET canceled[i \in 0..Len(order)] ==
            IF i = 0 THEN start
            ELSE [PutAnswered(canceled[i - 1], order[i], "disconnect") EXCEPT
                    !.puts = Those(@, Range(@) \ {order[i]})]
    IN  canceled[Len(order)]

\* The puts from here on are still there, and no other is sent.
LostTo(r, rest, app) ==
    /\ Truthful(r, {}, {}, app) /\ Clean(r)
    /\ ~ r.connected /\ r.wire = <<>>
    /\ rest \subseteq Live(r, {})
    /\ \A p \in Live(r, {}) : p.sent => p \in rest

LEMMA OneLost ==
    ASSUME NEW r, NEW rest, NEW app, LostTo(r, rest, app), NEW put \in rest
    PROVE  LostTo(LoseOne(r, put), rest \ {put}, app)
<1>. DEFINE u == PutAnswered(r, put, "disconnect")
            s == WithoutPuts(u, {put})
<1>1. /\ Truthful(r, {}, {}, app) /\ Clean(r) /\ ~ r.connected /\ r.wire = <<>>
      /\ put \in Live(r, {})
  BY DEF LostTo
<1>2. Truthful(r, {put}, {}, app) /\ IsPut(put) /\ Answerable(r, {put}, put, "disconnect", {}, app)
  <2>1. {put} = {} \cup {put}
    OBVIOUS
  <2>. QED
    BY <1>1, <2>1, LiveIsAnswerable
<1>3. Holds(r, u, {put}, {}, app)
  BY <1>1, <1>2, PutAnsweredHolds
<1>. HIDE DEF u
<1>4. Truthful(u, {put}, {}, app) /\ Clean(u) /\ Shape(u)
  BY <1>3 DEF Holds, Truthful
<1>5. /\ ~ u.connected /\ u.wire = <<>> /\ Range(r.puts) \subseteq Range(u.puts)
      /\ \A p \in Range(u.puts) \ Range(r.puts) : p.sent = r.connected
  BY <1>1, <1>3 DEF Holds, Grows
<1>6. Truthful(s, {}, {}, app)
  BY <1>4, WithoutPutsIsTruthful
<1>7. /\ s.txn = u.txn /\ s.tree = u.tree /\ s.wire = u.wire /\ s.connected = u.connected
      /\ Range(s.puts) = Range(u.puts) \ {put}
  BY <1>4, WithoutPutsFields
<1>. HIDE DEF s
<1>8. Clean(s)
  BY <1>4, <1>7 DEF Clean, InTree
<1>9. rest \ {put} \subseteq Live(s, {})
  BY <1>5, <1>7 DEF LostTo, Live
<1>10. ASSUME NEW p \in Live(s, {}), p.sent PROVE p \in rest \ {put}
  <2>1. p \in Range(u.puts) /\ OfTxns(p) /\ p # put
    BY <1>7, <1>10 DEF Live
  <2>2. p \in Range(r.puts)
    BY <1>1, <1>5, <1>10, <2>1
  <2>. QED
    BY <1>10, <2>1, <2>2 DEF LostTo, Live
<1>11. LostTo(s, rest \ {put}, app)
  BY <1>5, <1>6, <1>7, <1>8, <1>9, <1>10 DEF LostTo
<1>. QED
  BY <1>11, Zenon DEF LoseOne, s, u

LEMMA AllLostIsTruthful ==
    ASSUME NEW r, NEW app, NEW order, order \in Seq(Range(order)),
           \A i, j \in DOMAIN order : i # j => order[i] # order[j],
           LostTo(r, Range(order), app)
    PROVE  LostTo(AllLost(r, order), {}, app)
<1>. DEFINE N == Len(order)
            f == CHOOSE g : LostUnfolds(g, r, order, N)
            Rest(n) == {order[i] : i \in (n + 1)..N}
<1>0. N \in Nat /\ DOMAIN order = 1..N /\ Range(order) = Rest(0) /\ Rest(N) = {}
  <2>1. N \in Nat /\ DOMAIN order = 1..N
    OBVIOUS
  <2>2. Rest(0) = {order[i] : i \in 1..N}
    OBVIOUS
  <2>3. (N + 1)..N = {}
    BY <2>1
  <2>. HIDE DEF N
  <2>. QED
    BY <2>1, <2>2, <2>3 DEF Range
<1>1. LostUnfolds(f, r, order, N)
  BY <1>0, LostExists, Zenon
<1>2. AllLost(r, order) = f[N]
  BY Zenon DEF AllLost, LostUnfolds, LoseOne, WithoutPuts, f
<1>. HIDE DEF f
<1>3. \A i \in 0..N : f[i] = IF i = 0 THEN r
                            ELSE LoseOne(f[i - 1], order[i])
  BY <1>1, Zenon DEF LostUnfolds
<1>. DEFINE Good == {n \in Nat : n <= N => LostTo(f[n], Rest(n), app)}
<1>4. 0 \in Good
  <2>1. f[0] = r
    BY <1>0, <1>3
  <2>2. LostTo(f[0], Rest(0), app)
    BY <1>0, <2>1
  <2>. HIDE DEF Rest
  <2>. QED
    BY <2>2
<1>5. ASSUME NEW n \in Good, n \in Nat PROVE n + 1 \in Good
  <2>. SUFFICES ASSUME n + 1 <= N PROVE LostTo(f[n + 1], Rest(n + 1), app)
    BY <1>5
  <2>. DEFINE put == order[n + 1]
  <2>1. LostTo(f[n], Rest(n), app)
    BY <1>0, <1>5
  <2>2. f[n + 1] = LoseOne(f[n], put)
    BY <1>0, <1>3, <1>5
  <2>3. put \in Rest(n) /\ Rest(n + 1) = Rest(n) \ {put}
    <3>1. n + 1 \in (n + 1)..N /\ (n + 1)..N \subseteq 1..N
      BY <1>0, <1>5
    <3>2. \A i \in (n + 1)..N : i \in (n + 1 + 1)..N \/ i = n + 1
      BY <1>0, <1>5
    <3>3. \A i \in (n + 1 + 1)..N : i \in (n + 1)..N /\ i # n + 1
      BY <1>0, <1>5
    <3>4. \A i \in (n + 1 + 1)..N : order[i] # put
      BY <1>0, <3>1, <3>3
    <3>. HIDE DEF N
    <3>. QED
      BY <3>1, <3>2, <3>3, <3>4
  <2>. HIDE DEF Good, Rest, put
  <2>. QED
    BY <2>1, <2>2, <2>3, OneLost
<1>6. N \in Good
  <2>. HIDE DEF Good
  <2>. QED
    BY <1>0, <1>4, <1>5, NumbersByInduction
<1>7. LostTo(f[N], Rest(N), app)
  <2>1. N <= N
    BY <1>0
  <2>. HIDE DEF N, Rest
  <2>. QED
    BY <1>6, <2>1, Zenon
<1>. HIDE DEF Rest
<1>. QED
  BY <1>0, <1>2, <1>7

LEMMA NoReplies ==
    Answers(<<>>) = {} /\ GoodReplies(<<>>)
<1>1. DOMAIN <<>> = {} /\ <<>> \in Seq({})
  OBVIOUS
<1>2. Range(<<>>) = {}
  BY <1>1 DEF Range
<1>. QED
  BY <1>1, <1>2 DEF Answers, GoodReplies

LEMMA DisconnectKeepsInv ==
    ASSUME IInv, NEW order \in SetToSeqs(SentTransactions), Disconnect(order)
    PROVE  IInv'
<1>1. /\ Truthful(client, {}, Answers(replies), applied) /\ Clean(client)
      /\ client.puts \in Seq(Range(client.puts))
  BY DEF IInv, Truthful, Shape
<1>2. client' = AllLost(Cut(client), order)
  BY Zenon DEF Disconnect, AllLost, Cut
<1>3. /\ order \in Seq(SentTransactions) /\ Range(order) = SentTransactions
      /\ \A i, j \in DOMAIN order : i # j => order[i] # order[j]
  <2>1. IsFiniteSet(Range(client.puts))
    BY <1>1, RangeIsFinite
  <2>2. SentTransactions \subseteq Range(client.puts)
    BY DEF SentTransactions
  <2>3. IsFiniteSet(SentTransactions)
    BY <2>1, <2>2, FS_Subset
  <2>. QED
    BY <2>3, Counted
<1>4. LostTo(Cut(client), Range(order), applied)
  <2>1. /\ Truthful(Cut(client), {}, {}, applied) /\ Clean(Cut(client))
        /\ ~ Cut(client).connected /\ Cut(client).wire = <<>> /\ Cut(client).puts = client.puts
    BY <1>1, CutIsTruthful
  <2>2. /\ SentTransactions \subseteq Live(Cut(client), {})
        /\ \A p \in Live(Cut(client), {}) : p.sent => p \in SentTransactions
    BY <2>1 DEF SentTransactions, Live, OfTxns
  <2>. QED
    BY <1>3, <2>1, <2>2 DEF LostTo
<1>5. LostTo(client', {}, applied)
  <2>1. order \in Seq(Range(order))
    BY <1>3
  <2>. QED
    BY <1>2, <1>3, <1>4, <2>1, AllLostIsTruthful
<1>6. replies' = <<>> /\ applied' = applied
  BY DEF Disconnect
<1>7. "sets" \in DOMAIN left' /\ left'.sets \subseteq Sets
  BY DEF Disconnect, IInv
<1>8. CutOff(client', replies')
  BY <1>5, <1>6 DEF LostTo, CutOff
<1>9. Truthful(client', {}, Answers(replies'), applied') /\ GoodReplies(replies')
  BY <1>5, <1>6, NoReplies DEF LostTo
<1>10. applied' \in [Txns -> {0, 1}] /\ Clean(client')
  BY <1>5, <1>6 DEF LostTo, IInv
<1>. QED
  BY <1>7, <1>8, <1>9, <1>10 DEF IInv


-----------------------------------------------------------------------------
(* Messages arrive.                                                        *)

LEMMA TailEntries ==
    ASSUME NEW q, q \in Seq(Range(q)), q # <<>>
    PROVE  /\ Len(q) \in Nat /\ Len(q) >= 1 /\ DOMAIN q = 1..Len(q)
           /\ Head(q) = q[1] /\ Head(q) \in Range(q)
           /\ DOMAIN Tail(q) = 1..(Len(q) - 1)
           /\ \A i \in DOMAIN Tail(q) : Tail(q)[i] = q[i + 1] /\ i + 1 \in DOMAIN q
           /\ Range(Tail(q)) \subseteq Range(q)
           /\ Tail(q) \in Seq(Range(Tail(q)))
<1>. DEFINE S == Range(q)
            s == Tail(q)
<1>1. q \in Seq(S)
  OBVIOUS
<1>2. /\ Len(q) \in Nat /\ Len(q) >= 1 /\ DOMAIN q = 1..Len(q) /\ Head(q) = q[1]
      /\ s \in Seq(S) /\ DOMAIN s = 1..(Len(q) - 1) /\ \A i \in 1..(Len(q) - 1) : s[i] = q[i + 1]
  <2>. HIDE DEF S
  <2>. QED
    BY <1>1
<1>. HIDE DEF s
<1>3. s \in Seq(Range(s))
  BY <1>2, SelfRange
<1>4. Range(s) \subseteq Range(q)
  BY <1>2 DEF Range
<1>5. Head(q) \in Range(q)
  BY <1>2 DEF Range
<1>. QED
  BY <1>2, <1>3, <1>4, <1>5 DEF s

LEMMA Received ==
    ASSUME NEW q, GoodReplies(q), q # <<>>
    PROVE  /\ Head(q) \in Range(q)
           /\ Answers(Tail(q)) \subseteq Answers(q)
           /\ GoodReplies(Tail(q))
           /\ Head(q).type = "answer" /\ Head(q).owner \in Txns
                 => Unanswered(Answers(Tail(q)), Head(q).owner)
<1>. DEFINE s == Tail(q)
            m == Head(q)
<1>1. /\ Len(q) \in Nat /\ Len(q) >= 1 /\ DOMAIN q = 1..Len(q) /\ m = q[1] /\ m \in Range(q)
      /\ DOMAIN s = 1..(Len(q) - 1)
      /\ \A i \in DOMAIN s : s[i] = q[i + 1] /\ i + 1 \in DOMAIN q
      /\ Range(s) \subseteq Range(q) /\ s \in Seq(Range(s))
  BY TailEntries DEF GoodReplies
<1>. HIDE DEF s, m
<1>2. Answers(s) \subseteq Answers(q)
  BY <1>1 DEF Answers
<1>3. GoodReplies(s)
  <2>1. ASSUME NEW i \in DOMAIN s, NEW j \in DOMAIN s, i # j,
               s[i].type = "answer", s[j].type = "answer", s[i].owner \in Txns
        PROVE  s[i].owner # s[j].owner
    <3>1. i + 1 \in DOMAIN q /\ j + 1 \in DOMAIN q /\ i + 1 # j + 1
      BY <1>1, <2>1
    <3>2. s[i] = q[i + 1] /\ s[j] = q[j + 1]
      BY <1>1
    <3>. QED
      BY <2>1, <3>1, <3>2 DEF GoodReplies
  <2>. QED
    BY <1>1, <2>1 DEF GoodReplies
<1>4. ASSUME m.type = "answer", m.owner \in Txns, NEW a \in Answers(s), a.owner = m.owner
      PROVE  FALSE
  <2>1. PICK i \in DOMAIN s : s[i] = a
    BY DEF Answers, Range
  <2>2. i + 1 \in DOMAIN q /\ 1 \in DOMAIN q /\ 1 # i + 1 /\ q[i + 1] = a /\ q[1] = m
    BY <1>1, <2>1
  <2>3. a.type = "answer"
    BY DEF Answers
  <2>. QED
    BY <1>4, <2>2, <2>3 DEF GoodReplies
<1>. QED
  BY <1>1, <1>2, <1>3, <1>4 DEF Unanswered, s, m

LEMMA DeliverDataKeepsInv ==
    ASSUME IInv, DeliverData
    PROVE  IInv'
<1>. DEFINE m == Head(replies)
            ans == Answers(Tail(replies))
            moved == ApplyServerOverwrite(Quiet(client), m.path, m.value)
            op == Shadowing(moved, client.cache)
<1>1. /\ m \in Range(replies) /\ ans \subseteq Answers(replies) /\ GoodReplies(Tail(replies))
      /\ replies # <<>>
  BY Received DEF DeliverData, IInv
<1>2. client' = RerunAndRaise(op, m.path) /\ replies' = Tail(replies) /\ applied' = applied
      /\ left' = left
  BY DEF DeliverData
<1>3. m.path \in Paths
  BY <1>1 DEF IInv, GoodReplies, DeliverData
<1>4. Truthful(client, {}, ans, applied) /\ Clean(client) /\ HasFields(client)
  BY <1>1, FewerAnswers DEF IInv, Truthful, Shape
<1>5. Same(client, op.r)
  <2>1. IsOp(Quiet(client)) /\ Quiet(client).r = client
    BY <1>4, QuietSame
  <2>2. IsOp(moved) /\ Same(client, moved.r)
    BY <2>1, ServerOverwriteSame
  <2>. HIDE DEF moved
  <2>3. Same(moved.r, op.r)
    BY <2>2, ShadowingSame
  <2>. QED
    BY <2>2, <2>3, SameTransitive
<1>. HIDE DEF op, m
<1>6. Holds(client, client', {}, ans, applied)
  BY <1>2, <1>3, <1>4, <1>5, RerunAndRaiseHolds
<1>7. CutOff(client', replies')
  BY <1>1, <1>6, GrowsIsCutOff DEF IInv, Holds
<1>. QED
  BY <1>1, <1>2, <1>6, <1>7 DEF IInv, Holds

LEMMA AnswerIsTrue ==
    ASSUME NEW r, NEW q, NEW app, Truthful(r, {}, Answers(q), app), GoodReplies(q), q # <<>>,
           Head(q).type = "answer", NEW put \in Live(r, {}), put.owners[1] = Head(q).owner
    PROVE  Answerable(r, {put}, put, Head(q).status, Answers(Tail(q)), app)
<1>. DEFINE m == Head(q)
            ans == Answers(q)
            few == Answers(Tail(q))
            O == Range(put.owners)
<1>1. /\ m \in Range(q) /\ few \subseteq ans
      /\ m.owner \in Txns => Unanswered(few, m.owner)
      /\ m \in ans
  BY Received DEF Answers
<1>2. m.status \in {"ok", "datastale", "permission_denied"}
  BY <1>1 DEF GoodReplies
<1>3. m.owner \in O /\ O \subseteq Txns
  <2>1. Shape(r)
    BY DEF Truthful
  <2>. QED
    BY <2>1, PutsOf
<1>4. Awaited(r, put, ans, app)
  BY DEF Truthful
<1>5. Truthful(r, {}, few, app)
  BY <1>1, FewerAnswers
<1>. HIDE DEF m, ans, few, O
<1>6. \A t \in O : IF m.status = "ok" THEN app[t] = 1 ELSE NotApplied(r, app, t)
  BY <1>1, <1>3, <1>4 DEF Awaited, O
<1>7. ASSUME NEW t \in O PROVE Unanswered(few, t)
  <2>. SUFFICES ASSUME NEW a \in few, a.owner = t PROVE FALSE
    BY DEF Unanswered
  <2>1. a.owner = put.owners[1]
    BY <1>1, <1>4, <1>7 DEF Awaited, O
  <2>2. put.owners[1] = m.owner
    BY DEF m
  <2>. QED
    BY <1>1, <1>3, <2>1, <2>2 DEF Unanswered
<1>8. {put} = {} \cup {put}
  OBVIOUS
<1>9. /\ m.status = "ok" => \A t \in O : app[t] = 1
      /\ m.status \in {"datastale", "permission_denied"} => \A t \in O : NotApplied(r, app, t)
      /\ m.status = "datastale" => \A t \in O : Unanswered(few, t)
  BY <1>6, <1>7
<1>10. Answerable(r, {put}, put, m.status, few, app)
  BY <1>2, <1>5, <1>8, <1>9, LiveIsAnswerable DEF O
<1>. QED
  BY <1>10 DEF m, few

LEMMA AnsweredHolds ==
    ASSUME NEW r, NEW q, NEW app, Truthful(r, {}, Answers(q), app), Clean(r),
           GoodReplies(q), q # <<>>, Head(q).type = "answer",
           NEW own, NEW put \in Range(r.puts) \cap own, put.owners[1] = Head(q).owner
    PROVE  Holds(WithoutPuts(r, own), PutAnswered(WithoutPuts(r, own), put, Head(q).status),
                 {}, Answers(Tail(q)), app)
<1>. DEFINE s == WithoutPuts(r, own)
            few == Answers(Tail(q))
            status == Head(q).status
<1>0. Shape(r) /\ IsPut(put)
  BY DEF Truthful, Shape
<1>1. Truthful(s, {}, few, app)
  <2>1. few \subseteq Answers(q)
    BY Received
  <2>2. Truthful(r, {}, few, app)
    BY <2>1, FewerAnswers
  <2>. QED
    BY <2>2, WithoutPutsIsTruthful
<1>2. /\ s.txn = r.txn /\ s.tree = r.tree /\ s.wire = r.wire /\ s.done = r.done
      /\ Range(s.puts) = Range(r.puts) \ own
  BY <1>0, WithoutPutsFields
<1>. HIDE DEF s
<1>3. Clean(s)
  BY <1>2 DEF Clean, InTree
<1>4. ASSUME OfTxns(put) PROVE Answerable(s, {}, put, status, few, app)
  <2>1. put \in Live(r, {})
    BY <1>4 DEF Live
  <2>2. Answerable(r, {put}, put, status, few, app)
    BY <2>1, AnswerIsTrue
  <2>. HIDE DEF status, few
  <2>3. Live(s, {}) \subseteq Live(r, {put}) /\ Wired(s) = Wired(r)
    BY <1>2 DEF Live, Wired
  <2>4. \A t : NotApplied(s, app, t) <=> NotApplied(r, app, t)
    BY <2>3 DEF NotApplied
  <2>. QED
    BY <1>2, <2>2, <2>3, <2>4 DEF Answerable, OnWay
<1>. HIDE DEF status, few
<1>5. Holds(s, PutAnswered(s, put, status), {}, few, app)
  BY <1>0, <1>1, <1>3, <1>4, PutAnsweredHolds
<1>. QED
  BY <1>5 DEF s, status, few

LEMMA DeliverAnswerKeepsInv ==
    ASSUME IInv, DeliverAnswer
    PROVE  IInv'
<1>. DEFINE m == Head(replies)
            ans == Answers(Tail(replies))
            own == {put \in Range(client.puts) : put.owners[1] = m.owner}
            answered == Those(client.puts, own)
            others == WithoutPuts(client, own)
<1>1. /\ ans \subseteq Answers(replies) /\ GoodReplies(Tail(replies)) /\ GoodReplies(replies)
      /\ replies # <<>> /\ m.type = "answer"
  BY Received DEF DeliverAnswer, IInv
<1>2. /\ client' = IF answered = <<>> THEN client ELSE PutAnswered(others, answered[1], m.status)
      /\ replies' = Tail(replies) /\ applied' = applied /\ left' = left
  BY Zenon DEF DeliverAnswer, WithoutPuts
<1>3. Truthful(client, {}, Answers(replies), applied) /\ Clean(client) /\ Shape(client)
  BY DEF IInv, Truthful
<1>4. client.connected
  BY <1>1 DEF IInv, CutOff
<1>5. answered \in Seq(Range(client.puts)) /\ Range(answered) = Range(client.puts) \cap own
  <2>1. client.puts \in Seq(Range(client.puts))
    BY <1>3 DEF Shape
  <2>. QED
    BY <2>1, ThoseOf
<1>6. \A put \in own : put.owners[1] = m.owner
  OBVIOUS
<1>. HIDE DEF own, answered
<1>7. ASSUME answered # <<>>
      PROVE  Truthful(client', {}, ans, applied) /\ Clean(client') /\ client'.connected
  <2>1. answered[1] \in Range(client.puts) \cap own
    <3>1. 1 \in DOMAIN answered
      BY <1>5, <1>7
    <3>. QED
      BY <1>5, <3>1 DEF Range
  <2>2. Holds(others, PutAnswered(others, answered[1], m.status), {}, ans, applied)
    BY <1>1, <1>3, <1>6, <2>1, AnsweredHolds
  <2>3. others.connected = client.connected
    BY <1>3, WithoutPutsFields
  <2>. HIDE DEF others
  <2>. QED
    BY <1>2, <1>4, <1>7, <2>2, <2>3 DEF Holds, Grows
<1>8. ASSUME answered = <<>>
      PROVE  Truthful(client', {}, ans, applied) /\ Clean(client') /\ client'.connected
  BY <1>1, <1>2, <1>3, <1>4, <1>8, FewerAnswers
<1>9. Truthful(client', {}, ans, applied) /\ Clean(client') /\ client'.connected
  BY <1>7, <1>8
<1>10. CutOff(client', replies')
  BY <1>9 DEF CutOff
<1>. QED
  BY <1>1, <1>2, <1>9, <1>10 DEF IInv


-----------------------------------------------------------------------------
(* The connection is there again.                                          *)

Again(put) == [put EXCEPT !.sent = TRUE]

LEMMA AgainFields ==
    ASSUME NEW put, IsPut(put)
    PROVE  /\ IsPut(Again(put)) /\ Again(put).sent = TRUE /\ Again(put).owners = put.owners
           /\ Again(put).path = put.path /\ Again(put).hash = put.hash
           /\ OfTxns(Again(put)) <=> OfTxns(put)
<1>. DEFINE p == Again(put)
<1>1. /\ {"owners", "path", "value", "hash", "sent"} \subseteq DOMAIN p
      /\ p.sent = TRUE /\ p.owners = put.owners /\ p.path = put.path /\ p.hash = put.hash
  BY DEF IsPut, Again
<1>. HIDE DEF p
<1>2. OfTxns(p) <=> OfTxns(put)
  BY <1>1 DEF OfTxns
<1>3. IsPut(p)
  BY <1>1, <1>2 DEF IsPut
<1>. QED
  BY <1>1, <1>2, <1>3 DEF p

AllAgain(puts) == [i \in DOMAIN puts |-> Again(puts[i])]
Resent(r) == [r EXCEPT !.connected = TRUE, !.puts = AllAgain(r.puts), !.wire = AllAgain(r.puts)]

LEMMA AllAgainEntries ==
    ASSUME NEW puts, puts \in Seq(Range(puts)), \A p \in Range(puts) : IsPut(p), Apart(puts, {})
    PROVE  /\ AllAgain(puts) \in Seq(Range(AllAgain(puts)))
           /\ \A q \in Range(AllAgain(puts)) : \E p \in Range(puts) : q = Again(p)
           /\ Apart(AllAgain(puts), {})
           /\ \A v, w \in Range(AllAgain(puts)) :
                 OfTxns(v) /\ OfTxns(w) /\ Range(v.owners) \cap Range(w.owners) # {}
                 => v.owners = w.owners
<1>. DEFINE s == AllAgain(puts)
<1>1. Len(puts) \in Nat /\ DOMAIN puts = 1..Len(puts)
  OBVIOUS
<1>2. DOMAIN s = DOMAIN puts /\ \A i \in DOMAIN puts : s[i] = Again(puts[i])
  BY DEF AllAgain
<1>3. s = [i \in 1..Len(puts) |-> s[i]]
  BY <1>1 DEF AllAgain
<1>. HIDE DEF s
<1>4. s \in Seq(Range(s))
  <2>1. \A i \in 1..Len(puts) : s[i] \in Range(s)
    BY <1>1, <1>2 DEF Range
  <2>. QED
    BY <1>1, <1>3, <2>1
<1>5. \A q \in Range(s) : \E i \in DOMAIN puts : q = Again(puts[i]) /\ q = s[i]
  BY <1>2 DEF Range
<1>6. \A i \in DOMAIN puts :
         /\ puts[i] \in Range(puts)
         /\ s[i].owners = puts[i].owners
         /\ OfTxns(s[i]) <=> OfTxns(puts[i])
  <2>. SUFFICES ASSUME NEW i \in DOMAIN puts
                PROVE  /\ puts[i] \in Range(puts)
                       /\ s[i].owners = puts[i].owners
                       /\ OfTxns(s[i]) <=> OfTxns(puts[i])
    BY Zenon
  <2>1. puts[i] \in Range(puts)
    BY DEF Range
  <2>2. s[i] = Again(puts[i]) /\ IsPut(puts[i])
    BY <1>2, <2>1
  <2>. QED
    BY <2>1, <2>2, AgainFields
<1>7. Apart(s, {})
  <2>. SUFFICES ASSUME NEW i \in DOMAIN s, NEW j \in DOMAIN s, i # j, OfTxns(s[i]), OfTxns(s[j])
                PROVE  Range(s[i].owners) \cap Range(s[j].owners) = {}
    BY Zenon DEF Apart
  <2>1. /\ i \in DOMAIN puts /\ j \in DOMAIN puts
        /\ OfTxns(puts[i]) /\ OfTxns(puts[j])
        /\ s[i].owners = puts[i].owners /\ s[j].owners = puts[j].owners
    <3>1. i \in DOMAIN puts /\ j \in DOMAIN puts
      BY <1>2
    <3>2. s[i].owners = puts[i].owners /\ (OfTxns(s[i]) <=> OfTxns(puts[i]))
      BY <1>6, <3>1
    <3>3. s[j].owners = puts[j].owners /\ (OfTxns(s[j]) <=> OfTxns(puts[j]))
      BY <1>6, <3>1
    <3>. QED
      BY <3>1, <3>2, <3>3
  <2>2. puts[i] \notin {} /\ puts[j] \notin {}
    OBVIOUS
  <2>3. Range(puts[i].owners) \cap Range(puts[j].owners) = {}
    BY <2>1, <2>2, Zenon DEF Apart
  <2>. QED
    BY <2>1, <2>3
<1>8. ASSUME NEW v \in Range(s), NEW w \in Range(s), OfTxns(v), OfTxns(w),
             Range(v.owners) \cap Range(w.owners) # {}
      PROVE  v.owners = w.owners
  <2>1. PICK i \in DOMAIN s, j \in DOMAIN s : v = s[i] /\ w = s[j]
    BY DEF Range
  <2>. QED
    BY <1>7, <1>8, <2>1 DEF Apart
<1>9. \A q \in Range(s) : \E p \in Range(puts) : q = Again(p)
  BY <1>5, <1>6
<1>10. \A v, w \in Range(s) :
          OfTxns(v) /\ OfTxns(w) /\ Range(v.owners) \cap Range(w.owners) # {}
          => v.owners = w.owners
  BY <1>8
<1>. QED
  BY <1>4, <1>7, <1>9, <1>10, Zenon DEF s

LEMMA ResentIsTruthful ==
    ASSUME NEW r, NEW app, Truthful(r, {}, {}, app), Clean(r),
           \A p \in Live(r, {}) : ~ p.sent
    PROVE  Truthful(Resent(r), {}, {}, app) /\ Clean(Resent(r)) /\ Resent(r).connected
<1>. DEFINE s == Resent(r)
            puts == AllAgain(r.puts)
<1>0. Shape(r) /\ HasFields(r) /\ r.puts \in Seq(Range(r.puts)) /\ Apart(r.puts, {})
      /\ \A p \in Range(r.puts) : IsPut(p)
  BY DEF Truthful, Shape
<1>1. /\ HasFields(s) /\ s.txn = r.txn /\ s.tree = r.tree /\ s.wire = puts
      /\ s.connected = TRUE /\ s.done = r.done /\ s.puts = puts
  BY <1>0 DEF Resent, HasFields
<1>. HIDE DEF s
<1>2. /\ puts \in Seq(Range(puts))
      /\ \A q \in Range(puts) : \E p \in Range(r.puts) : q = Again(p)
      /\ Apart(puts, {})
      /\ \A v, w \in Range(puts) :
            OfTxns(v) /\ OfTxns(w) /\ Range(v.owners) \cap Range(w.owners) # {}
            => v.owners = w.owners
  BY <1>0, AllAgainEntries
<1>. HIDE DEF puts
<1>3. Shape(s)
  <2>1. ASSUME NEW q \in Range(puts) PROVE IsPut(q)
    <3>1. PICK p \in Range(r.puts) : q = Again(p)
      BY <1>2
    <3>2. IsPut(p)
      BY <1>0
    <3>. QED
      BY <3>1, <3>2, AgainFields
  <2>. QED
    BY <1>0, <1>1, <1>2, <2>1 DEF Shape
<1>4. Planted(s) /\ AheadOnWay(s) /\ ToldOnce(s)
  BY <1>1 DEF Truthful, Planted, AheadOnWay, ToldOnce, OnWay
<1>5. InTree(s) = InTree(r) /\ Wired(s) = Live(s, {})
  BY <1>1 DEF InTree, Wired, Live
<1>6. ASSUME NEW q \in Live(s, {})
      PROVE  /\ q.sent = TRUE
             /\ \E p \in Live(r, {}) : q.owners = p.owners /\ q.path = p.path
  <2>1. PICK p \in Range(r.puts) : q = Again(p)
    BY <1>1, <1>2 DEF Live
  <2>2. OfTxns(p) /\ q.owners = p.owners /\ q.path = p.path /\ q.sent = TRUE
    BY <1>0, <2>1, AgainFields DEF Live
  <2>. QED
    BY <2>2 DEF Live
<1>7. ASSUME NEW p \in Live(r, {})
      PROVE  /\ \A t \in Range(p.owners) : /\ OnWay(r, t) /\ r.done[t] = <<>>
                                           /\ r.txn[t].path \in Within(p.path)
                                           /\ app[t] = 0
             /\ \A n \in Paths : \A t, u \in Range(r.tree[n]) :
                   t \in Range(p.owners) /\ OnWay(r, u) => u \in Range(p.owners)
  <2>1. Awaited(r, p, {}, app) /\ ~ p.sent
    BY DEF Truthful
  <2>. QED
    BY <2>1 DEF Awaited, NotApplied
<1>8. ASSUME NEW t \in Txns, NotApplied(r, app, t), ~ OnWay(r, t) \/ r.done[t] # <<>>
      PROVE  NotApplied(s, app, t)
  <2>. SUFFICES ASSUME NEW q \in Live(s, {}), t \in Range(q.owners) PROVE FALSE
    BY <1>5, <1>8 DEF NotApplied
  <2>. QED
    BY <1>6, <1>7, <1>8
<1>9. Unsettled(s, {}, app)
  <2>. SUFFICES ASSUME NEW t \in Txns
                PROVE
        /\ s.txn[t].status = "none" => NotApplied(s, app, t) /\ Unanswered({}, t)
        /\ s.txn[t].status = "run" /\ t \in InTree(s)
              => NotApplied(s, app, t) /\ Unanswered({}, t)
        /\ s.txn[t].status = "needsAbort" /\ t \in InTree(s) /\ s.txn[t].abort \in Denials
              => NotApplied(s, app, t)
        /\ Range(s.done[t]) \cap Denials # {} => NotApplied(s, app, t)
        /\ s.done[t] = <<"committed">> => app[t] = 1
        /\ s.txn[t].status = "needsAbort" => s.txn[t].abort \in Outcomes \ {"committed"}
        /\ s.txn[t].status = "sentNeedsAbort" => s.txn[t].abort \in {"set", "canceled"}
    BY DEF Unsettled
  <2>1. Unsettled(r, {}, app)
    BY DEF Truthful
  <2>2. Unanswered({}, t)
    BY DEF Unanswered
  <2>3. r.txn[t].status \in {"none", "run", "needsAbort"} => ~ OnWay(r, t)
    BY DEF OnWay
  <2>4. Range(r.done[t]) \cap Denials # {} => r.done[t] # <<>>
    BY DEF Range
  <2>. QED
    BY <1>1, <1>5, <1>8, <2>1, <2>2, <2>3, <2>4 DEF Unsettled
<1>10. ASSUME NEW q \in Live(s, {}) PROVE Awaited(s, q, {}, app)
  <2>1. PICK p \in Live(r, {}) : q.owners = p.owners /\ q.path = p.path
    BY <1>6
  <2>2. \A w \in Wired(s) : Range(w.owners) \cap Range(q.owners) # {} => w.owners = q.owners
    BY <1>1, <1>2, <1>5 DEF Live
  <2>3. q.sent = TRUE
    BY <1>6
  <2>. QED
    BY <1>1, <1>7, <2>1, <2>2, <2>3 DEF Awaited, OnWay
<1>11. OnWire(s, {}, app)
  <2>1. \A w \in Wired(s) : \A t \in Range(w.owners) : app[t] = 0
    BY <1>5, <1>6, <1>7
  <2>2. \A t : Unanswered({}, t)
    BY DEF Unanswered
  <2>. QED
    BY <1>1, <1>2, <2>1, <2>2 DEF OnWire
<1>12. Clean(s) /\ Apart(s.puts, {})
  BY <1>1, <1>2, <1>5 DEF Clean
<1>. QED
  BY <1>1, <1>3, <1>4, <1>9, <1>10, <1>11, <1>12 DEF Truthful, s

LEMMA FirstData ==
    ASSUME NEW m, m.type = "data", m.path \in Paths
    PROVE  Answers(<<m>>) = {} /\ GoodReplies(<<m>>)
<1>1. DOMAIN <<m>> = {1} /\ <<m>> \in Seq({m}) /\ <<m>>[1] = m
  OBVIOUS
<1>2. Range(<<m>>) = {m}
  BY <1>1 DEF Range
<1>. QED
  BY <1>1, <1>2 DEF Answers, GoodReplies

LEMMA ConnectKeepsInv ==
    ASSUME IInv, Connect
    PROVE  IInv'
<1>. DEFINE m == [type |-> "data", path |-> Root, value |-> server]
<1>1. /\ ~ client.connected /\ replies = <<>> /\ \A p \in Live(client, {}) : ~ p.sent
  BY DEF IInv, CutOff, Connect
<1>2. Truthful(client, {}, {}, applied) /\ Clean(client)
  BY <1>1, NoReplies DEF IInv
<1>3. client' = Resent(client) /\ replies' = <<m>> /\ applied' = applied /\ left' = left
  BY Zenon DEF Connect, Resent, AllAgain, Again
<1>4. m.type = "data" /\ m.path \in Paths
  BY DEF Paths
<1>. HIDE DEF m
<1>5. Answers(replies') = {} /\ GoodReplies(replies')
  BY <1>3, <1>4, FirstData
<1>6. Truthful(client', {}, {}, applied) /\ Clean(client') /\ client'.connected
  BY <1>1, <1>2, <1>3, ResentIsTruthful
<1>7. CutOff(client', replies')
  BY <1>6 DEF CutOff
<1>. QED
  BY <1>3, <1>5, <1>6, <1>7 DEF IInv


-----------------------------------------------------------------------------
(* The server takes what is on the wire, and answers.                      *)

\* The first put of r.wire has been served: `more` are the answers now, `now` is applied.
Served(r, s, ans, more, app, now) ==
    /\ HasFields(s) /\ s.txn = r.txn /\ s.tree = r.tree /\ s.puts = r.puts
    /\ s.connected = r.connected /\ s.done = r.done
    /\ s.wire \in Seq(Range(s.wire)) /\ Range(s.wire) \subseteq Range(r.wire)
    /\ Apart(s.wire, {})
    /\ \A t \in Txns : NotApplied(r, app, t) => NotApplied(s, now, t)
    /\ \A t \in Txns : NotApplied(r, app, t) /\ Unanswered(ans, t) => Unanswered(more, t)
    /\ \A t \in Txns : app[t] = 1 => now[t] = 1
    /\ \A w \in Wired(s) : /\ \A t \in Range(w.owners) : now[t] = 0
                           /\ Unanswered(more, w.owners[1])
    /\ \A p \in Live(r, {}) : \A m \in more \ ans : m.owner \in Range(p.owners) =>
          /\ m.owner = p.owners[1]
          /\ \A t \in Range(p.owners) : IF m.status = "ok" THEN now[t] = 1
                                                           ELSE NotApplied(s, now, t)

LEMMA ServedIsTruthful ==
    ASSUME NEW r, NEW s, NEW ans, NEW more, NEW app, NEW now, Truthful(r, {}, ans, app),
           Served(r, s, ans, more, app, now)
    PROVE  Truthful(s, {}, more, now)
<1>0. Shape(r)
  BY DEF Truthful
<1>1. /\ HasFields(s) /\ s.txn = r.txn /\ s.tree = r.tree /\ s.puts = r.puts
      /\ s.connected = r.connected /\ s.done = r.done
      /\ s.wire \in Seq(Range(s.wire)) /\ Range(s.wire) \subseteq Range(r.wire)
  BY DEF Served
<1>2. /\ \A t \in Txns : NotApplied(r, app, t) => NotApplied(s, now, t)
      /\ \A t \in Txns : NotApplied(r, app, t) /\ Unanswered(ans, t) => Unanswered(more, t)
      /\ \A t \in Txns : app[t] = 1 => now[t] = 1
  BY DEF Served
<1>3. Shape(s)
  BY <1>0, <1>1 DEF Shape
<1>4. Planted(s) /\ AheadOnWay(s) /\ ToldOnce(s)
  BY <1>1 DEF Truthful, Planted, AheadOnWay, ToldOnce, OnWay
<1>5. InTree(s) = InTree(r) /\ Live(s, {}) = Live(r, {}) /\ Wired(s) \subseteq Wired(r)
  BY <1>1 DEF InTree, Live, Wired
<1>6. Unsettled(s, more, now)
  <2>1. Unsettled(r, ans, app)
    BY DEF Truthful
  <2>. QED
    BY <1>1, <1>2, <1>5, <2>1 DEF Unsettled
<1>7. ASSUME NEW p \in Live(r, {}) PROVE Awaited(s, p, more, now)
  <2>1. Awaited(r, p, ans, app)
    BY DEF Truthful
  <2>2. Range(p.owners) \subseteq Txns
    BY <1>0, PutsOf
  <2>3. ASSUME NEW m \in more, m.owner \in Range(p.owners)
        PROVE  /\ m.owner = p.owners[1]
               /\ \A t \in Range(p.owners) : IF m.status = "ok" THEN now[t] = 1
                                                                ELSE NotApplied(s, now, t)
    <3>1. CASE m \in ans
      BY <1>2, <2>1, <2>2, <2>3, <3>1 DEF Awaited
    <3>2. CASE m \notin ans
      BY <2>3, <3>2 DEF Served
    <3>. QED
      BY <3>1, <3>2
  <2>4. ~ p.sent => /\ \A t \in Range(p.owners) : NotApplied(s, now, t)
                    /\ \A t \in Range(p.owners) : Unanswered(more, t)
    BY <1>2, <2>1, <2>2 DEF Awaited
  <2>5. /\ \A t \in Range(p.owners) :
              OnWay(s, t) /\ s.done[t] = <<>> /\ s.txn[t].path \in Within(p.path)
        /\ \A n \in Paths : \A t, u \in Range(s.tree[n]) :
              t \in Range(p.owners) /\ OnWay(s, u) => u \in Range(p.owners)
        /\ \A w \in Wired(s) : Range(w.owners) \cap Range(p.owners) # {} => w.owners = p.owners
    BY <1>1, <1>5, <2>1 DEF Awaited, OnWay
  <2>. QED
    BY <2>3, <2>4, <2>5 DEF Awaited
<1>8. OnWire(s, more, now) /\ Apart(s.puts, {})
  BY <1>1 DEF Served, OnWire, Truthful
<1>. QED
  BY <1>3, <1>4, <1>5, <1>6, <1>7, <1>8 DEF Truthful

TakeOff(r) == [r EXCEPT !.wire = Tail(@)]

LEMMA TakeOffFields ==
    ASSUME NEW r, Shape(r), r.wire # <<>>, Apart(r.wire, {})
    PROVE  /\ HasFields(TakeOff(r)) /\ TakeOff(r).txn = r.txn /\ TakeOff(r).tree = r.tree
           /\ TakeOff(r).puts = r.puts /\ TakeOff(r).connected = r.connected
           /\ TakeOff(r).done = r.done
           /\ TakeOff(r).wire \in Seq(Range(TakeOff(r).wire))
           /\ Range(TakeOff(r).wire) \subseteq Range(r.wire)
           /\ Apart(TakeOff(r).wire, {})
           /\ Head(r.wire) \in Range(r.wire)
           /\ OfTxns(Head(r.wire)) => \A w \in Wired(TakeOff(r)) :
                 Range(w.owners) \cap Range(Head(r.wire).owners) = {}
<1>. DEFINE s == TakeOff(r)
            q == r.wire
            put == Head(q)
            tail == Tail(q)
<1>1. /\ HasFields(s) /\ s.txn = r.txn /\ s.tree = r.tree /\ s.puts = r.puts
      /\ s.connected = r.connected /\ s.done = r.done /\ s.wire = tail
  BY DEF Shape, HasFields, TakeOff
<1>. HIDE DEF s
<1>2. /\ Len(q) \in Nat /\ Len(q) >= 1 /\ DOMAIN q = 1..Len(q) /\ put = q[1] /\ put \in Range(q)
      /\ DOMAIN tail = 1..(Len(q) - 1)
      /\ \A i \in DOMAIN tail : tail[i] = q[i + 1] /\ i + 1 \in DOMAIN q
      /\ Range(tail) \subseteq Range(q) /\ tail \in Seq(Range(tail))
  <2>1. q \in Seq(Range(q))
    BY DEF Shape
  <2>. QED
    BY <2>1, TailEntries
<1>. HIDE DEF tail, put
<1>3. Apart(tail, {})
  <2>. SUFFICES ASSUME NEW i \in DOMAIN tail, NEW j \in DOMAIN tail, i # j,
                       OfTxns(tail[i]), OfTxns(tail[j])
                PROVE  Range(tail[i].owners) \cap Range(tail[j].owners) = {}
    BY Zenon DEF Apart
  <2>1. i + 1 \in DOMAIN q /\ j + 1 \in DOMAIN q /\ i + 1 # j + 1
    BY <1>2
  <2>2. tail[i] = q[i + 1] /\ tail[j] = q[j + 1]
    BY <1>2
  <2>. QED
    BY <2>1, <2>2 DEF Apart
<1>4. ASSUME OfTxns(put), NEW w \in Wired(s) PROVE Range(w.owners) \cap Range(put.owners) = {}
  <2>1. w \in Range(tail) /\ OfTxns(w)
    BY <1>1 DEF Wired
  <2>2. PICK i \in DOMAIN tail : w = tail[i]
    BY <2>1 DEF Range
  <2>3. i + 1 \in DOMAIN q /\ 1 \in DOMAIN q /\ i + 1 # 1 /\ w = q[i + 1] /\ put = q[1]
    BY <1>2, <2>2
  <2>. QED
    BY <1>4, <2>1, <2>3 DEF Apart
<1>. QED
  BY <1>1, <1>2, <1>3, <1>4 DEF s, put

\* The transactions of the first put are applied once more if the answer is "ok".
Counts(r, m, app, now) ==
    \A t \in Txns : now[t] = IF t \in Range(Head(r.wire).owners) /\ m.status = "ok"
                             THEN app[t] + 1 ELSE app[t]

LEMMA TakeOffIsServed ==
    ASSUME NEW r, NEW ans, NEW app, app \in [Txns -> {0, 1}], Truthful(r, {}, ans, app),
           r.wire # <<>>, NEW m, m.owner = Head(r.wire).owners[1],
           NEW now, Counts(r, m, app, now)
    PROVE  /\ Served(r, TakeOff(r), ans, ans \cup {m}, app, now)
           /\ \A t \in Txns : now[t] \in {0, 1}
           /\ m.owner \in Txns \cup Sets
           /\ m.owner \in Txns => Unanswered(ans, m.owner)
<1>. DEFINE s == TakeOff(r)
            put == Head(r.wire)
            O == Range(put.owners)
            more == ans \cup {m}
<1>0. Shape(r) /\ OnWire(r, ans, app) /\ Apart(r.wire, {})
  BY DEF Truthful, OnWire
<1>1. /\ HasFields(s) /\ s.txn = r.txn /\ s.tree = r.tree /\ s.puts = r.puts
      /\ s.connected = r.connected /\ s.done = r.done
      /\ s.wire \in Seq(Range(s.wire)) /\ Range(s.wire) \subseteq Range(r.wire)
      /\ Apart(s.wire, {}) /\ put \in Range(r.wire)
      /\ OfTxns(put) => \A w \in Wired(s) : Range(w.owners) \cap O = {}
  BY <1>0, TakeOffFields
<1>2. m.owner = put.owners[1] /\ m \in more /\ \A a \in more : a \in ans \/ a = m
  OBVIOUS
<1>3. \A t \in Txns : now[t] = IF t \in O /\ m.status = "ok" THEN app[t] + 1 ELSE app[t]
  BY DEF Counts
<1>4. \A t \in Txns : app[t] \in {0, 1}
  OBVIOUS
<1>. HIDE DEF s, put, more
<1>5. IsPut(put) /\ put.owners[1] \in O
  <2>1. IsPut(put)
    BY <1>0, <1>1 DEF Shape
  <2>2. put.owners \in Seq(Txns \cup Sets) /\ put.owners # <<>>
    BY <2>1 DEF IsPut
  <2>3. 1 \in DOMAIN put.owners
    BY <2>2
  <2>. QED
    BY <2>1, <2>3 DEF Range
<1>6. O \subseteq Txns \cup Sets /\ (OfTxns(put) => O \subseteq Txns) /\ (~ OfTxns(put) => O \subseteq Sets)
  BY <1>5 DEF IsPut, Range
<1>7. OfTxns(put) => put \in Wired(r) /\ (\A t \in O : app[t] = 0) /\ Unanswered(ans, put.owners[1])
  BY <1>0, <1>1 DEF Wired, OnWire
<1>. HIDE DEF O
<1>8. ASSUME NEW t \in Txns, NotApplied(r, app, t) PROVE t \notin O
  BY <1>6, <1>7, <1>8, TxnsAreNotSets DEF NotApplied, O
<1>9. Wired(s) \subseteq Wired(r)
  BY <1>1 DEF Wired
<1>10. \A t \in Txns : t \notin O => now[t] = app[t] /\ (Unanswered(ans, t) => Unanswered(more, t))
  BY <1>2, <1>3, <1>5 DEF Unanswered
<1>11. ASSUME NEW t \in Txns, NotApplied(r, app, t) PROVE NotApplied(s, now, t)
  BY <1>8, <1>9, <1>10, <1>11 DEF NotApplied
<1>12. ASSUME NEW t \in Txns, NotApplied(r, app, t), Unanswered(ans, t) PROVE Unanswered(more, t)
  BY <1>8, <1>10, <1>12
<1>13. ASSUME NEW t \in Txns, app[t] = 1 PROVE now[t] = 1
  BY <1>6, <1>7, <1>10, <1>13, TxnsAreNotSets
<1>14. ASSUME NEW w \in Wired(s)
       PROVE  (\A t \in Range(w.owners) : now[t] = 0) /\ Unanswered(more, w.owners[1])
  <2>1. w \in Wired(r) /\ Range(w.owners) \subseteq Txns /\ w.owners[1] \in Range(w.owners)
    BY <1>0, <1>9, PutsOf
  <2>2. (\A t \in Range(w.owners) : app[t] = 0) /\ Unanswered(ans, w.owners[1])
    BY <1>0, <2>1 DEF OnWire
  <2>3. Range(w.owners) \cap O = {}
    BY <1>1, <1>6, <2>1, TxnsAreNotSets DEF O
  <2>. QED
    BY <1>10, <2>1, <2>2, <2>3
<1>15. ASSUME NEW p \in Live(r, {}), NEW a \in more \ ans, a.owner \in Range(p.owners)
       PROVE  /\ a.owner = p.owners[1]
              /\ \A t \in Range(p.owners) : IF a.status = "ok" THEN now[t] = 1
                                                               ELSE NotApplied(s, now, t)
  <2>1. a = m /\ put.owners[1] \in Range(p.owners)
    BY <1>2, <1>15
  <2>2. Range(p.owners) \subseteq Txns
    BY <1>0, PutsOf
  <2>3. OfTxns(put)
    BY <1>5, <1>6, <2>1, <2>2, TxnsAreNotSets
  <2>4. put.owners = p.owners
    <3>1. Awaited(r, p, ans, app)
      BY DEF Truthful
    <3>2. put \in Wired(r) /\ Range(put.owners) \cap Range(p.owners) # {}
      BY <1>5, <1>7, <2>1, <2>3 DEF O
    <3>. QED
      BY <3>1, <3>2 DEF Awaited
  <2>5. ASSUME NEW t \in O PROVE IF m.status = "ok" THEN now[t] = 1 ELSE NotApplied(s, now, t)
    <3>1. t \in Txns /\ app[t] = 0
      BY <1>6, <1>7, <2>3
    <3>2. \A w \in Wired(s) : t \notin Range(w.owners)
      BY <1>1, <2>3 DEF O
    <3>. QED
      BY <1>3, <3>1, <3>2 DEF NotApplied
  <2>. QED
    BY <1>2, <2>1, <2>4, <2>5 DEF O
<1>16. Served(r, s, ans, more, app, now)
  BY <1>1, <1>11, <1>12, <1>13, <1>14, <1>15 DEF Served
<1>17. \A t \in Txns : now[t] \in {0, 1}
  BY <1>3, <1>4, <1>6, <1>7, TxnsAreNotSets
<1>18. m.owner \in Txns \cup Sets /\ (m.owner \in Txns => Unanswered(ans, m.owner))
  BY <1>2, <1>5, <1>6, <1>7, TxnsAreNotSets
<1>. QED
  BY <1>16, <1>17, <1>18 DEF s, more


LEMMA DataSent ==
    ASSUME NEW q, GoodReplies(q), NEW m, m.type = "data", m.path \in Paths
    PROVE  GoodReplies(Append(q, m)) /\ Answers(Append(q, m)) = Answers(q)
<1>. DEFINE s == Append(q, m)
<1>1. q \in Seq(Range(q))
  BY DEF GoodReplies
<1>2. Range(s) = Range(q) \cup {m} /\ s \in Seq(Range(s))
  BY <1>1, AppendedRange
<1>3. /\ Len(q) \in Nat /\ DOMAIN q = 1..Len(q) /\ DOMAIN s = 1..(Len(q) + 1)
      /\ s[Len(q) + 1] = m /\ \A i \in 1..Len(q) : s[i] = q[i]
  BY <1>1, EntryAppended
<1>. HIDE DEF s
<1>4. Answers(s) = Answers(q)
  BY <1>2 DEF Answers
<1>5. ASSUME NEW i \in DOMAIN s, NEW j \in DOMAIN s, i # j,
             s[i].type = "answer", s[j].type = "answer", s[i].owner \in Txns
      PROVE  s[i].owner # s[j].owner
  <2>1. i \in DOMAIN q /\ j \in DOMAIN q /\ s[i] = q[i] /\ s[j] = q[j]
    BY <1>3, <1>5
  <2>. QED
    BY <1>5, <2>1 DEF GoodReplies
<1>6. \A a \in Range(s) :
         /\ a.type = "data" => a.path \in Paths
         /\ a.type = "answer" => /\ a.owner \in Txns \cup Sets
                                 /\ a.status \in {"ok", "datastale", "permission_denied"}
  BY <1>2 DEF GoodReplies
<1>7. GoodReplies(s)
  BY <1>2, <1>5, <1>6 DEF GoodReplies
<1>. QED
  BY <1>4, <1>7 DEF s

LEMMA AnswerSent ==
    ASSUME NEW q, GoodReplies(q), NEW m, m.type = "answer", m.owner \in Txns \cup Sets,
           m.status \in {"ok", "datastale", "permission_denied"},
           m.owner \in Txns => Unanswered(Answers(q), m.owner)
    PROVE  GoodReplies(Append(q, m)) /\ Answers(Append(q, m)) = Answers(q) \cup {m}
<1>. DEFINE s == Append(q, m)
<1>1. q \in Seq(Range(q))
  BY DEF GoodReplies
<1>2. Range(s) = Range(q) \cup {m} /\ s \in Seq(Range(s))
  BY <1>1, AppendedRange
<1>3. /\ Len(q) \in Nat /\ DOMAIN q = 1..Len(q) /\ DOMAIN s = 1..(Len(q) + 1)
      /\ s[Len(q) + 1] = m /\ \A i \in 1..Len(q) : s[i] = q[i]
  BY <1>1, EntryAppended
<1>. HIDE DEF s
<1>4. Answers(s) = Answers(q) \cup {m}
  BY <1>2 DEF Answers
<1>5. ASSUME NEW i \in DOMAIN s, NEW j \in DOMAIN s, i # j,
             s[i].type = "answer", s[j].type = "answer", s[i].owner \in Txns
      PROVE  s[i].owner # s[j].owner
  <2>0. /\ i \in DOMAIN q \/ i = Len(q) + 1
        /\ j \in DOMAIN q \/ j = Len(q) + 1
    BY <1>3
  <2>1. \A k \in DOMAIN q : s[k] = q[k] /\ (q[k].type = "answer" => q[k] \in Answers(q))
    BY <1>3 DEF Answers, Range
  <2>2. CASE i \in DOMAIN q /\ j \in DOMAIN q
    BY <1>5, <2>1, <2>2 DEF GoodReplies
  <2>3. CASE i = Len(q) + 1 /\ j \in DOMAIN q
    BY <1>3, <1>5, <2>1, <2>3 DEF Unanswered
  <2>4. CASE i \in DOMAIN q /\ j = Len(q) + 1
    BY <1>3, <1>5, <2>1, <2>4 DEF Unanswered
  <2>. QED
    BY <1>5, <2>0, <2>2, <2>3, <2>4
<1>6. \A a \in Range(s) :
         /\ a.type = "data" => a.path \in Paths
         /\ a.type = "answer" => /\ a.owner \in Txns \cup Sets
                                 /\ a.status \in {"ok", "datastale", "permission_denied"}
  BY <1>2 DEF GoodReplies
<1>7. GoodReplies(s)
  BY <1>2, <1>5, <1>6 DEF GoodReplies
<1>. QED
  BY <1>4, <1>7 DEF s

LEMMA TakeOffIsClean ==
    ASSUME NEW r, HasFields(r), Clean(r)
    PROVE  Clean(TakeOff(r)) /\ TakeOff(r).connected = r.connected
<1>1. TakeOff(r).txn = r.txn /\ TakeOff(r).tree = r.tree /\ TakeOff(r).connected = r.connected
  BY DEF TakeOff, HasFields
<1>. QED
  BY <1>1 DEF Clean, InTree

\* What the actions of the server have in common.
LEMMA ServerKeepsInv ==
    ASSUME IInv, client.wire # <<>>, client' = TakeOff(client),
           NEW q, GoodReplies(q), Answers(q) = Answers(replies),
           NEW m, m.type = "answer", m.owner = Head(client.wire).owners[1],
           m.status \in {"ok", "datastale", "permission_denied"},
           replies' = Append(q, m),
           applied' = [t \in Txns |-> applied'[t]], Counts(client, m, applied, applied'),
           "sets" \in DOMAIN left' /\ left'.sets \subseteq Sets
    PROVE  IInv'
<1>. DEFINE ans == Answers(replies)
<1>1. /\ Truthful(client, {}, ans, applied) /\ Clean(client) /\ HasFields(client)
      /\ applied \in [Txns -> {0, 1}] /\ client.connected
  BY DEF IInv, CutOff, Truthful, Shape
<1>3. /\ Served(client, TakeOff(client), ans, ans \cup {m}, applied, applied')
      /\ \A t \in Txns : applied'[t] \in {0, 1}
      /\ m.owner \in Txns \cup Sets
      /\ m.owner \in Txns => Unanswered(ans, m.owner)
  BY <1>1, TakeOffIsServed
<1>4. GoodReplies(replies') /\ Answers(replies') = ans \cup {m}
  BY <1>3, AnswerSent
<1>5. Truthful(client', {}, ans \cup {m}, applied')
  BY <1>1, <1>3, ServedIsTruthful
<1>6. Clean(client') /\ client'.connected
  BY <1>1, TakeOffIsClean
<1>7. applied' \in [Txns -> {0, 1}]
  BY <1>3
<1>8. CutOff(client', replies')
  BY <1>6 DEF CutOff
<1>. HIDE DEF ans
<1>. QED
  BY <1>4, <1>5, <1>6, <1>7, <1>8 DEF IInv

LEMMA AnswerFields ==
    ASSUME NEW put, NEW status
    PROVE  /\ AnswerTo(put, status).type = "answer"
           /\ AnswerTo(put, status).owner = put.owners[1]
           /\ AnswerTo(put, status).status = status
  BY DEF AnswerTo

LEMMA OnePathOfThePut ==
    ASSUME IInv, client.wire # <<>>
    PROVE  Head(client.wire).path \in Paths
<1>1. client.wire \in Seq(Range(client.wire)) /\ \A put \in Range(client.wire) : IsPut(put)
  BY DEF IInv, Truthful, Shape
<1>2. Head(client.wire) \in Range(client.wire)
  BY <1>1, TailEntries
<1>. QED
  BY <1>1, <1>2 DEF IsPut

LEMMA TwoAppended ==
    ASSUME NEW q, q \in Seq(Range(q)), NEW d, NEW m
    PROVE  q \o <<d, m>> = Append(Append(q, d), m)
<1>. DEFINE S == Range(q) \cup {d, m}
<1>1. q \in Seq(S) /\ d \in S /\ m \in S
  OBVIOUS
<1>. HIDE DEF S
<1>. QED
  BY <1>1

LEMMA ServerAppliesKeepsInv ==
    ASSUME IInv, ServerApplies
    PROVE  IInv'
<1>. DEFINE put == Head(client.wire)
            d == [type |-> "data", path |-> put.path, value |-> put.value]
            m == AnswerTo(put, "ok")
            q == Append(replies, d)
<1>1. /\ client.wire # <<>> /\ client' = TakeOff(client) /\ left' = left
      /\ replies' = replies \o <<d, m>>
      /\ applied' = [t \in Txns |-> IF t \in Range(put.owners) THEN applied[t] + 1 ELSE applied[t]]
  BY DEF ServerApplies, TakeOff
<1>2. GoodReplies(replies) /\ replies \in Seq(Range(replies))
  BY DEF IInv, GoodReplies
<1>3. replies' = Append(q, m)
  <2>. HIDE DEF d, m
  <2>. QED
    BY <1>1, <1>2, TwoAppended
<1>4. d.type = "data" /\ d.path \in Paths
  BY <1>1, OnePathOfThePut
<1>5. m.type = "answer" /\ m.owner = put.owners[1] /\ m.status = "ok"
  BY AnswerFields
<1>. HIDE DEF d, m
<1>6. GoodReplies(q) /\ Answers(q) = Answers(replies)
  BY <1>2, <1>4, DataSent
<1>. HIDE DEF q
<1>7. applied' = [t \in Txns |-> applied'[t]] /\ Counts(client, m, applied, applied')
  BY <1>1, <1>5 DEF Counts
<1>8. "sets" \in DOMAIN left' /\ left'.sets \subseteq Sets
  BY <1>1 DEF IInv
<1>9. m.status \in {"ok", "datastale", "permission_denied"}
  BY <1>5
<1>. HIDE DEF put
<1>10. m.owner = Head(client.wire).owners[1]
  BY <1>5 DEF put
<1>. QED
  BY <1>1, <1>3, <1>5, <1>6, <1>7, <1>8, <1>9, <1>10, ServerKeepsInv

LEMMA ServerRefusesKeepsInv ==
    ASSUME IInv, ServerRefuses
    PROVE  IInv'
<1>. DEFINE put == Head(client.wire)
<1>1. /\ client.wire # <<>> /\ client' = TakeOff(client) /\ applied' = applied
  BY DEF ServerRefuses, TakeOff
<1>2. PICK status \in {"datastale", "permission_denied"} : replies' = Append(replies, AnswerTo(put, status))
  BY DEF ServerRefuses
<1>. DEFINE m == AnswerTo(put, status)
<1>3. m.type = "answer" /\ m.owner = put.owners[1] /\ m.status = status
  BY AnswerFields
<1>4. replies' = Append(replies, m)
  BY <1>2
<1>. HIDE DEF m
<1>5. GoodReplies(replies) /\ applied \in [Txns -> {0, 1}]
  BY DEF IInv
<1>6. applied' = [t \in Txns |-> applied'[t]] /\ Counts(client, m, applied, applied')
  BY <1>1, <1>3, <1>5 DEF Counts
<1>7. "sets" \in DOMAIN left' /\ left'.sets \subseteq Sets
  BY DEF ServerRefuses, IInv
<1>. QED
  BY <1>1, <1>3, <1>4, <1>5, <1>6, <1>7, ServerKeepsInv

LEMMA OtherClientKeepsInv ==
    ASSUME IInv, NEW k \in Kids, OtherClientWrites(k)
    PROVE  IInv'
<1>. DEFINE d == [type |-> "data", path |-> k, value |-> (k :> Append(server[k], Foreign))]
<1>1. /\ replies' = IF client.connected THEN Append(replies, d) ELSE replies
      /\ client' = client /\ applied' = applied
  BY Zenon DEF OtherClientWrites
<1>2. d.type = "data" /\ d.path \in Paths
  BY DEF Paths
<1>. HIDE DEF d
<1>3. GoodReplies(replies)
  BY DEF IInv
<1>4. GoodReplies(replies') /\ Answers(replies') = Answers(replies)
  BY <1>1, <1>2, <1>3, DataSent
<1>5. CutOff(client', replies')
  BY <1>1 DEF IInv, CutOff
<1>6. "sets" \in DOMAIN left' /\ left'.sets \subseteq Sets
  BY DEF OtherClientWrites, IInv
<1>. QED
  BY <1>1, <1>4, <1>5, <1>6 DEF IInv

-----------------------------------------------------------------------------
(* The theorem.                                                            *)

LEMMA InitHasInv ==
    ASSUME Init
    PROVE  IInv
<1>1. /\ HasFields(client)
      /\ \A t \in Txns : client.txn[t].status = "none" /\ client.txn[t].path = Root
                         /\ client.done[t] = <<>> /\ applied[t] = 0
      /\ \A n \in Paths : client.tree[n] = <<>>
      /\ client.puts = <<>> /\ client.wire = <<>> /\ client.connected = FALSE
      /\ applied = [t \in Txns |-> 0]
  BY DEF Init, HasFields
<1>2. replies = <<>> /\ Answers(replies) = {} /\ GoodReplies(replies)
  BY NoReplies DEF Init
<1>3. "sets" \in DOMAIN left /\ left.sets \subseteq Sets
  BY DEF Init
<1>4. /\ DOMAIN <<>> = {} /\ <<>> \in Seq({}) /\ <<>> \in Seq(Txns) /\ <<>> \in Seq(Outcomes)
      /\ Len(<<>>) = 0
  OBVIOUS
<1>5. Range(<<>>) = {}
  BY <1>4 DEF Range
<1>6. Root \in Paths /\ "none" \in Statuses
  BY DEF Paths, Statuses
<1>7. Shape(client)
  BY <1>1, <1>4, <1>5, <1>6 DEF Shape
<1>8. InTree(client) = {} /\ Live(client, {}) = {} /\ Wired(client) = {}
  BY <1>1, <1>5 DEF InTree, Live, Wired
<1>9. Planted(client) /\ AheadOnWay(client)
  BY <1>1, <1>4, <1>5 DEF Planted, AheadOnWay
<1>10. ToldOnce(client)
  BY <1>1, <1>4 DEF ToldOnce
<1>11. Unsettled(client, {}, applied)
  BY <1>1, <1>5, <1>8 DEF Unsettled, NotApplied, Unanswered
<1>12. Apart(client.puts, {}) /\ OnWire(client, {}, applied)
  BY <1>1, <1>4, <1>8 DEF Apart, OnWire
<1>13. Truthful(client, {}, {}, applied)
  BY <1>7, <1>8, <1>9, <1>10, <1>11, <1>12 DEF Truthful
<1>14. Clean(client) /\ CutOff(client, replies)
  BY <1>1, <1>2, <1>8 DEF Clean, CutOff
<1>15. applied \in [Txns -> {0, 1}]
  BY <1>1
<1>. QED
  BY <1>2, <1>3, <1>13, <1>14, <1>15 DEF IInv

LEMMA NextKeepsInv ==
    ASSUME IInv, [Next]_vars
    PROVE  IInv'
<1>1. CASE Next
  <2>1. ASSUME NEW t \in Txns, NEW p \in TxnPaths, StartTransaction(t, p) PROVE IInv'
    BY <2>1, StartKeepsInv
  <2>2. ASSUME NEW p \in SetPaths, NEW order \in Orders(p), Set(p, order) PROVE IInv'
    BY <2>2, SetKeepsInv
  <2>3. ASSUME NEW order \in Orders(Root), PurgeOutstandingWrites(order) PROVE IInv'
    BY <2>3, PurgeKeepsInv
  <2>4. CASE DeliverData
    BY <2>4, DeliverDataKeepsInv
  <2>5. CASE DeliverAnswer
    BY <2>5, DeliverAnswerKeepsInv
  <2>6. ASSUME NEW order \in SetToSeqs(SentTransactions), Disconnect(order) PROVE IInv'
    BY <2>6, DisconnectKeepsInv
  <2>7. CASE Connect
    BY <2>7, ConnectKeepsInv
  <2>8. CASE ServerApplies
    BY <2>8, ServerAppliesKeepsInv
  <2>9. CASE ServerRefuses
    BY <2>9, ServerRefusesKeepsInv
  <2>10. ASSUME NEW k \in Kids, OtherClientWrites(k) PROVE IInv'
    BY <2>10, OtherClientKeepsInv
  <2>. QED
    BY <1>1, <2>1, <2>2, <2>3, <2>4, <2>5, <2>6, <2>7, <2>8, <2>9, <2>10, Zenon DEF Next
<1>2. CASE UNCHANGED vars
  BY <1>2 DEF vars, IInv
<1>. QED
  BY <1>1, <1>2

LEMMA InvIsTrue ==
    ASSUME IInv
    PROVE  OutcomeIsTrue
<1>1. /\ ToldOnce(client) /\ Unsettled(client, Answers(replies), applied)
      /\ applied \in [Txns -> {0, 1}]
  BY DEF IInv, Truthful
<1>2. \A t \in Txns : applied[t] <= 1
  BY <1>1
<1>3. \A t \in Txns : Len(client.done[t]) <= 1 /\ (client.done[t] = <<"committed">> => applied[t] = 1)
  BY <1>1 DEF ToldOnce, Unsettled
<1>4. \A t \in Txns : Range(client.done[t]) \cap Denials # {} => applied[t] = 0
  BY <1>1 DEF Unsettled, NotApplied
<1>. QED
  BY <1>2, <1>3, <1>4 DEF OutcomeIsTrue, Denials

\* Whatever is started, set, refused, lost and purged, and in whatever order messages
\* arrive: the completion block of a transaction is called at most once, "committed" means
\* that the server applied it exactly once, and "set", "maxretry", a block that gave up and
\* a refusal mean that it never did (FRepo's sendTransactionQueue:,
\* rerunTransactionQueue:atPath: and abortTransactionsAtNode:error:).
THEOREM OutcomesAreTrue == Spec => []OutcomeIsTrue
<1>1. Init => IInv
  BY InitHasInv
<1>2. IInv /\ [Next]_vars => IInv'
  BY NextKeepsInv
<1>3. IInv => OutcomeIsTrue
  BY InvIsTrue
<1>. QED
  BY <1>1, <1>2, <1>3, PTL DEF Spec
=============================================================================
