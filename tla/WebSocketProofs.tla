-------------------------- MODULE WebSocketProofs --------------------------
(***************************************************************************)
(* Proofs about WebSocket, for any messages of any length, any number of   *)
(* keep-alives and pings, and every way a connection may end.              *)
(*                                                                         *)
(* What a frame meets on its way (wires, buffers, queues) is one pipeline  *)
(* in each direction.  A Run says that the frames of data in one of its    *)
(* parts are the piece from a to b of all frames of the messages; the      *)
(* parts of a pipeline are consecutive runs.                               *)
(***************************************************************************)
EXTENDS WebSocket, FiniteSetTheorems, SequenceTheorems, TLAPS

-----------------------------------------------------------------------------
(* Induction over the natural numbers, for a set instead of a predicate.   *)

LEMMA LeastNumber ==
    ASSUME NEW T, T \subseteq Nat, T # {}
    PROVE  \E x \in T : \A y \in T : x <= y
<1>1. PICK x \in T : \A y \in T : ~ (<<y, x>> \in OpToRel(<, Nat))
  BY NatLessThanWellFounded, WFMin
<1>2. \A y, z \in Nat : y < z => <<y, z>> \in OpToRel(<, Nat)
  BY DEF OpToRel
<1>3. \A y \in T : ~ (y < x)
  BY <1>1, <1>2
<1>. QED
  BY <1>3

LEMMA NumbersByInduction ==
    ASSUME NEW T, 0 \in T, \A n \in T : n \in Nat => n + 1 \in T
    PROVE  Nat \subseteq T
<1>. SUFFICES ASSUME Nat \ T # {} PROVE FALSE
  OBVIOUS
<1>1. PICK x \in Nat \ T : \A y \in Nat \ T : x <= y
  BY LeastNumber
<1>2. x - 1 \in Nat /\ x - 1 \in T
  BY <1>1
<1>3. (x - 1) + 1 \in T
  BY <1>2
<1>. QED
  BY <1>1, <1>3

-----------------------------------------------------------------------------
(* Runs.                                                                   *)

\* p is the number of frames of F that came before each frame of s, and behind the last.
Counts(p, s, F) ==
    \A i \in 1..Len(s) :
        IF IsData(s[i])
        THEN p[i + 1] = p[i] + 1 /\ p[i + 1] <= Len(F) /\ s[i] = F[p[i] + 1]
        ELSE p[i + 1] = p[i]

Run(s, F, a, b) ==
    \E p \in [1..(Len(s) + 1) -> Nat] : p[1] = a /\ p[Len(s) + 1] = b /\ Counts(p, s, F)

LEMMA RunEmpty ==
    ASSUME NEW F, NEW a \in Nat
    PROVE  Run(<<>>, F, a, a)
<1>. DEFINE p == [i \in 1..1 |-> a]
<1>1. p \in [1..(Len(<<>>) + 1) -> Nat] /\ p[1] = a /\ Counts(p, <<>>, F)
  BY DEF Counts
<1>. QED
  BY <1>1 DEF Run

LEMMA RunEmptyEnds ==
    ASSUME NEW F, NEW a, NEW b, Run(<<>>, F, a, b)
    PROVE  a = b
  BY DEF Run

LEMMA RunNat ==
    ASSUME NEW s \in Seq(Frames), NEW F, NEW a, NEW b, Run(s, F, a, b)
    PROVE  a \in Nat /\ b \in Nat
  BY DEF Run

LEMMA RunOneOther ==
    ASSUME NEW F, NEW f, ~IsData(f), NEW a \in Nat
    PROVE  Run(<<f>>, F, a, a)
<1>. DEFINE p == [i \in 1..2 |-> a]
<1>1. p \in [1..(Len(<<f>>) + 1) -> Nat] /\ p[1] = a /\ p[Len(<<f>>) + 1] = a
  OBVIOUS
<1>2. Counts(p, <<f>>, F)
  BY DEF Counts
<1>. QED
  BY <1>1, <1>2 DEF Run

LEMMA RunOneData ==
    ASSUME NEW F, NEW a \in Nat, Len(F) \in Nat, a < Len(F), NEW f, f = F[a + 1], IsData(f)
    PROVE  Run(<<f>>, F, a, a + 1)
<1>. DEFINE p == [i \in 1..2 |-> IF i = 1 THEN a ELSE a + 1]
<1>1. p \in [1..(Len(<<f>>) + 1) -> Nat] /\ p[1] = a /\ p[Len(<<f>>) + 1] = a + 1
  OBVIOUS
<1>2. Counts(p, <<f>>, F)
  BY DEF Counts
<1>. QED
  BY <1>1, <1>2 DEF Run

LEMMA RunConcat ==
    ASSUME NEW s \in Seq(Frames), NEW t \in Seq(Frames), NEW F, NEW a, NEW b, NEW c,
           Run(s, F, a, b), Run(t, F, b, c)
    PROVE  Run(s \o t, F, a, c)
<1>1. PICK p \in [1..(Len(s) + 1) -> Nat] : p[1] = a /\ p[Len(s) + 1] = b /\ Counts(p, s, F)
  BY DEF Run
<1>2. PICK q \in [1..(Len(t) + 1) -> Nat] : q[1] = b /\ q[Len(t) + 1] = c /\ Counts(q, t, F)
  BY DEF Run
<1>. DEFINE u == s \o t
            r == [i \in 1..(Len(u) + 1) |-> IF i <= Len(s) THEN p[i] ELSE q[i - Len(s)]]
<1>3. /\ Len(u) = Len(s) + Len(t) /\ Len(s) \in Nat /\ Len(t) \in Nat
      /\ \A i \in 1..Len(s) : u[i] = s[i]
      /\ \A i \in 1..Len(t) : u[Len(s) + i] = t[i]
  OBVIOUS
<1>. HIDE DEF u
<1>4. r \in [1..(Len(u) + 1) -> Nat] /\ r[1] = a /\ r[Len(u) + 1] = c
  BY <1>1, <1>2, <1>3
<1>5. Counts(r, u, F)
  <2>. SUFFICES ASSUME NEW i \in 1..Len(u)
                PROVE  IF IsData(u[i])
                       THEN r[i + 1] = r[i] + 1 /\ r[i + 1] <= Len(F) /\ u[i] = F[r[i] + 1]
                       ELSE r[i + 1] = r[i]
    BY DEF Counts
  <2>1. CASE i <= Len(s)
    <3>1. u[i] = s[i] /\ r[i] = p[i] /\ i \in 1..Len(s)
      BY <1>3, <2>1
    <3>2. r[i + 1] = p[i + 1]
      BY <1>1, <1>2, <1>3, <2>1
    <3>. QED
      BY <1>1, <3>1, <3>2 DEF Counts
  <2>2. CASE i > Len(s)
    <3>. DEFINE j == i - Len(s)
    <3>1. j \in 1..Len(t) /\ i = Len(s) + j
      BY <1>3, <2>2
    <3>2. u[i] = t[j] /\ r[i] = q[j]
      BY <1>3, <2>2, <3>1
    <3>3. r[i + 1] = q[j + 1]
      BY <1>3, <2>2, <3>1
    <3>. QED
      BY <1>2, <3>1, <3>2, <3>3 DEF Counts
  <2>. QED
    BY <1>3, <2>1, <2>2
<1>. QED
  BY <1>4, <1>5 DEF Run, u

LEMMA RunSplit ==
    ASSUME NEW s \in Seq(Frames), NEW F, NEW a, NEW c, Run(s, F, a, c), NEW n \in 0..Len(s)
    PROVE  \E b \in Nat : Run(SubSeq(s, 1, n), F, a, b) /\ Run(SubSeq(s, n + 1, Len(s)), F, b, c)
<1>1. PICK p \in [1..(Len(s) + 1) -> Nat] : p[1] = a /\ p[Len(s) + 1] = c /\ Counts(p, s, F)
  BY DEF Run
<1>. DEFINE t == SubSeq(s, 1, n)
            u == SubSeq(s, n + 1, Len(s))
            q == [i \in 1..(Len(t) + 1) |-> p[i]]
            r == [i \in 1..(Len(u) + 1) |-> p[n + i]]
<1>2. /\ Len(t) = n /\ Len(u) = Len(s) - n /\ Len(s) \in Nat
      /\ \A i \in 1..n : t[i] = s[i]
      /\ \A i \in 1..(Len(s) - n) : u[i] = s[n + i]
  OBVIOUS
<1>. HIDE DEF t, u
<1>3. q \in [1..(Len(t) + 1) -> Nat] /\ q[1] = a /\ q[Len(t) + 1] = p[n + 1]
  BY <1>1, <1>2
<1>6. Counts(q, t, F)
  <2>. SUFFICES ASSUME NEW i \in 1..Len(t)
                PROVE  IF IsData(t[i])
                       THEN q[i + 1] = q[i] + 1 /\ q[i + 1] <= Len(F) /\ t[i] = F[q[i] + 1]
                       ELSE q[i + 1] = q[i]
    BY DEF Counts
  <2>1. i \in 1..Len(s) /\ t[i] = s[i]
    BY <1>2
  <2>2. q[i] = p[i] /\ q[i + 1] = p[i + 1]
    BY <1>2
  <2>. QED
    BY <1>1, <2>1, <2>2 DEF Counts
<1>4. r \in [1..(Len(u) + 1) -> Nat] /\ r[1] = p[n + 1] /\ r[Len(u) + 1] = c
  BY <1>1, <1>2
<1>5. Counts(r, u, F)
  <2>. SUFFICES ASSUME NEW i \in 1..Len(u)
                PROVE  IF IsData(u[i])
                       THEN r[i + 1] = r[i] + 1 /\ r[i + 1] <= Len(F) /\ u[i] = F[r[i] + 1]
                       ELSE r[i + 1] = r[i]
    BY DEF Counts
  <2>1. n + i \in 1..Len(s) /\ u[i] = s[n + i]
    BY <1>2
  <2>2. r[i] = p[n + i] /\ r[i + 1] = p[(n + i) + 1]
    BY <1>2
  <2>. QED
    BY <1>1, <2>1, <2>2 DEF Counts
<1>. HIDE DEF q, r
<1>7. p[n + 1] \in Nat
  <2>1. n + 1 \in 1..(Len(s) + 1)
    BY <1>2
  <2>. QED
    BY <1>1, <2>1
<1>8. Run(t, F, a, p[n + 1])
  BY <1>3, <1>6 DEF Run
<1>9. Run(u, F, p[n + 1], c)
  BY <1>4, <1>5 DEF Run
<1>. QED
  BY <1>7, <1>8, <1>9 DEF t, u

LEMMA OneElement ==
    ASSUME NEW S, NEW x \in S
    PROVE  <<x>> \in Seq(S) /\ Len(<<x>>) = 1 /\ <<x>>[1] = x
  OBVIOUS

LEMMA RunHead ==
    ASSUME NEW s \in Seq(Frames), s # <<>>, NEW F, Len(F) \in Nat, NEW a, NEW c, Run(s, F, a, c)
    PROVE  /\ ~IsData(Head(s)) => Run(Tail(s), F, a, c)
           /\ IsData(Head(s)) => a < Len(F) /\ Head(s) = F[a + 1] /\ Run(Tail(s), F, a + 1, c)
<1>1. Len(s) >= 1 /\ 1 \in 0..Len(s) /\ Tail(s) = SubSeq(s, 2, Len(s)) /\ Head(s) = s[1]
  OBVIOUS
<1>2. PICK b \in Nat : Run(SubSeq(s, 1, 1), F, a, b) /\ Run(SubSeq(s, 1 + 1, Len(s)), F, b, c)
  BY <1>1, RunSplit
<1>3. SubSeq(s, 1, 1) = <<Head(s)>>
  <2>1. SubSeq(s, 1, 1) \in Seq(Frames) /\ Len(SubSeq(s, 1, 1)) = 1 /\ SubSeq(s, 1, 1)[1] = s[1]
    BY <1>1
  <2>2. Head(s) \in Frames
    BY <1>1, ElementOfSeq
  <2>3. <<Head(s)>> \in Seq(Frames) /\ Len(<<Head(s)>>) = 1 /\ <<Head(s)>>[1] = Head(s)
    BY <2>2, OneElement, Zenon
  <2>. DEFINE t == <<Head(s)>>
              u == SubSeq(s, 1, 1)
  <2>4. t[1] = u[1]
    BY <1>1, <2>1, <2>3
  <2>. HIDE DEF t, u
  <2>5. t \in Seq(Frames) /\ u \in Seq(Frames) /\ Len(t) = 1 /\ Len(u) = 1
    BY <2>1, <2>3 DEF t, u
  <2>6. t = u
    BY <2>4, <2>5, SeqEqual
  <2>. QED
    BY <2>6 DEF t, u
<1>4. PICK p \in [1..2 -> Nat] : p[1] = a /\ p[2] = b /\ Counts(p, <<Head(s)>>, F)
  <2>1. Len(<<Head(s)>>) + 1 = 2
    OBVIOUS
  <2>. QED
    BY <1>2, <1>3, <2>1 DEF Run
<1>5. IF IsData(Head(s)) THEN b = a + 1 /\ b <= Len(F) /\ Head(s) = F[a + 1] ELSE b = a
  BY <1>4 DEF Counts
<1>6. a \in Nat
  BY <1>4
<1>7. Run(Tail(s), F, b, c)
  <2>1. 1 + 1 = 2
    OBVIOUS
  <2>. QED
    BY <1>1, <1>2, <2>1, Zenon
<1>. HIDE DEF Run
<1>. QED
  BY <1>5, <1>6, <1>7

LEMMA RunOther ==
    ASSUME NEW s \in Seq(Frames), NEW F, NEW a \in Nat, \A i \in 1..Len(s) : ~IsData(s[i])
    PROVE  Run(s, F, a, a)
<1>. DEFINE p == [i \in 1..(Len(s) + 1) |-> a]
<1>1. Len(s) \in Nat
  OBVIOUS
<1>2. p \in [1..(Len(s) + 1) -> Nat] /\ p[1] = a /\ p[Len(s) + 1] = a
  BY <1>1
<1>3. \A i \in 1..Len(s) : p[i + 1] = p[i]
  BY <1>1
<1>4. Counts(p, s, F)
  BY <1>3 DEF Counts
<1>. QED
  BY <1>2, <1>4 DEF Run

LEMMA RunPiece ==
    ASSUME NEW s \in Seq(Frames), NEW F, Len(F) \in Nat, NEW a \in Nat, a + Len(s) <= Len(F),
           \A i \in 1..Len(s) : IsData(s[i]) /\ s[i] = F[a + i]
    PROVE  Run(s, F, a, a + Len(s))
<1>. DEFINE p == [i \in 1..(Len(s) + 1) |-> (a + i) - 1]
<1>1. Len(s) \in Nat
  OBVIOUS
<1>2. p \in [1..(Len(s) + 1) -> Nat] /\ p[1] = a /\ p[Len(s) + 1] = a + Len(s)
  BY <1>1
<1>3. \A i \in 1..Len(s) : p[i + 1] = p[i] + 1 /\ p[i + 1] <= Len(F) /\ p[i] + 1 = a + i
  BY <1>1
<1>4. Counts(p, s, F)
  BY <1>3 DEF Counts
<1>. QED
  BY <1>2, <1>4 DEF Run

LEMMA CountsNeverFall ==
    ASSUME NEW s \in Seq(Frames), NEW F, NEW p \in [1..(Len(s) + 1) -> Nat], Counts(p, s, F)
    PROVE  \A i \in 1..(Len(s) + 1) : p[i] <= p[Len(s) + 1]
<1>1. Len(s) \in Nat
  OBVIOUS
<1>. DEFINE T == {n \in Nat : n <= Len(s) => p[(Len(s) + 1) - n] <= p[Len(s) + 1]}
<1>2. 0 \in T
  BY <1>1
<1>3. ASSUME NEW n \in T, n \in Nat PROVE n + 1 \in T
  <2>. SUFFICES ASSUME n + 1 <= Len(s) PROVE p[(Len(s) + 1) - (n + 1)] <= p[Len(s) + 1]
    BY <1>3
  <2>. DEFINE i == Len(s) - n
  <2>1. i \in 1..Len(s) /\ i + 1 = (Len(s) + 1) - n /\ i = (Len(s) + 1) - (n + 1)
    BY <1>1, <1>3
  <2>2. p[i + 1] <= p[Len(s) + 1]
    BY <1>3, <2>1
  <2>3. p[i] <= p[i + 1]
    BY <1>1, <2>1 DEF Counts
  <2>4. p[i] \in Nat /\ p[i + 1] \in Nat /\ p[Len(s) + 1] \in Nat
    BY <1>1, <2>1
  <2>. QED
    BY <2>1, <2>2, <2>3, <2>4
<1>4. Nat \subseteq T
  <2>. HIDE DEF T
  <2>. QED
    BY <1>2, <1>3, NumbersByInduction
<1>5. ASSUME NEW i \in 1..(Len(s) + 1) PROVE p[i] <= p[Len(s) + 1]
  <2>1. CASE i = Len(s) + 1
    BY <1>1, <2>1
  <2>2. CASE i <= Len(s)
    <3>1. (Len(s) + 1) - i \in Nat /\ (Len(s) + 1) - i <= Len(s)
          /\ (Len(s) + 1) - ((Len(s) + 1) - i) = i
      BY <1>1, <2>2
    <3>. QED
      BY <1>4, <3>1
  <2>. QED
    BY <1>1, <2>1, <2>2
<1>. QED
  BY <1>5

LEMMA RunRises ==
    ASSUME NEW s \in Seq(Frames), NEW F, NEW a, NEW b, Run(s, F, a, b)
    PROVE  a <= b
<1>1. PICK p \in [1..(Len(s) + 1) -> Nat] : p[1] = a /\ p[Len(s) + 1] = b /\ Counts(p, s, F)
  BY DEF Run
<1>2. 1 \in 1..(Len(s) + 1)
  OBVIOUS
<1>. QED
  BY <1>1, <1>2, CountsNeverFall

\* A run from 0 numbers its frames of data.
DataIn(s, i) == {j \in 1..i : IsData(s[j])}

LEMMA RunNumbers ==
    ASSUME NEW s \in Seq(Frames), NEW F, Len(F) \in Nat, NEW b, Run(s, F, 0, b)
    PROVE  \A i \in 1..Len(s) : IsData(s[i]) =>
               /\ Cardinality(DataIn(s, i)) \in 1..b
               /\ s[i] = F[Cardinality(DataIn(s, i))]
<1>1. PICK p \in [1..(Len(s) + 1) -> Nat] : p[1] = 0 /\ p[Len(s) + 1] = b /\ Counts(p, s, F)
  BY DEF Run
<1>2. Len(s) \in Nat
  OBVIOUS
<1>. DEFINE Numbered(n) == IsFiniteSet(DataIn(s, n)) /\ p[n + 1] = Cardinality(DataIn(s, n))
            T == {n \in Nat : n <= Len(s) => Numbered(n)}
<1>3. 0 \in T
  <2>1. DataIn(s, 0) = {}
    BY DEF DataIn
  <2>2. 0 + 1 = 1
    OBVIOUS
  <2>3. Numbered(0)
    BY <1>1, <2>1, <2>2, FS_EmptySet, Zenon
  <2>. QED
    BY <2>3
<1>4. ASSUME NEW n \in T, n \in Nat PROVE n + 1 \in T
  <2>. SUFFICES ASSUME n + 1 <= Len(s) PROVE Numbered(n + 1)
    BY <1>4
  <2>1. Numbered(n) /\ n + 1 \in 1..Len(s)
    BY <1>2, <1>4
  <2>2. CASE IsData(s[n + 1])
    <3>1. DataIn(s, n + 1) = DataIn(s, n) \cup {n + 1} /\ n + 1 \notin DataIn(s, n)
      BY <1>4, <2>2 DEF DataIn
    <3>2. p[(n + 1) + 1] = p[n + 1] + 1
      BY <1>1, <2>1, <2>2 DEF Counts
    <3>. QED
      BY <2>1, <3>1, <3>2, FS_AddElement
  <2>3. CASE ~IsData(s[n + 1])
    <3>1. DataIn(s, n + 1) = DataIn(s, n)
      BY <1>4, <2>3 DEF DataIn
    <3>2. p[(n + 1) + 1] = p[n + 1]
      BY <1>1, <2>1, <2>3 DEF Counts
    <3>. QED
      BY <2>1, <3>1, <3>2
  <2>. QED
    BY <2>2, <2>3
<1>5. Nat \subseteq T
  <2>. HIDE DEF T
  <2>. QED
    BY <1>3, <1>4, NumbersByInduction
<1>9. \A i \in 1..Len(s) : p[i + 1] <= b
  <2>1. \A i \in 1..Len(s) : i + 1 \in 1..(Len(s) + 1)
    BY <1>2
  <2>. QED
    BY <1>1, <2>1, CountsNeverFall
<1>10. ASSUME NEW i \in 1..Len(s), IsData(s[i])
       PROVE  Cardinality(DataIn(s, i)) \in 1..b /\ s[i] = F[Cardinality(DataIn(s, i))]
  <2>1. p[i + 1] = Cardinality(DataIn(s, i))
    BY <1>2, <1>5
  <2>2. p[i] \in Nat /\ p[i + 1] = p[i] + 1 /\ s[i] = F[p[i] + 1]
    BY <1>1, <1>2, <1>10 DEF Counts
  <2>3. p[i + 1] <= b /\ b \in Nat
    BY <1>1, <1>2, <1>9
  <2>. QED
    BY <2>1, <2>2, <2>3
<1>. QED
  BY <1>10

-----------------------------------------------------------------------------
(* The frames of all messages.                                             *)

Unfolds(f, segments, n) ==
    f = [m \in 0..n |-> IF m = 0 THEN <<>> ELSE f[m - 1] \o FramesOf(m, segments[m])]

LEMMA AllFramesUnfolds ==
    ASSUME NEW segments \in Seq(Nat \ {0})
    PROVE  Unfolds(AllFrames(segments), segments, Len(segments))
<1>. DEFINE T == {n \in Nat : \E f : Unfolds(f, segments, n)}
<1>1. 0 \in T
  <2>. DEFINE f == [m \in 0..0 |-> <<>>]
  <2>1. Unfolds(f, segments, 0)
    BY DEF Unfolds
  <2>. QED
    BY <2>1
<1>2. ASSUME NEW n \in T, n \in Nat PROVE n + 1 \in T
  <2>1. PICK f : Unfolds(f, segments, n)
    BY <1>2
  <2>. DEFINE g == [m \in 0..(n + 1) |-> IF m <= n THEN f[m]
                                         ELSE f[m - 1] \o FramesOf(m, segments[m])]
  <2>2. \A m \in 0..(n + 1) : m # 0 => g[m - 1] = f[m - 1]
    BY <1>2
  <2>3. \A m \in 0..n : f[m] = IF m = 0 THEN <<>> ELSE f[m - 1] \o FramesOf(m, segments[m])
    BY <2>1, Zenon DEF Unfolds
  <2>4. \A m \in 0..(n + 1) :
            g[m] = IF m = 0 THEN <<>> ELSE g[m - 1] \o FramesOf(m, segments[m])
    BY <1>2, <2>2, <2>3
  <2>5. Unfolds(g, segments, n + 1)
    <3>. HIDE DEF T
    <3>1. g = [m \in 0..(n + 1) |-> g[m]]
      OBVIOUS
    <3>. HIDE DEF g
    <3>. QED
      BY <2>4, <3>1, Zenon DEF Unfolds
  <2>. QED
    BY <2>5
<1>3. Len(segments) \in T
  <2>. HIDE DEF T
  <2>. QED
    BY <1>1, <1>2, NumbersByInduction
<1>4. \E f : Unfolds(f, segments, Len(segments))
  BY <1>3
<1>. QED
  BY <1>4, Zenon DEF Unfolds, AllFrames

SoundFrames == {f \in Frames : f.kind = "count" => f.n >= 1}

LEMMA SoundAreFrames == \A s \in Seq(SoundFrames) : s \in Seq(Frames)
<1>1. SoundFrames \subseteq Frames
  BY DEF SoundFrames
<1>. QED
  BY <1>1, SeqMonotonic

\* One frame more for the number of the segments.
Header(n) == IF n > 1 THEN 1 ELSE 0

LEMMA FrameFields ==
    ASSUME NEW m \in Nat, NEW i \in Nat
    PROVE  /\ Segment(m, i) \in SoundFrames /\ Segment(m, i).kind = "segment"
           /\ Segment(m, i).msg = m /\ Segment(m, i).n = i
           /\ Count(i).kind = "count" /\ Count(i).n = i
           /\ Count(i) \in Frames /\ (i >= 1 => Count(i) \in SoundFrames)
           /\ IsData(Segment(m, i)) /\ IsData(Count(i))
  BY DEF Segment, Count, Frame, Frames, SoundFrames, IsData

LEMMA Concat ==
    ASSUME NEW S, NEW s \in Seq(S), NEW t \in Seq(S)
    PROVE  /\ s \o t \in Seq(S) /\ Len(s \o t) = Len(s) + Len(t)
           /\ \A i \in 1..Len(s) : (s \o t)[i] = s[i]
           /\ \A i \in 1..Len(t) : (s \o t)[Len(s) + i] = t[i]
  OBVIOUS

LEMMA FramesOfMessage ==
    ASSUME NEW m \in Nat, NEW n \in Nat \ {0}
    PROVE  /\ FramesOf(m, n) \in Seq(SoundFrames)
           /\ Len(FramesOf(m, n)) = Header(n) + n
           /\ n > 1 => FramesOf(m, n)[1] = Count(n)
           /\ \A i \in 1..n : FramesOf(m, n)[Header(n) + i] = Segment(m, i)
           /\ \A i \in 1..Len(FramesOf(m, n)) : IsData(FramesOf(m, n)[i])
<1>. DEFINE c == IF n > 1 THEN <<Count(n)>> ELSE <<>>
            t == [i \in 1..n |-> Segment(m, i)]
<1>1. Count(n) \in SoundFrames /\ IsData(Count(n))
  BY FrameFields
<1>2. c \in Seq(SoundFrames) /\ Len(c) = Header(n) /\ (n > 1 => c[1] = Count(n))
  BY <1>1, OneElement DEF Header
<1>3. \A i \in 1..n : Segment(m, i) \in SoundFrames /\ IsData(Segment(m, i))
  BY FrameFields
<1>4. t \in Seq(SoundFrames) /\ Len(t) = n /\ \A i \in 1..n : t[i] = Segment(m, i)
  BY <1>3
<1>. HIDE DEF c, t
<1>9. Header(n) \in Nat /\ (n > 1 => Header(n) = 1) /\ (~(n > 1) => Header(n) = 0)
  BY DEF Header
<1>5. c \o t \in Seq(SoundFrames) /\ Len(c \o t) = Header(n) + n
  BY <1>2, <1>4, <1>9, Concat
<1>6. n > 1 => (c \o t)[1] = Count(n)
  <2>. SUFFICES ASSUME n > 1 PROVE (c \o t)[1] = Count(n)
    OBVIOUS
  <2>1. 1 \in 1..Len(c)
    BY <1>2, <1>9
  <2>2. \A i \in 1..Len(c) : (c \o t)[i] = c[i]
    BY <1>2, <1>4, Concat
  <2>. QED
    BY <1>2, <2>1, <2>2, Zenon
<1>7. \A i \in 1..n : (c \o t)[Header(n) + i] = Segment(m, i)
  BY <1>2, <1>4, <1>9, Concat
<1>8. \A i \in 1..(Header(n) + n) : IsData((c \o t)[i])
  <2>. SUFFICES ASSUME NEW i \in 1..(Header(n) + n) PROVE IsData((c \o t)[i])
    OBVIOUS
  <2>1. CASE i <= Header(n)
    <3>1. n > 1 /\ i = 1
      BY <1>9, <2>1
    <3>. QED
      BY <1>1, <1>6, <3>1
  <2>2. CASE i > Header(n)
    <3>. DEFINE j == i - Header(n)
    <3>1. j \in 1..n /\ i = Header(n) + j
      BY <1>9, <2>2
    <3>. QED
      BY <1>3, <1>7, <3>1
  <2>3. i <= Header(n) \/ i > Header(n)
    BY <1>9
  <2>. QED
    BY <2>1, <2>2, <2>3, Zenon
<1>. QED
  BY <1>5, <1>6, <1>7, <1>8 DEF FramesOf, c, t

LEMMA AllFramesGrow ==
    ASSUME NEW segments \in Seq(Nat \ {0})
    PROVE  /\ AllFrames(segments)[0] = <<>>
           /\ \A m \in 1..Len(segments) :
                  AllFrames(segments)[m] = AllFrames(segments)[m - 1] \o FramesOf(m, segments[m])
           /\ \A m \in 0..Len(segments) : AllFrames(segments)[m] \in Seq(SoundFrames)
<1>. DEFINE A == AllFrames(segments)
<1>1. Len(segments) \in Nat
  OBVIOUS
<1>2. \A m \in 0..Len(segments) : A[m] = IF m = 0 THEN <<>> ELSE A[m - 1] \o FramesOf(m, segments[m])
  BY AllFramesUnfolds, Zenon DEF Unfolds
<1>. HIDE DEF A
<1>3. A[0] = <<>>
  BY <1>1, <1>2
<1>4. \A m \in 1..Len(segments) : A[m] = A[m - 1] \o FramesOf(m, segments[m])
  <2>1. \A m \in 1..Len(segments) : m \in 0..Len(segments) /\ m # 0
    BY <1>1
  <2>. QED
    BY <1>2, <2>1, Zenon
<1>. DEFINE T == {m \in Nat : m <= Len(segments) => A[m] \in Seq(SoundFrames)}
<1>5. 0 \in T
  <2>1. A[0] \in Seq(SoundFrames)
    BY <1>3, EmptySeq, Zenon
  <2>. QED
    BY <2>1
<1>6. ASSUME NEW m \in T, m \in Nat PROVE m + 1 \in T
  <2>. SUFFICES ASSUME m + 1 <= Len(segments) PROVE A[m + 1] \in Seq(SoundFrames)
    BY <1>6
  <2>1. m + 1 \in 1..Len(segments) /\ segments[m + 1] \in Nat \ {0} /\ (m + 1) - 1 = m
    BY <1>1, <1>6
  <2>2. FramesOf(m + 1, segments[m + 1]) \in Seq(SoundFrames)
    BY <2>1, FramesOfMessage
  <2>3. A[m] \in Seq(SoundFrames)
    BY <1>6, <2>1
  <2>4. A[m + 1] = A[m] \o FramesOf(m + 1, segments[m + 1])
    BY <1>4, <2>1
  <2>. QED
    BY <2>2, <2>3, <2>4
<1>7. Nat \subseteq T
  <2>. HIDE DEF T
  <2>. QED
    BY <1>5, <1>6, NumbersByInduction
<1>8. \A m \in 0..Len(segments) : A[m] \in Seq(SoundFrames)
  BY <1>1, <1>7
<1>. QED
  BY <1>3, <1>4, <1>8 DEF A

\* The frames of all messages, and how many are those of the first m messages.
All(segments) == AllFrames(segments)[Len(segments)]
UpTo(segments, m) == Len(AllFrames(segments)[m])

LEMMA UpToNumbers ==
    ASSUME NEW segments \in Seq(Nat \ {0})
    PROVE  /\ UpTo(segments, 0) = 0
           /\ \A m \in 0..Len(segments) : UpTo(segments, m) \in Nat
           /\ \A m \in 1..Len(segments) :
                  UpTo(segments, m) = UpTo(segments, m - 1) + (Header(segments[m]) + segments[m])
           /\ Len(All(segments)) \in Nat /\ All(segments) \in Seq(SoundFrames)
           /\ UpTo(segments, Len(segments)) = Len(All(segments))
<1>. DEFINE A == AllFrames(segments)
<1>1. Len(segments) \in Nat
  OBVIOUS
<1>2. A[0] = <<>> /\ \A m \in 0..Len(segments) : A[m] \in Seq(SoundFrames)
  BY AllFramesGrow
<1>3. \A m \in 1..Len(segments) : A[m] = A[m - 1] \o FramesOf(m, segments[m])
  BY AllFramesGrow
<1>. HIDE DEF A
<1>4. \A m \in 0..Len(segments) : Len(A[m]) \in Nat
  BY <1>2
<1>5. ASSUME NEW m \in 1..Len(segments)
      PROVE  Len(A[m]) = Len(A[m - 1]) + (Header(segments[m]) + segments[m])
  <2>1. segments[m] \in Nat \ {0} /\ m \in Nat /\ m - 1 \in 0..Len(segments)
    BY <1>1
  <2>2. /\ FramesOf(m, segments[m]) \in Seq(SoundFrames)
        /\ Len(FramesOf(m, segments[m])) = Header(segments[m]) + segments[m]
    BY <2>1, FramesOfMessage
  <2>3. A[m - 1] \in Seq(SoundFrames)
    BY <1>2, <2>1
  <2>4. Len(A[m - 1] \o FramesOf(m, segments[m])) = Len(A[m - 1]) + Len(FramesOf(m, segments[m]))
    BY <2>2, <2>3, Concat
  <2>. QED
    BY <1>3, <2>2, <2>4
<1>6. Len(A[0]) = 0
  BY <1>2
<1>7. Len(segments) \in 0..Len(segments)
  BY <1>1
<1>. QED
  BY <1>2, <1>4, <1>5, <1>6, <1>7, Zenon DEF UpTo, All, A

LEMMA PieceOfAll ==
    ASSUME NEW segments \in Seq(Nat \ {0}), NEW k \in 0..Len(segments)
    PROVE  /\ UpTo(segments, k) <= Len(All(segments))
           /\ \A i \in 1..UpTo(segments, k) : All(segments)[i] = AllFrames(segments)[k][i]
<1>. DEFINE A == AllFrames(segments)
            Begins(m) == Len(A[k]) <= Len(A[m]) /\ \A i \in 1..Len(A[k]) : A[m][i] = A[k][i]
            T == {d \in Nat : k + d <= Len(segments) => Begins(k + d)}
<1>1. Len(segments) \in Nat
  OBVIOUS
<1>2. \A m \in 0..Len(segments) : A[m] \in Seq(SoundFrames)
  BY AllFramesGrow
<1>3. \A m \in 1..Len(segments) : A[m] = A[m - 1] \o FramesOf(m, segments[m])
  BY AllFramesGrow
<1>. HIDE DEF A
<1>4. Len(A[k]) \in Nat
  BY <1>2
<1>5. 0 \in T
  <2>1. k + 0 = k
    BY <1>1
  <2>. QED
    BY <1>4, <2>1
<1>6. ASSUME NEW d \in T, d \in Nat PROVE d + 1 \in T
  <2>. SUFFICES ASSUME k + (d + 1) <= Len(segments) PROVE Begins(k + (d + 1))
    BY <1>6
  <2>. DEFINE m == k + (d + 1)
  <2>1. m \in 1..Len(segments) /\ m - 1 = k + d /\ k + d \in 0..Len(segments) /\ m \in Nat
    BY <1>1, <1>6
  <2>2. Begins(k + d)
    BY <1>6, <2>1
  <2>3. segments[m] \in Nat \ {0}
    BY <2>1
  <2>4. FramesOf(m, segments[m]) \in Seq(SoundFrames)
    BY <2>1, <2>3, FramesOfMessage
  <2>5. A[k + d] \in Seq(SoundFrames) /\ A[m] = A[k + d] \o FramesOf(m, segments[m])
    BY <1>2, <1>3, <2>1
  <2>. HIDE DEF m
  <2>. DEFINE t == FramesOf(m, segments[m])
  <2>9. /\ Len(A[k + d] \o t) = Len(A[k + d]) + Len(t)
        /\ \A i \in 1..Len(A[k + d]) : (A[k + d] \o t)[i] = A[k + d][i]
    <3>. HIDE DEF t
    <3>. QED
      BY <2>4, <2>5, Concat DEF t
  <2>6. /\ Len(A[m]) = Len(A[k + d]) + Len(FramesOf(m, segments[m]))
        /\ \A i \in 1..Len(A[k + d]) : A[m][i] = A[k + d][i]
    BY <2>5, <2>9, Zenon
  <2>7. Len(FramesOf(m, segments[m])) \in Nat /\ Len(A[k + d]) \in Nat
    BY <2>4, <2>5
  <2>8. Begins(m)
    <3>1. Len(A[k]) <= Len(A[m])
      <4>1. Len(A[k]) <= Len(A[k + d])
        BY <2>2, Zenon
      <4>2. Len(A[m]) = Len(A[k + d]) + Len(FramesOf(m, segments[m]))
        BY <2>6, Zenon
      <4>3. \A x, y, z \in Nat : x <= y => x <= y + z
        OBVIOUS
      <4>. QED
        BY <1>4, <2>7, <4>1, <4>2, <4>3, Zenon
    <3>2. ASSUME NEW i \in 1..Len(A[k]) PROVE A[m][i] = A[k][i]
      <4>1. i \in 1..Len(A[k + d])
        BY <1>4, <2>2, <2>7
      <4>. QED
        BY <2>2, <2>6, <3>2, <4>1, Zenon
    <3>. QED
      BY <3>1, <3>2
  <2>. QED
    BY <2>8 DEF m
<1>7. Nat \subseteq T
  <2>. HIDE DEF T
  <2>. QED
    BY <1>5, <1>6, NumbersByInduction
<1>8. Begins(Len(segments))
  <2>1. Len(segments) - k \in Nat /\ k + (Len(segments) - k) = Len(segments)
    BY <1>1
  <2>2. Len(segments) <= Len(segments)
    BY <1>1
  <2>3. Len(segments) - k \in T
    <3>. HIDE DEF T
    <3>. QED
      BY <1>7, <2>1
  <2>4. k + (Len(segments) - k) <= Len(segments) => Begins(k + (Len(segments) - k))
    <3>. HIDE DEF Begins
    <3>. QED
      BY <2>3, Zenon
  <2>. QED
    BY <2>1, <2>2, <2>4, Zenon
<1>. QED
  BY <1>8, Zenon DEF UpTo, All, A

\* The frames of one message are a run.
LEMMA MessageRun ==
    ASSUME NEW segments \in Seq(Nat \ {0}), NEW m \in 1..Len(segments)
    PROVE  /\ Run(FramesOf(m, segments[m]), All(segments), UpTo(segments, m - 1), UpTo(segments, m))
           /\ FramesOf(m, segments[m]) \in Seq(SoundFrames)
           /\ \A i \in 1..(Header(segments[m]) + segments[m]) :
                  All(segments)[UpTo(segments, m - 1) + i] = FramesOf(m, segments[m])[i]
<1>. DEFINE t == FramesOf(m, segments[m])
            a == UpTo(segments, m - 1)
            c == UpTo(segments, m)
            F == All(segments)
<1>1. segments[m] \in Nat \ {0} /\ m \in Nat /\ m - 1 \in 0..Len(segments) /\ m \in 0..Len(segments)
  OBVIOUS
<1>2. /\ t \in Seq(SoundFrames) /\ Len(t) = Header(segments[m]) + segments[m]
      /\ \A i \in 1..Len(t) : IsData(t[i])
  BY <1>1, FramesOfMessage
<1>3. /\ a \in Nat /\ c \in Nat /\ c = a + (Header(segments[m]) + segments[m])
      /\ Len(F) \in Nat /\ F \in Seq(SoundFrames)
  BY <1>1, UpToNumbers
<1>4. c <= Len(F) /\ \A i \in 1..c : F[i] = AllFrames(segments)[m][i]
  BY <1>1, PieceOfAll
<1>5. /\ AllFrames(segments)[m] = AllFrames(segments)[m - 1] \o t
      /\ AllFrames(segments)[m - 1] \in Seq(SoundFrames)
  BY <1>1, AllFramesGrow
<1>6. a = Len(AllFrames(segments)[m - 1])
  BY Zenon DEF UpTo
<1>. HIDE DEF t, a, c, F
<1>7. \A i \in 1..Len(t) : AllFrames(segments)[m][a + i] = t[i]
  <2>1. \A i \in 1..Len(t) : (AllFrames(segments)[m - 1] \o t)[Len(AllFrames(segments)[m - 1]) + i] = t[i]
    BY <1>2, <1>5, Concat
  <2>. QED
    BY <1>5, <1>6, <2>1, Zenon
<1>8. Len(t) \in Nat /\ c = a + Len(t)
  BY <1>2, <1>3
<1>9. \A i \in 1..Len(t) : F[a + i] = t[i]
  <2>. SUFFICES ASSUME NEW i \in 1..Len(t) PROVE F[a + i] = t[i]
    OBVIOUS
  <2>1. a + i \in 1..c
    BY <1>3, <1>8
  <2>. QED
    BY <1>4, <1>7, <2>1, Zenon
<1>10. t \in Seq(Frames)
  BY <1>2, SoundAreFrames
<1>11. Run(t, F, a, a + Len(t))
  BY <1>2, <1>3, <1>4, <1>8, <1>9, <1>10, RunPiece
<1>. QED
  BY <1>2, <1>8, <1>9, <1>11 DEF t, a, c, F

-----------------------------------------------------------------------------
(* The frames in a queue of blocks.                                        *)

BlockTypes ==
    {"opened", "bytes", "space", "error", "end", "streamEnd", "close", "disconnect", "fail", "readFrame",
     "write", "didOpen", "message", "didClose", "didFail", "ping", "protocolError", "timeout"}
Blocks == BlockTypes \X Frames

Carried(queue, type) == [i \in 1..Len(queue) |-> IF queue[i][1] = type THEN queue[i][2] ELSE NoFrame]

\* No block of the type has a frame of data.
Quiet(queue, type) == \A i \in 1..Len(queue) : queue[i][1] = type => ~IsData(queue[i][2])

LEMMA NoFrameIsOther == NoFrame \in SoundFrames /\ NoFrame \in Frames /\ ~IsData(NoFrame)
  BY DEF NoFrame, Frame, Frames, SoundFrames, IsData

LEMMA CarriedFrames ==
    ASSUME NEW queue \in Seq(Blocks), NEW type
    PROVE  /\ Carried(queue, type) \in Seq(Frames) /\ Len(Carried(queue, type)) = Len(queue)
           /\ \A i \in 1..Len(queue) :
                  Carried(queue, type)[i] = IF queue[i][1] = type THEN queue[i][2] ELSE NoFrame
<1>1. Len(queue) \in Nat
  OBVIOUS
<1>2. \A i \in 1..Len(queue) : queue[i][2] \in Frames /\ NoFrame \in Frames
  BY ElementOfSeq, NoFrameIsOther DEF Blocks
<1>. QED
  BY <1>1, <1>2 DEF Carried

LEMMA CarriedConcat ==
    ASSUME NEW queue \in Seq(Blocks), NEW more \in Seq(Blocks), NEW type
    PROVE  Carried(queue \o more, type) = Carried(queue, type) \o Carried(more, type)
<1>. DEFINE u == queue \o more
            v == Carried(queue, type) \o Carried(more, type)
<1>1. /\ u \in Seq(Blocks) /\ Len(u) = Len(queue) + Len(more)
      /\ \A i \in 1..Len(queue) : u[i] = queue[i]
      /\ \A i \in 1..Len(more) : u[Len(queue) + i] = more[i]
  BY Concat
<1>2. Len(queue) \in Nat /\ Len(more) \in Nat
  OBVIOUS
<1>3. /\ v \in Seq(Frames) /\ Len(v) = Len(queue) + Len(more)
      /\ \A i \in 1..Len(queue) : v[i] = Carried(queue, type)[i]
      /\ \A i \in 1..Len(more) : v[Len(queue) + i] = Carried(more, type)[i]
  <2>1. /\ Carried(queue, type) \in Seq(Frames) /\ Len(Carried(queue, type)) = Len(queue)
        /\ Carried(more, type) \in Seq(Frames) /\ Len(Carried(more, type)) = Len(more)
    BY CarriedFrames
  <2>3. \A x, y \in Seq(Frames) :
            /\ x \o y \in Seq(Frames) /\ Len(x \o y) = Len(x) + Len(y)
            /\ \A i \in 1..Len(x) : (x \o y)[i] = x[i]
            /\ \A i \in 1..Len(y) : (x \o y)[Len(x) + i] = y[i]
    BY Concat
  <2>2. /\ v \in Seq(Frames) /\ Len(v) = Len(Carried(queue, type)) + Len(Carried(more, type))
        /\ \A i \in 1..Len(Carried(queue, type)) : v[i] = Carried(queue, type)[i]
        /\ \A i \in 1..Len(Carried(more, type)) :
               v[Len(Carried(queue, type)) + i] = Carried(more, type)[i]
    BY <2>1, <2>3, Zenon
  <2>. HIDE DEF v
  <2>. QED
    BY <2>1, <2>2, Zenon
<1>. HIDE DEF u, v
<1>4. Carried(u, type) \in Seq(Frames) /\ Len(Carried(u, type)) = Len(v)
  BY <1>1, <1>3, CarriedFrames
<1>5. ASSUME NEW i \in 1..Len(v) PROVE Carried(u, type)[i] = v[i]
  <2>1. Carried(u, type)[i] = IF u[i][1] = type THEN u[i][2] ELSE NoFrame
    BY <1>1, <1>3, CarriedFrames
  <2>2. CASE i \in 1..Len(queue)
    <3>1. Carried(queue, type)[i] = IF queue[i][1] = type THEN queue[i][2] ELSE NoFrame
      BY <2>2, CarriedFrames
    <3>. QED
      BY <1>1, <1>3, <2>1, <2>2, <3>1, Zenon
  <2>3. CASE i \notin 1..Len(queue)
    <3>1. PICK j \in 1..Len(more) : i = Len(queue) + j
      <4>1. i - Len(queue) \in 1..Len(more) /\ i = Len(queue) + (i - Len(queue))
        BY <1>2, <1>3, <2>3
      <4>. QED
        BY <4>1
    <3>2. Carried(more, type)[j] = IF more[j][1] = type THEN more[j][2] ELSE NoFrame
      BY CarriedFrames
    <3>. QED
      BY <1>1, <1>3, <2>1, <3>1, <3>2, Zenon
  <2>. QED
    BY <2>2, <2>3
<1>6. Carried(u, type) = v
  BY <1>3, <1>4, <1>5, SeqEqual
<1>. QED
  BY <1>6 DEF u, v

LEMMA CarriedTail ==
    ASSUME NEW queue \in Seq(Blocks), queue # <<>>, NEW type
    PROVE  /\ Carried(queue, type) # <<>>
           /\ Head(Carried(queue, type)) = IF Head(queue)[1] = type THEN Head(queue)[2] ELSE NoFrame
           /\ Carried(Tail(queue), type) = Tail(Carried(queue, type))
<1>. DEFINE c == Carried(queue, type)
<1>1. c \in Seq(Frames) /\ Len(c) = Len(queue)
      /\ \A i \in 1..Len(queue) : c[i] = IF queue[i][1] = type THEN queue[i][2] ELSE NoFrame
  BY CarriedFrames
<1>. HIDE DEF c
<1>2. /\ Len(queue) \in Nat /\ Len(queue) >= 1 /\ Head(queue) = queue[1]
      /\ Tail(queue) \in Seq(Blocks) /\ Len(Tail(queue)) = Len(queue) - 1
      /\ \A i \in 1..(Len(queue) - 1) : Tail(queue)[i] = queue[i + 1]
  BY HeadTailProperties
<1>3. c # <<>> /\ Head(c) = c[1] /\ Tail(c) \in Seq(Frames) /\ Len(Tail(c)) = Len(queue) - 1
      /\ \A i \in 1..(Len(queue) - 1) : Tail(c)[i] = c[i + 1]
  BY <1>1, <1>2
<1>4. /\ Carried(Tail(queue), type) \in Seq(Frames)
      /\ Len(Carried(Tail(queue), type)) = Len(queue) - 1
      /\ \A i \in 1..(Len(queue) - 1) : Carried(Tail(queue), type)[i] =
             IF Tail(queue)[i][1] = type THEN Tail(queue)[i][2] ELSE NoFrame
  <2>1. \A q \in Seq(Blocks) :
            /\ Carried(q, type) \in Seq(Frames) /\ Len(Carried(q, type)) = Len(q)
            /\ \A i \in 1..Len(q) :
                   Carried(q, type)[i] = IF q[i][1] = type THEN q[i][2] ELSE NoFrame
    BY CarriedFrames
  <2>. QED
    BY <1>2, <2>1, Zenon
<1>5. ASSUME NEW i \in 1..(Len(queue) - 1) PROVE Carried(Tail(queue), type)[i] = Tail(c)[i]
  <2>1. i + 1 \in 1..Len(queue)
    BY <1>2
  <2>. QED
    BY <1>1, <1>2, <1>3, <1>4, <2>1, Zenon
<1>6. Carried(Tail(queue), type) = Tail(c)
  BY <1>3, <1>4, <1>5, SeqEqual
<1>7. 1 \in 1..Len(queue)
  BY <1>2
<1>. QED
  BY <1>1, <1>2, <1>3, <1>6, <1>7, Zenon DEF c

LEMMA QuietCarries ==
    ASSUME NEW more \in Seq(Blocks), NEW type, Quiet(more, type), NEW F, NEW a \in Nat
    PROVE  Run(Carried(more, type), F, a, a)
<1>1. /\ Carried(more, type) \in Seq(Frames) /\ Len(Carried(more, type)) = Len(more)
      /\ \A i \in 1..Len(more) :
             Carried(more, type)[i] = IF more[i][1] = type THEN more[i][2] ELSE NoFrame
  BY CarriedFrames
<1>2. \A i \in 1..Len(more) : ~IsData(Carried(more, type)[i])
  BY <1>1, NoFrameIsOther, Zenon DEF Quiet
<1>. QED
  BY <1>1, <1>2, RunOther

LEMMA RunOfLonger ==
    ASSUME NEW queue \in Seq(Blocks), NEW more \in Seq(Blocks), NEW type, Quiet(more, type),
           NEW F, NEW a, NEW b, Run(Carried(queue, type), F, a, b)
    PROVE  Run(Carried(queue \o more, type), F, a, b)
<1>. DEFINE c == Carried(queue, type)
            d == Carried(more, type)
<1>1. c \in Seq(Frames) /\ d \in Seq(Frames)
  BY CarriedFrames
<1>2. Carried(queue \o more, type) = c \o d
  BY CarriedConcat
<1>. HIDE DEF c, d
<1>3. Run(c, F, a, b) /\ b \in Nat
  BY <1>1, RunNat DEF c
<1>4. Run(d, F, b, b)
  BY <1>3, QuietCarries DEF d
<1>. QED
  BY <1>1, <1>2, <1>3, <1>4, RunConcat

LEMMA RunOfTail ==
    ASSUME NEW queue \in Seq(Blocks), queue # <<>>, NEW type, NEW F, Len(F) \in Nat,
           NEW a, NEW c, Run(Carried(queue, type), F, a, c)
    PROVE  /\ ~(Head(queue)[1] = type /\ IsData(Head(queue)[2])) => Run(Carried(Tail(queue), type), F, a, c)
           /\ Head(queue)[1] = type /\ IsData(Head(queue)[2]) =>
                 /\ a < Len(F) /\ Head(queue)[2] = F[a + 1]
                 /\ Run(Carried(Tail(queue), type), F, a + 1, c)
<1>. DEFINE d == Carried(queue, type)
            t == Carried(Tail(queue), type)
<1>1. d \in Seq(Frames)
  BY CarriedFrames
<1>2. d # <<>> /\ t = Tail(d) /\ Head(d) = IF Head(queue)[1] = type THEN Head(queue)[2] ELSE NoFrame
  BY CarriedTail
<1>. HIDE DEF d, t
<1>3. Run(d, F, a, c)
  BY DEF d
<1>4. /\ ~IsData(Head(d)) => Run(Tail(d), F, a, c)
      /\ IsData(Head(d)) => a < Len(F) /\ Head(d) = F[a + 1] /\ Run(Tail(d), F, a + 1, c)
  BY <1>1, <1>2, <1>3, RunHead
<1>. QED
  BY <1>2, <1>4, NoFrameIsOther, Zenon DEF d, t

\* A block with the next frame of data is queued.
LEMMA RunOfNext ==
    ASSUME NEW queue \in Seq(Blocks), NEW block \in Blocks, NEW type, block[1] = type,
           NEW F, NEW a, NEW b, NEW c, Run(Carried(queue, type), F, a, b),
           Run(<<block[2]>>, F, b, c)
    PROVE  Run(Carried(queue \o <<block>>, type), F, a, c)
<1>. DEFINE d == Carried(queue, type)
            e == Carried(<<block>>, type)
<1>1. <<block>> \in Seq(Blocks) /\ Len(<<block>>) = 1 /\ <<block>>[1] = block
  BY OneElement
<1>2. d \in Seq(Frames) /\ e \in Seq(Frames)
  BY <1>1, CarriedFrames
<1>3. Carried(queue \o <<block>>, type) = d \o e
  BY <1>1, CarriedConcat
<1>4. e = <<block[2]>>
  <2>1. block[2] \in Frames
    BY DEF Blocks
  <2>2. <<block[2]>> \in Seq(Frames) /\ Len(<<block[2]>>) = 1 /\ <<block[2]>>[1] = block[2]
    BY <2>1, OneElement
  <2>3. Len(e) = 1 /\ e[1] = block[2]
    <3>. DEFINE q == <<block>>
    <3>. HIDE DEF q
    <3>1. q \in Seq(Blocks) /\ Len(q) = 1 /\ q[1] = block
      BY <1>1 DEF q
    <3>2. /\ Len(Carried(q, type)) = Len(q)
          /\ \A i \in 1..Len(q) :
                 Carried(q, type)[i] = IF q[i][1] = type THEN q[i][2] ELSE NoFrame
      BY <3>1, CarriedFrames
    <3>3. 1 \in 1..Len(q)
      BY <3>1
    <3>. QED
      BY <3>1, <3>2, <3>3 DEF q
  <2>. DEFINE g == <<block[2]>>
  <2>. HIDE DEF e, g
  <2>4. Len(g) = 1 /\ g \in Seq(Frames) /\ e[1] = g[1]
    BY <2>2, <2>3 DEF g
  <2>5. e = g
    BY <1>2, <2>3, <2>4, SeqEqual
  <2>. QED
    BY <2>5 DEF g
<1>. HIDE DEF d, e
<1>5. Run(d, F, a, b) /\ Run(e, F, b, c)
  BY <1>4 DEF d
<1>. QED
  BY <1>2, <1>3, <1>5, RunConcat

-----------------------------------------------------------------------------
(* Types.                                                                  *)

\* A message of the socket is a frame of data, and has a segment at least.
SoundCalls ==
    {call \in {"didOpen", "message", "didClose", "didFail", "ping", "protocolError", "timeout"} \X SoundFrames :
         call[1] = "message" => IsData(call[2])}

OutputTypes ==
    /\ failed \in BOOLEAN /\ sentClose \in BOOLEAN /\ closeWhenFinishedWriting \in BOOLEAN
    /\ cleanupScheduled \in BOOLEAN
    /\ outputBuffer \in Seq(Frames) /\ wireOut \in Seq(Frames)
    /\ stream \in {"notOpen", "opening", "open", "atEnd", "error", "closed"}
InputTypes ==
    /\ readyState \in SR_CONNECTING..SR_CLOSED
    /\ readBuffer \in Seq(SoundFrames)
    /\ consumer \in {"none", "header", "frame"}
QueueTypes == workQueue \in Seq(WorkBlocks) /\ delegateQueue \in Seq(SoundCalls)
ConnectionTypes ==
    /\ everConnected \in BOOLEAN /\ isClosed \in BOOLEAN /\ webSocket \in BOOLEAN
    /\ connectTimer \in BOOLEAN /\ end \in {"none", "closed", "reported"}
    /\ keepAlive \in {"none", "starting", "running", "invalid"}
    /\ nopping \in BOOLEAN /\ nops \in 0..MaxNops
AssemblyTypes ==
    /\ buffering \in BOOLEAN /\ frame \in Seq(Frames) /\ totalFrames \in Nat
    /\ buffering => totalFrames >= 1
    /\ delivered \in Seq(Nat)
ServerTypes ==
    /\ server \in {"waiting", "accepted", "finished"}
    /\ inSent \in 0..Len(InSegments) /\ pings \in 0..MaxPings
    /\ wireIn \in Seq(SoundFrames)
SendTypes == sending \in Seq(Frames) /\ outSent \in 0..Len(OutSegments)

Types ==
    /\ OutputTypes /\ InputTypes /\ QueueTypes /\ ConnectionTypes
    /\ AssemblyTypes /\ ServerTypes /\ SendTypes

LEMMA ProductGrows ==
    \A S, T, U, V : S \subseteq T /\ U \subseteq V => S \X U \subseteq T \X V
  OBVIOUS

LEMMA CallsAreBlocks == SoundCalls \subseteq DelegateBlocks /\ SoundCalls \subseteq Blocks
<1>1. {"didOpen", "message", "didClose", "didFail", "ping", "protocolError", "timeout"} \subseteq BlockTypes
  BY DEF BlockTypes
<1>2. SoundFrames \subseteq Frames
  BY DEF SoundFrames
<1>. QED
  BY <1>1, <1>2, ProductGrows DEF SoundCalls, DelegateBlocks, Blocks

LEMMA WorkIsBlocks == WorkBlocks \subseteq Blocks
<1>1. {"opened", "bytes", "space", "error", "end", "streamEnd", "close", "disconnect", "fail",
       "readFrame", "write"} \subseteq BlockTypes
  BY DEF BlockTypes
<1>. QED
  BY <1>1, ProductGrows DEF WorkBlocks, Blocks

LEMMA QueuesAreBlocks ==
    ASSUME QueueTypes
    PROVE  workQueue \in Seq(Blocks) /\ delegateQueue \in Seq(Blocks)
  BY CallsAreBlocks, WorkIsBlocks, SeqMonotonic DEF QueueTypes

LEMMA TypesAreTypeOK == Types => TypeOK
<1>. SUFFICES ASSUME Types PROVE TypeOK
  OBVIOUS
<1>1. delegateQueue \in Seq(DelegateBlocks)
  BY CallsAreBlocks, SeqMonotonic DEF Types, QueueTypes
<1>2. readBuffer \in Seq(Frames) /\ wireIn \in Seq(Frames)
  BY SoundAreFrames DEF Types, InputTypes, ServerTypes
<1>. QED
  BY <1>1, <1>2, Zenon DEF TypeOK, Types, OutputTypes, InputTypes, QueueTypes, ConnectionTypes,
     AssemblyTypes, ServerTypes, SendTypes

LEMMA TypesInit == Init => Types
<1>. SUFFICES ASSUME Init PROVE Types
  OBVIOUS
<1>1. \A S : <<>> \in Seq(S)
  BY EmptySeq
<1>2. /\ 0 \in 0..Len(InSegments) /\ 0 \in 0..Len(OutSegments) /\ 0 \in 0..MaxNops
      /\ 0 \in 0..MaxPings /\ 0 \in Nat
  BY MessagesAssumption
<1>3. SR_CONNECTING \in SR_CONNECTING..SR_CLOSED
  BY DEF SR_CONNECTING, SR_CLOSED
<1>. QED
  BY <1>1, <1>2, <1>3, Zenon DEF Init, Types, OutputTypes, InputTypes, QueueTypes, ConnectionTypes,
     AssemblyTypes, ServerTypes, SendTypes

-----------------------------------------------------------------------------
(* What a step does to the queues and to what is written.                  *)

LEMMA BlockFields ==
    \A type : Block(type)[1] = type /\ Block(type)[2] = NoFrame /\ Block(type) = <<type, NoFrame>>
  BY DEF Block

LEMMA WorkBlock1 ==
    ASSUME NEW type \in {"opened", "bytes", "space", "error", "end", "streamEnd", "close", "disconnect",
                         "fail", "readFrame"}
    PROVE  Block(type) \in WorkBlocks
  BY NoFrameIsOther DEF Block, WorkBlocks

LEMMA Call1 ==
    ASSUME NEW type \in {"didOpen", "didClose", "didFail", "ping", "protocolError", "timeout"}
    PROVE  Block(type) \in SoundCalls
  BY NoFrameIsOther DEF Block, SoundCalls

\* Nothing of what is to be written is queued or taken out.
WorkKept ==
    \E more \in Seq(WorkBlocks) :
        /\ Quiet(more, "write")
        /\ \/ workQueue' = workQueue \o more
           \/ /\ workQueue # <<>> /\ Head(workQueue)[1] # "write"
              /\ workQueue' = Tail(workQueue) \o more

\* No message is queued or taken out.
CallsKept ==
    \E more \in Seq(SoundCalls) :
        /\ Quiet(more, "message")
        /\ \/ delegateQueue' = delegateQueue \o more
           \/ /\ delegateQueue # <<>> /\ Head(delegateQueue)[1] # "message"
              /\ delegateQueue' = Tail(delegateQueue) \o more

\* A part of the buffer goes to the wire.
Passes(buffer) ==
    \E n \in 0..Len(buffer) :
        /\ wireOut' = wireOut \o SubSeq(buffer, 1, n)
        /\ outputBuffer' = SubSeq(buffer, n + 1, Len(buffer))

\* Frames that are no data may come into the buffer.
OutputKept ==
    /\ closeWhenFinishedWriting => closeWhenFinishedWriting'
    /\ \/ UNCHANGED <<outputBuffer, wireOut>>
       \/ Passes(outputBuffer)
       \/ \E f \in Frames : ~IsData(f) /\ Passes(Append(outputBuffer, f))

LEMMA QuietBlocks ==
    /\ \A type : Quiet(<<>>, type)
    /\ \A type, other : Quiet(<<Block(type)>>, other)
    /\ \A type, other, one : Quiet(<<Block(type), Block(one)>>, other)
    /\ \A type, other, one, two : Quiet(<<Block(type), Block(one), Block(two)>>, other)
<1>1. \A type : Quiet(<<>>, type)
  BY DEF Quiet
<1>2. \A type, other : Quiet(<<Block(type)>>, other)
  BY BlockFields, NoFrameIsOther DEF Quiet
<1>3. \A type, other, one : Quiet(<<Block(type), Block(one)>>, other)
  BY BlockFields, NoFrameIsOther DEF Quiet
<1>4. \A type, other, one, two : Quiet(<<Block(type), Block(one), Block(two)>>, other)
  BY BlockFields, NoFrameIsOther DEF Quiet
<1>. QED
  BY <1>1, <1>2, <1>3, <1>4

LEMMA Queueing ==
    ASSUME NEW S, NEW queue \in Seq(S)
    PROVE  /\ queue \o <<>> = queue
           /\ \A x \in S : Append(queue, x) = queue \o <<x>> /\ <<x>> \in Seq(S)
           /\ queue # <<>> => Tail(queue) \in Seq(S) /\ Head(queue) \in S
<1>1. queue \o <<>> = queue
  BY ConcatEmptySeq
<1>2. \A x \in S : Append(queue, x) = queue \o <<x>> /\ <<x>> \in Seq(S)
  BY AppendIsConcat, OneElement
<1>3. queue # <<>> => Tail(queue) \in Seq(S) /\ Head(queue) \in S
  BY HeadTailProperties
<1>. QED
  BY <1>1, <1>2, <1>3

LEMMA BufferTypes ==
    ASSUME NEW buffer \in Seq(Frames), wireOut \in Seq(Frames), Passes(buffer)
    PROVE  outputBuffer' \in Seq(Frames) /\ wireOut' \in Seq(Frames)
<1>1. PICK n \in 0..Len(buffer) : /\ wireOut' = wireOut \o SubSeq(buffer, 1, n)
                                  /\ outputBuffer' = SubSeq(buffer, n + 1, Len(buffer))
  BY DEF Passes
<1>2. SubSeq(buffer, 1, n) \in Seq(Frames) /\ SubSeq(buffer, n + 1, Len(buffer)) \in Seq(Frames)
  OBVIOUS
<1>. QED
  BY <1>1, <1>2

LEMMA PumpEffect ==
    ASSUME OutputTypes, NEW buffer \in Seq(Frames), NEW closing \in BOOLEAN,
           NEW hasFailed \in BOOLEAN, NEW blocks, NEW calls,
           PumpWriting(buffer, closing, hasFailed, blocks, calls)
    PROVE  /\ Passes(buffer) /\ closeWhenFinishedWriting' = closing /\ OutputTypes'
           /\ workQueue' \in {blocks, Append(blocks, Block("fail"))}
           /\ delegateQueue' \in {calls, Append(calls, Block("didClose"))}
           /\ stream' \in {stream, "closed"}
<1>1. /\ closeWhenFinishedWriting' = closing /\ failed' = hasFailed
      /\ workQueue' \in {blocks, Append(blocks, Block("fail"))}
      /\ delegateQueue' \in {calls, Append(calls, Block("didClose"))}
      /\ stream' \in {stream, "closed"}
      /\ sentClose' \in BOOLEAN /\ cleanupScheduled' \in BOOLEAN
  BY DEF PumpWriting, OutputTypes
<1>2. Passes(buffer)
  <2>1. CASE outputBuffer' = buffer /\ UNCHANGED wireOut
    <3>1. SubSeq(buffer, 1, 0) = <<>> /\ SubSeq(buffer, 0 + 1, Len(buffer)) = buffer
      BY SubSeqEmpty, SubSeqFull
    <3>2. wireOut \o <<>> = wireOut
      BY ConcatEmptySeq DEF OutputTypes
    <3>3. 0 \in 0..Len(buffer)
      OBVIOUS
    <3>. QED
      BY <2>1, <3>1, <3>2, <3>3, Zenon DEF Passes
  <2>2. CASE \E n \in 0..Len(buffer) : /\ wireOut' = wireOut \o SubSeq(buffer, 1, n)
                                       /\ outputBuffer' = SubSeq(buffer, n + 1, Len(buffer))
    BY <2>2 DEF Passes
  <2>. QED
    BY <2>1, <2>2, Zenon DEF PumpWriting
<1>3. outputBuffer' \in Seq(Frames) /\ wireOut' \in Seq(Frames)
  BY <1>2, BufferTypes DEF OutputTypes
<1>4. stream' \in {"notOpen", "opening", "open", "atEnd", "error", "closed"}
  BY <1>1 DEF OutputTypes
<1>. QED
  BY <1>1, <1>2, <1>3, <1>4 DEF OutputTypes

LEMMA WriteEffect ==
    ASSUME OutputTypes, NEW f \in Frames, NEW blocks, WriteData(f, blocks)
    PROVE  /\ IF closeWhenFinishedWriting
              THEN UNCHANGED <<outputBuffer, wireOut, closeWhenFinishedWriting>>
              ELSE Passes(Append(outputBuffer, f)) /\ ~closeWhenFinishedWriting'
           /\ OutputTypes'
           /\ workQueue' \in {blocks, Append(blocks, Block("fail"))}
           /\ delegateQueue' \in {delegateQueue, Append(delegateQueue, Block("didClose"))}
           /\ stream' \in {stream, "closed"}
<1>1. CASE closeWhenFinishedWriting
  BY <1>1 DEF WriteData, outputVars, OutputTypes
<1>2. CASE ~closeWhenFinishedWriting
  <2>1. PumpWriting(Append(outputBuffer, f), FALSE, failed, blocks, delegateQueue)
    BY <1>2 DEF WriteData
  <2>2. Append(outputBuffer, f) \in Seq(Frames) /\ failed \in BOOLEAN
    BY DEF OutputTypes
  <2>. QED
    BY <1>2, <2>1, <2>2, PumpEffect
<1>. QED
  BY <1>1, <1>2

LEMMA ScanEffect ==
    ASSUME InputTypes, NEW input \in Seq(SoundFrames), NEW waiting \in {"none", "header", "frame"},
           NEW blocks, NEW after, PumpScanner(input, waiting, blocks, after)
    PROVE  /\ InputTypes' /\ readyState' >= readyState
           /\ \E adds \in {<<>>, <<Block("fail")>>, <<Block("readFrame")>>, HandleClose} :
                  workQueue' = blocks \o adds \o after
           /\ \/ readBuffer' = input /\ delegateQueue' = delegateQueue \o <<>>
              \/ /\ readyState < SR_CLOSING /\ input # <<>> /\ readBuffer' = Tail(input)
                 /\ IF IsData(Head(input))
                    THEN delegateQueue' = delegateQueue \o <<Received(Head(input))>>
                    ELSE \E calls \in {<<>>, <<Block("didOpen")>>, <<Block("ping")>>,
                                       <<Block("protocolError")>>} :
                             delegateQueue' = delegateQueue \o calls
<1>. DEFINE idle == readyState >= SR_CLOSING \/ waiting = "none" \/ input = <<>>
            kind == IF idle THEN "none" ELSE Head(input).kind
<1>1. CASE idle
  <2>1. kind = "none"
    BY <1>1
  <2>2. /\ readBuffer' = input /\ consumer' = waiting /\ readyState' = readyState
        /\ workQueue' = blocks \o <<>> \o after /\ delegateQueue' = delegateQueue \o <<>>
    BY <1>1, <2>1 DEF PumpScanner
  <2>. QED
    BY <2>2 DEF InputTypes, SR_CONNECTING, SR_CLOSED
<1>2. CASE ~idle
  <2>1. readyState \in 0..1 /\ input # <<>> /\ kind = Head(input).kind
    BY <1>2 DEF InputTypes, SR_CLOSING, SR_CONNECTING, SR_CLOSED
  <2>2. /\ readBuffer' = Tail(input) /\ consumer' = "none"
        /\ readyState' = IF kind = "accepted" THEN SR_OPEN ELSE readyState
    BY <1>2 DEF PumpScanner
  <2>3. \E adds \in {<<>>, <<Block("fail")>>, <<Block("readFrame")>>, HandleClose} :
            workQueue' = blocks \o adds \o after
    BY <1>2, Zenon DEF PumpScanner
  <2>4. kind \in {"count", "segment"} => delegateQueue' = delegateQueue \o <<Received(Head(input))>>
    BY <1>2, <2>1 DEF PumpScanner
  <2>5. kind \notin {"count", "segment"} =>
            \E calls \in {<<>>, <<Block("didOpen")>>, <<Block("ping")>>, <<Block("protocolError")>>} :
                delegateQueue' = delegateQueue \o calls
    BY <1>2, Zenon DEF PumpScanner
  <2>6. InputTypes' /\ readyState' >= readyState
    <3>1. Tail(input) \in Seq(SoundFrames)
      BY <2>1, HeadTailProperties
    <3>. QED
      BY <2>1, <2>2, <3>1 DEF InputTypes, SR_OPEN, SR_CONNECTING, SR_CLOSED
  <2>7. readyState < SR_CLOSING
    BY <2>1 DEF SR_CLOSING
  <2>. QED
    BY <2>1, <2>2, <2>3, <2>4, <2>5, <2>6, <2>7, Zenon DEF IsData
<1>. QED
  BY <1>1, <1>2

LEMMA QuietConcat ==
    ASSUME NEW S, NEW queue \in Seq(S), NEW more \in Seq(S), NEW type, Quiet(queue, type), Quiet(more, type)
    PROVE  queue \o more \in Seq(S) /\ Quiet(queue \o more, type)
<1>. DEFINE u == queue \o more
<1>1. /\ u \in Seq(S) /\ Len(u) = Len(queue) + Len(more)
      /\ \A i \in 1..Len(queue) : u[i] = queue[i]
      /\ \A i \in 1..Len(more) : u[Len(queue) + i] = more[i]
  BY Concat
<1>2. Len(queue) \in Nat /\ Len(more) \in Nat
  OBVIOUS
<1>. HIDE DEF u
<1>3. ASSUME NEW i \in 1..Len(u), u[i][1] = type PROVE ~IsData(u[i][2])
  <2>1. CASE i \in 1..Len(queue)
    BY <1>1, <1>3, <2>1, Zenon DEF Quiet
  <2>2. CASE i \notin 1..Len(queue)
    <3>1. PICK j \in 1..Len(more) : i = Len(queue) + j
      <4>1. i - Len(queue) \in 1..Len(more) /\ i = Len(queue) + (i - Len(queue))
        BY <1>1, <1>2, <2>2
      <4>. QED
        BY <4>1
    <3>. QED
      BY <1>1, <1>3, <3>1, Zenon DEF Quiet
  <2>. QED
    BY <2>1, <2>2
<1>. QED
  BY <1>1, <1>3, Zenon DEF Quiet, u

LEMMA WorkTaken ==
    ASSUME QueueTypes, workQueue # <<>>, NEW more \in Seq(WorkBlocks), Quiet(more, "write"),
           workQueue' = Tail(workQueue) \o more
    PROVE  /\ workQueue' \in Seq(WorkBlocks)
           /\ Head(workQueue)[1] # "write" => WorkKept
<1>1. Tail(workQueue) \in Seq(WorkBlocks)
  BY Queueing DEF QueueTypes
<1>2. Tail(workQueue) \o more \in Seq(WorkBlocks)
  BY <1>1, Concat
<1>. QED
  BY <1>2, Zenon DEF WorkKept

LEMMA WorkAdded ==
    ASSUME QueueTypes, NEW more \in Seq(WorkBlocks), Quiet(more, "write"),
           workQueue' = workQueue \o more
    PROVE  workQueue' \in Seq(WorkBlocks) /\ WorkKept
<1>1. workQueue \o more \in Seq(WorkBlocks)
  BY Concat DEF QueueTypes
<1>. QED
  BY <1>1, Zenon DEF WorkKept

LEMMA CallsAdded ==
    ASSUME QueueTypes, NEW more \in Seq(SoundCalls), Quiet(more, "message"),
           delegateQueue' = delegateQueue \o more
    PROVE  delegateQueue' \in Seq(SoundCalls) /\ CallsKept
<1>1. delegateQueue \o more \in Seq(SoundCalls)
  BY Concat DEF QueueTypes
<1>. QED
  BY <1>1, Zenon DEF CallsKept

LEMMA CallTaken ==
    ASSUME QueueTypes, delegateQueue # <<>>, delegateQueue' = Tail(delegateQueue)
    PROVE  /\ delegateQueue' \in Seq(SoundCalls) /\ Head(delegateQueue) \in SoundCalls
           /\ Head(delegateQueue)[1] # "message" => CallsKept
<1>1. /\ Tail(delegateQueue) \in Seq(SoundCalls) /\ Head(delegateQueue) \in SoundCalls
      /\ <<>> \in Seq(SoundCalls)
  BY Queueing, EmptySeq DEF QueueTypes
<1>2. Tail(delegateQueue) \o <<>> = Tail(delegateQueue)
  BY <1>1, Queueing
<1>. QED
  BY <1>1, <1>2, QuietBlocks, Zenon DEF CallsKept

LEMMA QueuesSame ==
    ASSUME QueueTypes
    PROVE  /\ UNCHANGED workQueue => workQueue' \in Seq(WorkBlocks) /\ WorkKept
           /\ UNCHANGED delegateQueue => delegateQueue' \in Seq(SoundCalls) /\ CallsKept
<1>1. workQueue \o <<>> = workQueue /\ delegateQueue \o <<>> = delegateQueue
  BY Queueing DEF QueueTypes
<1>2. <<>> \in Seq(WorkBlocks) /\ <<>> \in Seq(SoundCalls)
  BY EmptySeq
<1>. QED
  BY <1>1, <1>2, QuietBlocks, Zenon DEF WorkKept, CallsKept, QueueTypes

LEMMA RestOrFail ==
    ASSUME QueueTypes, workQueue # <<>>, workQueue' \in {Rest, Append(Rest, Block("fail"))}
    PROVE  workQueue' \in Seq(WorkBlocks) /\ (Head(workQueue)[1] # "write" => WorkKept)
<1>1. Tail(workQueue) \in Seq(WorkBlocks)
  BY Queueing DEF QueueTypes
<1>2. Block("fail") \in WorkBlocks
  BY WorkBlock1
<1>3. /\ Tail(workQueue) \o <<>> = Tail(workQueue)
      /\ Append(Tail(workQueue), Block("fail")) = Tail(workQueue) \o <<Block("fail")>>
      /\ <<Block("fail")>> \in Seq(WorkBlocks) /\ <<>> \in Seq(WorkBlocks)
  BY <1>1, <1>2, Queueing, EmptySeq
<1>4. PICK more \in {<<>>, <<Block("fail")>>} : workQueue' = Tail(workQueue) \o more
  BY <1>3, Zenon DEF Rest
<1>5. more \in Seq(WorkBlocks) /\ Quiet(more, "write")
  BY <1>3, QuietBlocks
<1>. QED
  BY <1>4, <1>5, WorkTaken

LEMMA CallsOrOne ==
    ASSUME QueueTypes, NEW type \in {"didOpen", "didClose", "didFail", "ping", "protocolError", "timeout"},
           delegateQueue' \in {delegateQueue, Append(delegateQueue, Block(type))}
    PROVE  delegateQueue' \in Seq(SoundCalls) /\ CallsKept
<1>1. Block(type) \in SoundCalls
  BY Call1
<1>2. Append(delegateQueue, Block(type)) = delegateQueue \o <<Block(type)>>
      /\ <<Block(type)>> \in Seq(SoundCalls)
  BY <1>1, Queueing DEF QueueTypes
<1>3. CASE delegateQueue' = delegateQueue
  BY <1>3, QueuesSame
<1>4. CASE delegateQueue' = delegateQueue \o <<Block(type)>>
  BY <1>2, <1>4, QuietBlocks, CallsAdded
<1>. QED
  BY <1>2, <1>3, <1>4

\* What a step keeps: the order of the frames of data on both ways, and the state's.
Kept == WorkKept /\ CallsKept /\ OutputKept /\ readyState' >= readyState

LEMMA StateRises ==
    InputTypes => \A s \in {readyState, SR_CLOSED} : s >= readyState /\ s \in SR_CONNECTING..SR_CLOSED
  BY DEF InputTypes, SR_CONNECTING, SR_CLOSED

LEMMA ControlFrames ==
    \A kind \in {"nop", "ping", "pong", "close", "malformed", "upgrade", "accepted", "refused"} :
        Control(kind) \in SoundFrames /\ Control(kind) \in Frames /\ ~IsData(Control(kind))
  BY DEF Control, Frame, Frames, SoundFrames, IsData

LEMMA WrittenControl ==
    ASSUME OutputTypes, NEW f \in Frames, ~IsData(f), NEW blocks, WriteData(f, blocks)
    PROVE  OutputKept
  BY WriteEffect, Zenon DEF OutputKept

LEMMA OthersTyped ==
    ASSUME Types
    PROVE  /\ UNCHANGED <<outputVars, stream, cleanupScheduled>> => OutputTypes' /\ OutputKept
           /\ UNCHANGED inputVars => InputTypes'
           /\ UNCHANGED <<connectionVars, timerVars, end>> => ConnectionTypes'
           /\ UNCHANGED assemblyVars => AssemblyTypes'
           /\ UNCHANGED serverVars => ServerTypes'
           /\ UNCHANGED sendVars => SendTypes'
<1>1. UNCHANGED <<outputVars, stream, cleanupScheduled>> => OutputTypes' /\ OutputKept
  BY DEF Types, OutputTypes, OutputKept, outputVars
<1>2. UNCHANGED inputVars => InputTypes'
  BY DEF Types, InputTypes, inputVars
<1>3. UNCHANGED <<connectionVars, timerVars, end>> => ConnectionTypes'
  BY DEF Types, ConnectionTypes, connectionVars, timerVars
<1>4. UNCHANGED assemblyVars => AssemblyTypes'
  BY DEF Types, AssemblyTypes, assemblyVars
<1>5. UNCHANGED serverVars => ServerTypes'
  BY DEF Types, ServerTypes, serverVars
<1>6. UNCHANGED sendVars => SendTypes'
  BY DEF Types, SendTypes, sendVars
<1>. QED
  BY <1>1, <1>2, <1>3, <1>4, <1>5, <1>6

\* The blocks of the work queue leave the other side alone.
LEMMA OthersLeft ==
    ASSUME Types, UNCHANGED otherVars
    PROVE  ConnectionTypes' /\ AssemblyTypes' /\ SendTypes'
  BY OthersTyped, Zenon DEF otherVars

-----------------------------------------------------------------------------
(* The blocks of the work queue.                                           *)

LEMMA OnOpenedKeeps == ASSUME Types, OnOpened PROVE Types' /\ Kept
<1>1. QueueTypes /\ OutputTypes /\ InputTypes /\ ServerTypes
  BY DEF Types
<1>2. workQueue # <<>> /\ Head(workQueue)[1] # "write" /\ UNCHANGED <<readyState, readBuffer, serverVars, otherVars>>
  BY DEF OnOpened, Running
<1>3. InputTypes' /\ readyState' >= readyState
  BY <1>1, <1>2 DEF OnOpened, InputTypes, SR_CONNECTING, SR_CLOSED
<1>4. ConnectionTypes' /\ AssemblyTypes' /\ SendTypes' /\ ServerTypes'
  BY <1>2, OthersLeft, OthersTyped
<1>5. CASE readyState >= SR_CLOSING
  <2>1. workQueue' = Rest /\ UNCHANGED <<outputVars, stream, cleanupScheduled, delegateQueue>>
    BY <1>5 DEF OnOpened
  <2>. QED
    BY <1>1, <1>2, <1>3, <1>4, <2>1, RestOrFail, QueuesSame, OthersTyped DEF Types, QueueTypes, Kept
<1>6. CASE ~(readyState >= SR_CLOSING)
  <2>1. WriteData(Control("upgrade"), Rest)
    BY <1>6 DEF OnOpened
  <2>2. Control("upgrade") \in Frames /\ ~IsData(Control("upgrade"))
    BY ControlFrames
  <2>3. OutputKept
    BY <1>1, <2>1, <2>2, WrittenControl
  <2>4. /\ OutputTypes' /\ workQueue' \in {Rest, Append(Rest, Block("fail"))}
        /\ delegateQueue' \in {delegateQueue, Append(delegateQueue, Block("didClose"))}
    BY <1>1, <2>1, <2>2, WriteEffect
  <2>5. workQueue' \in Seq(WorkBlocks) /\ WorkKept
    BY <1>1, <1>2, <2>4, RestOrFail
  <2>6. delegateQueue' \in Seq(SoundCalls) /\ CallsKept
    BY <1>1, <2>4, CallsOrOne
  <2>. QED
    BY <1>3, <1>4, <2>3, <2>4, <2>5, <2>6 DEF Types, QueueTypes, Kept
<1>. QED
  BY <1>5, <1>6

\* Steps that write what is in the buffer and close when they are told to.
LEMMA PumpKeeps ==
    ASSUME QueueTypes, OutputTypes, NEW closing \in BOOLEAN, NEW hasFailed \in BOOLEAN,
           closeWhenFinishedWriting => closing,
           PumpWriting(outputBuffer, closing, hasFailed, Rest, delegateQueue),
           workQueue # <<>>, Head(workQueue)[1] # "write"
    PROVE  OutputTypes' /\ QueueTypes' /\ WorkKept /\ CallsKept /\ OutputKept
<1>1. /\ Passes(outputBuffer) /\ closeWhenFinishedWriting' = closing /\ OutputTypes'
      /\ workQueue' \in {Rest, Append(Rest, Block("fail"))}
      /\ delegateQueue' \in {delegateQueue, Append(delegateQueue, Block("didClose"))}
  BY PumpEffect DEF OutputTypes
<1>2. workQueue' \in Seq(WorkBlocks) /\ WorkKept
  BY <1>1, RestOrFail
<1>3. delegateQueue' \in Seq(SoundCalls) /\ CallsKept
  BY <1>1, CallsOrOne
<1>4. OutputKept
  BY <1>1, Zenon DEF OutputKept
<1>. QED
  BY <1>1, <1>2, <1>3, <1>4 DEF QueueTypes

LEMMA OnSpaceKeeps == ASSUME Types, OnSpace PROVE Types' /\ Kept
<1>1. QueueTypes /\ OutputTypes /\ InputTypes /\ closeWhenFinishedWriting \in BOOLEAN /\ failed \in BOOLEAN
  BY DEF Types, OutputTypes
<1>2. workQueue # <<>> /\ Head(workQueue)[1] # "write" /\ UNCHANGED <<inputVars, serverVars, otherVars>>
      /\ PumpWriting(outputBuffer, closeWhenFinishedWriting, failed, Rest, delegateQueue)
  BY DEF OnSpace, Running
<1>3. ConnectionTypes' /\ AssemblyTypes' /\ SendTypes' /\ ServerTypes' /\ InputTypes'
  BY <1>2, OthersLeft, OthersTyped
<1>4. readyState' >= readyState
  BY <1>1, <1>2, StateRises DEF inputVars
<1>5. OutputTypes' /\ QueueTypes' /\ WorkKept /\ CallsKept /\ OutputKept
  BY <1>1, <1>2, PumpKeeps
<1>. QED
  BY <1>3, <1>4, <1>5 DEF Types, Kept

LEMMA OnDisconnectKeeps == ASSUME Types, OnDisconnect PROVE Types' /\ Kept
<1>1. QueueTypes /\ OutputTypes /\ InputTypes /\ closeWhenFinishedWriting \in BOOLEAN /\ failed \in BOOLEAN
  BY DEF Types, OutputTypes
<1>2. workQueue # <<>> /\ Head(workQueue)[1] # "write" /\ UNCHANGED <<inputVars, serverVars, otherVars>>
      /\ PumpWriting(outputBuffer, TRUE, failed, Rest, delegateQueue)
  BY DEF OnDisconnect, Running, Disconnect
<1>3. ConnectionTypes' /\ AssemblyTypes' /\ SendTypes' /\ ServerTypes' /\ InputTypes'
  BY <1>2, OthersLeft, OthersTyped
<1>4. readyState' >= readyState
  BY <1>1, <1>2, StateRises DEF inputVars
<1>5. OutputTypes' /\ QueueTypes' /\ WorkKept /\ CallsKept /\ OutputKept
  BY <1>1, <1>2, PumpKeeps
<1>. QED
  BY <1>3, <1>4, <1>5 DEF Types, Kept

LEMMA OnErrorKeeps == ASSUME Types, OnError PROVE Types' /\ Kept
<1>1. QueueTypes /\ InputTypes
  BY DEF Types
<1>2. /\ workQueue # <<>> /\ Head(workQueue)[1] # "write" /\ workQueue' = Append(Rest, Block("fail"))
      /\ UNCHANGED <<readyState, consumer, outputVars, stream, cleanupScheduled, delegateQueue, serverVars, otherVars>>
      /\ readBuffer' = <<>>
  BY DEF OnError, Running
<1>3. ConnectionTypes' /\ AssemblyTypes' /\ SendTypes' /\ ServerTypes' /\ OutputTypes' /\ OutputKept
  BY <1>2, OthersLeft, OthersTyped
<1>4. InputTypes' /\ readyState' >= readyState
  BY <1>1, <1>2, StateRises, EmptySeq DEF InputTypes
<1>5. workQueue' \in Seq(WorkBlocks) /\ WorkKept /\ delegateQueue' \in Seq(SoundCalls) /\ CallsKept
  BY <1>1, <1>2, RestOrFail, QueuesSame
<1>. QED
  BY <1>3, <1>4, <1>5 DEF Types, QueueTypes, Kept

LEMMA OnStreamEndKeeps == ASSUME Types, OnStreamEnd PROVE Types' /\ Kept
<1>1. QueueTypes /\ InputTypes /\ OutputTypes
  BY DEF Types
<1>2. /\ workQueue # <<>> /\ Head(workQueue)[1] # "write" /\ workQueue' = Rest
      /\ readyState' = SR_CLOSED
      /\ delegateQueue' \in {delegateQueue, Append(delegateQueue, Block("didClose"))}
      /\ UNCHANGED <<readBuffer, consumer, failed, closeWhenFinishedWriting, outputBuffer, wireOut,
                     stream, serverVars, otherVars>>
  BY DEF OnStreamEnd, Running
<1>3. ConnectionTypes' /\ AssemblyTypes' /\ SendTypes' /\ ServerTypes'
  BY <1>2, OthersLeft, OthersTyped
<1>4. InputTypes' /\ readyState' >= readyState
  BY <1>1, <1>2, StateRises DEF InputTypes
<1>5. workQueue' \in Seq(WorkBlocks) /\ WorkKept /\ delegateQueue' \in Seq(SoundCalls) /\ CallsKept
  BY <1>1, <1>2, RestOrFail, CallsOrOne
<1>6. sentClose' \in BOOLEAN /\ cleanupScheduled' \in BOOLEAN
  BY <1>1 DEF OnStreamEnd, OutputTypes
<1>7. OutputTypes' /\ OutputKept
  BY <1>1, <1>2, <1>6 DEF OutputTypes, OutputKept
<1>. QED
  BY <1>3, <1>4, <1>5, <1>7 DEF Types, QueueTypes, Kept

LEMMA OnFailKeeps == ASSUME Types, OnFail PROVE Types' /\ Kept
<1>1. QueueTypes /\ InputTypes /\ OutputTypes
  BY DEF Types
<1>2. /\ workQueue # <<>> /\ Head(workQueue)[1] # "write"
      /\ readyState' \in {readyState, SR_CLOSED}
      /\ UNCHANGED <<readBuffer, consumer, serverVars, otherVars>>
  BY DEF OnFail, Running
<1>3. ConnectionTypes' /\ AssemblyTypes' /\ SendTypes' /\ ServerTypes'
  BY <1>2, OthersLeft, OthersTyped
<1>4. InputTypes' /\ readyState' >= readyState
  BY <1>1, <1>2, StateRises DEF InputTypes
<1>5. CASE readyState # SR_CLOSED
  <2>1. PumpWriting(outputBuffer, TRUE, TRUE, Rest, Append(delegateQueue, Block("didFail")))
    BY <1>5 DEF OnFail, Disconnect
  <2>2. /\ Passes(outputBuffer) /\ closeWhenFinishedWriting' /\ OutputTypes'
        /\ workQueue' \in {Rest, Append(Rest, Block("fail"))}
    BY <1>1, <2>1, PumpEffect DEF OutputTypes
  <2>3. delegateQueue' = Append(delegateQueue, Block("didFail"))
    BY <2>1 DEF PumpWriting
  <2>4. delegateQueue' \in Seq(SoundCalls) /\ CallsKept
    BY <1>1, <2>3, CallsOrOne
  <2>5. workQueue' \in Seq(WorkBlocks) /\ WorkKept
    BY <1>1, <1>2, <2>2, RestOrFail
  <2>6. OutputKept
    BY <2>2, Zenon DEF OutputKept
  <2>. QED
    BY <1>3, <1>4, <2>2, <2>4, <2>5, <2>6 DEF Types, QueueTypes, Kept
<1>6. CASE readyState = SR_CLOSED
  <2>1. workQueue' = Rest /\ UNCHANGED <<outputVars, stream, cleanupScheduled, delegateQueue>>
    BY <1>6 DEF OnFail
  <2>. QED
    BY <1>1, <1>2, <1>3, <1>4, <2>1, RestOrFail, QueuesSame, OthersTyped DEF Types, QueueTypes, Kept
<1>. QED
  BY <1>5, <1>6

LEMMA OnCloseKeeps == ASSUME Types, OnClose PROVE Types' /\ Kept
<1>1. QueueTypes /\ InputTypes /\ OutputTypes
  BY DEF Types
<1>2. /\ workQueue # <<>> /\ Head(workQueue)[1] # "write"
      /\ UNCHANGED <<readBuffer, consumer, serverVars, otherVars>>
  BY DEF OnClose, Running
<1>3. ConnectionTypes' /\ AssemblyTypes' /\ SendTypes' /\ ServerTypes'
  BY <1>2, OthersLeft, OthersTyped
<1>4. InputTypes' /\ readyState' >= readyState
  BY <1>1, <1>2 DEF OnClose, InputTypes, SR_CONNECTING, SR_OPEN, SR_CLOSING, SR_CLOSED
<1>5. CASE readyState >= SR_CLOSING
  <2>1. workQueue' = Rest /\ UNCHANGED <<outputVars, stream, cleanupScheduled, delegateQueue>>
    BY <1>5 DEF OnClose
  <2>. QED
    BY <1>1, <1>2, <1>3, <1>4, <2>1, RestOrFail, QueuesSame, OthersTyped DEF Types, QueueTypes, Kept
<1>6. CASE ~(readyState >= SR_CLOSING) /\ readyState = SR_CONNECTING
  <2>1. PumpWriting(outputBuffer, TRUE, failed, Rest, delegateQueue)
    BY <1>6 DEF OnClose, Disconnect
  <2>2. OutputTypes' /\ QueueTypes' /\ WorkKept /\ CallsKept /\ OutputKept
    BY <1>1, <1>2, <2>1, PumpKeeps DEF OutputTypes
  <2>. QED
    BY <1>3, <1>4, <2>2 DEF Types, Kept
<1>7. CASE ~(readyState >= SR_CLOSING) /\ readyState # SR_CONNECTING
  <2>1. WriteData(Control("close"), Rest)
    BY <1>7 DEF OnClose
  <2>2. Control("close") \in Frames /\ ~IsData(Control("close"))
    BY ControlFrames
  <2>3. OutputKept
    BY <1>1, <2>1, <2>2, WrittenControl
  <2>4. /\ OutputTypes' /\ workQueue' \in {Rest, Append(Rest, Block("fail"))}
        /\ delegateQueue' \in {delegateQueue, Append(delegateQueue, Block("didClose"))}
    BY <1>1, <2>1, <2>2, WriteEffect
  <2>5. workQueue' \in Seq(WorkBlocks) /\ WorkKept
    BY <1>1, <1>2, <2>4, RestOrFail
  <2>6. delegateQueue' \in Seq(SoundCalls) /\ CallsKept
    BY <1>1, <2>4, CallsOrOne
  <2>. QED
    BY <1>3, <1>4, <2>3, <2>4, <2>5, <2>6 DEF Types, QueueTypes, Kept
<1>. QED
  BY <1>5, <1>6, <1>7

\* A write passes one frame from the queue to the buffer, or drops it.
WriteTaken ==
    /\ workQueue # <<>> /\ Head(workQueue)[1] = "write" /\ Head(workQueue) \in WorkBlocks
    /\ \E more \in Seq(WorkBlocks) : Quiet(more, "write") /\ workQueue' = Tail(workQueue) \o more
    /\ IF closeWhenFinishedWriting
       THEN UNCHANGED <<outputBuffer, wireOut, closeWhenFinishedWriting>>
       ELSE Passes(Append(outputBuffer, Head(workQueue)[2])) /\ ~closeWhenFinishedWriting'

LEMMA OnWriteKeeps ==
    ASSUME Types, OnWrite
    PROVE  Types' /\ WriteTaken /\ CallsKept /\ readyState' >= readyState
<1>1. QueueTypes /\ InputTypes /\ OutputTypes
  BY DEF Types
<1>2. /\ workQueue # <<>> /\ Head(workQueue)[1] = "write" /\ UNCHANGED <<inputVars, serverVars, otherVars>>
      /\ WriteData(Head(workQueue)[2], Rest)
  BY DEF OnWrite, Running
<1>3. Head(workQueue) \in WorkBlocks /\ Tail(workQueue) \in Seq(WorkBlocks)
  BY <1>1, <1>2, Queueing DEF QueueTypes
<1>4. Head(workQueue)[2] \in Frames
  BY <1>3 DEF WorkBlocks
<1>5. ConnectionTypes' /\ AssemblyTypes' /\ SendTypes' /\ ServerTypes' /\ InputTypes'
  BY <1>2, OthersLeft, OthersTyped
<1>6. readyState' >= readyState
  BY <1>1, <1>2, StateRises DEF inputVars
<1>7. /\ IF closeWhenFinishedWriting
         THEN UNCHANGED <<outputBuffer, wireOut, closeWhenFinishedWriting>>
         ELSE Passes(Append(outputBuffer, Head(workQueue)[2])) /\ ~closeWhenFinishedWriting'
      /\ OutputTypes' /\ workQueue' \in {Rest, Append(Rest, Block("fail"))}
      /\ delegateQueue' \in {delegateQueue, Append(delegateQueue, Block("didClose"))}
  <2>. DEFINE f == Head(workQueue)[2]
  <2>. HIDE DEF f
  <2>1. f \in Frames /\ WriteData(f, Rest)
    BY <1>2, <1>4 DEF f
  <2>2. /\ IF closeWhenFinishedWriting
           THEN UNCHANGED <<outputBuffer, wireOut, closeWhenFinishedWriting>>
           ELSE Passes(Append(outputBuffer, f)) /\ ~closeWhenFinishedWriting'
        /\ OutputTypes' /\ workQueue' \in {Rest, Append(Rest, Block("fail"))}
        /\ delegateQueue' \in {delegateQueue, Append(delegateQueue, Block("didClose"))}
    BY <1>1, <2>1, WriteEffect
  <2>. QED
    BY <2>2 DEF f
<1>8. workQueue' \in Seq(WorkBlocks)
  BY <1>1, <1>2, <1>7, RestOrFail
<1>9. delegateQueue' \in Seq(SoundCalls) /\ CallsKept
  BY <1>1, <1>7, CallsOrOne
<1>10. \E more \in Seq(WorkBlocks) : Quiet(more, "write") /\ workQueue' = Tail(workQueue) \o more
  <2>1. Block("fail") \in WorkBlocks
    BY WorkBlock1
  <2>2. /\ Tail(workQueue) \o <<>> = Tail(workQueue)
        /\ Append(Tail(workQueue), Block("fail")) = Tail(workQueue) \o <<Block("fail")>>
        /\ <<Block("fail")>> \in Seq(WorkBlocks) /\ <<>> \in Seq(WorkBlocks)
    BY <1>3, <2>1, Queueing, EmptySeq
  <2>. QED
    BY <1>7, <2>2, QuietBlocks, Zenon DEF Rest
<1>11. WriteTaken
  BY <1>2, <1>3, <1>7, <1>10, Zenon DEF WriteTaken
<1>. QED
  BY <1>5, <1>6, <1>7, <1>8, <1>9, <1>11 DEF Types, QueueTypes

\* A scan takes the next frame of the input, and hands over a frame of data.
Scans(input) ==
    \/ readBuffer' = input /\ delegateQueue' = delegateQueue
    \/ /\ readyState < SR_CLOSING /\ input # <<>> /\ readBuffer' = Tail(input)
       /\ IF IsData(Head(input))
          THEN delegateQueue' = delegateQueue \o <<Received(Head(input))>>
          ELSE \E calls \in Seq(SoundCalls) :
                   Quiet(calls, "message") /\ delegateQueue' = delegateQueue \o calls

LEMMA ScanKeeps ==
    ASSUME InputTypes, QueueTypes, workQueue # <<>>, Head(workQueue)[1] # "write",
           NEW input \in Seq(SoundFrames), NEW waiting \in {"none", "header", "frame"},
           NEW before \in {<<>>, <<Block("fail")>>}, NEW after \in {<<>>, <<Block("streamEnd")>>},
           PumpScanner(input, waiting, Tail(workQueue) \o before, after)
    PROVE  InputTypes' /\ QueueTypes' /\ WorkKept /\ Scans(input) /\ readyState' >= readyState
<1>1. /\ InputTypes' /\ readyState' >= readyState
      /\ \E adds \in {<<>>, <<Block("fail")>>, <<Block("readFrame")>>, HandleClose} :
             workQueue' = (Tail(workQueue) \o before) \o adds \o after
      /\ \/ readBuffer' = input /\ delegateQueue' = delegateQueue \o <<>>
         \/ /\ readyState < SR_CLOSING /\ input # <<>> /\ readBuffer' = Tail(input)
            /\ IF IsData(Head(input))
               THEN delegateQueue' = delegateQueue \o <<Received(Head(input))>>
               ELSE \E calls \in {<<>>, <<Block("didOpen")>>, <<Block("ping")>>,
                                  <<Block("protocolError")>>} :
                        delegateQueue' = delegateQueue \o calls
  BY ScanEffect
<1>2. PICK adds \in {<<>>, <<Block("fail")>>, <<Block("readFrame")>>, HandleClose} :
          workQueue' = (Tail(workQueue) \o before) \o adds \o after
  BY <1>1, Zenon
<1>3. Block("fail") \in WorkBlocks /\ Block("readFrame") \in WorkBlocks /\ Block("streamEnd") \in WorkBlocks
      /\ Block("close") \in WorkBlocks /\ Block("disconnect") \in WorkBlocks
  BY WorkBlock1
<1>4. /\ adds \in Seq(WorkBlocks) /\ before \in Seq(WorkBlocks) /\ after \in Seq(WorkBlocks)
      /\ Quiet(adds, "write") /\ Quiet(before, "write") /\ Quiet(after, "write")
  <2>1. /\ <<Block("fail")>> \in Seq(WorkBlocks) /\ <<Block("readFrame")>> \in Seq(WorkBlocks)
        /\ <<Block("streamEnd")>> \in Seq(WorkBlocks) /\ <<>> \in Seq(WorkBlocks)
    BY <1>3, OneElement, EmptySeq
  <2>2. HandleClose \in Seq(WorkBlocks) /\ Quiet(HandleClose, "write")
    BY <1>3, QuietBlocks DEF HandleClose
  <2>. QED
    BY <2>1, <2>2, QuietBlocks, Zenon
<1>5. before \o adds \in Seq(WorkBlocks) /\ Quiet(before \o adds, "write")
  BY <1>4, QuietConcat
<1>6. (before \o adds) \o after \in Seq(WorkBlocks) /\ Quiet((before \o adds) \o after, "write")
  BY <1>4, <1>5, QuietConcat
<1>7. workQueue' = Tail(workQueue) \o ((before \o adds) \o after)
  <2>. DEFINE rest == Tail(workQueue)
  <2>1. rest \in Seq(WorkBlocks)
    BY Queueing DEF QueueTypes
  <2>. HIDE DEF rest
  <2>2. \A x, y, z \in Seq(WorkBlocks) : (x \o y) \o z = x \o (y \o z)
    BY ConcatAssociative
  <2>3. (rest \o before) \o adds = rest \o (before \o adds)
    BY <1>4, <2>1, <2>2, Zenon
  <2>4. (rest \o (before \o adds)) \o after = rest \o ((before \o adds) \o after)
    BY <1>4, <1>5, <2>1, <2>2, Zenon
  <2>. QED
    BY <1>2, <2>3, <2>4, Zenon DEF rest
<1>8. workQueue' \in Seq(WorkBlocks) /\ WorkKept
  BY <1>6, <1>7, WorkTaken
<1>9. CASE readBuffer' = input /\ delegateQueue' = delegateQueue \o <<>>
  <2>1. delegateQueue \o <<>> = delegateQueue
    BY Queueing DEF QueueTypes
  <2>. QED
    BY <1>1, <1>8, <1>9, <2>1, Zenon DEF Scans, QueueTypes
<1>10. CASE /\ readyState < SR_CLOSING /\ input # <<>> /\ readBuffer' = Tail(input)
            /\ IF IsData(Head(input))
               THEN delegateQueue' = delegateQueue \o <<Received(Head(input))>>
               ELSE \E calls \in {<<>>, <<Block("didOpen")>>, <<Block("ping")>>,
                                  <<Block("protocolError")>>} :
                        delegateQueue' = delegateQueue \o calls
  <2>1. CASE IsData(Head(input))
    <3>1. Head(input) \in SoundFrames
      BY <1>10, Queueing
    <3>2. Received(Head(input)) \in SoundCalls
      BY <2>1, <3>1 DEF Received, SoundCalls
    <3>3. <<Received(Head(input))>> \in Seq(SoundCalls)
      BY <3>2, OneElement
    <3>4. delegateQueue' \in Seq(SoundCalls)
      BY <1>10, <2>1, <3>3, Concat DEF QueueTypes
    <3>. QED
      BY <1>1, <1>8, <1>10, <2>1, <3>4, Zenon DEF Scans, QueueTypes
  <2>2. CASE ~IsData(Head(input))
    <3>1. PICK calls \in {<<>>, <<Block("didOpen")>>, <<Block("ping")>>, <<Block("protocolError")>>} :
              delegateQueue' = delegateQueue \o calls
      BY <1>10, <2>2, Zenon
    <3>2. Block("didOpen") \in SoundCalls /\ Block("ping") \in SoundCalls /\ Block("protocolError") \in SoundCalls
      BY Call1
    <3>3. calls \in Seq(SoundCalls) /\ Quiet(calls, "message")
      <4>1. /\ <<Block("didOpen")>> \in Seq(SoundCalls) /\ <<Block("ping")>> \in Seq(SoundCalls)
            /\ <<Block("protocolError")>> \in Seq(SoundCalls) /\ <<>> \in Seq(SoundCalls)
        BY <3>2, OneElement, EmptySeq
      <4>. QED
        BY <3>1, <4>1, QuietBlocks, Zenon
    <3>4. delegateQueue' \in Seq(SoundCalls)
      BY <3>1, <3>3, CallsAdded
    <3>. QED
      BY <1>1, <1>8, <1>10, <2>2, <3>1, <3>3, <3>4, Zenon DEF Scans, QueueTypes
  <2>. QED
    BY <2>1, <2>2
<1>. QED
  BY <1>1, <1>9, <1>10, Zenon

\* What a step keeps on the way out only.
KeptOut == WorkKept /\ OutputKept /\ readyState' >= readyState

LEMMA OnBytesKeeps ==
    ASSUME Types, OnBytes
    PROVE  /\ Types' /\ KeptOut
           /\ \/ stream = "open" /\ Scans(readBuffer \o wireIn) /\ wireIn' = <<>>
              \/ stream # "open" /\ Scans(readBuffer) /\ UNCHANGED wireIn
<1>. DEFINE rest == Tail(workQueue)
<1>1. workQueue # <<>> /\ Head(workQueue)[1] # "write"
  BY DEF OnBytes, Running
<1>2. ConnectionTypes' /\ AssemblyTypes' /\ SendTypes'
  BY OthersLeft DEF OnBytes
<1>3. OutputTypes' /\ OutputKept
  BY OthersTyped DEF OnBytes
<1>4. InputTypes /\ QueueTypes /\ readBuffer \in Seq(SoundFrames) /\ wireIn \in Seq(SoundFrames)
      /\ consumer \in {"none", "header", "frame"}
  BY DEF Types, InputTypes, ServerTypes
<1>5. rest \in Seq(WorkBlocks) /\ rest \o <<>> = rest
  BY <1>1, <1>4, Queueing DEF QueueTypes
<1>6. readBuffer \o wireIn \in Seq(SoundFrames)
  BY <1>4, Concat
<1>. HIDE DEF rest
<1>7. CASE stream = "open"
  <2>1. PumpScanner(readBuffer \o wireIn, consumer, rest, <<>>) /\ wireIn' = <<>>
    BY <1>7 DEF OnBytes, Rest, rest
  <2>2. PumpScanner(readBuffer \o wireIn, consumer, rest \o <<>>, <<>>)
    BY <1>5, <2>1, Zenon
  <2>3. PumpScanner(readBuffer \o wireIn, consumer, Tail(workQueue) \o <<>>, <<>>)
    BY <2>2 DEF rest
  <2>4. InputTypes' /\ QueueTypes' /\ WorkKept /\ Scans(readBuffer \o wireIn) /\ readyState' >= readyState
    BY <1>1, <1>4, <1>6, <2>3, ScanKeeps
  <2>5. ServerTypes'
    <3>1. UNCHANGED <<server, inSent, pings>>
      BY DEF OnBytes
    <3>. QED
      BY <2>1, <3>1, EmptySeq DEF Types, ServerTypes
  <2>. QED
    BY <1>2, <1>3, <1>7, <2>1, <2>4, <2>5 DEF Types, KeptOut
<1>8. CASE stream # "open"
  <2>1. PICK errors \in {<<>>, <<Block("fail")>>} :
            PumpScanner(readBuffer, consumer, rest \o errors, <<>>) /\ UNCHANGED wireIn
    BY <1>8 DEF OnBytes, Rest, rest
  <2>2. PumpScanner(readBuffer, consumer, Tail(workQueue) \o errors, <<>>)
    BY <2>1 DEF rest
  <2>3. InputTypes' /\ QueueTypes' /\ WorkKept /\ Scans(readBuffer) /\ readyState' >= readyState
    BY <1>1, <1>4, <2>2, ScanKeeps
  <2>4. ServerTypes'
    <3>1. UNCHANGED <<server, inSent, pings>>
      BY DEF OnBytes
    <3>. QED
      BY <2>1, <3>1 DEF Types, ServerTypes
  <2>. QED
    BY <1>2, <1>3, <1>8, <2>1, <2>3, <2>4 DEF Types, KeptOut
<1>. QED
  BY <1>7, <1>8

\* The scans that follow the end of the stream, or the installation of a consumer.
LEMMA ScanAgain ==
    ASSUME Types, workQueue # <<>>, Head(workQueue)[1] # "write",
           NEW waiting \in {"none", "header", "frame"}, NEW after \in {<<>>, <<Block("streamEnd")>>},
           PumpScanner(readBuffer, waiting, Rest, after),
           UNCHANGED <<outputVars, stream, cleanupScheduled, serverVars, otherVars>>
    PROVE  Types' /\ KeptOut /\ Scans(readBuffer)
<1>. DEFINE rest == Tail(workQueue)
<1>1. ConnectionTypes' /\ AssemblyTypes' /\ SendTypes'
  BY OthersLeft
<1>2. OutputTypes' /\ OutputKept /\ ServerTypes'
  BY OthersTyped
<1>3. InputTypes /\ QueueTypes /\ readBuffer \in Seq(SoundFrames)
  BY DEF Types, InputTypes
<1>4. rest \o <<>> = rest
  BY <1>3, Queueing DEF QueueTypes
<1>5. PumpScanner(readBuffer, waiting, rest, after)
  BY DEF Rest, rest
<1>. HIDE DEF rest
<1>6. PumpScanner(readBuffer, waiting, rest \o <<>>, after)
  BY <1>4, <1>5, Zenon
<1>7. PumpScanner(readBuffer, waiting, Tail(workQueue) \o <<>>, after)
  BY <1>6 DEF rest
<1>8. InputTypes' /\ QueueTypes' /\ WorkKept /\ Scans(readBuffer) /\ readyState' >= readyState
  BY <1>3, <1>7, ScanKeeps
<1>. QED
  BY <1>1, <1>2, <1>8 DEF Types, KeptOut

LEMMA OnEndKeeps == ASSUME Types, OnEnd PROVE Types' /\ KeptOut /\ Scans(readBuffer)
<1>1. workQueue # <<>> /\ Head(workQueue)[1] # "write" /\ consumer \in {"none", "header", "frame"}
  BY DEF OnEnd, Running, Types, InputTypes
<1>. QED
  BY <1>1, ScanAgain DEF OnEnd

LEMMA OnReadFrameKeeps == ASSUME Types, OnReadFrame PROVE Types' /\ KeptOut /\ Scans(readBuffer)
<1>1. workQueue # <<>> /\ Head(workQueue)[1] # "write"
  BY DEF OnReadFrame, Running
<1>. QED
  BY <1>1, ScanAgain DEF OnReadFrame

-----------------------------------------------------------------------------
(* The delegate queue, the caller, the timers, the streams and the server.  *)

LEMMA SocketLeft ==
    ASSUME Types, UNCHANGED socketVars
    PROVE  OutputTypes' /\ OutputKept /\ InputTypes' /\ readyState' >= readyState
<1>1. UNCHANGED <<outputVars, stream, cleanupScheduled>> /\ UNCHANGED inputVars
  BY DEF socketVars
<1>2. readyState' = readyState /\ readyState \in SR_CONNECTING..SR_CLOSED
  BY <1>1 DEF inputVars, Types, InputTypes
<1>. QED
  BY <1>1, <1>2, OthersTyped DEF SR_CONNECTING, SR_CLOSED

LEMMA Enqueued ==
    ASSUME QueueTypes, NEW blocks \in Seq(WorkBlocks), Quiet(blocks, "write"), Enqueue(blocks)
    PROVE  workQueue' \in Seq(WorkBlocks) /\ WorkKept
<1>1. CASE webSocket
  BY <1>1, WorkAdded DEF Enqueue
<1>2. CASE ~webSocket
  BY <1>2, QueuesSame DEF Enqueue
<1>. QED
  BY <1>1, <1>2

LEMMA ControlWrites ==
    \A kind \in {"nop", "pong"} :
        /\ Write(Control(kind)) \in WorkBlocks /\ <<Write(Control(kind))>> \in Seq(WorkBlocks)
        /\ Quiet(<<Write(Control(kind))>>, "write")
<1>1. SUFFICES ASSUME NEW kind \in {"nop", "pong"}
               PROVE  /\ Write(Control(kind)) \in WorkBlocks /\ <<Write(Control(kind))>> \in Seq(WorkBlocks)
                      /\ Quiet(<<Write(Control(kind))>>, "write")
  OBVIOUS
<1>2. Control(kind) \in Frames /\ ~IsData(Control(kind))
  BY ControlFrames
<1>3. Write(Control(kind)) \in WorkBlocks /\ Write(Control(kind))[2] = Control(kind)
  BY <1>2 DEF Write, WorkBlocks
<1>. DEFINE block == Write(Control(kind))
<1>4. block \in WorkBlocks /\ block[2] = Control(kind)
  BY <1>3
<1>. HIDE DEF block
<1>5. <<block>> \in Seq(WorkBlocks) /\ Len(<<block>>) = 1 /\ <<block>>[1] = block
  BY <1>4, OneElement
<1>6. Quiet(<<block>>, "write")
  BY <1>2, <1>4, <1>5 DEF Quiet
<1>. QED
  BY <1>4, <1>5, <1>6 DEF block

LEMMA WebSocketDidOpenKeeps == ASSUME Types, WebSocketDidOpen PROVE Types' /\ Kept
<1>1. delegateQueue # <<>> /\ Head(delegateQueue)[1] # "message" /\ delegateQueue' = Tail(delegateQueue)
  BY DEF WebSocketDidOpen, Called
<1>2. delegateQueue' \in Seq(SoundCalls) /\ CallsKept
  BY <1>1, CallTaken DEF Types
<1>3. workQueue' \in Seq(WorkBlocks) /\ WorkKept
  BY QueuesSame DEF Types, WebSocketDidOpen
<1>4. OutputTypes' /\ OutputKept /\ InputTypes' /\ readyState' >= readyState
  BY SocketLeft DEF WebSocketDidOpen
<1>5. AssemblyTypes' /\ ServerTypes' /\ SendTypes'
  BY OthersTyped DEF WebSocketDidOpen
<1>6. ConnectionTypes'
  BY DEF WebSocketDidOpen, Types, ConnectionTypes
<1>. QED
  BY <1>2, <1>3, <1>4, <1>5, <1>6 DEF Types, QueueTypes, Kept

LEMMA DidEndKeeps ==
    ASSUME Types, NEW type \in {"didClose", "didFail"}, DidEnd(type)
    PROVE  Types' /\ Kept
<1>1. delegateQueue # <<>> /\ Head(delegateQueue)[1] # "message" /\ delegateQueue' = Tail(delegateQueue)
  BY DEF DidEnd, Called
<1>2. delegateQueue' \in Seq(SoundCalls) /\ CallsKept
  BY <1>1, CallTaken DEF Types
<1>3. workQueue' \in Seq(WorkBlocks) /\ WorkKept
  BY QueuesSame DEF Types, DidEnd
<1>4. OutputTypes' /\ OutputKept /\ InputTypes' /\ readyState' >= readyState
  BY SocketLeft DEF DidEnd
<1>5. AssemblyTypes' /\ ServerTypes' /\ SendTypes'
  BY OthersTyped DEF DidEnd
<1>6. ConnectionTypes'
  BY DEF DidEnd, OnClosed, Types, ConnectionTypes
<1>. QED
  BY <1>2, <1>3, <1>4, <1>5, <1>6 DEF Types, QueueTypes, Kept

LEMMA BounceKeeps ==
    ASSUME Types, NEW type \in {"ping", "protocolError"}, NEW blocks \in Seq(WorkBlocks),
           Quiet(blocks, "write"), Bounce(type, blocks)
    PROVE  Types' /\ Kept
<1>1. delegateQueue # <<>> /\ Head(delegateQueue)[1] # "message" /\ delegateQueue' = Tail(delegateQueue)
  BY DEF Bounce, Called
<1>2. delegateQueue' \in Seq(SoundCalls) /\ CallsKept
  BY <1>1, CallTaken DEF Types
<1>3. workQueue' \in Seq(WorkBlocks) /\ WorkKept
  BY WorkAdded DEF Types, Bounce
<1>4. OutputTypes' /\ OutputKept /\ InputTypes' /\ readyState' >= readyState
  BY SocketLeft DEF Bounce
<1>5. ConnectionTypes' /\ AssemblyTypes' /\ ServerTypes' /\ SendTypes'
  BY OthersTyped DEF Bounce
<1>. QED
  BY <1>2, <1>3, <1>4, <1>5 DEF Types, QueueTypes, Kept

LEMMA ClosingBlocks ==
    /\ <<Block("close")>> \in Seq(WorkBlocks)
    /\ <<Block("close"), Block("disconnect")>> \in Seq(WorkBlocks)
<1>1. Block("close") \in WorkBlocks /\ Block("disconnect") \in WorkBlocks
  BY WorkBlock1
<1>. QED
  BY <1>1

LEMMA BouncesKeep ==
    ASSUME Types, HandlePing \/ CloseWithProtocolError
    PROVE  Types' /\ Kept
<1>1. CASE HandlePing
  BY <1>1, BounceKeeps, ControlWrites DEF HandlePing
<1>2. CASE CloseWithProtocolError
  BY <1>2, BounceKeeps, ClosingBlocks, QuietBlocks DEF CloseWithProtocolError
<1>. QED
  BY <1>1, <1>2

LEMMA CloseIfNeverConnectedKeeps == ASSUME Types, CloseIfNeverConnected PROVE Types' /\ Kept
<1>1. delegateQueue # <<>> /\ Head(delegateQueue)[1] # "message" /\ delegateQueue' = Tail(delegateQueue)
  BY DEF CloseIfNeverConnected, Called
<1>2. delegateQueue' \in Seq(SoundCalls) /\ CallsKept
  BY <1>1, CallTaken DEF Types
<1>3. workQueue' \in Seq(WorkBlocks) /\ WorkKept
  <2>1. CASE everConnected
    BY <2>1, QueuesSame DEF Types, CloseIfNeverConnected
  <2>2. CASE ~everConnected
    BY <2>2, Enqueued, ClosingBlocks, QuietBlocks DEF Types, CloseIfNeverConnected
  <2>. QED
    BY <2>1, <2>2
<1>4. OutputTypes' /\ OutputKept /\ InputTypes' /\ readyState' >= readyState
  BY SocketLeft DEF CloseIfNeverConnected
<1>5. AssemblyTypes' /\ ServerTypes' /\ SendTypes'
  BY OthersTyped DEF CloseIfNeverConnected
<1>6. ConnectionTypes'
  BY DEF CloseIfNeverConnected, Types, ConnectionTypes, timerVars
<1>. QED
  BY <1>2, <1>3, <1>4, <1>5, <1>6 DEF Types, QueueTypes, Kept

LEMMA CloseKeeps == ASSUME Types, Close PROVE Types' /\ Kept
<1>1. delegateQueue' \in Seq(SoundCalls) /\ CallsKept
  BY QueuesSame DEF Types, Close
<1>2. workQueue' \in Seq(WorkBlocks) /\ WorkKept
  BY Enqueued, ClosingBlocks, QuietBlocks DEF Types, Close
<1>3. OutputTypes' /\ OutputKept /\ InputTypes' /\ readyState' >= readyState
  BY SocketLeft DEF Close
<1>4. AssemblyTypes' /\ ServerTypes' /\ SendTypes'
  BY OthersTyped DEF Close
<1>5. ConnectionTypes'
  BY DEF Close, Types, ConnectionTypes, timerVars
<1>. QED
  BY <1>1, <1>2, <1>3, <1>4, <1>5 DEF Types, QueueTypes, Kept

LEMMA TimersKeep == ASSUME Types, MainThread PROVE Types' /\ Kept
<1>1. delegateQueue' \in Seq(SoundCalls) /\ CallsKept
  BY QueuesSame DEF Types, MainThread, StartKeepAlive, NopFires, NopSends
<1>2. workQueue' \in Seq(WorkBlocks) /\ WorkKept
  <2>1. CASE NopSends
    BY <2>1, Enqueued, ControlWrites DEF Types, NopSends
  <2>2. CASE StartKeepAlive \/ NopFires
    BY <2>2, QueuesSame DEF Types, StartKeepAlive, NopFires
  <2>. QED
    BY <2>1, <2>2 DEF MainThread
<1>3. OutputTypes' /\ OutputKept /\ InputTypes' /\ readyState' >= readyState
  BY SocketLeft DEF MainThread, StartKeepAlive, NopFires, NopSends
<1>4. AssemblyTypes' /\ ServerTypes' /\ SendTypes'
  BY OthersTyped DEF MainThread, StartKeepAlive, NopFires, NopSends
<1>5. ConnectionTypes'
  <2>1. MaxNops \in Nat
    BY MessagesAssumption
  <2>. QED
    <3>1. CASE StartKeepAlive
      BY <3>1 DEF StartKeepAlive, Types, ConnectionTypes, connectionVars
    <3>2. CASE NopFires
      <4>1. nops \in 0..MaxNops /\ nops' \in {nops, nops + 1} /\ (nops' = nops \/ nops < MaxNops)
        BY <3>2 DEF NopFires, Types, ConnectionTypes
      <4>2. nops' \in 0..MaxNops
        BY <2>1, <4>1
      <4>. QED
        BY <3>2, <4>2 DEF NopFires, Types, ConnectionTypes, connectionVars
    <3>3. CASE NopSends
      BY <3>3 DEF NopSends, Types, ConnectionTypes, connectionVars
    <3>. QED
      BY <3>1, <3>2, <3>3 DEF MainThread
<1>. QED
  BY <1>1, <1>2, <1>3, <1>4, <1>5 DEF Types, QueueTypes, Kept

LEMMA ConnectTimeoutKeeps == ASSUME Types, ConnectTimeout PROVE Types' /\ Kept
<1>1. delegateQueue' \in Seq(SoundCalls) /\ CallsKept
  BY CallsOrOne DEF Types, ConnectTimeout
<1>2. workQueue' \in Seq(WorkBlocks) /\ WorkKept
  BY QueuesSame DEF Types, ConnectTimeout
<1>3. OutputTypes' /\ OutputKept /\ InputTypes' /\ readyState' >= readyState
  BY SocketLeft DEF ConnectTimeout
<1>4. ConnectionTypes' /\ AssemblyTypes' /\ ServerTypes' /\ SendTypes'
  <2>1. UNCHANGED <<serverVars, connectionVars, timerVars, assemblyVars, sendVars, end>>
    BY DEF ConnectTimeout
  <2>. QED
    BY <2>1, OthersTyped
<1>. QED
  BY <1>1, <1>2, <1>3, <1>4 DEF Types, QueueTypes, Kept

LEMMA EventAdded ==
    ASSUME QueueTypes, NEW type \in {"opened", "bytes", "space", "error", "end"}, Event(type)
    PROVE  workQueue' \in Seq(WorkBlocks) /\ WorkKept
<1>1. Block(type) \in WorkBlocks
  BY WorkBlock1
<1>2. Append(workQueue, Block(type)) = workQueue \o <<Block(type)>> /\ <<Block(type)>> \in Seq(WorkBlocks)
  BY <1>1, Queueing DEF QueueTypes
<1>3. workQueue' = workQueue \o <<Block(type)>>
  BY <1>2 DEF Event
<1>. QED
  BY <1>2, <1>3, QuietBlocks, WorkAdded

\* The streams change nothing above the socket.
LEMMA AboveLeft ==
    ASSUME Types, UNCHANGED aboveVars
    PROVE  /\ ConnectionTypes' /\ AssemblyTypes' /\ SendTypes'
           /\ delegateQueue' \in Seq(SoundCalls) /\ CallsKept
<1>1. UNCHANGED <<connectionVars, timerVars, assemblyVars, sendVars, end>> /\ UNCHANGED delegateQueue
  BY DEF aboveVars
<1>. QED
  BY <1>1, OthersTyped, QueuesSame DEF Types

\* The status of the streams does not matter to what is written.
LEMMA StreamChanges ==
    ASSUME Types, UNCHANGED <<outputVars, inputVars, cleanupScheduled>>,
           stream' \in {"notOpen", "opening", "open", "atEnd", "error", "closed"}
    PROVE  OutputTypes' /\ OutputKept /\ InputTypes' /\ readyState' >= readyState
<1>1. readyState' = readyState /\ readyState \in SR_CONNECTING..SR_CLOSED
  BY DEF inputVars, Types, InputTypes
<1>2. OutputTypes' /\ OutputKept
  BY DEF Types, OutputTypes, OutputKept, outputVars
<1>3. InputTypes'
  BY OthersTyped
<1>. QED
  BY <1>1, <1>2, <1>3 DEF SR_CONNECTING, SR_CLOSED

LEMMA OpenKeeps == ASSUME Types, Open PROVE Types' /\ Kept
<1>1. delegateQueue' \in Seq(SoundCalls) /\ CallsKept /\ workQueue' \in Seq(WorkBlocks) /\ WorkKept
  BY QueuesSame DEF Types, Open
<1>2. OutputTypes' /\ OutputKept /\ InputTypes' /\ readyState' >= readyState
  BY StreamChanges DEF Open
<1>3. AssemblyTypes' /\ ServerTypes' /\ SendTypes'
  BY OthersTyped DEF Open
<1>4. ConnectionTypes'
  BY DEF Open, Types, ConnectionTypes, timerVars
<1>. QED
  BY <1>1, <1>2, <1>3, <1>4 DEF Types, QueueTypes, Kept

LEMMA StreamsKeep == ASSUME Types, Streams PROVE Types' /\ Kept
<1>1. UNCHANGED aboveVars /\ UNCHANGED <<outputVars, inputVars, cleanupScheduled>>
  BY DEF Streams, OpenCompleted, HasSpaceAvailable, ErrorOccurred, EndEncountered, Cleanup, socketVars
<1>2. stream' \in {"notOpen", "opening", "open", "atEnd", "error", "closed"}
  BY DEF Streams, OpenCompleted, HasSpaceAvailable, ErrorOccurred, EndEncountered, Cleanup, socketVars,
     Types, OutputTypes
<1>3. workQueue' \in Seq(WorkBlocks) /\ WorkKept
  <2>1. CASE UNCHANGED workQueue
    BY <2>1, QueuesSame DEF Types
  <2>2. CASE \E type \in {"opened", "bytes", "space", "error", "end"} : Event(type)
    BY <2>2, EventAdded DEF Types
  <2>. QED
    BY <2>1, <2>2 DEF Streams, OpenCompleted, HasSpaceAvailable, ErrorOccurred, EndEncountered, Cleanup
<1>4. ServerTypes'
  <2>1. UNCHANGED <<inSent, pings>> /\ server' \in {server, "finished"} /\ wireIn' \in {wireIn, <<>>}
    BY DEF Streams, OpenCompleted, HasSpaceAvailable, ErrorOccurred, EndEncountered, Cleanup, serverVars
  <2>. QED
    BY <2>1, EmptySeq DEF Types, ServerTypes
<1>. QED
  BY <1>1, <1>2, <1>3, <1>4, AboveLeft, StreamChanges DEF Types, QueueTypes, Kept

LEMMA ArrivesKeeps ==
    ASSUME Types, NEW frames \in Seq(SoundFrames), Arrives(frames)
    PROVE  /\ OutputTypes' /\ InputTypes' /\ QueueTypes' /\ ConnectionTypes' /\ AssemblyTypes' /\ SendTypes'
           /\ wireIn' \in Seq(SoundFrames) /\ Kept
<1>1. UNCHANGED socketVars /\ UNCHANGED aboveVars /\ wireIn' = wireIn \o frames
  BY DEF Arrives
<1>2. workQueue' \in Seq(WorkBlocks) /\ WorkKept
  <2>1. CASE UNCHANGED workQueue
    BY <2>1, QueuesSame DEF Types
  <2>2. CASE Event("bytes")
    BY <2>2, EventAdded DEF Types
  <2>. QED
    BY <2>1, <2>2 DEF Arrives
<1>3. wireIn' \in Seq(SoundFrames)
  BY <1>1, Concat DEF Types, ServerTypes
<1>. QED
  BY <1>1, <1>2, <1>3, AboveLeft, SocketLeft DEF Kept, QueueTypes

LEMMA ServerKeeps == ASSUME Types, Server PROVE Types' /\ Kept
<1>1. CASE ServerSends
  <2>1. InSegments \in Seq(Nat \ {0}) /\ inSent \in 0..Len(InSegments)
    BY MessagesAssumption DEF Types, ServerTypes
  <2>2. inSent + 1 \in 1..Len(InSegments) /\ Len(InSegments) \in Nat
    BY <1>1, <2>1 DEF ServerSends
  <2>3. FramesOf(inSent + 1, InSegments[inSent + 1]) \in Seq(SoundFrames)
    BY <2>1, <2>2, MessageRun
  <2>. DEFINE frames == FramesOf(inSent + 1, InSegments[inSent + 1])
  <2>4. Arrives(frames) /\ frames \in Seq(SoundFrames)
    BY <1>1, <2>3 DEF ServerSends
  <2>. HIDE DEF frames
  <2>5. ServerTypes'
    BY <1>1, <2>2, <2>4, ArrivesKeeps DEF ServerSends, Types, ServerTypes
  <2>. QED
    BY <2>4, <2>5, ArrivesKeeps DEF Types
<1>2. ASSUME NEW kind \in {"ping", "accepted", "refused", "close", "malformed"}, Arrives(<<Control(kind)>>),
             inSent' = inSent, pings' \in 0..MaxPings, server' \in {"waiting", "accepted", "finished"}
      PROVE  Types' /\ Kept
  <2>1. <<Control(kind)>> \in Seq(SoundFrames)
    BY ControlFrames, OneElement
  <2>2. OutputTypes' /\ InputTypes' /\ QueueTypes' /\ ConnectionTypes' /\ AssemblyTypes' /\ SendTypes'
        /\ wireIn' \in Seq(SoundFrames) /\ Kept
    BY <1>2, <2>1, ArrivesKeeps
  <2>. QED
    BY <1>2, <2>2 DEF Types, ServerTypes
<1>3. server \in {"waiting", "accepted", "finished"} /\ pings \in 0..MaxPings /\ MaxPings \in Nat
  BY MessagesAssumption DEF Types, ServerTypes
<1>4. CASE ServerPings
  <2>1. pings' \in 0..MaxPings
    BY <1>3, <1>4 DEF ServerPings
  <2>. QED
    BY <1>2, <1>3, <1>4, <2>1 DEF ServerPings
<1>5. CASE \E kind \in {"accepted", "refused"} : ServerAnswersUpgrade(kind)
  BY <1>2, <1>3, <1>5 DEF ServerAnswersUpgrade
<1>6. CASE \E kind \in {"close", "malformed"} : ServerFinishes(kind)
  BY <1>2, <1>3, <1>6 DEF ServerFinishes
<1>. QED
  BY <1>1, <1>4, <1>5, <1>6 DEF Server

\* The loop of send: passes a frame on, unless the socket is gone.
LEMMA SendStringKeeps ==
    ASSUME Types, SendString
    PROVE  /\ Types' /\ CallsKept /\ OutputKept /\ readyState' >= readyState
           /\ Write(Head(sending)) \in WorkBlocks /\ Tail(sending) \in Seq(Frames)
           /\ sending' = Tail(sending) /\ outSent' = outSent
           /\ workQueue' = IF webSocket THEN workQueue \o <<Write(Head(sending))>> ELSE workQueue
<1>1. sending \in Seq(Frames) /\ sending # <<>>
  BY DEF Types, SendTypes, SendString
<1>2. Head(sending) \in Frames /\ Tail(sending) \in Seq(Frames)
  BY <1>1, Queueing
<1>3. Write(Head(sending)) \in WorkBlocks
  BY <1>2 DEF Write, WorkBlocks
<1>. DEFINE block == Write(Head(sending))
<1>4. block \in WorkBlocks /\ workQueue' = IF webSocket THEN workQueue \o <<block>> ELSE workQueue
  BY <1>3 DEF SendString, Enqueue
<1>5. workQueue' \in Seq(WorkBlocks)
  <2>. HIDE DEF block
  <2>1. <<block>> \in Seq(WorkBlocks)
    BY <1>4, OneElement
  <2>. QED
    BY <1>4, <2>1, Concat DEF Types, QueueTypes
<1>6. delegateQueue' \in Seq(SoundCalls) /\ CallsKept
  BY QueuesSame DEF Types, SendString
<1>7. OutputTypes' /\ OutputKept /\ InputTypes' /\ readyState' >= readyState
  BY SocketLeft DEF SendString
<1>8. ConnectionTypes' /\ AssemblyTypes' /\ ServerTypes'
  BY OthersTyped DEF SendString
<1>9. SendTypes' /\ sending' = Tail(sending) /\ outSent' = outSent
  BY <1>2 DEF SendString, Types, SendTypes
<1>. QED
  BY <1>2, <1>3, <1>4, <1>5, <1>6, <1>7, <1>8, <1>9 DEF Types, QueueTypes

LEMMA SendKeeps ==
    ASSUME Types, Send
    PROVE  /\ Types' /\ Kept
           /\ outSent + 1 \in 1..Len(OutSegments) /\ outSent' = outSent + 1
           /\ sending' = FramesOf(outSent + 1, OutSegments[outSent + 1])
<1>1. OutSegments \in Seq(Nat \ {0}) /\ outSent \in 0..Len(OutSegments) /\ Len(OutSegments) \in Nat
  BY MessagesAssumption DEF Types, SendTypes
<1>2. outSent + 1 \in 1..Len(OutSegments)
  BY <1>1 DEF Send
<1>3. FramesOf(outSent + 1, OutSegments[outSent + 1]) \in Seq(Frames)
  BY <1>1, <1>2, MessageRun, SoundAreFrames
<1>4. delegateQueue' \in Seq(SoundCalls) /\ CallsKept /\ workQueue' \in Seq(WorkBlocks) /\ WorkKept
  BY QueuesSame DEF Types, Send
<1>5. OutputTypes' /\ OutputKept /\ InputTypes' /\ readyState' >= readyState
  BY SocketLeft DEF Send
<1>6. ConnectionTypes' /\ AssemblyTypes' /\ ServerTypes'
  BY OthersTyped DEF Send
<1>7. SendTypes' /\ outSent' = outSent + 1 /\ sending' = FramesOf(outSent + 1, OutSegments[outSent + 1])
  BY <1>1, <1>2, <1>3 DEF Send, SendTypes
<1>. QED
  BY <1>2, <1>4, <1>5, <1>6, <1>7 DEF Types, QueueTypes, Kept

LEMMA OneMore ==
    \A n \in Nat : n >= 1 /\ n # 1 => n - 1 \in Nat /\ n - 1 >= 1
  OBVIOUS

LEMMA DeliveredTyped ==
    ASSUME delivered \in Seq(Nat), NEW segments, OnMessage(segments)
    PROVE  delivered' \in Seq(Nat)
<1>1. \A m \in Whole(segments) : m \in Nat
  BY MessagesAssumption DEF Whole
<1>. DEFINE got == IF Whole(segments) = {} THEN 0 ELSE CHOOSE m \in Whole(segments) : TRUE
<1>2. got \in Nat
  BY <1>1
<1>3. delivered' = IF end # "none" THEN delivered ELSE Append(delivered, got)
  BY DEF OnMessage
<1>. HIDE DEF got
<1>. QED
  BY <1>2, <1>3

LEMMA AppendTyped ==
    ASSUME delivered \in Seq(Nat), NEW f \in Frames, NEW total \in Nat, total >= 1,
           NEW segments \in Seq(Frames), AppendFrame(f, total, segments)
    PROVE  AssemblyTypes'
<1>1. CASE total = 1
  <2>1. delivered' \in Seq(Nat)
    BY <1>1, DeliveredTyped DEF AppendFrame
  <2>2. totalFrames' = 0 /\ buffering' = FALSE /\ frame' = <<>>
    BY <1>1 DEF AppendFrame
  <2>. QED
    BY <2>1, <2>2, EmptySeq DEF AssemblyTypes
<1>2. CASE total # 1
  <2>1. totalFrames' = total - 1 /\ buffering' = TRUE /\ frame' = Append(segments, f) /\ delivered' = delivered
    BY <1>2 DEF AppendFrame
  <2>2. totalFrames' \in Nat /\ totalFrames' >= 1
    BY <1>2, <2>1, OneMore
  <2>3. frame' \in Seq(Frames)
    BY <2>1
  <2>. QED
    BY <2>1, <2>2, <2>3 DEF AssemblyTypes
<1>. QED
  BY <1>1, <1>2

LEMMA DidReceiveMessageKeeps ==
    ASSUME Types, DidReceiveMessage
    PROVE  Types' /\ KeptOut /\ delegateQueue # <<>> /\ Head(delegateQueue) \in SoundCalls
<1>1. delegateQueue # <<>> /\ delegateQueue' = Tail(delegateQueue)
  BY DEF DidReceiveMessage, Called
<1>2. delegateQueue' \in Seq(SoundCalls) /\ Head(delegateQueue) \in SoundCalls
  BY <1>1, CallTaken DEF Types
<1>3. workQueue' \in Seq(WorkBlocks) /\ WorkKept
  BY QueuesSame DEF Types, DidReceiveMessage
<1>4. OutputTypes' /\ OutputKept /\ InputTypes' /\ readyState' >= readyState
  BY SocketLeft DEF DidReceiveMessage
<1>5. ConnectionTypes' /\ ServerTypes' /\ SendTypes'
  BY OthersTyped DEF DidReceiveMessage
<1>6. AssemblyTypes'
  <2>. DEFINE f == Head(delegateQueue)[2]
  <2>1. f \in SoundFrames
    BY <1>2 DEF SoundCalls
  <2>2. f \in Frames /\ (f.kind = "count" => f.n \in Nat /\ f.n >= 1)
    BY <2>1 DEF SoundFrames, Frames
  <2>3. AssemblyTypes
    BY DEF Types
  <2>4. \/ ~Alive /\ UNCHANGED assemblyVars
        \/ buffering /\ AppendFrame(f, totalFrames, frame)
        \/ f.kind = "count" /\ totalFrames' = f.n /\ buffering' = TRUE /\ frame' = <<>> /\ UNCHANGED delivered
        \/ AppendFrame(f, 1, <<>>)
    BY DEF DidReceiveMessage
  <2>. HIDE DEF f
  <2>5. CASE UNCHANGED assemblyVars
    BY <2>3, <2>5, OthersTyped
  <2>6. CASE buffering /\ AppendFrame(f, totalFrames, frame)
    BY <2>2, <2>3, <2>6, AppendTyped DEF AssemblyTypes
  <2>7. CASE f.kind = "count" /\ totalFrames' = f.n /\ buffering' = TRUE /\ frame' = <<>> /\ UNCHANGED delivered
    BY <2>2, <2>3, <2>7, EmptySeq DEF AssemblyTypes
  <2>8. CASE AppendFrame(f, 1, <<>>)
    <3>1. <<>> \in Seq(Frames) /\ 1 \in Nat /\ 1 >= 1 /\ delivered \in Seq(Nat)
      BY <2>3, EmptySeq DEF AssemblyTypes
    <3>. QED
      BY <2>2, <2>8, <3>1, AppendTyped, Zenon
  <2>. QED
    BY <2>4, <2>5, <2>6, <2>7, <2>8
<1>. QED
  BY <1>1, <1>2, <1>3, <1>4, <1>5, <1>6 DEF Types, QueueTypes, KeptOut

-----------------------------------------------------------------------------
(* Types and the state of the socket.                                      *)

LEMMA UnchangedTypes == ASSUME Types, UNCHANGED vars PROVE Types' /\ Kept /\ UNCHANGED sendVars
<1>1. /\ UNCHANGED <<outputVars, stream, cleanupScheduled>> /\ UNCHANGED inputVars
      /\ UNCHANGED <<connectionVars, timerVars, end>> /\ UNCHANGED assemblyVars
      /\ UNCHANGED serverVars /\ UNCHANGED sendVars /\ UNCHANGED workQueue /\ UNCHANGED delegateQueue
  BY DEF vars
<1>2. readyState' = readyState /\ readyState \in SR_CONNECTING..SR_CLOSED
  BY <1>1 DEF inputVars, Types, InputTypes
<1>3. readyState' >= readyState
  BY <1>2 DEF SR_CONNECTING, SR_CLOSED
<1>. QED
  BY <1>1, <1>3, OthersTyped, QueuesSame DEF Types, QueueTypes, Kept

\* The steps of the way out: a write, a frame passed on, a message, or none of them.
LEMMA StepsOfOutput ==
    ASSUME Types, [Next]_vars
    PROVE  /\ Types' /\ readyState' >= readyState
           /\ \/ WorkKept /\ OutputKept /\ UNCHANGED sendVars
              \/ WriteTaken /\ UNCHANGED sendVars
              \/ SendString
              \/ Send
<1>1. CASE UNCHANGED vars
  BY <1>1, UnchangedTypes DEF Kept
<1>2. CASE WorkBlock
  <2>1. CASE OnWrite
    BY <2>1, OnWriteKeeps DEF OnWrite, otherVars
  <2>2. CASE OnBytes \/ OnEnd \/ OnReadFrame
    BY <2>2, OnBytesKeeps, OnEndKeeps, OnReadFrameKeeps DEF KeptOut, OnBytes, OnEnd, OnReadFrame, otherVars
  <2>3. CASE OnOpened \/ OnSpace \/ OnError \/ OnStreamEnd \/ OnFail \/ OnClose \/ OnDisconnect
    <3>1. UNCHANGED sendVars
      BY <2>3 DEF OnOpened, OnSpace, OnError, OnStreamEnd, OnFail, OnClose, OnDisconnect, otherVars
    <3>. QED
      BY <2>3, <3>1, OnOpenedKeeps, OnSpaceKeeps, OnErrorKeeps, OnStreamEndKeeps, OnFailKeeps, OnCloseKeeps,
         OnDisconnectKeeps, Zenon DEF Kept
  <2>. QED
    BY <1>2, <2>1, <2>2, <2>3 DEF WorkBlock
<1>3. CASE DelegateBlock
  <2>1. CASE DidReceiveMessage
    BY <2>1, DidReceiveMessageKeeps DEF KeptOut, DidReceiveMessage
  <2>2. CASE SendString
    BY <2>2, SendStringKeeps
  <2>3. CASE \E type \in {"didClose", "didFail"} : DidEnd(type)
    BY <2>3, DidEndKeeps DEF DidEnd, Kept
  <2>4. CASE WebSocketDidOpen \/ HandlePing \/ CloseWithProtocolError \/ CloseIfNeverConnected
    <3>1. UNCHANGED sendVars
      BY <2>4 DEF WebSocketDidOpen, HandlePing, CloseWithProtocolError, CloseIfNeverConnected, Bounce
    <3>. QED
      BY <2>4, <3>1, WebSocketDidOpenKeeps, BouncesKeep, CloseIfNeverConnectedKeeps DEF Kept
  <2>. QED
    BY <1>3, <2>1, <2>2, <2>3, <2>4 DEF DelegateBlock
<1>4. CASE Open \/ Close
  BY <1>4, OpenKeeps, CloseKeeps DEF Open, Close, Kept
<1>5. CASE Send
  BY <1>5, SendKeeps DEF Kept
<1>6. CASE MainThread
  BY <1>6, TimersKeep DEF Kept, MainThread, StartKeepAlive, NopFires, NopSends
<1>7. CASE Streams
  <2>1. UNCHANGED aboveVars
    BY <1>7 DEF Streams, OpenCompleted, HasSpaceAvailable, ErrorOccurred, EndEncountered, Cleanup
  <2>. QED
    BY <1>7, <2>1, StreamsKeep DEF Kept, aboveVars
<1>8. CASE ConnectTimeout
  BY <1>8, ConnectTimeoutKeeps DEF ConnectTimeout, Kept
<1>9. CASE Server
  <2>1. UNCHANGED aboveVars
    BY <1>9 DEF Server, ServerSends, ServerPings, ServerAnswersUpgrade, ServerFinishes, Arrives
  <2>. QED
    BY <1>9, <2>1, ServerKeeps DEF Kept, aboveVars
<1>. QED
  BY <1>1, <1>2, <1>3, <1>4, <1>5, <1>6, <1>7, <1>8, <1>9, Zenon DEF Next, Caller

LEMMA TypesInvariant == Spec => []Types
<1>1. Types /\ [Next]_vars => Types'
  BY StepsOfOutput
<1>. QED
  BY <1>1, TypesInit, PTL DEF Spec

\* Type correctness, for any messages, keep-alives, pings and ways to end.
THEOREM TypeCorrect == Spec => []TypeOK
BY TypesInvariant, TypesAreTypeOK, PTL

\* The assertion of setReadyState: the state of the socket only advances, whatever order
\* close, failure, end of the stream and handshake come in on the work queue.
THEOREM StateAdvances == Spec => ReadyStateAdvances
<1>1. Types /\ [Next]_vars => [readyState' >= readyState]_vars
  BY StepsOfOutput
<1>. QED
  BY <1>1, TypesInvariant, PTL DEF Spec, ReadyStateAdvances

-----------------------------------------------------------------------------
(* The way out.  The frames of the messages sent so far are, one part behind *)
(* the other, on the wire, in the buffer, in the queue and in the loop of    *)
(* send:.  A socket that is to close takes no frame more: what is in the     *)
(* queue then is lost, and nothing can get behind the gap.                   *)

OutAll == All(OutSegments)

OutFlow ==
    \E a, b :
        /\ Run(wireOut, OutAll, 0, a) /\ Run(outputBuffer, OutAll, a, b)
        /\ b <= UpTo(OutSegments, outSent)
        /\ ~closeWhenFinishedWriting =>
               \E c : /\ Run(Carried(workQueue, "write"), OutAll, b, c)
                      /\ Run(sending, OutAll, c, UpTo(OutSegments, outSent))

\* A socket is let go only when the connection has ended, between two sends.
LetGo ==
    /\ isClosed <=> end # "none"
    /\ ~webSocket => sending = <<>> /\ end # "none"

LEMMA OutNumbers ==
    /\ OutSegments \in Seq(Nat \ {0}) /\ Len(OutAll) \in Nat /\ UpTo(OutSegments, 0) = 0
    /\ \A m \in 0..Len(OutSegments) : UpTo(OutSegments, m) \in Nat
BY MessagesAssumption, UpToNumbers DEF OutAll

LEMMA RunOfBuffer ==
    ASSUME wireOut \in Seq(Frames), NEW buffer \in Seq(Frames), NEW a, NEW b,
           Run(wireOut, OutAll, 0, a), Run(buffer, OutAll, a, b), Passes(buffer)
    PROVE  \E x : Run(wireOut', OutAll, 0, x) /\ Run(outputBuffer', OutAll, x, b)
<1>1. PICK n \in 0..Len(buffer) : /\ wireOut' = wireOut \o SubSeq(buffer, 1, n)
                                  /\ outputBuffer' = SubSeq(buffer, n + 1, Len(buffer))
  BY DEF Passes
<1>2. PICK x \in Nat : Run(SubSeq(buffer, 1, n), OutAll, a, x) /\ Run(SubSeq(buffer, n + 1, Len(buffer)), OutAll, x, b)
  BY RunSplit
<1>3. SubSeq(buffer, 1, n) \in Seq(Frames)
  OBVIOUS
<1>4. Run(wireOut \o SubSeq(buffer, 1, n), OutAll, 0, x)
  BY <1>2, <1>3, RunConcat
<1>. QED
  BY <1>1, <1>2, <1>4

LEMMA RunOfAppended ==
    ASSUME NEW buffer \in Seq(Frames), NEW f \in Frames, NEW a, NEW b, NEW c,
           Run(buffer, OutAll, a, b), Run(<<f>>, OutAll, b, c)
    PROVE  Append(buffer, f) \in Seq(Frames) /\ Run(Append(buffer, f), OutAll, a, c)
<1>1. Append(buffer, f) = buffer \o <<f>> /\ <<f>> \in Seq(Frames)
  BY Queueing
<1>2. Run(buffer \o <<f>>, OutAll, a, c)
  BY <1>1, RunConcat
<1>. QED
  BY <1>1, <1>2

\* The buffer and the wire, when no frame of data is written.
LEMMA OutputFlows ==
    ASSUME OutputTypes, OutputKept, NEW a, NEW b, Run(wireOut, OutAll, 0, a), Run(outputBuffer, OutAll, a, b)
    PROVE  \E x : Run(wireOut', OutAll, 0, x) /\ Run(outputBuffer', OutAll, x, b)
<1>1. wireOut \in Seq(Frames) /\ outputBuffer \in Seq(Frames)
  BY DEF OutputTypes
<1>2. CASE UNCHANGED <<outputBuffer, wireOut>>
  <2>1. outputBuffer' = outputBuffer /\ wireOut' = wireOut
    BY <1>2
  <2>2. Run(wireOut', OutAll, 0, a) /\ Run(outputBuffer', OutAll, a, b)
    BY <2>1, Zenon
  <2>. QED
    BY <2>2
<1>3. CASE Passes(outputBuffer)
  BY <1>1, <1>3, RunOfBuffer
<1>4. ASSUME NEW f \in Frames, ~IsData(f), Passes(Append(outputBuffer, f))
      PROVE  \E x : Run(wireOut', OutAll, 0, x) /\ Run(outputBuffer', OutAll, x, b)
  <2>1. b \in Nat
    BY <1>1, RunNat
  <2>2. Run(<<f>>, OutAll, b, b)
    BY <1>4, <2>1, RunOneOther
  <2>3. Append(outputBuffer, f) \in Seq(Frames) /\ Run(Append(outputBuffer, f), OutAll, a, b)
    BY <1>1, <2>2, RunOfAppended
  <2>. QED
    BY <1>1, <1>4, <2>3, RunOfBuffer
<1>. QED
  BY <1>2, <1>3, <1>4 DEF OutputKept

\* The queue of the socket, when no frame of data is queued or taken out.
LEMMA WorkFlows ==
    ASSUME QueueTypes, WorkKept, NEW b, NEW c, Run(Carried(workQueue, "write"), OutAll, b, c)
    PROVE  Run(Carried(workQueue', "write"), OutAll, b, c)
<1>1. workQueue \in Seq(Blocks) /\ WorkBlocks \subseteq Blocks
  BY QueuesAreBlocks, WorkIsBlocks
<1>2. PICK more \in Seq(WorkBlocks) :
          /\ Quiet(more, "write")
          /\ \/ workQueue' = workQueue \o more
             \/ /\ workQueue # <<>> /\ Head(workQueue)[1] # "write"
                /\ workQueue' = Tail(workQueue) \o more
  BY DEF WorkKept
<1>3. more \in Seq(Blocks)
  BY <1>1, <1>2
<1>4. CASE workQueue' = workQueue \o more
  <2>1. Run(Carried(workQueue \o more, "write"), OutAll, b, c)
    BY <1>1, <1>2, <1>3, RunOfLonger
  <2>. QED
    BY <1>4, <2>1, Zenon
<1>5. CASE workQueue # <<>> /\ Head(workQueue)[1] # "write" /\ workQueue' = Tail(workQueue) \o more
  <2>1. Run(Carried(Tail(workQueue), "write"), OutAll, b, c) /\ Tail(workQueue) \in Seq(Blocks)
    BY <1>1, <1>5, OutNumbers, RunOfTail, Queueing
  <2>2. Run(Carried(Tail(workQueue) \o more, "write"), OutAll, b, c)
    BY <1>2, <1>3, <2>1, RunOfLonger
  <2>. QED
    BY <1>5, <2>2, Zenon
<1>. QED
  BY <1>2, <1>4, <1>5

LEMMA OutFlowKept ==
    ASSUME Types, OutFlow, WorkKept, OutputKept, UNCHANGED sendVars
    PROVE  OutFlow'
<1>. DEFINE n == UpTo(OutSegments, outSent)
<1>1. PICK a, b :
        /\ Run(wireOut, OutAll, 0, a) /\ Run(outputBuffer, OutAll, a, b) /\ b <= n
        /\ ~closeWhenFinishedWriting =>
               \E c : /\ Run(Carried(workQueue, "write"), OutAll, b, c) /\ Run(sending, OutAll, c, n)
  BY DEF OutFlow
<1>2. PICK x : Run(wireOut', OutAll, 0, x) /\ Run(outputBuffer', OutAll, x, b)
  BY <1>1, OutputFlows DEF Types
<1>3. UpTo(OutSegments, outSent') = n /\ sending' = sending
  BY DEF sendVars
<1>4. ASSUME ~closeWhenFinishedWriting'
      PROVE  \E c : /\ Run(Carried(workQueue', "write"), OutAll, b, c) /\ Run(sending', OutAll, c, n)
  <2>1. ~closeWhenFinishedWriting
    BY <1>4 DEF OutputKept
  <2>2. PICK c : Run(Carried(workQueue, "write"), OutAll, b, c) /\ Run(sending, OutAll, c, n)
    BY <1>1, <2>1
  <2>3. Run(Carried(workQueue', "write"), OutAll, b, c)
    BY <2>2, WorkFlows DEF Types
  <2>4. Run(sending', OutAll, c, n)
    BY <1>3, <2>2, Zenon
  <2>. QED
    BY <2>3, <2>4
<1>. HIDE DEF n
<1>5. \E aa, bb :
        /\ Run(wireOut', OutAll, 0, aa) /\ Run(outputBuffer', OutAll, aa, bb)
        /\ bb <= UpTo(OutSegments, outSent')
        /\ ~closeWhenFinishedWriting' =>
               \E c : /\ Run(Carried(workQueue', "write"), OutAll, bb, c)
                      /\ Run(sending', OutAll, c, UpTo(OutSegments, outSent'))
  BY <1>1, <1>2, <1>3, <1>4, Zenon
<1>. QED
  BY <1>5 DEF OutFlow

LEMMA OutFlowWritten ==
    ASSUME Types, OutFlow, WriteTaken, UNCHANGED sendVars
    PROVE  OutFlow'
<1>. DEFINE n == UpTo(OutSegments, outSent)
            f == Head(workQueue)[2]
            rest == Tail(workQueue)
<1>1. PICK a, b :
        /\ Run(wireOut, OutAll, 0, a) /\ Run(outputBuffer, OutAll, a, b) /\ b <= n
        /\ ~closeWhenFinishedWriting =>
               \E c : /\ Run(Carried(workQueue, "write"), OutAll, b, c) /\ Run(sending, OutAll, c, n)
  BY DEF OutFlow
<1>2. UpTo(OutSegments, outSent') = n /\ sending' = sending
  BY DEF sendVars
<1>3. wireOut \in Seq(Frames) /\ outputBuffer \in Seq(Frames) /\ sending \in Seq(Frames)
      /\ workQueue \in Seq(Blocks) /\ workQueue # <<>>
  BY QueuesAreBlocks DEF Types, OutputTypes, SendTypes, WriteTaken
<1>4. CASE closeWhenFinishedWriting
  <2>1. wireOut' = wireOut /\ outputBuffer' = outputBuffer /\ closeWhenFinishedWriting'
    BY <1>4 DEF WriteTaken
  <2>2. Run(wireOut', OutAll, 0, a) /\ Run(outputBuffer', OutAll, a, b)
    BY <1>1, <2>1, Zenon
  <2>. QED
    BY <1>1, <1>2, <2>1, <2>2 DEF OutFlow
<1>5. CASE ~closeWhenFinishedWriting
  <2>1. PICK c : Run(Carried(workQueue, "write"), OutAll, b, c) /\ Run(sending, OutAll, c, n)
    BY <1>1, <1>5
  <2>2. f \in Frames /\ rest \in Seq(Blocks)
    <3>1. Head(workQueue) \in Blocks /\ rest \in Seq(Blocks)
      BY <1>3, Queueing
    <3>. QED
      BY <3>1 DEF Blocks
  <2>3. b \in Nat /\ c \in Nat /\ n \in Nat
    BY <1>1, <1>3, <2>1, RunNat
  <2>4. \E x : /\ x \in Nat /\ Run(<<f>>, OutAll, b, x) /\ Run(Carried(rest, "write"), OutAll, x, c)
    <3>1. Head(workQueue)[1] = "write"
      BY DEF WriteTaken
    <3>2. CASE ~IsData(f)
      <4>1. Run(Carried(rest, "write"), OutAll, b, c)
        BY <1>3, <2>1, <3>2, OutNumbers, RunOfTail
      <4>. QED
        BY <2>3, <3>2, <4>1, RunOneOther
    <3>3. CASE IsData(f)
      <4>1. b < Len(OutAll) /\ f = OutAll[b + 1] /\ Run(Carried(rest, "write"), OutAll, b + 1, c)
        BY <1>3, <2>1, <3>1, <3>3, OutNumbers, RunOfTail
      <4>. HIDE DEF f
      <4>2. Run(<<f>>, OutAll, b, b + 1)
        BY <2>3, <3>3, <4>1, OutNumbers, RunOneData
      <4>3. b + 1 \in Nat
        BY <2>3
      <4>. QED
        BY <4>1, <4>2, <4>3
    <3>. QED
      BY <3>2, <3>3
  <2>5. PICK x : x \in Nat /\ Run(<<f>>, OutAll, b, x) /\ Run(Carried(rest, "write"), OutAll, x, c)
    BY <2>4
  <2>6. PICK more \in Seq(WorkBlocks) : Quiet(more, "write") /\ workQueue' = rest \o more
    BY DEF WriteTaken
  <2>7. Passes(Append(outputBuffer, f)) /\ ~closeWhenFinishedWriting'
    BY <1>5 DEF WriteTaken
  <2>. HIDE DEF f, rest, n
  <2>8. Append(outputBuffer, f) \in Seq(Frames) /\ Run(Append(outputBuffer, f), OutAll, a, x)
    BY <1>1, <1>3, <2>2, <2>5, RunOfAppended
  <2>9. PICK y : Run(wireOut', OutAll, 0, y) /\ Run(outputBuffer', OutAll, y, x)
    BY <1>1, <1>3, <2>7, <2>8, RunOfBuffer
  <2>10. x <= n
    <3>1. x <= c
      BY <2>2, <2>5, CarriedFrames, RunRises
    <3>2. c <= n
      BY <1>3, <2>1, RunRises
    <3>. QED
      BY <2>3, <2>5, <3>1, <3>2
  <2>11. Run(Carried(workQueue', "write"), OutAll, x, c)
    <3>1. more \in Seq(Blocks)
      BY <2>6, WorkIsBlocks
    <3>2. Run(Carried(rest \o more, "write"), OutAll, x, c)
      BY <2>2, <2>5, <2>6, <3>1, RunOfLonger
    <3>. QED
      BY <2>6, <3>2, Zenon
  <2>12. Run(sending', OutAll, c, UpTo(OutSegments, outSent')) /\ x <= UpTo(OutSegments, outSent')
    BY <1>2, <2>1, <2>10, Zenon
  <2>. QED
    BY <2>9, <2>11, <2>12 DEF OutFlow
<1>. QED
  BY <1>4, <1>5

LEMMA OutFlowSent ==
    ASSUME Types, OutFlow, LetGo, SendString
    PROVE  OutFlow'
<1>. DEFINE n == UpTo(OutSegments, outSent)
            f == Head(sending)
            block == Write(f)
<1>1. PICK a, b :
        /\ Run(wireOut, OutAll, 0, a) /\ Run(outputBuffer, OutAll, a, b) /\ b <= n
        /\ ~closeWhenFinishedWriting =>
               \E c : /\ Run(Carried(workQueue, "write"), OutAll, b, c) /\ Run(sending, OutAll, c, n)
  BY DEF OutFlow
<1>2. UNCHANGED <<wireOut, outputBuffer, closeWhenFinishedWriting, outSent>>
  BY DEF SendString, socketVars, outputVars
<1>3. sending \in Seq(Frames) /\ sending # <<>> /\ workQueue \in Seq(Blocks)
  BY QueuesAreBlocks DEF Types, SendTypes, SendString
<1>4. f \in Frames /\ Tail(sending) \in Seq(Frames)
  BY <1>3, Queueing
<1>5. block \in Blocks /\ block[1] = "write" /\ block[2] = f
  BY <1>4 DEF Write, Blocks, BlockTypes
<1>6. workQueue' = workQueue \o <<block>> /\ sending' = Tail(sending)
  BY <1>3, SendStringKeeps DEF LetGo
<1>7. UpTo(OutSegments, outSent') = n
  BY <1>2
<1>8. Run(wireOut', OutAll, 0, a) /\ Run(outputBuffer', OutAll, a, b)
  BY <1>1, <1>2, Zenon
<1>9. ASSUME ~closeWhenFinishedWriting'
      PROVE  \E c : /\ Run(Carried(workQueue', "write"), OutAll, b, c) /\ Run(sending', OutAll, c, n)
  <2>1. PICK c : Run(Carried(workQueue, "write"), OutAll, b, c) /\ Run(sending, OutAll, c, n)
    BY <1>1, <1>2, <1>9
  <2>2. c \in Nat
    BY <1>3, <2>1, RunNat
  <2>3. \E x : Run(<<f>>, OutAll, c, x) /\ Run(Tail(sending), OutAll, x, n)
    <3>1. CASE ~IsData(f)
      <4>1. Run(Tail(sending), OutAll, c, n)
        BY <1>3, <2>1, <3>1, OutNumbers, RunHead
      <4>. QED
        BY <2>2, <3>1, <4>1, RunOneOther
    <3>2. CASE IsData(f)
      <4>1. c < Len(OutAll) /\ f = OutAll[c + 1] /\ Run(Tail(sending), OutAll, c + 1, n)
        BY <1>3, <2>1, <3>2, OutNumbers, RunHead
      <4>. HIDE DEF f
      <4>2. Run(<<f>>, OutAll, c, c + 1)
        BY <2>2, <3>2, <4>1, OutNumbers, RunOneData
      <4>. QED
        BY <4>1, <4>2
    <3>. QED
      BY <3>1, <3>2
  <2>4. PICK x : Run(<<f>>, OutAll, c, x) /\ Run(Tail(sending), OutAll, x, n)
    BY <2>3
  <2>. HIDE DEF f, block, n
  <2>5. Run(<<block[2]>>, OutAll, c, x)
    BY <1>5, <2>4, Zenon
  <2>6. Run(Carried(workQueue \o <<block>>, "write"), OutAll, b, x)
    BY <1>3, <1>5, <2>1, <2>5, RunOfNext
  <2>7. Run(Carried(workQueue', "write"), OutAll, b, x) /\ Run(sending', OutAll, x, n)
    BY <1>6, <2>4, <2>6, Zenon
  <2>. QED
    BY <2>7
<1>. HIDE DEF f, block, n
<1>10. \E aa, bb :
        /\ Run(wireOut', OutAll, 0, aa) /\ Run(outputBuffer', OutAll, aa, bb)
        /\ bb <= UpTo(OutSegments, outSent')
        /\ ~closeWhenFinishedWriting' =>
               \E c : /\ Run(Carried(workQueue', "write"), OutAll, bb, c)
                      /\ Run(sending', OutAll, c, UpTo(OutSegments, outSent'))
  BY <1>1, <1>7, <1>8, <1>9, Zenon
<1>. QED
  BY <1>10 DEF OutFlow

LEMMA OutFlowSends ==
    ASSUME Types, OutFlow, Send
    PROVE  OutFlow'
<1>. DEFINE m == outSent + 1
            n == UpTo(OutSegments, outSent)
            k == UpTo(OutSegments, m)
            frames == FramesOf(m, OutSegments[m])
<1>1. PICK a, b :
        /\ Run(wireOut, OutAll, 0, a) /\ Run(outputBuffer, OutAll, a, b) /\ b <= n
        /\ ~closeWhenFinishedWriting =>
               \E c : /\ Run(Carried(workQueue, "write"), OutAll, b, c) /\ Run(sending, OutAll, c, n)
  BY DEF OutFlow
<1>2. UNCHANGED <<wireOut, outputBuffer, closeWhenFinishedWriting, workQueue>> /\ sending = <<>>
  BY DEF Send, socketVars, outputVars, Idle
<1>3. m \in 1..Len(OutSegments) /\ m - 1 = outSent /\ outSent' = m /\ sending' = frames
  <2>1. m \in 1..Len(OutSegments) /\ outSent' = m /\ sending' = frames
    BY SendKeeps
  <2>2. outSent \in Nat
    BY DEF Types, SendTypes
  <2>. QED
    BY <2>1, <2>2
<1>4. Run(frames, OutAll, n, k) /\ frames \in Seq(Frames)
  <2>1. Run(frames, OutAll, UpTo(OutSegments, m - 1), k) /\ frames \in Seq(SoundFrames)
    BY <1>3, OutNumbers, MessageRun DEF OutAll
  <2>2. UpTo(OutSegments, m - 1) = n
    BY <1>3
  <2>. HIDE DEF frames, n, k
  <2>. QED
    BY <2>1, <2>2, SoundAreFrames, Zenon
<1>5. UpTo(OutSegments, outSent') = k
  BY <1>3
<1>. HIDE DEF m, n, k, frames
<1>6. n \in Nat /\ k \in Nat /\ n <= k
  BY <1>4, RunNat, RunRises
<1>7. b \in Nat /\ b <= k
  <2>1. b \in Nat
    BY <1>1, RunNat DEF Types, OutputTypes
  <2>. QED
    BY <1>1, <1>6, <2>1
<1>8. ASSUME ~closeWhenFinishedWriting'
      PROVE  \E c : Run(Carried(workQueue', "write"), OutAll, b, c) /\ Run(sending', OutAll, c, k)
  <2>1. PICK c : Run(Carried(workQueue, "write"), OutAll, b, c) /\ Run(sending, OutAll, c, n)
    BY <1>1, <1>2, <1>8
  <2>2. Run(<<>>, OutAll, c, n)
    BY <1>2, <2>1, Zenon
  <2>3. c = n
    BY <2>2, RunEmptyEnds
  <2>4. Run(Carried(workQueue', "write"), OutAll, b, n)
    BY <1>2, <2>1, <2>3, Zenon
  <2>5. Run(sending', OutAll, n, k)
    BY <1>3, <1>4, Zenon
  <2>. QED
    BY <2>4, <2>5
<1>9. Run(wireOut', OutAll, 0, a) /\ Run(outputBuffer', OutAll, a, b)
  BY <1>1, <1>2, Zenon
<1>10. \E aa, bb :
        /\ Run(wireOut', OutAll, 0, aa) /\ Run(outputBuffer', OutAll, aa, bb)
        /\ bb <= UpTo(OutSegments, outSent')
        /\ ~closeWhenFinishedWriting' =>
               \E c : /\ Run(Carried(workQueue', "write"), OutAll, bb, c)
                      /\ Run(sending', OutAll, c, UpTo(OutSegments, outSent'))
  BY <1>5, <1>7, <1>8, <1>9, Zenon
<1>. QED
  BY <1>10 DEF OutFlow

LEMMA LetGoStep == ASSUME Types, LetGo, [Next]_vars PROVE LetGo'
<1>1. CASE UNCHANGED <<isClosed, end, webSocket, sending>>
  BY <1>1 DEF LetGo
<1>2. CASE Close
  BY <1>2 DEF Close, LetGo, Idle, sendVars
<1>3. CASE \E type \in {"didClose", "didFail"} : DidEnd(type)
  BY <1>3 DEF DidEnd, OnClosed, Called, Idle, LetGo, sendVars
<1>4. CASE Send
  BY <1>4 DEF Send, LetGo, connectionVars
<1>5. CASE SendString
  BY <1>5 DEF SendString, LetGo, connectionVars
<1>6. CASE WorkBlock
  <2>1. UNCHANGED otherVars
    BY <1>6 DEF WorkBlock, OnOpened, OnBytes, OnSpace, OnError, OnEnd, OnStreamEnd, OnFail, OnClose,
       OnDisconnect, OnWrite, OnReadFrame
  <2>. QED
    BY <1>1, <2>1 DEF otherVars, connectionVars, sendVars
<1>7. CASE Streams \/ Server
  <2>1. UNCHANGED aboveVars
    BY <1>7 DEF Streams, OpenCompleted, HasSpaceAvailable, ErrorOccurred, EndEncountered, Cleanup,
       Server, ServerSends, ServerPings, ServerAnswersUpgrade, ServerFinishes, Arrives
  <2>. QED
    BY <1>1, <2>1 DEF aboveVars, connectionVars, sendVars
<1>8. CASE WebSocketDidOpen \/ DidReceiveMessage \/ HandlePing \/ CloseWithProtocolError \/ CloseIfNeverConnected
  BY <1>1, <1>8 DEF WebSocketDidOpen, DidReceiveMessage, HandlePing, CloseWithProtocolError, Bounce,
     CloseIfNeverConnected, connectionVars, sendVars
<1>9. CASE Open \/ MainThread \/ ConnectTimeout
  BY <1>1, <1>9 DEF Open, MainThread, StartKeepAlive, NopFires, NopSends, ConnectTimeout, connectionVars, sendVars
<1>10. CASE UNCHANGED vars
  BY <1>1, <1>10 DEF vars, connectionVars, sendVars
<1>. QED
  BY <1>2, <1>3, <1>4, <1>5, <1>6, <1>7, <1>8, <1>9, <1>10, Zenon DEF Next, DelegateBlock, Caller

LEMMA OutFlowInit == Init => OutFlow
<1>1. SUFFICES ASSUME Init PROVE OutFlow
  OBVIOUS
<1>2. Run(<<>>, OutAll, 0, 0) /\ Run(Carried(<<>>, "write"), OutAll, 0, 0)
  <2>1. <<>> \in Seq(Blocks) /\ 0 \in Nat
    BY EmptySeq
  <2>. QED
    BY <2>1, RunEmpty, QuietBlocks, QuietCarries
<1>3. wireOut = <<>> /\ outputBuffer = <<>> /\ workQueue = <<>> /\ sending = <<>> /\ outSent = 0
  BY <1>1 DEF Init
<1>4. UpTo(OutSegments, outSent) = 0 /\ 0 <= 0
  BY <1>3, OutNumbers
<1>. QED
  BY <1>2, <1>3, <1>4, Zenon DEF OutFlow

LEMMA OutFlowStep == ASSUME Types, LetGo, OutFlow, [Next]_vars PROVE OutFlow'
<1>1. CASE WorkKept /\ OutputKept /\ UNCHANGED sendVars
  BY <1>1, OutFlowKept
<1>2. CASE WriteTaken /\ UNCHANGED sendVars
  BY <1>2, OutFlowWritten
<1>3. CASE SendString
  BY <1>3, OutFlowSent
<1>4. CASE Send
  BY <1>4, OutFlowSends
<1>. QED
  BY <1>1, <1>2, <1>3, <1>4, StepsOfOutput

LEMMA FlowIsOrder == Types /\ OutFlow => WrittenInOrder
<1>1. SUFFICES ASSUME Types, OutFlow, NEW i \in DOMAIN wireOut, IsData(wireOut[i])
               PROVE  /\ DataUpTo(i) \in DOMAIN OutFrames[outSent]
                      /\ wireOut[i] = OutFrames[outSent][DataUpTo(i)]
  BY DEF WrittenInOrder
<1>2. PICK a, b : /\ Run(wireOut, OutAll, 0, a) /\ Run(outputBuffer, OutAll, a, b)
                  /\ b <= UpTo(OutSegments, outSent)
  BY <1>1 DEF OutFlow
<1>3. wireOut \in Seq(Frames) /\ outputBuffer \in Seq(Frames) /\ outSent \in 0..Len(OutSegments)
  BY <1>1 DEF Types, OutputTypes, SendTypes
<1>4. DataUpTo(i) = Cardinality(DataIn(wireOut, i))
  BY DEF DataUpTo, DataIn
<1>5. DataUpTo(i) \in 1..a /\ wireOut[i] = OutAll[DataUpTo(i)]
  <2>1. i \in 1..Len(wireOut)
    BY <1>1, <1>3
  <2>. QED
    BY <1>1, <1>2, <1>3, <1>4, <2>1, OutNumbers, RunNumbers
<1>6. a \in Nat /\ b \in Nat /\ a <= b
  BY <1>2, <1>3, RunNat, RunRises
<1>7. DataUpTo(i) \in 1..UpTo(OutSegments, outSent)
  <2>1. UpTo(OutSegments, outSent) \in Nat
    BY <1>3, OutNumbers
  <2>. QED
    BY <1>2, <1>5, <1>6, <2>1
<1>8. OutAll[DataUpTo(i)] = AllFrames(OutSegments)[outSent][DataUpTo(i)]
  BY <1>3, <1>7, OutNumbers, PieceOfAll DEF OutAll
<1>9. DOMAIN AllFrames(OutSegments)[outSent] = 1..UpTo(OutSegments, outSent)
  <2>1. AllFrames(OutSegments)[outSent] \in Seq(SoundFrames)
    BY <1>3, OutNumbers, AllFramesGrow
  <2>. QED
    BY <2>1 DEF UpTo
<1>. QED
  BY <1>5, <1>7, <1>8, <1>9, Zenon DEF OutFrames

\* What is let go, in any case: a lemma of both ways.
LEMMA LetGoInvariant == Spec => []LetGo
<1>1. Init => LetGo
  BY DEF Init, LetGo
<1>2. Types /\ LetGo /\ [Next]_vars => LetGo'
  BY LetGoStep
<1>. QED
  BY <1>1, <1>2, TypesInvariant, PTL DEF Spec

\* The server gets the frames of the messages in order and without a gap, however the
\* frames are written, dropped, or mixed with keep-alives and pongs, for any messages.
THEOREM FramesInOrder == Spec => []WrittenInOrder
<1>1. Types /\ LetGo /\ OutFlow /\ [Next]_vars => OutFlow'
  BY OutFlowStep
<1>2. Spec => []OutFlow
  BY <1>1, OutFlowInit, TypesInvariant, LetGoInvariant, PTL DEF Spec
<1>. QED
  BY <1>2, TypesInvariant, FlowIsOrder, PTL

-----------------------------------------------------------------------------
(* The way in.  Behind the messages delivered and the one that is put        *)
(* together are the frames in the queue of the connection, in the buffer of  *)
(* the socket and on the wire.  An error loses what is not yet scanned, but   *)
(* only behind the last frame the socket will get.                           *)

InAll == All(InSegments)

\* The frames up to n are in the messages delivered or in the one being assembled.
Assembled(n) ==
    /\ Len(delivered) <= inSent
    /\ IF buffering
       THEN /\ Len(delivered) + 1 <= inSent
            /\ InSegments[Len(delivered) + 1] > 1
            /\ totalFrames + Len(frame) = InSegments[Len(delivered) + 1]
            /\ frame = [i \in 1..Len(frame) |-> Segment(Len(delivered) + 1, i)]
            /\ n = UpTo(InSegments, Len(delivered)) + (1 + Len(frame))
       ELSE n = UpTo(InSegments, Len(delivered))

BeforeEnd == {"notOpen", "opening", "open"}

InFlow ==
    end = "none" =>
        \E n, b, c, d :
            /\ Assembled(n)
            /\ Run(Carried(delegateQueue, "message"), InAll, n, b)
            /\ Run(readBuffer, InAll, b, c) /\ Run(wireIn, InAll, c, d)
            /\ d <= UpTo(InSegments, inSent)
            /\ stream \in BeforeEnd => d = UpTo(InSegments, inSent)

\* An error is told when the streams are dead and hold nothing.
ErrorIsEnd ==
    /\ stream = "error" => wireIn = <<>>
    /\ Scheduled("error") => stream \in {"error", "closed"} /\ wireIn = <<>>

LEMMA InNumbers ==
    /\ InSegments \in Seq(Nat \ {0}) /\ Len(InAll) \in Nat /\ UpTo(InSegments, 0) = 0
    /\ \A m \in 0..Len(InSegments) : UpTo(InSegments, m) \in Nat
BY MessagesAssumption, UpToNumbers DEF InAll

Segments(m, l) == [i \in 1..l |-> Segment(m, i)]

LEMMA SegmentsGrow ==
    ASSUME NEW m \in Nat, NEW l \in Nat
    PROVE  /\ Segments(m, l) \in Seq(Frames) /\ Len(Segments(m, l)) = l
           /\ Append(Segments(m, l), Segment(m, l + 1)) = Segments(m, l + 1)
<1>1. \A i \in Nat : Segment(m, i) \in Frames
  BY FrameFields DEF SoundFrames
<1>2. Segments(m, l) \in Seq(Frames) /\ Len(Segments(m, l)) = l
      /\ Segments(m, l + 1) \in Seq(Frames) /\ Len(Segments(m, l + 1)) = l + 1
  BY <1>1 DEF Segments
<1>3. /\ \A i \in 1..l : Segments(m, l)[i] = Segment(m, i)
      /\ \A i \in 1..(l + 1) : Segments(m, l + 1)[i] = Segment(m, i)
  BY DEF Segments
<1>. DEFINE s == Segments(m, l)
            t == Segments(m, l + 1)
            x == Segment(m, l + 1)
<1>. HIDE DEF s, t
<1>4. /\ Append(s, x) \in Seq(Frames) /\ Len(Append(s, x)) = l + 1
      /\ \A i \in 1..(l + 1) : Append(s, x)[i] = t[i]
  <2>1. x \in Frames
    BY <1>1
  <2>2. s \in Seq(Frames) /\ Len(s) = l /\ (\A i \in 1..l : s[i] = Segment(m, i))
        /\ (\A i \in 1..(l + 1) : t[i] = Segment(m, i))
    BY <1>2, <1>3 DEF s, t
  <2>. HIDE DEF x
  <2>3. Append(s, x) \in Seq(Frames) /\ Len(Append(s, x)) = l + 1
    BY <2>1, <2>2
  <2>4. ASSUME NEW i \in 1..(l + 1) PROVE Append(s, x)[i] = t[i]
    <3>1. CASE i \in 1..l
      BY <2>1, <2>2, <3>1
    <3>2. CASE i = l + 1
      <4>1. Append(s, x)[l + 1] = x
        BY <2>1, <2>2
      <4>2. t[l + 1] = x
        BY <2>2 DEF x
      <4>. QED
        BY <3>2, <4>1, <4>2
    <3>3. i \in 1..l \/ i = l + 1
      OBVIOUS
    <3>. QED
      BY <3>1, <3>2, <3>3, Zenon
  <2>. QED
    BY <2>3, <2>4
<1>5. t \in Seq(Frames) /\ Len(t) = l + 1
  BY <1>2 DEF t
<1>6. Append(s, x) = t
  BY <1>4, <1>5, SeqEqual
<1>. QED
  BY <1>2, <1>6 DEF s, t

\* A message that is whole is recognised as itself.
LEMMA WholeMessage ==
    ASSUME NEW m \in DOMAIN InSegments
    PROVE  Whole(Segments(m, InSegments[m])) = {m}
<1>1. InSegments \in Seq(Nat \ {0})
  BY MessagesAssumption
<1>2. m \in Nat /\ InSegments[m] \in Nat /\ InSegments[m] >= 1
  BY <1>1
<1>3. m \in Whole(Segments(m, InSegments[m]))
  BY DEF Whole, Segments
<1>4. ASSUME NEW k \in Whole(Segments(m, InSegments[m])) PROVE k = m
  <2>1. k \in DOMAIN InSegments /\ Segments(m, InSegments[m]) = Segments(k, InSegments[k])
    BY <1>4 DEF Whole, Segments
  <2>2. k \in Nat /\ InSegments[k] \in Nat /\ InSegments[k] >= 1
    BY <1>1, <2>1
  <2>3. Segments(m, InSegments[m])[1] = Segment(m, 1) /\ Segments(k, InSegments[k])[1] = Segment(k, 1)
    BY <1>2, <2>2 DEF Segments
  <2>4. Segment(m, 1).msg = m /\ Segment(k, 1).msg = k
    BY DEF Segment, Frame
  <2>. QED
    BY <2>1, <2>3, <2>4, Zenon
<1>. QED
  BY <1>3, <1>4

\* The connection takes the next frame, and delivers a message with its last one.
LEMMA MessageTaken ==
    ASSUME Types, InFlow, end = "none", DidReceiveMessage
    PROVE  /\ InFlow'
           /\ \/ UNCHANGED delivered
              \/ Len(delivered) < inSent /\ delivered' = Append(delivered, Len(delivered) + 1)
<1>. DEFINE f == Head(delegateQueue)[2]
            rest == Tail(delegateQueue)
            m == Len(delivered) + 1
            l == Len(frame)
            start == UpTo(InSegments, Len(delivered))
            sent == UpTo(InSegments, inSent)
            s == InSegments[m]
<1>1. PICK n, b, c, d :
          /\ Assembled(n)
          /\ Run(Carried(delegateQueue, "message"), InAll, n, b)
          /\ Run(readBuffer, InAll, b, c) /\ Run(wireIn, InAll, c, d)
          /\ d <= sent
          /\ stream \in BeforeEnd => d = sent
  BY DEF InFlow
<1>2. /\ delegateQueue \in Seq(Blocks) /\ delegateQueue # <<>> /\ delegateQueue' = rest
      /\ readBuffer \in Seq(Frames) /\ wireIn \in Seq(Frames)
      /\ delivered \in Seq(Nat) /\ frame \in Seq(Frames) /\ inSent \in 0..Len(InSegments)
      /\ buffering \in BOOLEAN /\ totalFrames \in Nat /\ (buffering => totalFrames >= 1)
  BY QueuesAreBlocks, SoundAreFrames DEF Types, InputTypes, ServerTypes, AssemblyTypes, DidReceiveMessage, Called
<1>3. Head(delegateQueue)[1] = "message" /\ IsData(f)
  <2>1. Head(delegateQueue) \in SoundCalls
    BY DidReceiveMessageKeeps
  <2>2. Head(delegateQueue)[1] = "message"
    BY DEF DidReceiveMessage, Called
  <2>. QED
    BY <2>1, <2>2 DEF SoundCalls
<1>4. n < Len(InAll) /\ f = InAll[n + 1] /\ Run(Carried(rest, "message"), InAll, n + 1, b)
  BY <1>1, <1>2, <1>3, InNumbers, RunOfTail
<1>5. rest \in Seq(Blocks)
  BY <1>2, Queueing
<1>6. n \in Nat /\ n + 1 <= sent
  <2>1. Carried(delegateQueue, "message") \in Seq(Frames) /\ Carried(rest, "message") \in Seq(Frames)
    BY <1>2, <1>5, CarriedFrames
  <2>2. n \in Nat /\ b \in Nat /\ c \in Nat /\ d \in Nat
    BY <1>1, <1>2, <2>1, RunNat
  <2>3. n + 1 <= b /\ b <= c /\ c <= d
    BY <1>1, <1>2, <1>4, <2>1, RunRises
  <2>4. sent \in Nat
    BY <1>2, InNumbers
  <2>. HIDE DEF sent
  <2>. QED
    BY <1>1, <2>2, <2>3, <2>4
<1>7. /\ end' = end /\ readBuffer' = readBuffer /\ wireIn' = wireIn /\ stream' = stream /\ inSent' = inSent
  BY DEF DidReceiveMessage, socketVars, inputVars, serverVars
<1>8. Assembled(n + 1)' => InFlow'
  <2>1. SUFFICES ASSUME Assembled(n + 1)' PROVE InFlow'
    OBVIOUS
  <2>2. Run(Carried(delegateQueue', "message"), InAll, n + 1, b)
    BY <1>2, <1>4, Zenon
  <2>3. Run(readBuffer', InAll, b, c) /\ Run(wireIn', InAll, c, d)
    BY <1>1, <1>7, Zenon
  <2>4. d <= UpTo(InSegments, inSent') /\ (stream' \in BeforeEnd => d = UpTo(InSegments, inSent'))
    BY <1>1, <1>7, Zenon
  <2>5. \E nn, bb, cc, dd :
            /\ Assembled(nn)'
            /\ Run(Carried(delegateQueue', "message"), InAll, nn, bb)
            /\ Run(readBuffer', InAll, bb, cc) /\ Run(wireIn', InAll, cc, dd)
            /\ dd <= UpTo(InSegments, inSent')
            /\ stream' \in BeforeEnd => dd = UpTo(InSegments, inSent')
    BY <2>1, <2>2, <2>3, <2>4, Zenon
  <2>. QED
    BY <2>5 DEF InFlow
<1>9. Len(delivered) \in Nat /\ m \in Nat /\ l \in Nat /\ inSent \in Nat /\ Len(InSegments) \in Nat
  BY <1>2, InNumbers
<1>10. Len(delivered) <= inSent /\ m <= inSent
  <2>1. Len(delivered) <= inSent
    BY <1>1 DEF Assembled
  <2>2. CASE buffering
    BY <1>1, <2>1, <2>2 DEF Assembled
  <2>3. CASE ~buffering
    <3>1. n = start
      BY <1>1, <2>3 DEF Assembled
    <3>2. ~(Len(delivered) = inSent)
      <4>1. Len(delivered) = inSent => n = sent
        BY <3>1
      <4>2. \A x, y \in Nat : x + 1 <= y => x # y
        OBVIOUS
      <4>3. sent \in Nat
        BY <1>2, InNumbers
      <4>. QED
        BY <1>6, <4>1, <4>2, <4>3, Zenon
    <3>. QED
      BY <1>9, <2>1, <3>2
  <2>. QED
    BY <2>2, <2>3
<1>11. m \in 1..Len(InSegments) /\ m \in DOMAIN InSegments /\ s \in Nat /\ s >= 1
  <2>1. m \in 1..Len(InSegments)
    BY <1>2, <1>9, <1>10
  <2>. QED
    BY <2>1, InNumbers
<1>12. start \in Nat /\ UpTo(InSegments, m) = start + (Header(s) + s)
       /\ \A i \in 1..(Header(s) + s) : InAll[start + i] = FramesOf(m, s)[i]
  <2>1. m - 1 = Len(delivered)
    BY <1>9
  <2>2. /\ UpTo(InSegments, m) = UpTo(InSegments, m - 1) + (Header(s) + s)
        /\ \A i \in 1..(Header(s) + s) : InAll[UpTo(InSegments, m - 1) + i] = FramesOf(m, s)[i]
    BY <1>11, InNumbers, UpToNumbers, MessageRun DEF InAll
  <2>3. start \in Nat
    BY <1>2, <1>9, <1>10, InNumbers
  <2>. QED
    BY <2>1, <2>2, <2>3, Zenon
<1>13. /\ buffering => AppendFrame(f, totalFrames, frame)
       /\ ~buffering /\ f.kind = "count" =>
              totalFrames' = f.n /\ buffering' = TRUE /\ frame' = <<>> /\ UNCHANGED delivered
       /\ ~buffering /\ f.kind # "count" => AppendFrame(f, 1, <<>>)
  BY DEF DidReceiveMessage, Alive
<1>14. ASSUME OnMessage(Segments(m, s)), buffering' = FALSE, n + 1 = start + (Header(s) + s)
       PROVE  Assembled(n + 1)' /\ delivered' = Append(delivered, m)
  <2>1. Whole(Segments(m, s)) = {m}
    BY <1>11, WholeMessage
  <2>. HIDE DEF m, s, start, l, f, rest, sent
  <2>2. delivered' = Append(delivered, m)
    BY <1>14, <2>1 DEF OnMessage
  <2>3. Len(delivered') = m
    BY <1>2, <1>9, <2>2 DEF m
  <2>4. n + 1 = UpTo(InSegments, Len(delivered')) /\ Len(delivered') <= inSent'
    BY <1>7, <1>10, <1>12, <1>14, <2>3, Zenon
  <2>. QED
    BY <1>14, <2>2, <2>4 DEF Assembled
<1>15. Segments(m, 0) = <<>>
  BY DEF Segments
<1>16. /\ s > 1 => FramesOf(m, s)[1] = Count(s)
       /\ \A i \in 1..s : FramesOf(m, s)[Header(s) + i] = Segment(m, i)
  <2>1. m \in Nat /\ s \in Nat \ {0}
    BY <1>9, <1>11
  <2>. HIDE DEF m, s
  <2>. QED
    BY <2>1, FramesOfMessage
<1>17. Len(delivered) < inSent
  BY <1>9, <1>10
<1>18. CASE ~buffering
  <2>1. n = start
    BY <1>1, <1>18 DEF Assembled
  <2>2. f = FramesOf(m, s)[1]
    <3>1. 1 \in 1..(Header(s) + s)
      BY <1>11 DEF Header
    <3>2. InAll[start + 1] = FramesOf(m, s)[1]
      BY <1>12, <3>1, Zenon
    <3>. QED
      BY <1>4, <2>1, <3>2, Zenon
  <2>3. CASE s > 1
    <3>1. f = Count(s) /\ f.kind = "count" /\ f.n = s
      <4>1. f = Count(s)
        BY <1>16, <2>2, <2>3, Zenon
      <4>. HIDE DEF f, s
      <4>. QED
        BY <1>11, <4>1, FrameFields
    <3>2. totalFrames' = s /\ buffering' = TRUE /\ frame' = <<>> /\ delivered' = delivered
      BY <1>13, <1>18, <3>1
    <3>3. totalFrames' + Len(frame') = s /\ frame' = [i \in 1..Len(frame') |-> Segment(m, i)]
      <4>1. Len(frame') = 0
        BY <3>2
      <4>2. s + 0 = s
        BY <1>11
      <4>3. totalFrames' + Len(frame') = s
        BY <3>2, <4>1, <4>2, Zenon
      <4>4. frame' = Segments(m, Len(frame'))
        BY <1>15, <3>2, <4>1, Zenon
      <4>. QED
        BY <4>3, <4>4 DEF Segments
    <3>4. n + 1 = start + (1 + Len(frame'))
      BY <1>12, <2>1, <3>2
    <3>5. Assembled(n + 1)'
      BY <1>7, <1>10, <2>3, <3>2, <3>3, <3>4 DEF Assembled
    <3>. QED
      BY <1>8, <3>2, <3>5
  <2>4. CASE ~(s > 1)
    <3>1. s = 1 /\ Header(s) = 0
      BY <1>11, <2>4 DEF Header
    <3>2. f = Segment(m, 1) /\ f.kind # "count"
      <4>1. FramesOf(m, s)[Header(s) + 1] = Segment(m, 1)
        BY <1>11, <1>16
      <4>2. Header(s) + 1 = 1
        BY <3>1
      <4>3. f = Segment(m, 1)
        BY <2>2, <4>1, <4>2, Zenon
      <4>. QED
        BY <1>9, <4>3, FrameFields
    <3>3. AppendFrame(f, 1, <<>>)
      BY <1>13, <1>18, <3>2
    <3>4. Append(<<>>, f) = Segments(m, s)
      <4>1. Append(Segments(m, 0), Segment(m, 0 + 1)) = Segments(m, 0 + 1)
        BY <1>9, SegmentsGrow
      <4>2. 0 + 1 = 1
        OBVIOUS
      <4>. QED
        BY <1>15, <3>1, <3>2, <4>1, <4>2, Zenon
    <3>5. buffering' = FALSE /\ OnMessage(Segments(m, s))
      BY <3>3, <3>4 DEF AppendFrame
    <3>6. n + 1 = start + (Header(s) + s)
      BY <1>12, <2>1, <3>1
    <3>. QED
      <4>1. Assembled(n + 1)' /\ delivered' = Append(delivered, m)
        BY <1>14, <3>5, <3>6, Zenon
      <4>. QED
        BY <1>8, <1>17, <4>1, Zenon
  <2>. QED
    BY <2>3, <2>4
<1>19. CASE buffering
  <2>1. /\ s > 1 /\ totalFrames + l = s /\ frame = Segments(m, l) /\ n = start + (1 + l) /\ totalFrames >= 1
    BY <1>1, <1>2, <1>19 DEF Assembled, Segments
  <2>2. Header(s) = 1 /\ l + 1 \in 1..s /\ 1 + (l + 1) \in 1..(Header(s) + s)
    <3>. HIDE DEF l, s
    <3>. QED
      BY <1>2, <1>9, <1>11, <2>1 DEF Header
  <2>3. f = Segment(m, l + 1)
    <3>1. FramesOf(m, s)[Header(s) + (l + 1)] = Segment(m, l + 1)
      BY <1>16, <2>2, Zenon
    <3>2. InAll[start + (1 + (l + 1))] = FramesOf(m, s)[1 + (l + 1)]
      BY <1>12, <2>2, Zenon
    <3>3. start + (1 + (l + 1)) = n + 1
      <4>. HIDE DEF start, l
      <4>. QED
        BY <1>9, <1>12, <2>1
    <3>. QED
      BY <1>4, <2>2, <3>1, <3>2, <3>3, Zenon
  <2>4. AppendFrame(f, totalFrames, frame)
    BY <1>13, <1>19
  <2>5. Append(frame, f) = Segments(m, l + 1) /\ Len(Segments(m, l + 1)) = l + 1
    <3>1. Append(Segments(m, l), Segment(m, l + 1)) = Segments(m, l + 1)
      BY <1>9, SegmentsGrow
    <3>2. l + 1 \in Nat
      BY <1>9
    <3>3. Len(Segments(m, l + 1)) = l + 1
      BY <1>9, <3>2, SegmentsGrow
    <3>. HIDE DEF f, l, m
    <3>. QED
      BY <2>1, <2>3, <3>1, <3>3, Zenon
  <2>6. CASE totalFrames = 1
    <3>1. s = l + 1
      <4>. HIDE DEF l, s
      <4>. QED
        BY <1>9, <1>11, <2>1, <2>6
    <3>2. buffering' = FALSE /\ OnMessage(Append(frame, f))
      BY <2>4, <2>6 DEF AppendFrame
    <3>3. OnMessage(Segments(m, s))
      <4>. HIDE DEF f, l, m, s
      <4>. QED
        BY <2>5, <3>1, <3>2, Zenon
    <3>4. n + 1 = start + (Header(s) + s)
      <4>. HIDE DEF start, l, s
      <4>. QED
        BY <1>9, <1>12, <2>1, <2>2, <3>1
    <3>. QED
      <4>1. Assembled(n + 1)' /\ delivered' = Append(delivered, m)
        BY <1>14, <3>2, <3>3, <3>4, Zenon
      <4>. QED
        BY <1>8, <1>17, <4>1, Zenon
  <2>7. CASE totalFrames # 1
    <3>1. totalFrames' = totalFrames - 1 /\ buffering' = TRUE /\ frame' = Append(frame, f) /\ delivered' = delivered
      BY <2>4, <2>7 DEF AppendFrame
    <3>2. frame' = Segments(m, l + 1) /\ Len(frame') = l + 1
      BY <2>5, <3>1
    <3>3. totalFrames' + Len(frame') = s /\ n + 1 = start + (1 + Len(frame'))
      <4>1. \A x, y, z \in Nat : x >= 1 /\ x + y = z => (x - 1) + (y + 1) = z
        OBVIOUS
      <4>2. (totalFrames - 1) + (l + 1) = s
        BY <1>2, <1>9, <1>11, <2>1, <4>1, Zenon
      <4>3. n + 1 = start + (1 + (l + 1))
        <5>. HIDE DEF start, l
        <5>. QED
          BY <1>9, <1>12, <2>1
      <4>. QED
        BY <3>1, <3>2, <4>2, <4>3, Zenon
    <3>4. frame' = [i \in 1..Len(frame') |-> Segment(m, i)]
      BY <3>2 DEF Segments
    <3>5. Assembled(n + 1)'
      BY <1>7, <1>10, <2>1, <3>1, <3>3, <3>4 DEF Assembled
    <3>. QED
      BY <1>8, <3>1, <3>5
  <2>. QED
    BY <2>6, <2>7
<1>. QED
  BY <1>18, <1>19

\* No message comes into the queue or out of it.
LEMMA CallsFlow ==
    ASSUME QueueTypes, CallsKept, NEW n, NEW b, Run(Carried(delegateQueue, "message"), InAll, n, b)
    PROVE  Run(Carried(delegateQueue', "message"), InAll, n, b)
<1>1. delegateQueue \in Seq(Blocks) /\ SoundCalls \subseteq Blocks
  BY QueuesAreBlocks, CallsAreBlocks
<1>2. PICK more \in Seq(SoundCalls) :
          /\ Quiet(more, "message")
          /\ \/ delegateQueue' = delegateQueue \o more
             \/ /\ delegateQueue # <<>> /\ Head(delegateQueue)[1] # "message"
                /\ delegateQueue' = Tail(delegateQueue) \o more
  BY DEF CallsKept
<1>3. more \in Seq(Blocks)
  BY <1>1, <1>2
<1>4. CASE delegateQueue' = delegateQueue \o more
  <2>1. Run(Carried(delegateQueue \o more, "message"), InAll, n, b)
    BY <1>1, <1>2, <1>3, RunOfLonger
  <2>. QED
    BY <1>4, <2>1, Zenon
<1>5. CASE /\ delegateQueue # <<>> /\ Head(delegateQueue)[1] # "message"
           /\ delegateQueue' = Tail(delegateQueue) \o more
  <2>1. Run(Carried(Tail(delegateQueue), "message"), InAll, n, b) /\ Tail(delegateQueue) \in Seq(Blocks)
    BY <1>1, <1>5, InNumbers, RunOfTail, Queueing
  <2>2. Run(Carried(Tail(delegateQueue) \o more, "message"), InAll, n, b)
    BY <1>2, <1>3, <2>1, RunOfLonger
  <2>. QED
    BY <1>5, <2>2, Zenon
<1>. QED
  BY <1>2, <1>4, <1>5

\* The frames of data that a scan takes from its input are queued for the connection.
LEMMA ScanFlows ==
    ASSUME QueueTypes, NEW input \in Seq(SoundFrames), Scans(input), NEW n, NEW b, NEW c,
           Run(Carried(delegateQueue, "message"), InAll, n, b), Run(input, InAll, b, c)
    PROVE  \E x : /\ Run(Carried(delegateQueue', "message"), InAll, n, x)
                  /\ Run(readBuffer', InAll, x, c)
<1>1. input \in Seq(Frames) /\ delegateQueue \in Seq(Blocks)
  BY QueuesAreBlocks, SoundAreFrames
<1>2. CASE readBuffer' = input /\ delegateQueue' = delegateQueue
  <2>1. Run(Carried(delegateQueue', "message"), InAll, n, b) /\ Run(readBuffer', InAll, b, c)
    BY <1>2, Zenon
  <2>. QED
    BY <2>1
<1>3. CASE /\ input # <<>> /\ readBuffer' = Tail(input)
           /\ IF IsData(Head(input))
              THEN delegateQueue' = delegateQueue \o <<Received(Head(input))>>
              ELSE \E calls \in Seq(SoundCalls) :
                       Quiet(calls, "message") /\ delegateQueue' = delegateQueue \o calls
  <2>. DEFINE f == Head(input)
              call == Received(f)
  <2>1. f \in SoundFrames /\ f \in Frames
    BY <1>3, Queueing DEF SoundFrames
  <2>2. CASE IsData(f)
    <3>1. b < Len(InAll) /\ f = InAll[b + 1] /\ Run(Tail(input), InAll, b + 1, c)
      BY <1>1, <1>3, <2>2, InNumbers, RunHead
    <3>2. call \in Blocks /\ call[1] = "message" /\ call[2] = f
      BY <2>1 DEF Received, Blocks, BlockTypes
    <3>3. delegateQueue' = delegateQueue \o <<call>>
      BY <1>3, <2>2
    <3>4. b \in Nat
      BY <1>1, RunNat
    <3>. HIDE DEF f, call
    <3>5. Run(<<f>>, InAll, b, b + 1)
      BY <2>2, <3>1, <3>4, InNumbers, RunOneData
    <3>6. Run(<<call[2]>>, InAll, b, b + 1)
      BY <3>2, <3>5, Zenon
    <3>7. Run(Carried(delegateQueue \o <<call>>, "message"), InAll, n, b + 1)
      BY <1>1, <3>2, <3>6, RunOfNext
    <3>8. Run(Carried(delegateQueue', "message"), InAll, n, b + 1) /\ Run(readBuffer', InAll, b + 1, c)
      BY <1>3, <3>1, <3>3, <3>7, Zenon
    <3>. QED
      BY <3>8
  <2>3. CASE ~IsData(f)
    <3>1. Run(Tail(input), InAll, b, c)
      BY <1>1, <1>3, <2>3, InNumbers, RunHead
    <3>2. PICK calls \in Seq(SoundCalls) : Quiet(calls, "message") /\ delegateQueue' = delegateQueue \o calls
      BY <1>3, <2>3
    <3>3. calls \in Seq(Blocks)
      BY <3>2, CallsAreBlocks
    <3>4. Run(Carried(delegateQueue \o calls, "message"), InAll, n, b)
      BY <1>1, <3>2, <3>3, RunOfLonger
    <3>5. Run(Carried(delegateQueue', "message"), InAll, n, b) /\ Run(readBuffer', InAll, b, c)
      BY <1>3, <3>1, <3>2, <3>4, Zenon
    <3>. QED
      BY <3>5
  <2>. QED
    BY <2>2, <2>3
<1>. QED
  BY <1>2, <1>3 DEF Scans

\* What a step of the socket has to keep, given the runs.
LEMMA InFlows ==
    ASSUME NEW n, NEW b, NEW c, NEW d, Assembled(n)',
           Run(Carried(delegateQueue', "message"), InAll, n, b),
           Run(readBuffer', InAll, b, c), Run(wireIn', InAll, c, d),
           d <= UpTo(InSegments, inSent'), stream' \in BeforeEnd => d = UpTo(InSegments, inSent')
    PROVE  InFlow'
<1>1. \E nn, bb, cc, dd :
          /\ Assembled(nn)'
          /\ Run(Carried(delegateQueue', "message"), InAll, nn, bb)
          /\ Run(readBuffer', InAll, bb, cc) /\ Run(wireIn', InAll, cc, dd)
          /\ dd <= UpTo(InSegments, inSent')
          /\ stream' \in BeforeEnd => dd = UpTo(InSegments, inSent')
  BY Zenon
<1>. QED
  BY <1>1 DEF InFlow

LEMMA AssembledLeft ==
    ASSUME UNCHANGED assemblyVars, UNCHANGED inSent, NEW n, Assembled(n)
    PROVE  Assembled(n)'
<1>1. UNCHANGED <<buffering, frame, totalFrames, delivered, inSent>>
  BY DEF assemblyVars
<1>. QED
  BY <1>1 DEF Assembled

\* The frames stay where they are, and the streams do not open.
InStays ==
    /\ CallsKept /\ UNCHANGED assemblyVars /\ UNCHANGED <<readBuffer, wireIn, inSent>>
    /\ stream' \in BeforeEnd => stream \in BeforeEnd

LEMMA InFlowStays == ASSUME Types, InFlow, end = "none", InStays PROVE InFlow'
<1>1. PICK n, b, c, d :
          /\ Assembled(n) /\ Run(Carried(delegateQueue, "message"), InAll, n, b)
          /\ Run(readBuffer, InAll, b, c) /\ Run(wireIn, InAll, c, d)
          /\ d <= UpTo(InSegments, inSent) /\ (stream \in BeforeEnd => d = UpTo(InSegments, inSent))
  BY DEF InFlow
<1>2. readBuffer' = readBuffer /\ wireIn' = wireIn /\ inSent' = inSent
  BY DEF InStays
<1>3. Run(readBuffer', InAll, b, c) /\ Run(wireIn', InAll, c, d) /\ d <= UpTo(InSegments, inSent')
      /\ (stream' \in BeforeEnd => d = UpTo(InSegments, inSent'))
  BY <1>1, <1>2, Zenon DEF InStays
<1>4. Run(Carried(delegateQueue', "message"), InAll, n, b)
  BY <1>1, CallsFlow DEF InStays, Types
<1>5. Assembled(n)'
  BY <1>1, AssembledLeft DEF InStays
<1>. QED
  BY <1>3, <1>4, <1>5, InFlows

\* What has arrived is read, and scanned.
InScanned ==
    /\ UNCHANGED assemblyVars /\ UNCHANGED <<inSent, stream>>
    /\ \/ Scans(readBuffer \o wireIn) /\ wireIn' = <<>>
       \/ Scans(readBuffer) /\ UNCHANGED wireIn

LEMMA InFlowScanned == ASSUME Types, InFlow, end = "none", InScanned PROVE InFlow'
<1>1. PICK n, b, c, d :
          /\ Assembled(n) /\ Run(Carried(delegateQueue, "message"), InAll, n, b)
          /\ Run(readBuffer, InAll, b, c) /\ Run(wireIn, InAll, c, d)
          /\ d <= UpTo(InSegments, inSent) /\ (stream \in BeforeEnd => d = UpTo(InSegments, inSent))
  BY DEF InFlow
<1>2. /\ readBuffer \in Seq(SoundFrames) /\ wireIn \in Seq(SoundFrames) /\ QueueTypes
      /\ readBuffer \in Seq(Frames) /\ wireIn \in Seq(Frames)
  BY SoundAreFrames DEF Types, InputTypes, ServerTypes
<1>3. Assembled(n)'
  BY <1>1, AssembledLeft DEF InScanned
<1>4. d <= UpTo(InSegments, inSent') /\ (stream' \in BeforeEnd => d = UpTo(InSegments, inSent'))
  BY <1>1, Zenon DEF InScanned
<1>5. CASE Scans(readBuffer \o wireIn) /\ wireIn' = <<>>
  <2>1. Run(readBuffer \o wireIn, InAll, b, d)
    BY <1>1, <1>2, RunConcat
  <2>2. readBuffer \o wireIn \in Seq(SoundFrames)
    BY <1>2, Concat
  <2>3. PICK x : Run(Carried(delegateQueue', "message"), InAll, n, x) /\ Run(readBuffer', InAll, x, d)
    BY <1>1, <1>2, <1>5, <2>1, <2>2, ScanFlows
  <2>4. d \in Nat
    BY <1>1, <1>2, RunNat
  <2>5. Run(<<>>, InAll, d, d)
    BY <2>4, RunEmpty
  <2>6. Run(wireIn', InAll, d, d)
    BY <1>5, <2>5, Zenon
  <2>. QED
    BY <1>3, <1>4, <2>3, <2>6, InFlows
<1>6. CASE Scans(readBuffer) /\ UNCHANGED wireIn
  <2>1. PICK x : Run(Carried(delegateQueue', "message"), InAll, n, x) /\ Run(readBuffer', InAll, x, c)
    BY <1>1, <1>2, <1>6, ScanFlows
  <2>2. Run(wireIn', InAll, c, d)
    BY <1>1, <1>6, Zenon
  <2>. QED
    BY <1>3, <1>4, <2>1, <2>2, InFlows
<1>. QED
  BY <1>5, <1>6 DEF InScanned

\* What is not yet scanned is lost: in the buffer when the error is told, on the wire
\* when it occurs.
InLost ==
    /\ CallsKept /\ UNCHANGED assemblyVars /\ UNCHANGED inSent /\ stream' \notin BeforeEnd
    /\ \/ readBuffer' = <<>> /\ wireIn = <<>> /\ wireIn' = <<>>
       \/ UNCHANGED readBuffer /\ wireIn' = <<>>

LEMMA InFlowLost == ASSUME Types, InFlow, end = "none", InLost PROVE InFlow'
<1>1. PICK n, b, c, d :
          /\ Assembled(n) /\ Run(Carried(delegateQueue, "message"), InAll, n, b)
          /\ Run(readBuffer, InAll, b, c) /\ Run(wireIn, InAll, c, d)
          /\ d <= UpTo(InSegments, inSent)
  BY DEF InFlow
<1>2. /\ readBuffer \in Seq(Frames) /\ wireIn \in Seq(Frames) /\ inSent \in 0..Len(InSegments)
  BY SoundAreFrames DEF Types, InputTypes, ServerTypes
<1>3. Assembled(n)'
  BY <1>1, AssembledLeft DEF InLost
<1>4. Run(Carried(delegateQueue', "message"), InAll, n, b)
  BY <1>1, CallsFlow DEF InLost, Types
<1>5. b \in Nat /\ c \in Nat /\ d \in Nat /\ b <= c /\ c <= d
  BY <1>1, <1>2, RunNat, RunRises
<1>6. b <= UpTo(InSegments, inSent') /\ c <= UpTo(InSegments, inSent')
  <2>. DEFINE sent == UpTo(InSegments, inSent)
  <2>1. sent \in Nat
    BY <1>2, InNumbers
  <2>2. d <= sent /\ UpTo(InSegments, inSent') = sent
    BY <1>1 DEF InLost
  <2>. HIDE DEF sent
  <2>3. b <= sent /\ c <= sent
    BY <1>5, <2>1, <2>2
  <2>. QED
    BY <2>2, <2>3, Zenon
<1>7. Run(<<>>, InAll, b, b) /\ Run(<<>>, InAll, c, c)
  BY <1>5, RunEmpty
<1>8. stream' \notin BeforeEnd
  BY DEF InLost
<1>9. CASE readBuffer' = <<>> /\ wireIn' = <<>>
  <2>1. Run(readBuffer', InAll, b, b) /\ Run(wireIn', InAll, b, b)
    BY <1>7, <1>9, Zenon
  <2>. QED
    BY <1>3, <1>4, <1>6, <1>8, <2>1, InFlows
<1>10. CASE UNCHANGED readBuffer /\ wireIn' = <<>>
  <2>1. Run(readBuffer', InAll, b, c) /\ Run(wireIn', InAll, c, c)
    BY <1>1, <1>7, <1>10, Zenon
  <2>. QED
    BY <1>3, <1>4, <1>6, <1>8, <2>1, InFlows
<1>. QED
  BY <1>9, <1>10 DEF InLost

\* Frames arrive: those of the next message, or one that is no data.
InArrived ==
    /\ CallsKept /\ UNCHANGED assemblyVars /\ UNCHANGED <<readBuffer, stream>> /\ stream = "open"
    /\ \/ /\ inSent < Len(InSegments) /\ inSent' = inSent + 1
          /\ wireIn' = wireIn \o FramesOf(inSent + 1, InSegments[inSent + 1])
       \/ /\ inSent' = inSent
          /\ \E f \in SoundFrames : ~IsData(f) /\ wireIn' = wireIn \o <<f>>

LEMMA InFlowArrived == ASSUME Types, InFlow, end = "none", InArrived PROVE InFlow'
<1>. DEFINE sent == UpTo(InSegments, inSent)
<1>1. PICK n, b, c, d :
          /\ Assembled(n) /\ Run(Carried(delegateQueue, "message"), InAll, n, b)
          /\ Run(readBuffer, InAll, b, c) /\ Run(wireIn, InAll, c, d)
          /\ d <= sent /\ (stream \in BeforeEnd => d = sent)
  BY DEF InFlow
<1>2. /\ wireIn \in Seq(Frames) /\ inSent \in 0..Len(InSegments) /\ Len(InSegments) \in Nat /\ inSent \in Nat
      /\ delivered \in Seq(Nat)
  BY SoundAreFrames, InNumbers DEF Types, ServerTypes, AssemblyTypes
<1>3. d = sent
  BY <1>1 DEF InArrived, BeforeEnd
<1>4. Run(Carried(delegateQueue', "message"), InAll, n, b)
  BY <1>1, CallsFlow DEF InArrived, Types
<1>5. readBuffer' = readBuffer
  BY DEF InArrived
<1>6. Run(readBuffer', InAll, b, c)
  BY <1>1, <1>5, Zenon
<1>7. Assembled(n)'
  <2>1. UNCHANGED <<buffering, frame, totalFrames, delivered>>
    BY DEF InArrived, assemblyVars
  <2>2. inSent' \in Nat /\ inSent <= inSent' /\ Len(delivered) \in Nat
    BY <1>2 DEF InArrived
  <2>3. Len(delivered) <= inSent /\ (buffering => Len(delivered) + 1 <= inSent)
    BY <1>1 DEF Assembled
  <2>4. Len(delivered) <= inSent' /\ (buffering => Len(delivered) + 1 <= inSent')
    BY <1>2, <2>2, <2>3
  <2>. QED
    BY <1>1, <2>1, <2>4 DEF Assembled
<1>8. CASE /\ inSent < Len(InSegments) /\ inSent' = inSent + 1
           /\ wireIn' = wireIn \o FramesOf(inSent + 1, InSegments[inSent + 1])
  <2>. DEFINE m == inSent + 1
              frames == FramesOf(m, InSegments[m])
  <2>1. m \in 1..Len(InSegments) /\ m - 1 = inSent
    BY <1>2, <1>8
  <2>2. Run(frames, InAll, UpTo(InSegments, m - 1), UpTo(InSegments, m)) /\ frames \in Seq(SoundFrames)
    BY <2>1, InNumbers, MessageRun DEF InAll
  <2>3. Run(frames, InAll, d, UpTo(InSegments, m)) /\ frames \in Seq(Frames)
    BY <1>3, <2>1, <2>2, SoundAreFrames, Zenon
  <2>4. inSent' = m /\ wireIn' = wireIn \o frames
    BY <1>8
  <2>5. UpTo(InSegments, m) \in Nat
    BY <2>1, InNumbers
  <2>. HIDE DEF m, frames
  <2>6. Run(wireIn \o frames, InAll, c, UpTo(InSegments, m))
    BY <1>1, <1>2, <2>3, RunConcat
  <2>7. Run(wireIn', InAll, c, UpTo(InSegments, m)) /\ UpTo(InSegments, inSent') = UpTo(InSegments, m)
    BY <2>4, <2>6, Zenon
  <2>8. UpTo(InSegments, m) <= UpTo(InSegments, inSent')
    BY <2>5, <2>7
  <2>. QED
    BY <1>4, <1>6, <1>7, <2>7, <2>8, InFlows
<1>9. ASSUME inSent' = inSent, NEW f \in SoundFrames, ~IsData(f), wireIn' = wireIn \o <<f>>
      PROVE  InFlow'
  <2>1. d \in Nat /\ <<f>> \in Seq(Frames)
    <3>1. f \in Frames
      BY <1>9 DEF SoundFrames
    <3>. QED
      BY <1>1, <1>2, <3>1, RunNat, OneElement
  <2>2. Run(<<f>>, InAll, d, d)
    BY <1>9, <2>1, RunOneOther
  <2>3. Run(wireIn \o <<f>>, InAll, c, d)
    BY <1>1, <1>2, <2>1, <2>2, RunConcat
  <2>4. Run(wireIn', InAll, c, d) /\ UpTo(InSegments, inSent') = sent
    BY <1>9, <2>3, Zenon
  <2>5. d <= UpTo(InSegments, inSent') /\ d = UpTo(InSegments, inSent')
    BY <1>1, <1>3, <2>4, Zenon
  <2>. QED
    BY <1>4, <1>6, <1>7, <2>4, <2>5, InFlows
<1>. QED
  BY <1>8, <1>9 DEF InArrived

-----------------------------------------------------------------------------
(* What comes into the queue of the socket: the news of an error from the    *)
(* streams only, and a block that disconnects only behind one that closes.   *)

Errorless(queue) == \A i \in 1..Len(queue) : queue[i][1] # "error"
ClosesFirst(queue) ==
    \A i \in 1..Len(queue) :
        queue[i][1] = "disconnect" => \E j \in 1..Len(queue) : j < i /\ queue[j][1] = "close"
Orderly(queue) == Errorless(queue) /\ ClosesFirst(queue)

LEMMA OrderlyTail ==
    ASSUME NEW S, NEW queue \in Seq(S), queue # <<>>
    PROVE  /\ Errorless(queue) => Errorless(Tail(queue))
           /\ ClosesFirst(queue) /\ Head(queue)[1] # "close" => ClosesFirst(Tail(queue))
<1>1. /\ Len(Tail(queue)) = Len(queue) - 1 /\ Len(queue) \in Nat /\ Head(queue) = queue[1]
      /\ \A i \in 1..Len(Tail(queue)) : Tail(queue)[i] = queue[i + 1]
  OBVIOUS
<1>2. \A i \in 1..Len(Tail(queue)) : i + 1 \in 1..Len(queue)
  BY <1>1
<1>3. ASSUME ClosesFirst(queue), Head(queue)[1] # "close", NEW i \in 1..Len(Tail(queue)),
             Tail(queue)[i][1] = "disconnect"
      PROVE  \E j \in 1..Len(Tail(queue)) : j < i /\ Tail(queue)[j][1] = "close"
  <2>1. PICK k \in 1..Len(queue) : k < i + 1 /\ queue[k][1] = "close"
    BY <1>1, <1>2, <1>3 DEF ClosesFirst
  <2>2. k # 1
    BY <1>1, <1>3, <2>1
  <2>3. k - 1 \in 1..Len(Tail(queue)) /\ k - 1 < i /\ (k - 1) + 1 = k
    BY <1>1, <2>1, <2>2
  <2>4. Tail(queue)[k - 1] = queue[k]
    BY <1>1, <2>3
  <2>. QED
    BY <2>1, <2>3, <2>4
<1>4. Errorless(queue) => Errorless(Tail(queue))
  BY <1>1, <1>2 DEF Errorless
<1>. QED
  BY <1>3, <1>4 DEF ClosesFirst

LEMMA OrderlyConcat ==
    ASSUME NEW S, NEW queue \in Seq(S), NEW more \in Seq(S)
    PROVE  /\ Errorless(queue) /\ Errorless(more) => Errorless(queue \o more)
           /\ ClosesFirst(queue) /\ ClosesFirst(more) => ClosesFirst(queue \o more)
<1>. DEFINE n == Len(queue)
            whole == queue \o more
<1>1. /\ Len(whole) = n + Len(more) /\ n \in Nat /\ Len(more) \in Nat
      /\ \A i \in 1..n : whole[i] = queue[i]
      /\ \A i \in 1..Len(more) : whole[n + i] = more[i]
  BY Concat
<1>. HIDE DEF whole, n
<1>2. \A i \in 1..Len(whole) :
          i \in 1..n \/ (i - n \in 1..Len(more) /\ whole[i] = more[i - n])
  <2>1. SUFFICES ASSUME NEW i \in 1..Len(whole), i \notin 1..n
                 PROVE  i - n \in 1..Len(more) /\ whole[i] = more[i - n]
    OBVIOUS
  <2>2. i - n \in 1..Len(more) /\ n + (i - n) = i
    BY <1>1, <2>1
  <2>3. whole[n + (i - n)] = more[i - n]
    BY <1>1, <2>2
  <2>. QED
    BY <2>2, <2>3
<1>3. ASSUME Errorless(queue), Errorless(more) PROVE Errorless(whole)
  BY <1>1, <1>2, <1>3 DEF Errorless, n
<1>4. ASSUME ClosesFirst(queue), ClosesFirst(more), NEW i \in 1..Len(whole), whole[i][1] = "disconnect"
      PROVE  \E j \in 1..Len(whole) : j < i /\ whole[j][1] = "close"
  <2>1. CASE i \in 1..n
    <3>1. PICK j \in 1..n : j < i /\ queue[j][1] = "close"
      BY <1>1, <1>4, <2>1 DEF ClosesFirst, n
    <3>2. j \in 1..Len(whole) /\ whole[j] = queue[j]
      BY <1>1, <3>1
    <3>. QED
      BY <3>1, <3>2
  <2>2. CASE i - n \in 1..Len(more) /\ whole[i] = more[i - n]
    <3>1. PICK j \in 1..Len(more) : j < i - n /\ more[j][1] = "close"
      BY <1>4, <2>2 DEF ClosesFirst
    <3>2. n + j \in 1..Len(whole) /\ n + j < i /\ whole[n + j] = more[j]
      BY <1>1, <2>2, <3>1
    <3>. QED
      BY <3>1, <3>2
  <2>. QED
    BY <1>2, <1>4, <2>1, <2>2
<1>. QED
  BY <1>3, <1>4 DEF ClosesFirst, whole

LEMMA OrderlyBlocks ==
    /\ Orderly(<<>>)
    /\ \A block : block[1] \notin {"error", "disconnect"} => Orderly(<<block>>)
    /\ Orderly(<<Block("close"), Block("disconnect")>>)
    /\ Orderly(HandleClose)
<1>1. Orderly(<<>>)
  BY DEF Orderly, Errorless, ClosesFirst
<1>2. ASSUME NEW block, block[1] \notin {"error", "disconnect"} PROVE Orderly(<<block>>)
  <2>1. Len(<<block>>) = 1 /\ <<block>>[1] = block
    OBVIOUS
  <2>. QED
    BY <1>2, <2>1 DEF Orderly, Errorless, ClosesFirst
<1>3. Orderly(<<Block("close"), Block("disconnect")>>)
  <2>. DEFINE one == Block("close")
              two == Block("disconnect")
  <2>1. one[1] = "close" /\ two[1] = "disconnect"
    BY BlockFields
  <2>. HIDE DEF one, two
  <2>2. Len(<<one, two>>) = 2 /\ <<one, two>>[1] = one /\ <<one, two>>[2] = two
    OBVIOUS
  <2>3. Orderly(<<one, two>>)
    BY <2>1, <2>2 DEF Orderly, Errorless, ClosesFirst
  <2>. QED
    BY <2>3 DEF one, two
<1>4. Orderly(HandleClose)
  <2>1. Len(HandleClose) = 3 /\ HandleClose[1] = Block("readFrame") /\ HandleClose[2] = Block("close")
        /\ HandleClose[3] = Block("disconnect")
    BY DEF HandleClose
  <2>2. HandleClose[1][1] = "readFrame" /\ HandleClose[2][1] = "close" /\ HandleClose[3][1] = "disconnect"
    BY <2>1, BlockFields
  <2>. QED
    BY <2>1, <2>2 DEF Orderly, Errorless, ClosesFirst
<1>. QED
  BY <1>1, <1>2, <1>3, <1>4

LEMMA PumpLeaves ==
    ASSUME NEW buffer, NEW closing, NEW hasFailed, NEW blocks, NEW calls,
           PumpWriting(buffer, closing, hasFailed, blocks, calls)
    PROVE  workQueue' \in {blocks, Append(blocks, Block("fail"))} /\ stream' \in {stream, "closed"}
BY DEF PumpWriting

\* The blocks that scan nothing.
Unscanned == OnOpened \/ OnSpace \/ OnError \/ OnStreamEnd \/ OnFail \/ OnClose \/ OnDisconnect \/ OnWrite

LEMMA UnscannedLeaves ==
    ASSUME Unscanned
    PROVE  /\ workQueue # <<>> /\ workQueue' \in {Rest, Append(Rest, Block("fail"))}
           /\ stream' \in {stream, "closed"} /\ UNCHANGED otherVars /\ UNCHANGED serverVars
           /\ OnError \/ UNCHANGED readBuffer
<1>1. ASSUME NEW f, WriteData(f, Rest)
      PROVE  workQueue' \in {Rest, Append(Rest, Block("fail"))} /\ stream' \in {stream, "closed"}
  BY <1>1, PumpLeaves DEF WriteData
<1>2. workQueue # <<>> /\ UNCHANGED otherVars /\ UNCHANGED serverVars /\ (OnError \/ UNCHANGED readBuffer)
  BY DEF Unscanned, OnOpened, OnSpace, OnError, OnStreamEnd, OnFail, OnClose, OnDisconnect, OnWrite, Running,
     inputVars
<1>3. CASE OnOpened \/ OnWrite
  BY <1>1, <1>2, <1>3 DEF OnOpened, OnWrite
<1>4. CASE OnSpace \/ OnDisconnect
  BY <1>2, <1>4, PumpLeaves DEF OnSpace, OnDisconnect, Disconnect
<1>5. CASE OnError \/ OnStreamEnd
  BY <1>2, <1>5 DEF OnError, OnStreamEnd
<1>6. CASE OnFail
  BY <1>2, <1>6, PumpLeaves DEF OnFail, Disconnect
<1>7. CASE OnClose
  BY <1>1, <1>2, <1>7, PumpLeaves DEF OnClose, Disconnect
<1>. QED
  BY <1>3, <1>4, <1>5, <1>6, <1>7 DEF Unscanned

LEMMA ScanMoves ==
    ASSUME InputTypes, QueueTypes, workQueue # <<>>,
           NEW input \in Seq(SoundFrames), NEW waiting \in {"none", "header", "frame"},
           NEW before \in {<<>>, <<Block("fail")>>}, NEW after \in {<<>>, <<Block("streamEnd")>>},
           PumpScanner(input, waiting, Tail(workQueue) \o before, after)
    PROVE  \E more \in Seq(WorkBlocks) : Orderly(more) /\ workQueue' = Tail(workQueue) \o more
<1>1. PICK adds \in {<<>>, <<Block("fail")>>, <<Block("readFrame")>>, HandleClose} :
          workQueue' = (Tail(workQueue) \o before) \o adds \o after
  <2>. DEFINE blocks == Tail(workQueue) \o before
  <2>1. PumpScanner(input, waiting, blocks, after)
    OBVIOUS
  <2>. HIDE DEF blocks
  <2>2. /\ InputTypes' /\ readyState' >= readyState
        /\ \E adds \in {<<>>, <<Block("fail")>>, <<Block("readFrame")>>, HandleClose} :
               workQueue' = blocks \o adds \o after
        /\ \/ readBuffer' = input /\ delegateQueue' = delegateQueue \o <<>>
           \/ /\ readyState < SR_CLOSING /\ input # <<>> /\ readBuffer' = Tail(input)
              /\ IF IsData(Head(input))
                 THEN delegateQueue' = delegateQueue \o <<Received(Head(input))>>
                 ELSE \E calls \in {<<>>, <<Block("didOpen")>>, <<Block("ping")>>,
                                    <<Block("protocolError")>>} :
                          delegateQueue' = delegateQueue \o calls
    BY <2>1, ScanEffect
  <2>. QED
    BY <2>2, Zenon DEF blocks
<1>2. Block("fail") \in WorkBlocks /\ Block("readFrame") \in WorkBlocks /\ Block("streamEnd") \in WorkBlocks
      /\ Block("close") \in WorkBlocks /\ Block("disconnect") \in WorkBlocks
  BY WorkBlock1
<1>3. <<Block("fail")>> \in Seq(WorkBlocks) /\ <<Block("readFrame")>> \in Seq(WorkBlocks)
      /\ <<Block("streamEnd")>> \in Seq(WorkBlocks) /\ <<>> \in Seq(WorkBlocks) /\ HandleClose \in Seq(WorkBlocks)
  BY <1>2, OneElement, EmptySeq DEF HandleClose
<1>4. Orderly(<<Block("fail")>>) /\ Orderly(<<Block("readFrame")>>) /\ Orderly(<<Block("streamEnd")>>)
  BY BlockFields, OrderlyBlocks
<1>5. before \in Seq(WorkBlocks) /\ adds \in Seq(WorkBlocks) /\ after \in Seq(WorkBlocks)
      /\ Orderly(before) /\ Orderly(adds) /\ Orderly(after)
  BY <1>3, <1>4, OrderlyBlocks, Zenon
<1>6. before \o adds \in Seq(WorkBlocks) /\ Orderly(before \o adds)
  BY <1>5, OrderlyConcat, Concat DEF Orderly
<1>7. (before \o adds) \o after \in Seq(WorkBlocks) /\ Orderly((before \o adds) \o after)
  BY <1>5, <1>6, OrderlyConcat, Concat DEF Orderly
<1>8. workQueue' = Tail(workQueue) \o ((before \o adds) \o after)
  <2>. DEFINE rest == Tail(workQueue)
  <2>1. rest \in Seq(WorkBlocks)
    BY Queueing DEF QueueTypes
  <2>. HIDE DEF rest
  <2>2. \A x, y, z \in Seq(WorkBlocks) : (x \o y) \o z = x \o (y \o z)
    BY ConcatAssociative
  <2>3. (rest \o before) \o adds = rest \o (before \o adds)
    BY <1>5, <2>1, <2>2, Zenon
  <2>4. (rest \o (before \o adds)) \o after = rest \o ((before \o adds) \o after)
    BY <1>5, <1>6, <2>1, <2>2, Zenon
  <2>. QED
    BY <1>1, <2>3, <2>4, Zenon DEF rest
<1>. QED
  BY <1>7, <1>8, Zenon

\* Blocks are queued behind the others; only a block of the socket takes the first.
WorkMoves ==
    \E more \in Seq(WorkBlocks) :
        /\ Orderly(more)
        /\ \/ workQueue' = workQueue \o more
           \/ WorkBlock /\ workQueue # <<>> /\ workQueue' = Tail(workQueue) \o more

LEMMA OneMoves ==
    ASSUME QueueTypes, NEW block \in WorkBlocks, block[1] \notin {"error", "disconnect"},
           workQueue' \in {Append(workQueue, block), workQueue \o <<block>>}
    PROVE  WorkMoves
<1>1. Append(workQueue, block) = workQueue \o <<block>> /\ <<block>> \in Seq(WorkBlocks)
  BY Queueing DEF QueueTypes
<1>2. Orderly(<<block>>)
  BY OrderlyBlocks
<1>3. workQueue' = workQueue \o <<block>>
  BY <1>1
<1>. QED
  BY <1>1, <1>2, <1>3, Zenon DEF WorkMoves

LEMMA UnscannedMoves == ASSUME QueueTypes, Unscanned PROVE WorkMoves
<1>. DEFINE rest == Tail(workQueue)
            fail == Block("fail")
<1>1. workQueue # <<>> /\ workQueue' \in {rest, Append(rest, fail)}
  BY UnscannedLeaves DEF Rest
<1>2. rest \in Seq(WorkBlocks) /\ fail \in WorkBlocks /\ fail[1] \notin {"error", "disconnect"}
  BY <1>1, Queueing, WorkBlock1, BlockFields DEF QueueTypes
<1>3. WorkBlock
  BY DEF WorkBlock, Unscanned
<1>. HIDE DEF rest, fail
<1>4. /\ Append(rest, fail) = rest \o <<fail>> /\ <<fail>> \in Seq(WorkBlocks) /\ rest \o <<>> = rest
      /\ <<>> \in Seq(WorkBlocks)
  BY <1>2, Queueing, EmptySeq
<1>5. Orderly(<<fail>>) /\ Orderly(<<>>)
  BY <1>2, OrderlyBlocks
<1>6. workQueue' = rest \o <<>> \/ workQueue' = rest \o <<fail>>
  BY <1>1, <1>4
<1>7. workQueue' = Tail(workQueue) \o <<>> \/ workQueue' = Tail(workQueue) \o <<fail>>
  BY <1>6 DEF rest
<1>. QED
  BY <1>1, <1>3, <1>4, <1>5, <1>7, Zenon DEF WorkMoves

LEMMA ScannedMoves == ASSUME Types, OnBytes \/ OnEnd \/ OnReadFrame PROVE WorkMoves
<1>. DEFINE rest == Tail(workQueue)
<1>1. /\ InputTypes /\ QueueTypes /\ readBuffer \in Seq(SoundFrames) /\ wireIn \in Seq(SoundFrames)
      /\ consumer \in {"none", "header", "frame"} /\ workQueue # <<>> /\ WorkBlock
  BY DEF Types, InputTypes, ServerTypes, OnBytes, OnEnd, OnReadFrame, Running, WorkBlock
<1>2. readBuffer \o wireIn \in Seq(SoundFrames) /\ rest \o <<>> = rest
  BY <1>1, Concat, Queueing DEF QueueTypes
<1>3. \E input \in {readBuffer, readBuffer \o wireIn}, waiting \in {"none", "header", "frame"},
         before \in {<<>>, <<Block("fail")>>}, after \in {<<>>, <<Block("streamEnd")>>} :
          PumpScanner(input, waiting, rest \o before, after)
  <2>. HIDE DEF rest
  <2>1. Rest = rest
    BY DEF Rest, rest
  <2>2. CASE OnEnd
    <3>1. PumpScanner(readBuffer, consumer, rest \o <<>>, <<Block("streamEnd")>>)
      BY <1>2, <2>1, <2>2, Zenon DEF OnEnd
    <3>. QED
      BY <1>1, <3>1, Zenon
  <2>3. CASE OnReadFrame
    <3>1. PumpScanner(readBuffer, "frame", rest \o <<>>, <<>>)
      BY <1>2, <2>1, <2>3, Zenon DEF OnReadFrame
    <3>. QED
      BY <3>1, Zenon
  <2>4. CASE OnBytes
    <3>1. CASE stream = "open"
      <4>1. PumpScanner(readBuffer \o wireIn, consumer, Rest, <<>>)
        BY <2>4, <3>1 DEF OnBytes
      <4>2. PumpScanner(readBuffer \o wireIn, consumer, rest \o <<>>, <<>>)
        BY <1>2, <2>1, <4>1, Zenon
      <4>. QED
        BY <1>1, <4>2, Zenon
    <3>2. CASE stream # "open"
      <4>1. PICK errors \in {<<>>, <<Block("fail")>>} : PumpScanner(readBuffer, consumer, Rest \o errors, <<>>)
        BY <2>4, <3>2 DEF OnBytes
      <4>2. PumpScanner(readBuffer, consumer, rest \o errors, <<>>)
        BY <2>1, <4>1, Zenon
      <4>. QED
        BY <1>1, <4>2, Zenon
    <3>. QED
      BY <3>1, <3>2
  <2>. QED
    BY <2>2, <2>3, <2>4
<1>4. PICK input \in Seq(SoundFrames), waiting \in {"none", "header", "frame"},
           before \in {<<>>, <<Block("fail")>>}, after \in {<<>>, <<Block("streamEnd")>>} :
          PumpScanner(input, waiting, Tail(workQueue) \o before, after)
  <2>. HIDE DEF rest
  <2>1. PICK input \in {readBuffer, readBuffer \o wireIn}, waiting \in {"none", "header", "frame"},
           before \in {<<>>, <<Block("fail")>>}, after \in {<<>>, <<Block("streamEnd")>>} :
          PumpScanner(input, waiting, rest \o before, after)
    BY <1>3
  <2>2. input \in Seq(SoundFrames)
    BY <1>1, <1>2, <2>1
  <2>. QED
    BY <2>1, <2>2, Zenon DEF rest
<1>5. \E more \in Seq(WorkBlocks) : Orderly(more) /\ workQueue' = Tail(workQueue) \o more
  BY <1>1, <1>4, ScanMoves
<1>. QED
  BY <1>1, <1>5, Zenon DEF WorkMoves

\* Only the streams queue the news of an error.
LEMMA StepsMoveWork == ASSUME Types, [Next]_vars, ~ErrorOccurred PROVE WorkMoves
<1>1. workQueue \in Seq(WorkBlocks) /\ QueueTypes
  BY DEF Types, QueueTypes
<1>2. CASE UNCHANGED workQueue
  <2>1. workQueue' = workQueue \o <<>> /\ <<>> \in Seq(WorkBlocks)
    BY <1>1, <1>2, Queueing, EmptySeq
  <2>. QED
    BY <2>1, OrderlyBlocks, Zenon DEF WorkMoves
<1>3. ASSUME NEW more \in Seq(WorkBlocks), Orderly(more), workQueue' = workQueue \o more
      PROVE  WorkMoves
  BY <1>3, Zenon DEF WorkMoves
<1>4. CASE DelegateBlock \/ Caller \/ MainThread \/ ConnectTimeout
  <2>1. \/ UNCHANGED workQueue
        \/ \E blocks \in {<<Block("close")>>, <<Block("close"), Block("disconnect")>>,
                          <<Write(Control("pong"))>>, <<Write(Control("nop"))>>} :
               workQueue' = workQueue \o blocks
        \/ SendString
    BY <1>4 DEF DelegateBlock, Caller, MainThread, ConnectTimeout, WebSocketDidOpen, DidReceiveMessage, HandlePing,
       CloseWithProtocolError, Bounce, CloseIfNeverConnected, DidEnd, Open, Close, Send, StartKeepAlive, NopFires,
       NopSends, Enqueue
  <2>2. \A kind : Orderly(<<Write(Control(kind))>>)
    <3>1. \A f : Write(f)[1] \notin {"error", "disconnect"}
      BY DEF Write
    <3>. QED
      BY <3>1, OrderlyBlocks, Zenon
  <2>3. Orderly(<<Block("close")>>) /\ Orderly(<<Block("close"), Block("disconnect")>>)
    BY BlockFields, OrderlyBlocks
  <2>4. ASSUME NEW blocks \in {<<Block("close")>>, <<Block("close"), Block("disconnect")>>,
                               <<Write(Control("pong"))>>, <<Write(Control("nop"))>>}
        PROVE  blocks \in Seq(WorkBlocks) /\ Orderly(blocks)
    BY <2>2, <2>3, ClosingBlocks, ControlWrites, Zenon
  <2>5. CASE SendString
    <3>. DEFINE block == Write(Head(sending))
    <3>1. block \in WorkBlocks /\ workQueue' = IF webSocket THEN workQueue \o <<block>> ELSE workQueue
      BY <2>5, SendStringKeeps
    <3>2. block[1] \notin {"error", "disconnect"}
      BY DEF Write
    <3>. HIDE DEF block
    <3>. QED
      BY <1>1, <1>2, <3>1, <3>2, OneMoves
  <2>. QED
    BY <1>2, <1>3, <2>1, <2>4, <2>5, Zenon
<1>5. CASE Streams \/ Server
  <2>1. \/ UNCHANGED workQueue
        \/ \E type \in {"opened", "bytes", "space", "end"} : Event(type)
    BY <1>5 DEF Streams, OpenCompleted, HasSpaceAvailable, EndEncountered, Cleanup, Server, ServerSends, ServerPings,
       ServerAnswersUpgrade, ServerFinishes, Arrives
  <2>2. ASSUME NEW type \in {"opened", "bytes", "space", "end"}, Event(type)
        PROVE  WorkMoves
    <3>1. Block(type) \in WorkBlocks /\ Block(type)[1] \notin {"error", "disconnect"}
      BY WorkBlock1, BlockFields
    <3>. QED
      BY <1>1, <2>2, <3>1, OneMoves DEF Event
  <2>. QED
    BY <1>2, <2>1, <2>2
<1>6. CASE UNCHANGED vars
  BY <1>2, <1>6 DEF vars
<1>7. CASE Unscanned
  BY <1>1, <1>7, UnscannedMoves
<1>8. CASE OnBytes \/ OnEnd \/ OnReadFrame
  BY <1>8, ScannedMoves
<1>. QED
  BY <1>4, <1>5, <1>6, <1>7, <1>8, Zenon DEF Next, WorkBlock, Unscanned

LEMMA ErrorsQueued ==
    ASSUME Types, Errorless(workQueue), [Next]_vars, ~ErrorOccurred
    PROVE  Errorless(workQueue')
<1>1. workQueue \in Seq(WorkBlocks)
  BY DEF Types, QueueTypes
<1>2. PICK more \in Seq(WorkBlocks) :
          /\ Orderly(more)
          /\ \/ workQueue' = workQueue \o more
             \/ WorkBlock /\ workQueue # <<>> /\ workQueue' = Tail(workQueue) \o more
  BY StepsMoveWork DEF WorkMoves
<1>3. Errorless(more)
  BY <1>2 DEF Orderly
<1>4. CASE workQueue' = workQueue \o more
  <2>1. Errorless(workQueue \o more)
    BY <1>1, <1>2, <1>3, OrderlyConcat
  <2>. QED
    BY <1>4, <2>1, Zenon
<1>5. CASE workQueue # <<>> /\ workQueue' = Tail(workQueue) \o more
  <2>1. Errorless(Tail(workQueue)) /\ Tail(workQueue) \in Seq(WorkBlocks)
    BY <1>1, <1>5, OrderlyTail, Queueing
  <2>2. Errorless(Tail(workQueue) \o more)
    BY <1>2, <1>3, <2>1, OrderlyConcat
  <2>. QED
    BY <1>5, <2>2, Zenon
<1>. QED
  BY <1>2, <1>4, <1>5

LEMMA ScheduledErrors ==
    ASSUME Types
    PROVE  Scheduled("error") <=> ~Errorless(workQueue)
<1>1. DOMAIN workQueue = 1..Len(workQueue)
  BY DEF Types, QueueTypes
<1>. QED
  BY <1>1 DEF Scheduled, Errorless

LEMMA StreamSteps ==
    ASSUME [Next]_vars
    PROVE  \/ stream' \in {stream, "closed"} /\ wireIn' \in {wireIn, <<>>}
           \/ stream \in BeforeEnd /\ stream' # "error"
           \/ ErrorOccurred
<1>1. CASE Unscanned
  BY <1>1, UnscannedLeaves DEF serverVars
<1>2. CASE OnBytes \/ OnEnd \/ OnReadFrame
  BY <1>2 DEF OnBytes, OnEnd, OnReadFrame, serverVars
<1>3. CASE DelegateBlock \/ Close \/ Send \/ MainThread \/ ConnectTimeout
  BY <1>3 DEF DelegateBlock, MainThread, ConnectTimeout, WebSocketDidOpen, DidReceiveMessage, HandlePing,
     CloseWithProtocolError, Bounce, CloseIfNeverConnected, DidEnd, SendString, Close, Send, StartKeepAlive,
     NopFires, NopSends, socketVars, serverVars
<1>4. CASE Open \/ Streams
  BY <1>4 DEF Open, Streams, OpenCompleted, HasSpaceAvailable, EndEncountered, Cleanup, socketVars, serverVars,
     BeforeEnd
<1>5. CASE Server
  BY <1>5 DEF Server, ServerSends, ServerPings, ServerAnswersUpgrade, ServerFinishes, Arrives, socketVars, BeforeEnd
<1>6. CASE UNCHANGED vars
  BY <1>6 DEF vars, serverVars
<1>. QED
  BY <1>1, <1>2, <1>3, <1>4, <1>5, <1>6, Zenon DEF Next, WorkBlock, Caller, Unscanned

LEMMA ErrorIsEndStep == ASSUME Types, ErrorIsEnd, [Next]_vars PROVE ErrorIsEnd'
<1>1. Types'
  BY StepsOfOutput
<1>2. Scheduled("error")' <=> ~Errorless(workQueue')
  <2>1. DOMAIN workQueue' = 1..Len(workQueue')
    BY <1>1 DEF Types, QueueTypes
  <2>. QED
    BY <2>1 DEF Scheduled, Errorless
<1>3. ErrorOccurred \/ (Scheduled("error")' => Scheduled("error"))
  BY <1>2, ErrorsQueued, ScheduledErrors
<1>4. CASE ErrorOccurred
  BY <1>4 DEF ErrorOccurred, ErrorIsEnd
<1>5. CASE ~ErrorOccurred /\ stream' \in {stream, "closed"} /\ wireIn' \in {wireIn, <<>>}
  BY <1>3, <1>5 DEF ErrorIsEnd
<1>6. CASE ~ErrorOccurred /\ stream \in BeforeEnd /\ stream' # "error"
  BY <1>3, <1>6 DEF ErrorIsEnd, BeforeEnd
<1>. QED
  BY <1>4, <1>5, <1>6, StreamSteps

\* The steps of the way in, and the end of the connection.
Ends ==
    /\ CallsKept /\ UNCHANGED <<inSent, delivered>> /\ end' # "none"
    /\ end' = end \/ (end = "none" /\ end' \in {"closed", "reported"})

LEMMA WorkOnInput ==
    ASSUME Types, ErrorIsEnd, WorkBlock
    PROVE  (InStays \/ InScanned \/ InLost) /\ UNCHANGED end
<1>1. UNCHANGED assemblyVars /\ UNCHANGED end /\ UNCHANGED inSent
  BY DEF WorkBlock, OnOpened, OnBytes, OnSpace, OnError, OnEnd, OnStreamEnd, OnFail, OnClose, OnDisconnect,
     OnWrite, OnReadFrame, otherVars, serverVars
<1>2. CASE Unscanned /\ ~OnError
  <2>1. UNCHANGED <<readBuffer, wireIn, inSent>> /\ stream' \in {stream, "closed"}
    BY <1>2, UnscannedLeaves DEF serverVars
  <2>2. CallsKept
    BY <1>2, OnOpenedKeeps, OnSpaceKeeps, OnStreamEndKeeps, OnFailKeeps, OnCloseKeeps,
       OnDisconnectKeeps, OnWriteKeeps, Zenon DEF Unscanned, Kept
  <2>. QED
    BY <1>1, <2>1, <2>2 DEF InStays, BeforeEnd
<1>3. CASE OnError
  <2>1. workQueue # <<>> /\ Head(workQueue)[1] = "error"
    BY <1>3 DEF OnError, Running
  <2>2. Scheduled("error")
    <3>1. workQueue \in Seq(WorkBlocks)
      BY DEF Types, QueueTypes
    <3>2. 1 \in DOMAIN workQueue /\ workQueue[1][1] = "error"
      BY <2>1, <3>1
    <3>. QED
      BY <3>2 DEF Scheduled
  <2>3. wireIn = <<>> /\ stream \notin BeforeEnd
    BY <2>2 DEF ErrorIsEnd, BeforeEnd
  <2>4. CallsKept
    BY <1>3, OnErrorKeeps DEF Kept
  <2>5. readBuffer' = <<>> /\ wireIn' = wireIn /\ stream' = stream
    BY <1>3 DEF OnError, serverVars
  <2>6. wireIn' = <<>> /\ stream' \notin BeforeEnd
    BY <2>3, <2>5
  <2>. QED
    BY <1>1, <2>3, <2>4, <2>5, <2>6, Zenon DEF InLost
<1>4. CASE OnBytes
  <2>1. UNCHANGED stream
    BY <1>4 DEF OnBytes
  <2>2. \/ Scans(readBuffer \o wireIn) /\ wireIn' = <<>>
        \/ Scans(readBuffer) /\ UNCHANGED wireIn
    BY <1>4, OnBytesKeeps
  <2>. QED
    BY <1>1, <2>1, <2>2 DEF InScanned
<1>5. CASE OnEnd \/ OnReadFrame
  <2>1. UNCHANGED <<stream, wireIn>>
    BY <1>5 DEF OnEnd, OnReadFrame, serverVars
  <2>2. Scans(readBuffer)
    BY <1>5, OnEndKeeps, OnReadFrameKeeps
  <2>. QED
    BY <1>1, <2>1, <2>2 DEF InScanned
<1>. QED
  BY <1>2, <1>3, <1>4, <1>5 DEF WorkBlock, Unscanned

LEMMA StepsOfInput ==
    ASSUME Types, LetGo, ErrorIsEnd, [Next]_vars
    PROVE  \/ (InStays \/ InScanned \/ InLost \/ InArrived) /\ UNCHANGED end
           \/ DidReceiveMessage
           \/ Ends
<1>1. CASE WorkBlock
  BY <1>1, WorkOnInput
<1>2. CASE UNCHANGED vars
  <2>1. CallsKept
    BY <1>2, UnchangedTypes DEF Kept
  <2>. QED
    BY <1>2, <2>1 DEF InStays, vars, inputVars, serverVars
<1>3. CASE WebSocketDidOpen \/ HandlePing \/ CloseWithProtocolError \/ CloseIfNeverConnected \/ SendString
  <2>1. CallsKept
    BY <1>3, WebSocketDidOpenKeeps, BouncesKeep, CloseIfNeverConnectedKeeps, SendStringKeeps DEF Kept
  <2>2. UNCHANGED assemblyVars /\ UNCHANGED <<readBuffer, wireIn, inSent, stream, end>>
    BY <1>3 DEF WebSocketDidOpen, HandlePing, CloseWithProtocolError, Bounce, CloseIfNeverConnected, SendString,
       socketVars, inputVars, serverVars
  <2>. QED
    BY <2>1, <2>2 DEF InStays
<1>4. CASE Send \/ MainThread \/ ConnectTimeout
  <2>1. CallsKept
    BY <1>4, SendKeeps, TimersKeep, ConnectTimeoutKeeps DEF Kept
  <2>2. UNCHANGED assemblyVars /\ UNCHANGED <<readBuffer, wireIn, inSent, stream, end>>
    BY <1>4 DEF Send, MainThread, StartKeepAlive, NopFires, NopSends, ConnectTimeout,
       socketVars, inputVars, serverVars
  <2>. QED
    BY <2>1, <2>2 DEF InStays
<1>5. CASE \E type \in {"didClose", "didFail"} : DidEnd(type)
  <2>1. PICK type \in {"didClose", "didFail"} : DidEnd(type)
    BY <1>5
  <2>2. UNCHANGED <<inSent, delivered>>
    BY <2>1 DEF DidEnd, serverVars, assemblyVars
  <2>3. CallsKept
    BY <2>1, DidEndKeeps DEF Kept
  <2>4. CASE ~Alive
    BY <2>1, <2>2, <2>3, <2>4 DEF DidEnd, Alive, Ends
  <2>5. CASE Alive
    BY <2>1, <2>2, <2>3, <2>5 DEF DidEnd, OnClosed, LetGo, Ends
  <2>. QED
    BY <2>4, <2>5
<1>6. CASE Close
  <2>1. CallsKept
    BY <1>6, CloseKeeps DEF Kept
  <2>. QED
    BY <1>6, <2>1 DEF Close, Ends, serverVars, assemblyVars
<1>7. CASE Open
  <2>1. CallsKept
    BY <1>7, OpenKeeps DEF Kept
  <2>2. UNCHANGED assemblyVars /\ UNCHANGED <<readBuffer, wireIn, inSent, end>> /\ stream \in BeforeEnd
    BY <1>7 DEF Open, inputVars, serverVars, BeforeEnd
  <2>. QED
    BY <2>1, <2>2 DEF InStays
<1>8. CASE Streams
  <2>1. CallsKept
    BY <1>8, StreamsKeep DEF Kept
  <2>2. UNCHANGED assemblyVars /\ UNCHANGED <<readBuffer, inSent, end>>
    BY <1>8 DEF Streams, OpenCompleted, HasSpaceAvailable, ErrorOccurred, EndEncountered, Cleanup, socketVars,
       aboveVars, inputVars, serverVars
  <2>3. CASE ErrorOccurred
    BY <2>1, <2>2, <2>3 DEF ErrorOccurred, InLost, BeforeEnd
  <2>4. CASE OpenCompleted \/ HasSpaceAvailable \/ EndEncountered \/ Cleanup
    <3>1. UNCHANGED wireIn /\ (stream' \in BeforeEnd => stream \in BeforeEnd)
      BY <2>4 DEF OpenCompleted, HasSpaceAvailable, EndEncountered, Cleanup, socketVars, serverVars, BeforeEnd
    <3>. QED
      BY <2>1, <2>2, <3>1 DEF InStays
  <2>. QED
    BY <1>8, <2>3, <2>4 DEF Streams
<1>9. CASE Server
  <2>1. CallsKept
    BY <1>9, ServerKeeps DEF Kept
  <2>2. UNCHANGED assemblyVars /\ UNCHANGED <<readBuffer, stream, end>> /\ stream = "open"
    BY <1>9 DEF Server, ServerSends, ServerPings, ServerAnswersUpgrade, ServerFinishes, Arrives, socketVars,
       aboveVars, inputVars
  <2>3. CASE ServerSends
    BY <2>1, <2>2, <2>3 DEF ServerSends, Arrives, InArrived
  <2>4. ASSUME NEW kind \in {"ping", "accepted", "refused", "close", "malformed"},
               wireIn' = wireIn \o <<Control(kind)>>, inSent' = inSent
        PROVE  InArrived
    <3>1. Control(kind) \in SoundFrames /\ ~IsData(Control(kind))
      BY ControlFrames
    <3>. QED
      BY <2>1, <2>2, <2>4, <3>1, Zenon DEF InArrived
  <2>5. CASE ServerPings
    BY <2>2, <2>4, <2>5 DEF ServerPings, Arrives
  <2>6. CASE \E kind \in {"accepted", "refused"} : ServerAnswersUpgrade(kind)
    BY <2>2, <2>4, <2>6 DEF ServerAnswersUpgrade, Arrives
  <2>7. CASE \E kind \in {"close", "malformed"} : ServerFinishes(kind)
    BY <2>2, <2>4, <2>7 DEF ServerFinishes, Arrives
  <2>. QED
    BY <1>9, <2>2, <2>3, <2>5, <2>6, <2>7 DEF Server
<1>. QED
  BY <1>1, <1>2, <1>3, <1>4, <1>5, <1>6, <1>7, <1>8, <1>9, Zenon DEF Next, DelegateBlock, Caller

LEMMA InFlowInit == Init => InFlow /\ ErrorIsEnd
<1>1. SUFFICES ASSUME Init PROVE InFlow /\ ErrorIsEnd
  OBVIOUS
<1>2. Run(<<>>, InAll, 0, 0) /\ Run(Carried(<<>>, "message"), InAll, 0, 0)
  <2>1. <<>> \in Seq(Blocks) /\ 0 \in Nat
    BY EmptySeq
  <2>. QED
    BY <2>1, RunEmpty, QuietBlocks, QuietCarries
<1>3. /\ wireIn = <<>> /\ readBuffer = <<>> /\ delegateQueue = <<>> /\ workQueue = <<>> /\ inSent = 0
      /\ delivered = <<>> /\ frame = <<>> /\ buffering = FALSE /\ stream = "notOpen"
  BY <1>1 DEF Init
<1>4. UpTo(InSegments, inSent) = 0 /\ 0 <= 0
  BY <1>3, InNumbers
<1>5. Assembled(0)
  <2>1. Len(delivered) = 0
    BY <1>3
  <2>. QED
    BY <1>3, <1>4, <2>1 DEF Assembled
<1>6. InFlow
  BY <1>2, <1>3, <1>4, <1>5, Zenon DEF InFlow
<1>7. ~Scheduled("error")
  BY <1>3 DEF Scheduled
<1>. QED
  BY <1>3, <1>6, <1>7 DEF ErrorIsEnd

LEMMA AfterEnd ==
    ASSUME end # "none", DidReceiveMessage
    PROVE  UNCHANGED delivered
BY DEF DidReceiveMessage, AppendFrame, OnMessage, assemblyVars

LEMMA InFlowStep ==
    ASSUME Types, LetGo, ErrorIsEnd, InFlow, [Next]_vars
    PROVE  InFlow'
<1>1. CASE end' # "none"
  BY <1>1 DEF InFlow
<1>2. CASE end' = "none"
  <2>1. CASE (InStays \/ InScanned \/ InLost \/ InArrived) /\ UNCHANGED end
    BY <1>2, <2>1, InFlowStays, InFlowScanned, InFlowLost, InFlowArrived
  <2>2. CASE DidReceiveMessage
    <3>1. end = "none"
      BY <1>2, <2>2 DEF DidReceiveMessage
    <3>. QED
      BY <2>2, <3>1, MessageTaken
  <2>3. CASE Ends
    BY <1>2, <2>3 DEF Ends
  <2>. QED
    BY <2>1, <2>2, <2>3, StepsOfInput
<1>. QED
  BY <1>1, <1>2

LEMMA ServiceInit == Init => Service!Init
BY DEF Init, Service!Init

LEMMA ServiceStep ==
    ASSUME Types, LetGo, ErrorIsEnd, InFlow, [Next]_vars
    PROVE  [Service!Next]_(Service!vars)
<1>1. CASE (InStays \/ InScanned \/ InLost \/ InArrived) /\ UNCHANGED end
  <2>1. UNCHANGED delivered
    BY <1>1 DEF InStays, InScanned, InLost, InArrived, assemblyVars
  <2>2. \/ UNCHANGED inSent
        \/ inSent < Len(InSegments) /\ inSent' = inSent + 1
    BY <1>1 DEF InStays, InScanned, InLost, InArrived
  <2>. QED
    BY <1>1, <2>1, <2>2 DEF Service!Next, Service!ServerSends, Service!vars
<1>2. CASE DidReceiveMessage
  <2>1. UNCHANGED <<inSent, end>>
    BY <1>2 DEF DidReceiveMessage, serverVars
  <2>2. CASE end # "none"
    BY <1>2, <2>1, <2>2, AfterEnd DEF Service!vars
  <2>3. CASE end = "none"
    <3>1. \/ UNCHANGED delivered
          \/ Len(delivered) < inSent /\ delivered' = Append(delivered, Len(delivered) + 1)
      BY <1>2, <2>3, MessageTaken
    <3>. QED
      BY <2>1, <2>3, <3>1 DEF Service!Next, Service!Deliver, Service!vars
  <2>. QED
    BY <2>2, <2>3
<1>3. CASE Ends
  BY <1>3 DEF Ends, Service!Next, Service!Finish, Service!vars
<1>. QED
  BY <1>1, <1>2, <1>3, StepsOfInput

LEMMA ErrorIsEndInvariant == Spec => []ErrorIsEnd
<1>1. Types /\ ErrorIsEnd /\ [Next]_vars => ErrorIsEnd'
  BY ErrorIsEndStep
<1>. QED
  BY <1>1, InFlowInit, TypesInvariant, PTL DEF Spec

\* The socket implements what the connection relies on, for any messages of any length:
\* they arrive whole, in order and without a gap, whatever is read in which pieces; the
\* end is told once, not to who closed the connection, and nothing comes after it.
THEOREM SocketServes == Spec => SocketSpec
<1>1. Types /\ LetGo /\ ErrorIsEnd /\ InFlow /\ [Next]_vars => InFlow'
  BY InFlowStep
<1>2. Types /\ LetGo /\ ErrorIsEnd /\ InFlow /\ [Next]_vars => [Service!Next]_(Service!vars)
  BY ServiceStep
<1>3. Spec => []InFlow
  BY <1>1, InFlowInit, TypesInvariant, LetGoInvariant, ErrorIsEndInvariant, PTL DEF Spec
<1>. QED
  BY <1>2, <1>3, ServiceInit, TypesInvariant, LetGoInvariant, ErrorIsEndInvariant, PTL
     DEF Spec, SocketSpec, Service!Spec

-----------------------------------------------------------------------------
(* The end of the socket is the last it tells.  A socket that failed or sent *)
(* its close is closing, and a closing socket scans nothing; to disconnect   *)
(* before it is closing, a block would have to run before the one that       *)
(* closes, which is queued before it.                                        *)

ClosingOrder ==
    readyState < SR_CLOSING =>
        /\ ~closeWhenFinishedWriting /\ ~failed /\ ~sentClose
        /\ ClosesFirst(workQueue)

LEMMA PumpFlags ==
    ASSUME NEW buffer, NEW hasFailed, NEW blocks, NEW calls,
           PumpWriting(buffer, FALSE, hasFailed, blocks, calls)
    PROVE  closeWhenFinishedWriting' = FALSE /\ failed' = hasFailed /\ sentClose' = sentClose
BY DEF PumpWriting

LEMMA WriteFlags ==
    ASSUME OutputTypes, NEW f, NEW blocks, WriteData(f, blocks), ~closeWhenFinishedWriting
    PROVE  closeWhenFinishedWriting' = FALSE /\ failed' = failed /\ sentClose' = sentClose
BY PumpFlags DEF WriteData

LEMMA FlagsLeft ==
    ASSUME Types, ClosingOrder, [Next]_vars, readyState < SR_CLOSING, ~(readyState' >= SR_CLOSING)
    PROVE  ~closeWhenFinishedWriting' /\ ~failed' /\ ~sentClose'
<1>1. ~closeWhenFinishedWriting /\ ~failed /\ ~sentClose /\ OutputTypes
  BY DEF ClosingOrder, Types
<1>2. SUFFICES ASSUME ~UNCHANGED <<closeWhenFinishedWriting, failed, sentClose>>
               PROVE  ~closeWhenFinishedWriting' /\ ~failed' /\ ~sentClose'
  BY <1>1
<1>3. ~UNCHANGED outputVars
  BY <1>2 DEF outputVars
<1>4. readyState \in SR_CONNECTING..SR_CLOSED
  BY DEF Types, InputTypes
<1>5. CASE OnOpened
  <2>1. WriteData(Control("upgrade"), Rest)
    BY <1>4, <1>5 DEF OnOpened, SR_CONNECTING, SR_CLOSING, SR_CLOSED
  <2>. QED
    BY <1>1, <2>1, WriteFlags
<1>6. CASE OnSpace
  <2>1. closeWhenFinishedWriting = FALSE
    BY <1>1 DEF OutputTypes
  <2>2. PumpWriting(outputBuffer, FALSE, failed, Rest, delegateQueue)
    BY <1>6, <2>1 DEF OnSpace
  <2>3. closeWhenFinishedWriting' = FALSE /\ failed' = failed /\ sentClose' = sentClose
    BY <2>2, PumpFlags, Zenon
  <2>. QED
    BY <1>1, <2>3
<1>7. CASE OnWrite
  BY <1>1, <1>7, WriteFlags DEF OnWrite
<1>8. CASE OnStreamEnd \/ OnFail \/ OnClose
  <2>1. readyState' \in {SR_CLOSING, SR_CLOSED} \/ readyState = SR_CLOSED \/ UNCHANGED outputVars
    BY <1>8 DEF OnStreamEnd, OnFail, OnClose
  <2>. QED
    BY <1>3, <2>1 DEF SR_CLOSING, SR_CLOSED
<1>9. CASE OnDisconnect
  <2>1. workQueue \in Seq(WorkBlocks) /\ workQueue # <<>> /\ Head(workQueue)[1] = "disconnect"
    BY <1>9 DEF OnDisconnect, Running, Types, QueueTypes
  <2>2. 1 \in 1..Len(workQueue) /\ workQueue[1][1] = "disconnect"
    BY <2>1
  <2>3. \E j \in 1..Len(workQueue) : j < 1
    BY <2>2 DEF ClosingOrder, ClosesFirst
  <2>. QED
    BY <2>3
<1>10. CASE OnBytes \/ OnError \/ OnEnd \/ OnReadFrame
  BY <1>3, <1>10 DEF OnBytes, OnError, OnEnd, OnReadFrame
<1>11. CASE DelegateBlock \/ Caller \/ MainThread \/ ConnectTimeout
  BY <1>3, <1>11 DEF DelegateBlock, Caller, MainThread, ConnectTimeout, WebSocketDidOpen, DidReceiveMessage,
     HandlePing, CloseWithProtocolError, Bounce, CloseIfNeverConnected, DidEnd, SendString, Open, Close, Send,
     StartKeepAlive, NopFires, NopSends, socketVars
<1>12. CASE Streams \/ Server
  BY <1>3, <1>12 DEF Streams, OpenCompleted, HasSpaceAvailable, ErrorOccurred, EndEncountered, Cleanup, Server,
     ServerSends, ServerPings, ServerAnswersUpgrade, ServerFinishes, Arrives, socketVars
<1>13. CASE UNCHANGED vars
  BY <1>3, <1>13 DEF vars
<1>. QED
  BY <1>5, <1>6, <1>7, <1>8, <1>9, <1>10, <1>11, <1>12, <1>13, Zenon DEF Next, WorkBlock

LEMMA FirstCloses ==
    ASSUME WorkBlock, Head(workQueue)[1] = "close"
    PROVE  OnClose
BY DEF WorkBlock, OnOpened, OnBytes, OnSpace, OnError, OnEnd, OnStreamEnd, OnFail, OnDisconnect, OnWrite,
   OnReadFrame, Running

LEMMA ClosingOrderStep == ASSUME Types, ClosingOrder, [Next]_vars PROVE ClosingOrder'
<1>1. SUFFICES ASSUME readyState' < SR_CLOSING
               PROVE  /\ ~closeWhenFinishedWriting' /\ ~failed' /\ ~sentClose'
                      /\ ClosesFirst(workQueue')
  BY DEF ClosingOrder
<1>2. readyState \in 0..3 /\ readyState' \in 0..3 /\ readyState' >= readyState
  BY StepsOfOutput DEF Types, InputTypes, SR_CONNECTING, SR_CLOSED
<1>3. readyState < SR_CLOSING /\ ~(readyState' >= SR_CLOSING)
  BY <1>1, <1>2 DEF SR_CLOSING
<1>4. ~closeWhenFinishedWriting' /\ ~failed' /\ ~sentClose'
  BY <1>3, FlagsLeft
<1>5. ClosesFirst(workQueue) /\ workQueue \in Seq(WorkBlocks)
  BY <1>3 DEF ClosingOrder, Types, QueueTypes
<1>6. CASE ErrorOccurred
  <2>. DEFINE error == Block("error")
  <2>1. workQueue' = Append(workQueue, error) /\ error \in WorkBlocks /\ error[1] = "error"
    BY <1>6, WorkBlock1, BlockFields DEF ErrorOccurred, Event
  <2>. HIDE DEF error
  <2>2. workQueue' = workQueue \o <<error>> /\ <<error>> \in Seq(WorkBlocks)
        /\ Len(<<error>>) = 1 /\ <<error>>[1] = error
    BY <1>5, <2>1, Queueing
  <2>3. ClosesFirst(<<error>>)
    BY <2>1, <2>2 DEF ClosesFirst
  <2>4. ClosesFirst(workQueue \o <<error>>)
    BY <1>5, <2>2, <2>3, OrderlyConcat
  <2>. QED
    BY <1>4, <2>2, <2>4, Zenon
<1>7. CASE ~ErrorOccurred
  <2>1. PICK more \in Seq(WorkBlocks) :
            /\ Orderly(more)
            /\ \/ workQueue' = workQueue \o more
               \/ WorkBlock /\ workQueue # <<>> /\ workQueue' = Tail(workQueue) \o more
    BY <1>7, StepsMoveWork DEF WorkMoves
  <2>2. ClosesFirst(more)
    BY <2>1 DEF Orderly
  <2>3. CASE workQueue' = workQueue \o more
    <3>1. ClosesFirst(workQueue \o more)
      BY <1>5, <2>1, <2>2, OrderlyConcat
    <3>. QED
      BY <1>4, <2>3, <3>1, Zenon
  <2>4. CASE WorkBlock /\ workQueue # <<>> /\ workQueue' = Tail(workQueue) \o more
    <3>1. Head(workQueue)[1] # "close"
      <4>1. OnClose => readyState' >= SR_CLOSING
        BY <1>2 DEF OnClose, SR_CLOSING
      <4>. QED
        BY <1>3, <2>4, <4>1, FirstCloses
    <3>2. ClosesFirst(Tail(workQueue)) /\ Tail(workQueue) \in Seq(WorkBlocks)
      BY <1>5, <2>4, <3>1, OrderlyTail, Queueing
    <3>3. ClosesFirst(Tail(workQueue) \o more)
      BY <2>1, <2>2, <3>2, OrderlyConcat
    <3>. QED
      BY <1>4, <2>4, <3>3, Zenon
  <2>. QED
    BY <2>1, <2>3, <2>4
<1>. QED
  BY <1>6, <1>7

\* The positions of the messages in a queue.
MessagesOf(calls) == {i \in 1..Len(calls) : calls[i][1] = "message"}

LEMMA MessageNumbers ==
    ASSUME NEW calls \in Seq(SoundCalls)
    PROVE  /\ MessagesOf(calls) = {i \in DOMAIN calls : calls[i][1] = "message"}
           /\ IsFiniteSet(MessagesOf(calls)) /\ Cardinality(MessagesOf(calls)) \in Nat
<1>1. Len(calls) \in Nat /\ DOMAIN calls = 1..Len(calls)
  OBVIOUS
<1>2. MessagesOf(calls) \in SUBSET (1..Len(calls))
  BY DEF MessagesOf
<1>3. IsFiniteSet(1..Len(calls))
  BY <1>1, FS_Interval
<1>4. IsFiniteSet(MessagesOf(calls))
  BY <1>2, <1>3, FS_Subset
<1>. QED
  BY <1>1, <1>4, FS_CardinalityType DEF MessagesOf

LEMMA MessagesOfTail ==
    ASSUME NEW calls \in Seq(SoundCalls), calls # <<>>
    PROVE  Cardinality(MessagesOf(Tail(calls))) <= Cardinality(MessagesOf(calls))
<1>. DEFINE S == MessagesOf(Tail(calls))
            T == MessagesOf(calls)
            f == [i \in S |-> i + 1]
<1>1. /\ Len(calls) \in Nat /\ Len(Tail(calls)) = Len(calls) - 1
      /\ \A i \in 1..Len(Tail(calls)) : Tail(calls)[i] = calls[i + 1]
  OBVIOUS
<1>2. \A i \in S : i \in Nat /\ i + 1 \in T
  BY <1>1 DEF MessagesOf
<1>3. IsFiniteSet(T)
  BY MessageNumbers
<1>. HIDE DEF S, T
<1>4. f \in Injection(S, T)
  BY <1>2 DEF Injection, IsInjective
<1>. HIDE DEF f
<1>5. Cardinality(S) <= Cardinality(T)
  BY <1>3, <1>4, FS_Injection
<1>. QED
  BY <1>5 DEF S, T

LEMMA MessagesOfLonger ==
    ASSUME NEW calls \in Seq(SoundCalls), NEW more \in Seq(SoundCalls), Quiet(more, "message")
    PROVE  MessagesOf(calls \o more) = MessagesOf(calls)
<1>. DEFINE n == Len(calls)
            whole == calls \o more
<1>1. /\ Len(whole) = n + Len(more) /\ n \in Nat /\ Len(more) \in Nat
      /\ \A i \in 1..n : whole[i] = calls[i]
      /\ \A i \in 1..Len(more) : whole[n + i] = more[i]
  BY Concat
<1>2. \A i \in 1..Len(more) : more[i][1] # "message"
  <2>1. \A i \in 1..Len(more) : more[i] \in SoundCalls
    OBVIOUS
  <2>. QED
    BY <2>1 DEF Quiet, SoundCalls
<1>. HIDE DEF whole, n
<1>3. \A i \in 1..Len(whole) : i \notin 1..n => whole[i][1] # "message"
  <2>1. SUFFICES ASSUME NEW i \in 1..Len(whole), i \notin 1..n PROVE whole[i][1] # "message"
    OBVIOUS
  <2>2. i - n \in 1..Len(more) /\ n + (i - n) = i
    BY <1>1, <2>1
  <2>3. whole[n + (i - n)] = more[i - n]
    BY <1>1, <2>2
  <2>. QED
    BY <1>2, <2>2, <2>3
<1>4. \A i \in 1..n : i \in 1..Len(whole) /\ whole[i] = calls[i]
  BY <1>1
<1>5. {i \in 1..Len(whole) : whole[i][1] = "message"} = {i \in 1..n : calls[i][1] = "message"}
  BY <1>3, <1>4
<1>. QED
  BY <1>5 DEF MessagesOf, whole, n

LEMMA MessagesKept ==
    ASSUME QueueTypes, CallsKept
    PROVE  Cardinality(MessagesOf(delegateQueue')) <= Cardinality(MessagesOf(delegateQueue))
<1>1. delegateQueue \in Seq(SoundCalls)
  BY DEF QueueTypes
<1>2. PICK more \in Seq(SoundCalls) :
          /\ Quiet(more, "message")
          /\ \/ delegateQueue' = delegateQueue \o more
             \/ /\ delegateQueue # <<>> /\ Head(delegateQueue)[1] # "message"
                /\ delegateQueue' = Tail(delegateQueue) \o more
  BY DEF CallsKept
<1>3. CASE delegateQueue' = delegateQueue \o more
  <2>1. MessagesOf(delegateQueue \o more) = MessagesOf(delegateQueue)
    BY <1>1, <1>2, MessagesOfLonger
  <2>2. MessagesOf(delegateQueue') = MessagesOf(delegateQueue)
    BY <1>3, <2>1, Zenon
  <2>. QED
    BY <1>1, <2>2, MessageNumbers
<1>4. CASE delegateQueue # <<>> /\ delegateQueue' = Tail(delegateQueue) \o more
  <2>1. Tail(delegateQueue) \in Seq(SoundCalls)
    BY <1>1, <1>4, Queueing
  <2>2. MessagesOf(Tail(delegateQueue) \o more) = MessagesOf(Tail(delegateQueue))
    BY <1>2, <2>1, MessagesOfLonger
  <2>3. MessagesOf(delegateQueue') = MessagesOf(Tail(delegateQueue))
    BY <1>4, <2>2, Zenon
  <2>. QED
    BY <1>1, <1>4, <2>3, MessagesOfTail
<1>. QED
  BY <1>2, <1>3, <1>4

LEMMA NoMessageMore ==
    ASSUME Types, LetGo, ErrorIsEnd, ClosingOrder, [Next]_vars, sentClose \/ failed
    PROVE  Messages(delegateQueue') <= Messages(delegateQueue)
<1>1. delegateQueue \in Seq(SoundCalls) /\ delegateQueue' \in Seq(SoundCalls)
  BY StepsOfOutput DEF Types, QueueTypes
<1>2. ~(readyState < SR_CLOSING)
  BY DEF ClosingOrder
<1>3. Cardinality(MessagesOf(delegateQueue')) <= Cardinality(MessagesOf(delegateQueue))
  <2>1. CASE CallsKept
    BY <2>1, MessagesKept DEF Types
  <2>2. CASE InScanned
    <3>1. delegateQueue' = delegateQueue
      BY <1>2, <2>2 DEF InScanned, Scans
    <3>. QED
      BY <1>1, <3>1, MessageNumbers
  <2>3. CASE DidReceiveMessage
    BY <1>1, <2>3, MessagesOfTail DEF DidReceiveMessage, Called
  <2>. QED
    BY <2>1, <2>2, <2>3, StepsOfInput DEF InStays, InLost, InArrived, Ends
<1>. QED
  BY <1>1, <1>3, MessageNumbers, Zenon DEF Messages

\* The socket reads no message after it has queued the news of its end, in whatever order
\* failures, closes, ends of the stream and disconnects come in on its queue.
THEOREM EndComesLast == Spec => EndIsLast
<1>1. Init => ClosingOrder
  BY DEF Init, ClosingOrder, ClosesFirst
<1>2. Types /\ ClosingOrder /\ [Next]_vars => ClosingOrder'
  BY ClosingOrderStep
<1>3. Types /\ LetGo /\ ErrorIsEnd /\ ClosingOrder /\ [Next]_vars
          => [(sentClose \/ failed) => Messages(delegateQueue') <= Messages(delegateQueue)]_vars
  BY NoMessageMore
<1>4. Spec => []ClosingOrder
  BY <1>1, <1>2, TypesInvariant, PTL DEF Spec
<1>. QED
  BY <1>3, <1>4, TypesInvariant, LetGoInvariant, ErrorIsEndInvariant, PTL DEF Spec, EndIsLast
=============================================================================
