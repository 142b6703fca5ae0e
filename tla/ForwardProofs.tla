---------------------------- MODULE ForwardProofs ----------------------------
(***************************************************************************)
(* Proofs about Forward, for any number of USB/IP connections, URBs,       *)
(* unlinks, connections to the server and rounds of a recovery.            *)
(*                                                                         *)
(* ClientInv speaks of the pumps and the server, TaskInv of the tasks,     *)
(* NumberInv of the sequence numbers and of what the replies say, CopyInv  *)
(* of how many copies of a URB are under way.  Each is kept by every step  *)
(* from those before it.                                                   *)
(***************************************************************************)
EXTENDS Forward, FiniteSetTheorems, SequenceTheorems, TLAPS

-----------------------------------------------------------------------------
(* Control messages on a stream: how many of the first k there are.        *)

\* Requests and replies, with any sequence number.
Msg == [from : Callers, kind : Kinds, seq : Nat]
Rep == [from : Callers, kind : Kinds, seq : Nat, ok : BOOLEAN]
\* The callers of the messages of a sequence, and of a set.
Senders(s) == {s[k].from : k \in 1..Len(s)}
Froms(S) == {m.from : m \in S}
\* No two messages of a sequence are of one caller.
Distinct(s) == \A j, k \in 1..Len(s) : s[j].from = s[k].from => j = k

\* What a message adds to the rank.
One(m) == IF IsControl(m) THEN 1 ELSE 0

\* The control messages among the first k are finitely many, at most k.
LEMMA RankFinite ==
    ASSUME NEW s, NEW k \in Nat
    PROVE  /\ IsFiniteSet({j \in 1..k : IsControl(s[j])})
           /\ Rank(s, k) \in 0..k
<1> DEFINE S == {j \in 1..k : IsControl(s[j])}
<1>1. IsFiniteSet(1..k) /\ Cardinality(1..k) = k
  BY FS_Interval
<1>2. IsFiniteSet(S) /\ Cardinality(S) <= k
  BY <1>1, FS_Subset
<1> QED
  BY <1>2, FS_CardinalityType DEF Rank

\* A rank is a number, at most the length of the prefix.
LEMMA RankType ==
    ASSUME NEW s, NEW k \in Nat
    PROVE  Rank(s, k) \in Nat /\ Rank(s, k) <= k
<1>1. Rank(s, k) \in 0..k
  BY RankFinite, Zenon
<1> QED
  BY <1>1

\* There are none in an empty prefix.
LEMMA RankZero == ASSUME NEW s PROVE Rank(s, 0) = 0
<1>1. {j \in 1..0 : IsControl(s[j])} = {}
  OBVIOUS
<1> QED
  BY <1>1, FS_EmptySet DEF Rank

\* One message more adds itself.
LEMMA RankStep ==
    ASSUME NEW s, NEW k \in Nat \ {0}
    PROVE  Rank(s, k) = Rank(s, k - 1) + One(s[k])
<1> DEFINE S == {j \in 1..(k - 1) : IsControl(s[j])}
           R == {j \in 1..k : IsControl(s[j])}
<1>1. IsFiniteSet(S) /\ k \notin S /\ Cardinality(S) \in Nat
  <2>1. k - 1 \in Nat /\ k \notin S
    OBVIOUS
  <2>2. IsFiniteSet(S)
    BY <2>1, RankFinite, Zenon
  <2> QED
    BY <2>1, <2>2, FS_CardinalityType
<1>2. CASE IsControl(s[k])
  <2>1. R = S \cup {k}
    BY <1>2
  <2>2. Cardinality(S \cup {k}) = Cardinality(S) + 1
    BY <1>1, FS_AddElement
  <2> QED
    BY <2>1, <2>2, <1>2 DEF Rank, One
<1>3. CASE ~IsControl(s[k])
  <2>1. R = S
    BY <1>3
  <2>2. Rank(s, k) = Rank(s, k - 1) /\ Rank(s, k - 1) \in Nat
    BY <2>1, <1>1, Zenon DEF Rank
  <2> QED
    BY <2>2, <1>3 DEF One
<1> QED
  BY <1>2, <1>3

\* A longer prefix has no fewer.
LEMMA RankMonotone ==
    ASSUME NEW s, NEW j \in Nat, NEW k \in Nat, j <= k
    PROVE  Rank(s, j) <= Rank(s, k)
<1>1. {n \in 1..j : IsControl(s[n])} \subseteq {n \in 1..k : IsControl(s[n])}
  OBVIOUS
<1>2. IsFiniteSet({n \in 1..k : IsControl(s[n])})
  BY RankFinite, Zenon
<1> QED
  BY <1>1, <1>2, FS_Subset, Zenon DEF Rank

\* A control message is the last of the first ones.
LEMMA RankControl ==
    ASSUME NEW s, NEW j \in Nat \ {0}, NEW k \in Nat, j <= k, IsControl(s[j])
    PROVE  Rank(s, j) \in 1..Rank(s, k)
<1>1. Rank(s, j) = Rank(s, j - 1) + 1
  BY RankStep DEF One
<1>2. Rank(s, j - 1) \in Nat /\ Rank(s, j) \in Nat /\ Rank(s, k) \in Nat
  <2>1. j - 1 \in Nat /\ j \in Nat
    OBVIOUS
  <2> QED
    BY <2>1, RankType, Zenon
<1>3. Rank(s, j) <= Rank(s, k)
  BY RankMonotone
<1> QED
  BY <1>1, <1>2, <1>3

\* Append leaves the ranks as they are and adds the new message.
LEMMA RankAppend ==
    ASSUME NEW T, NEW s \in Seq(T), NEW m \in T
    PROVE  /\ \A k \in 0..Len(s) : Rank(Append(s, m), k) = Rank(s, k)
           /\ Rank(Append(s, m), Len(s) + 1) = Rank(s, Len(s)) + One(m)
<1>1. ASSUME NEW k \in 0..Len(s)
      PROVE  Rank(Append(s, m), k) = Rank(s, k)
  <2>1. {j \in 1..k : IsControl(Append(s, m)[j])} = {j \in 1..k : IsControl(s[j])}
    <3>1. \A j \in 1..k : Append(s, m)[j] = s[j]
      OBVIOUS
    <3> QED
      BY <3>1
  <2> QED
    BY <2>1 DEF Rank
<1>2. Len(s) \in Nat /\ Append(s, m)[Len(s) + 1] = m
  OBVIOUS
<1>3. Rank(Append(s, m), Len(s) + 1) = Rank(Append(s, m), Len(s)) + One(m)
  BY <1>2, RankStep, (Len(s) + 1) - 1 = Len(s), Len(s) + 1 \in Nat \ {0}
<1> QED
  BY <1>1, <1>2, <1>3

\* Without the head every rank is less by what the head added.
LEMMA RankTail ==
    ASSUME NEW T, NEW s \in Seq(T), s # <<>>, NEW k \in 0..(Len(s) - 1)
    PROVE  Rank(s, k + 1) = Rank(Tail(s), k) + One(Head(s))
<1> DEFINE S == {j \in 1..k : IsControl(Tail(s)[j])}
           R == {j \in 2..(k + 1) : IsControl(s[j])}
           f == [j \in S |-> j + 1]
<1>1. \A j \in 1..k : Tail(s)[j] = s[j + 1]
  OBVIOUS
<1>2. f \in Bijection(S, R)
  <2>1. f \in [S -> R]
    BY <1>1
  <2>2. \A a, b \in S : f[a] = f[b] => a = b
    OBVIOUS
  <2>3. \A b \in R : \E a \in S : f[a] = b
    <3> TAKE b \in R
    <3>1. b - 1 \in 1..k /\ (b - 1) + 1 = b
      OBVIOUS
    <3>2. b - 1 \in S
      BY <3>1, <1>1
    <3> QED
      BY <3>1, <3>2
  <2> QED
    BY <2>1, <2>2, <2>3 DEF Bijection, Injection, Surjection, IsInjective
<1>3. IsFiniteSet(S) /\ Cardinality(S) = Rank(Tail(s), k)
  <2>1. k \in Nat
    OBVIOUS
  <2> QED
    BY <2>1, RankFinite, Zenon DEF Rank
<1>4. IsFiniteSet(R) /\ Cardinality(R) = Cardinality(S)
  <2>1. ExistsBijection(S, R)
    BY <1>2 DEF ExistsBijection
  <2> QED
    BY <2>1, <1>3, FS_Bijection
<1>5. Head(s) = s[1]
  OBVIOUS
<1>6. CASE IsControl(s[1])
  <2>1. {j \in 1..(k + 1) : IsControl(s[j])} = R \cup {1}
    BY <1>6
  <2>2. Cardinality(R \cup {1}) = Cardinality(R) + 1
    BY <1>4, FS_AddElement, 1 \notin R
  <2> QED
    BY <2>1, <2>2, <1>3, <1>4, <1>5, <1>6 DEF Rank, One
<1>7. CASE ~IsControl(s[1])
  <2>1. {j \in 1..(k + 1) : IsControl(s[j])} = R
    BY <1>7
  <2>2. Rank(s, k + 1) = Rank(Tail(s), k)
    BY <2>1, <1>3, <1>4, Zenon DEF Rank
  <2>3. Rank(Tail(s), k) \in Nat
    BY <1>3, FS_CardinalityType, Zenon
  <2> QED
    BY <2>2, <2>3, <1>5, <1>7 DEF One
<1> QED
  BY <1>6, <1>7


\* A request written behind the others does not disturb the replies under way.
LEMMA RepliesWrite ==
    ASSUME NEW u \in Seq(Msg), NEW b \in Seq(Rep), NEW m \in Msg, RepliesInStep(u, b)
    PROVE  RepliesInStep(Append(u, m), b)
<1>1. Len(b) \in Nat /\ Len(u) \in Nat /\ Rank(b, Len(b)) \in Nat
  BY RankType
<1>2. Rank(b, Len(b)) <= Len(Append(u, m))
  BY <1>1 DEF RepliesInStep
<1>3. ASSUME NEW k \in 1..Len(b), IsControl(b[k])
      PROVE  Append(u, m)[Rank(b, k)] = [from |-> b[k].from, kind |-> b[k].kind, seq |-> b[k].seq]
  <2>1. k \in Nat \ {0} /\ k <= Len(b)
    BY <1>1
  <2>2. Rank(b, k) \in 1..Rank(b, Len(b))
    BY <1>1, <1>3, <2>1, RankControl
  <2>3. Rank(b, k) \in 1..Len(u)
    BY <1>1, <2>2 DEF RepliesInStep
  <2>4. Append(u, m)[Rank(b, k)] = u[Rank(b, k)]
    BY <2>3
  <2> QED
    BY <2>4, <1>3 DEF RepliesInStep
<1> QED
  BY <1>2, <1>3 DEF RepliesInStep

\* A control request is put at the end of the FIFO and of the stream at once.
LEMMA RequestsWrite ==
    ASSUME NEW u \in Seq(Msg), NEW b \in Seq(Rep), NEW w \in Seq(Msg), NEW m \in Msg,
           IsControl(m), RequestsInStep(u, b, w)
    PROVE  RequestsInStep(Append(u, m), b, Append(w, m))
<1> DEFINE n == Rank(b, Len(b))
<1>1. Len(b) \in Nat /\ Len(u) \in Nat /\ Len(w) \in Nat
  OBVIOUS
<1>2. n \in Nat /\ Rank(w, Len(w)) \in Nat /\ Len(u) = n + Rank(w, Len(w))
  BY <1>1, RankType DEF RequestsInStep
<1>3. Len(Append(w, m)) = Len(w) + 1 /\ Len(Append(u, m)) = Len(u) + 1
  OBVIOUS
<1>4. Rank(Append(w, m), Len(w) + 1) = Rank(w, Len(w)) + 1
  BY RankAppend DEF One
<1>5. ASSUME NEW k \in 1..(Len(w) + 1), IsControl(Append(w, m)[k])
      PROVE  Append(u, m)[n + Rank(Append(w, m), k)] = Append(w, m)[k]
  <2>1. CASE k = Len(w) + 1
    <3>1. n + Rank(Append(w, m), k) = Len(u) + 1
      BY <2>1, <1>2, <1>4
    <3>2. Append(u, m)[Len(u) + 1] = m /\ Append(w, m)[k] = m
      BY <2>1
    <3> QED
      BY <3>1, <3>2
  <2>2. CASE k \in 1..Len(w)
    <3>1. Append(w, m)[k] = w[k] /\ k \in Nat \ {0} /\ k <= Len(w)
      BY <2>2
    <3>2. Rank(Append(w, m), k) = Rank(w, k)
      BY <2>2, RankAppend
    <3>3. Rank(w, k) \in 1..Rank(w, Len(w))
      BY <3>1, <1>1, <1>5, RankControl
    <3>4. n + Rank(w, k) \in 1..Len(u)
      BY <3>3, <1>2
    <3>5. Append(u, m)[n + Rank(w, k)] = u[n + Rank(w, k)]
      BY <3>4
    <3> QED
      BY <2>2, <3>1, <3>2, <3>5, <1>5 DEF RequestsInStep
  <2>3. k = Len(w) + 1 \/ k \in 1..Len(w)
    BY <1>1
  <2> QED
    BY <2>1, <2>2, <2>3, Zenon
<1>6. Len(Append(u, m)) = n + Rank(Append(w, m), Len(Append(w, m)))
  <2> HIDE DEF n
  <2> QED
    BY <1>2, <1>3, <1>4
<1>7. \A k \in 1..Len(Append(w, m)) : IsControl(Append(w, m)[k]) =>
         Append(u, m)[n + Rank(Append(w, m), k)] = Append(w, m)[k]
  BY <1>3, <1>5, Zenon
<1> QED
  BY <1>6, <1>7, Zenon DEF RequestsInStep

\* A URB or an unlink is put on the stream only.
LEMMA RequestsWriteOther ==
    ASSUME NEW u \in Seq(Msg), NEW b \in Seq(Rep), NEW w \in Seq(Msg), NEW m \in Msg,
           ~IsControl(m), RequestsInStep(u, b, w)
    PROVE  RequestsInStep(u, b, Append(w, m))
<1>1. Len(w) \in Nat /\ Len(Append(w, m)) = Len(w) + 1 /\ Rank(w, Len(w)) \in Nat
  BY RankType
<1>2. Rank(Append(w, m), Len(w) + 1) = Rank(w, Len(w))
  BY <1>1, RankAppend DEF One
<1>3. ASSUME NEW k \in 1..(Len(w) + 1), IsControl(Append(w, m)[k])
      PROVE  u[Rank(b, Len(b)) + Rank(Append(w, m), k)] = Append(w, m)[k]
  <2>1. k # Len(w) + 1
    BY <1>3
  <2>2. k \in 1..Len(w)
    BY <2>1, <1>1
  <2>3. Append(w, m)[k] = w[k]
    BY <2>2
  <2>4. Rank(Append(w, m), k) = Rank(w, k)
    BY <2>2, RankAppend
  <2> QED
    BY <2>2, <2>3, <2>4, <1>3 DEF RequestsInStep
<1> QED
  BY <1>1, <1>2, <1>3 DEF RequestsInStep

\* The reply at the head of the stream is that of the request at the front.
LEMMA ReadFirst ==
    ASSUME NEW u \in Seq(Msg), NEW b \in Seq(Rep), b # <<>>, IsControl(Head(b)),
           RepliesInStep(u, b)
    PROVE  /\ u # <<>> /\ Head(u).from = Head(b).from /\ Head(u).kind = Head(b).kind
           /\ RepliesInStep(Tail(u), Tail(b))
           /\ Rank(b, Len(b)) = Rank(Tail(b), Len(Tail(b))) + 1
<1>1. /\ Len(b) \in Nat \ {0} /\ Len(u) \in Nat /\ Len(Tail(b)) = Len(b) - 1
      /\ Head(b) = b[1] /\ Tail(b) \in Seq(Rep) /\ (Tail(u) \in Seq(Msg) \/ u = <<>>)
  OBVIOUS
<1>2. Rank(b, 1) = 1
  <2>1. Rank(b, 1) = Rank(b, 1 - 1) + One(b[1])
    BY RankStep, 1 \in Nat \ {0}
  <2> QED
    BY <2>1, <1>1, RankZero DEF One
<1>3. Rank(b, Len(b)) \in Nat /\ 1 <= Rank(b, Len(b)) /\ 1 \in 1..Len(b)
  BY <1>1, <1>2, RankMonotone, RankType
<1>4. u # <<>> /\ Len(u) >= 1 /\ Head(u) = u[1] /\ Tail(u) \in Seq(Msg) /\ Len(Tail(u)) = Len(u) - 1
  <2>1. Len(u) >= 1
    BY <1>1, <1>3 DEF RepliesInStep
  <2> QED
    BY <2>1
<1>5. u[1] = [from |-> b[1].from, kind |-> b[1].kind, seq |-> b[1].seq]
  BY <1>1, <1>2, <1>3 DEF RepliesInStep
<1>6. ASSUME NEW k \in 0..(Len(b) - 1)
      PROVE  Rank(b, k + 1) = Rank(Tail(b), k) + 1 /\ Rank(Tail(b), k) \in Nat
  <2>1. Rank(b, k + 1) = Rank(Tail(b), k) + One(Head(b))
    BY RankTail
  <2>2. Rank(Tail(b), k) \in Nat
    BY <1>1, RankType, k \in Nat
  <2> QED
    BY <2>1, <2>2 DEF One
<1>7. Rank(b, Len(b)) = Rank(Tail(b), Len(Tail(b))) + 1 /\ Rank(Tail(b), Len(Tail(b))) \in Nat
  BY <1>1, <1>6, Len(b) - 1 \in 0..(Len(b) - 1), (Len(b) - 1) + 1 = Len(b)
<1>8. Rank(Tail(b), Len(Tail(b))) <= Len(Tail(u))
  BY <1>7, <1>4, <1>1 DEF RepliesInStep
<1>9. ASSUME NEW k \in 1..Len(Tail(b)), IsControl(Tail(b)[k])
      PROVE  Tail(u)[Rank(Tail(b), k)] =
               [from |-> Tail(b)[k].from, kind |-> Tail(b)[k].kind, seq |-> Tail(b)[k].seq]
  <2>1. k + 1 \in 1..Len(b) /\ Tail(b)[k] = b[k + 1] /\ k \in 0..(Len(b) - 1) /\ k \in Nat \ {0}
        /\ k <= Len(Tail(b)) /\ Len(Tail(b)) \in Nat
    BY <1>1
  <2>2. Rank(b, k + 1) = Rank(Tail(b), k) + 1
    BY <2>1, <1>6
  <2>3. Rank(Tail(b), k) \in 1..Rank(Tail(b), Len(Tail(b)))
    BY <2>1, <1>9, RankControl
  <2>4. Rank(Tail(b), k) \in 1..Len(Tail(u))
    BY <2>3, <1>8, <1>7, <1>4
  <2>5. Tail(u)[Rank(Tail(b), k)] = u[Rank(Tail(b), k) + 1]
    BY <2>4, <1>4
  <2>6. u[Rank(b, k + 1)] = [from |-> b[k + 1].from, kind |-> b[k + 1].kind, seq |-> b[k + 1].seq]
    BY <2>1, <1>9 DEF RepliesInStep
  <2> QED
    BY <2>1, <2>2, <2>5, <2>6
<1>10. RepliesInStep(Tail(u), Tail(b))
  BY <1>8, <1>9, Zenon DEF RepliesInStep
<1>11. Head(u).from = Head(b).from /\ Head(u).kind = Head(b).kind
  BY <1>1, <1>4, <1>5
<1> QED
  BY <1>4, <1>7, <1>10, <1>11, Zenon

\* The requests under way stay in step when the first reply is read.
LEMMA ReadFirstRequests ==
    ASSUME NEW u \in Seq(Msg), NEW b \in Seq(Rep), NEW w \in Seq(Msg), b # <<>>, IsControl(Head(b)),
           RepliesInStep(u, b), RequestsInStep(u, b, w)
    PROVE  RequestsInStep(Tail(u), Tail(b), w)
<1> DEFINE n == Rank(b, Len(b))
           t == Rank(Tail(b), Len(Tail(b)))
<1>1. u # <<>> /\ n = t + 1
  BY ReadFirst
<1>2. t \in Nat /\ Rank(w, Len(w)) \in Nat /\ Len(w) \in Nat
  <2>1. Tail(b) \in Seq(Rep) /\ Len(Tail(b)) \in Nat /\ Len(w) \in Nat
    OBVIOUS
  <2> QED
    BY <2>1, RankType
<1>3. Len(u) = n + Rank(w, Len(w))
  BY DEF RequestsInStep
<1>4. Len(Tail(u)) = t + Rank(w, Len(w)) /\ Len(u) \in Nat
  BY <1>1, <1>2, <1>3
<1>5. ASSUME NEW k \in 1..Len(w), IsControl(w[k])
      PROVE  Tail(u)[t + Rank(w, k)] = w[k]
  <2>1. u[n + Rank(w, k)] = w[k]
    BY <1>5 DEF RequestsInStep
  <2>2. Rank(w, k) \in 1..Rank(w, Len(w))
    BY <1>2, <1>5, RankControl, k \in Nat \ {0}
  <2>3. t + Rank(w, k) \in 1..Len(Tail(u)) /\ n + Rank(w, k) = (t + Rank(w, k)) + 1
    <3> HIDE DEF n, t
    <3> QED
      BY <2>2, <1>1, <1>2, <1>4
  <2>4. Tail(u)[t + Rank(w, k)] = u[(t + Rank(w, k)) + 1]
    BY <2>3, <1>1
  <2> QED
    BY <2>1, <2>3, <2>4
<1> QED
  BY <1>4, <1>5 DEF RequestsInStep


\* The reply to a URB or an unlink leaves the FIFO alone.
LEMMA ReadOther ==
    ASSUME NEW u \in Seq(Msg), NEW b \in Seq(Rep), b # <<>>, ~IsControl(Head(b)),
           RepliesInStep(u, b)
    PROVE  /\ RepliesInStep(u, Tail(b))
           /\ Rank(Tail(b), Len(Tail(b))) = Rank(b, Len(b))
<1>1. /\ Len(b) \in Nat \ {0} /\ Len(Tail(b)) = Len(b) - 1 /\ Tail(b) \in Seq(Rep)
  OBVIOUS
<1>2. ASSUME NEW k \in 0..(Len(b) - 1)
      PROVE  Rank(b, k + 1) = Rank(Tail(b), k)
  <2>1. Rank(b, k + 1) = Rank(Tail(b), k) + One(Head(b))
    BY RankTail
  <2>2. Rank(Tail(b), k) \in Nat
    BY <1>1, RankType, k \in Nat
  <2> QED
    BY <2>1, <2>2 DEF One
<1>3. Rank(Tail(b), Len(Tail(b))) = Rank(b, Len(b))
  BY <1>1, <1>2, Len(b) - 1 \in 0..(Len(b) - 1), (Len(b) - 1) + 1 = Len(b)
<1>4. ASSUME NEW k \in 1..Len(Tail(b)), IsControl(Tail(b)[k])
      PROVE  u[Rank(Tail(b), k)] =
               [from |-> Tail(b)[k].from, kind |-> Tail(b)[k].kind, seq |-> Tail(b)[k].seq]
  <2>1. k + 1 \in 1..Len(b) /\ Tail(b)[k] = b[k + 1] /\ k \in 0..(Len(b) - 1)
    BY <1>1
  <2>2. Rank(b, k + 1) = Rank(Tail(b), k)
    BY <2>1, <1>2
  <2>3. u[Rank(b, k + 1)] = [from |-> b[k + 1].from, kind |-> b[k + 1].kind, seq |-> b[k + 1].seq]
    BY <2>1, <1>4 DEF RepliesInStep
  <2> QED
    BY <2>1, <2>2, <2>3
<1>5. Rank(Tail(b), Len(Tail(b))) <= Len(u)
  BY <1>3 DEF RepliesInStep
<1> QED
  BY <1>3, <1>4, <1>5, Zenon DEF RepliesInStep

\* So the requests under way stay in step with it as well.
LEMMA ReadOtherRequests ==
    ASSUME NEW u \in Seq(Msg), NEW b \in Seq(Rep), NEW w \in Seq(Msg), b # <<>>, ~IsControl(Head(b)),
           RepliesInStep(u, b), RequestsInStep(u, b, w)
    PROVE  RequestsInStep(u, Tail(b), w)
<1>1. Rank(Tail(b), Len(Tail(b))) = Rank(b, Len(b))
  BY ReadOther
<1> QED
  BY <1>1 DEF RequestsInStep

\* The reply to the request at the head of the stream is put after the others.
LEMMA AnswerControl ==
    ASSUME NEW u \in Seq(Msg), NEW b \in Seq(Rep), NEW w \in Seq(Msg), w # <<>>, NEW r \in Rep,
           IsControl(Head(w)),
           Head(w) = [from |-> r.from, kind |-> r.kind, seq |-> r.seq],
           RepliesInStep(u, b), RequestsInStep(u, b, w)
    PROVE  RepliesInStep(u, Append(b, r)) /\ RequestsInStep(u, Append(b, r), Tail(w))
<1> DEFINE n == Rank(b, Len(b))
           a == Append(b, r)
           t == Tail(w)
<1>1. /\ Len(b) \in Nat /\ Len(u) \in Nat /\ Len(w) \in Nat \ {0} /\ Len(t) = Len(w) - 1
      /\ Len(a) = Len(b) + 1 /\ a \in Seq(Rep) /\ t \in Seq(Msg) /\ Head(w) = w[1]
  OBVIOUS
<1>2. IsControl(r)
  BY DEF IsControl
<1>3. Rank(a, Len(b) + 1) = n + 1 /\ n \in Nat
  BY <1>1, <1>2, RankAppend, RankType DEF One
<1>4. ASSUME NEW k \in 0..(Len(w) - 1)
      PROVE  Rank(w, k + 1) = Rank(t, k) + 1 /\ Rank(t, k) \in Nat
  <2>1. Rank(w, k + 1) = Rank(t, k) + One(Head(w))
    BY RankTail
  <2>2. Rank(t, k) \in Nat
    BY <1>1, RankType, k \in Nat
  <2> QED
    BY <2>1, <2>2 DEF One
<1>5. Rank(w, Len(w)) = Rank(t, Len(t)) + 1 /\ Rank(t, Len(t)) \in Nat
  BY <1>1, <1>4, Len(w) - 1 \in 0..(Len(w) - 1), (Len(w) - 1) + 1 = Len(w)
<1>6. Len(u) = n + Rank(w, Len(w))
  BY DEF RequestsInStep
<1>7. Rank(w, 1) = 1
  <2>1. Rank(w, 0 + 1) = Rank(t, 0) + 1
    BY <1>1, <1>4
  <2> QED
    BY <2>1, RankZero
<1>8. u[n + 1] = [from |-> r.from, kind |-> r.kind, seq |-> r.seq]
  BY <1>1, <1>7, 1 \in 1..Len(w) DEF RequestsInStep
<1>9. Rank(a, Len(a)) <= Len(u)
  <2> HIDE DEF n, a, t
  <2> QED
    BY <1>1, <1>3, <1>5, <1>6
<1>10. ASSUME NEW k \in 1..Len(a), IsControl(a[k])
       PROVE  u[Rank(a, k)] = [from |-> a[k].from, kind |-> a[k].kind, seq |-> a[k].seq]
  <2>1. CASE k = Len(b) + 1
    <3>1. a[k] = r /\ Rank(a, k) = n + 1
      BY <2>1, <1>3
    <3> QED
      BY <3>1, <1>8
  <2>2. CASE k \in 1..Len(b)
    <3>1. a[k] = b[k] /\ k \in 0..Len(b)
      BY <2>2
    <3>2. Rank(a, k) = Rank(b, k)
      BY <3>1, RankAppend
    <3> QED
      BY <2>2, <3>1, <3>2, <1>10 DEF RepliesInStep
  <2>3. k = Len(b) + 1 \/ k \in 1..Len(b)
    BY <1>1
  <2> QED
    BY <2>1, <2>2, <2>3, Zenon
<1>11. Len(u) = Rank(a, Len(a)) + Rank(t, Len(t))
  <2> HIDE DEF n, a, t
  <2> QED
    BY <1>1, <1>3, <1>5, <1>6
<1>12. ASSUME NEW k \in 1..Len(t), IsControl(t[k])
       PROVE  u[Rank(a, Len(a)) + Rank(t, k)] = t[k]
  <2>1. k + 1 \in 1..Len(w) /\ t[k] = w[k + 1] /\ k \in 0..(Len(w) - 1)
    BY <1>1
  <2>2. u[n + Rank(w, k + 1)] = w[k + 1]
    BY <2>1, <1>12 DEF RequestsInStep
  <2>3. n + Rank(w, k + 1) = Rank(a, Len(a)) + Rank(t, k)
    <3>1. Rank(w, k + 1) = Rank(t, k) + 1 /\ Rank(t, k) \in Nat
      BY <2>1, <1>4
    <3> HIDE DEF n, a, t
    <3> QED
      BY <3>1, <1>1, <1>3
  <2> QED
    BY <2>1, <2>2, <2>3
<1>13. RepliesInStep(u, a)
  BY <1>9, <1>10, Zenon DEF RepliesInStep
<1>14. RequestsInStep(u, a, t)
  BY <1>11, <1>12, Zenon DEF RequestsInStep
<1> QED
  BY <1>13, <1>14

\* The reply to a URB or an unlink may be put anywhere among the others.
LEMMA AnswerOther ==
    ASSUME NEW u \in Seq(Msg), NEW b \in Seq(Rep), NEW r \in Rep, ~IsControl(r),
           RepliesInStep(u, b)
    PROVE  /\ RepliesInStep(u, Append(b, r))
           /\ Rank(Append(b, r), Len(Append(b, r))) = Rank(b, Len(b))
<1> DEFINE a == Append(b, r)
<1>1. Len(b) \in Nat /\ Len(a) = Len(b) + 1 /\ Rank(b, Len(b)) \in Nat
  BY RankType
<1>2. Rank(a, Len(b) + 1) = Rank(b, Len(b))
  BY <1>1, RankAppend DEF One
<1>3. ASSUME NEW k \in 1..Len(a), IsControl(a[k])
      PROVE  u[Rank(a, k)] = [from |-> a[k].from, kind |-> a[k].kind, seq |-> a[k].seq]
  <2>1. k # Len(b) + 1
    BY <1>3
  <2>2. k \in 1..Len(b) /\ k \in 0..Len(b)
    BY <2>1, <1>1
  <2>3. a[k] = b[k]
    BY <2>2
  <2>4. Rank(a, k) = Rank(b, k)
    BY <2>2, RankAppend
  <2> QED
    BY <2>2, <2>3, <2>4, <1>3 DEF RepliesInStep
<1>4. Rank(a, Len(a)) = Rank(b, Len(b)) /\ Rank(a, Len(a)) <= Len(u)
  BY <1>1, <1>2 DEF RepliesInStep
<1> QED
  BY <1>3, <1>4, Zenon DEF RepliesInStep

\* It does not disturb the requests under way either.
LEMMA AnswerOtherRequests ==
    ASSUME NEW u \in Seq(Msg), NEW b \in Seq(Rep), NEW w \in Seq(Msg), NEW r \in Rep,
           ~IsControl(r), RepliesInStep(u, b), RequestsInStep(u, b, w)
    PROVE  RequestsInStep(u, Append(b, r), w)
<1>1. Rank(Append(b, r), Len(Append(b, r))) = Rank(b, Len(b))
  BY AnswerOther
<1> QED
  BY <1>1 DEF RequestsInStep

\* A URB or an unlink is read off the stream.
LEMMA TakeOther ==
    ASSUME NEW u \in Seq(Msg), NEW b \in Seq(Rep), NEW w \in Seq(Msg), w # <<>>,
           ~IsControl(Head(w)), RequestsInStep(u, b, w)
    PROVE  RequestsInStep(u, b, Tail(w))
<1> DEFINE t == Tail(w)
<1>1. Len(w) \in Nat \ {0} /\ Len(t) = Len(w) - 1 /\ t \in Seq(Msg)
  OBVIOUS
<1>2. ASSUME NEW k \in 0..(Len(w) - 1)
      PROVE  Rank(w, k + 1) = Rank(t, k)
  <2>1. Rank(w, k + 1) = Rank(t, k) + One(Head(w))
    BY RankTail
  <2>2. Rank(t, k) \in Nat
    BY <1>1, RankType, k \in Nat
  <2> QED
    BY <2>1, <2>2 DEF One
<1>3. Rank(w, Len(w)) = Rank(t, Len(t))
  BY <1>1, <1>2, Len(w) - 1 \in 0..(Len(w) - 1), (Len(w) - 1) + 1 = Len(w)
<1>4. ASSUME NEW k \in 1..Len(t), IsControl(t[k])
      PROVE  u[Rank(b, Len(b)) + Rank(t, k)] = t[k]
  <2>1. k + 1 \in 1..Len(w) /\ t[k] = w[k + 1] /\ k \in 0..(Len(w) - 1)
    BY <1>1
  <2>2. u[Rank(b, Len(b)) + Rank(w, k + 1)] = w[k + 1]
    BY <2>1, <1>4 DEF RequestsInStep
  <2>3. Rank(w, k + 1) = Rank(t, k)
    BY <2>1, <1>2
  <2> QED
    BY <2>1, <2>2, <2>3
<1>5. Len(u) = Rank(b, Len(b)) + Rank(t, Len(t))
  BY <1>3 DEF RequestsInStep
<1> QED
  BY <1>4, <1>5, Zenon DEF RequestsInStep

\* The callers of a sequence that has grown.
LEMMA SendersAppend ==
    ASSUME NEW s \in Seq(Msg), NEW m \in Msg
    PROVE  /\ Senders(Append(s, m)) = Senders(s) \cup {m.from}
           /\ Distinct(s) /\ m.from \notin Senders(s) => Distinct(Append(s, m))
<1>1. /\ Len(s) \in Nat /\ Len(Append(s, m)) = Len(s) + 1 /\ Append(s, m)[Len(s) + 1] = m
      /\ \A k \in 1..Len(s) : Append(s, m)[k] = s[k]
  OBVIOUS
<1>2. \A k \in 1..(Len(s) + 1) : k = Len(s) + 1 \/ k \in 1..Len(s)
  BY <1>1
<1>3. 1..Len(s) \subseteq 1..(Len(s) + 1) /\ Len(s) + 1 \in 1..(Len(s) + 1)
  BY <1>1
<1>4. Senders(Append(s, m)) = Senders(s) \cup {m.from}
  BY <1>1, <1>2, <1>3, Zenon DEF Senders
<1>5. ASSUME Distinct(s), m.from \notin Senders(s)
      PROVE  Distinct(Append(s, m))
  <2>1. \A k \in 1..Len(s) : s[k].from # m.from
    BY <1>5 DEF Senders
  <2> QED
    BY <1>1, <1>2, <1>5, <2>1, Zenon DEF Distinct
<1> QED
  BY <1>4, <1>5

\* The callers of a sequence that has lost its head.
LEMMA SendersTail ==
    ASSUME NEW s \in Seq(Msg), s # <<>>, Distinct(s)
    PROVE  /\ Senders(Tail(s)) = Senders(s) \ {Head(s).from}
           /\ Head(s).from \in Senders(s) /\ Head(s) \in Msg
           /\ Distinct(Tail(s))
<1>1. /\ Len(s) \in Nat \ {0} /\ Len(Tail(s)) = Len(s) - 1 /\ Head(s) = s[1]
      /\ 1 \in 1..Len(s) /\ s[1] \in Msg
      /\ \A k \in 1..(Len(s) - 1) : Tail(s)[k] = s[k + 1]
  OBVIOUS
<1>2. \A k \in 1..(Len(s) - 1) : k + 1 \in 1..Len(s) /\ k + 1 # 1
  BY <1>1
<1>3. ASSUME NEW k \in 1..Len(s), k # 1
      PROVE  \E j \in 1..(Len(s) - 1) : k = j + 1
  <2>1. k - 1 \in 1..(Len(s) - 1) /\ k = (k - 1) + 1
    BY <1>1, <1>3
  <2> QED
    BY <2>1
<1>4. Senders(Tail(s)) = Senders(s) \ {Head(s).from}
  <2>1. ASSUME NEW k \in 1..(Len(s) - 1)
        PROVE  Tail(s)[k].from \in Senders(s) /\ Tail(s)[k].from # s[1].from
    <3>1. Tail(s)[k] = s[k + 1] /\ k + 1 \in 1..Len(s) /\ k + 1 # 1
      BY <1>1, <1>2
    <3>2. s[k + 1].from # s[1].from
      BY <3>1, <1>1 DEF Distinct
    <3> QED
      BY <3>1, <3>2 DEF Senders
  <2>2. ASSUME NEW k \in 1..Len(s), s[k].from # s[1].from
        PROVE  \E j \in 1..(Len(s) - 1) : Tail(s)[j].from = s[k].from
    BY <1>1, <1>3, <2>2, Zenon
  <2>3. ASSUME NEW x \in Senders(Tail(s))
        PROVE  x \in Senders(s) /\ x # s[1].from
    <3>1. PICK k \in 1..(Len(s) - 1) : x = Tail(s)[k].from
      BY <1>1 DEF Senders
    <3> QED
      BY <3>1, <2>1, Zenon
  <2>4. ASSUME NEW x \in Senders(s), x # s[1].from
        PROVE  x \in Senders(Tail(s))
    <3>1. PICK k \in 1..Len(s) : x = s[k].from
      BY DEF Senders
    <3>2. PICK j \in 1..(Len(s) - 1) : Tail(s)[j].from = x
      BY <3>1, <2>4, <2>2, Zenon
    <3> QED
      BY <1>1, <3>2 DEF Senders
  <2> QED
    BY <1>1, <2>3, <2>4
<1>5. Distinct(Tail(s))
  <2>1. ASSUME NEW j \in 1..(Len(s) - 1), NEW k \in 1..(Len(s) - 1),
               Tail(s)[j].from = Tail(s)[k].from
        PROVE  j = k
    <3>1. j + 1 \in 1..Len(s) /\ k + 1 \in 1..Len(s) /\ s[j + 1].from = s[k + 1].from
      BY <1>1, <1>2, <2>1
    <3>2. j + 1 = k + 1
      BY <3>1 DEF Distinct
    <3> QED
      BY <3>2
  <2> QED
    BY <1>1, <2>1, Zenon DEF Distinct
<1>6. Head(s).from \in Senders(s)
  BY <1>1, Zenon DEF Senders
<1> QED
  BY <1>1, <1>4, <1>5, <1>6

-----------------------------------------------------------------------------
(* The invariant of the client.                                            *)

\* What the oneshot of a caller may hold.
Answers == {"none", "waiting", "ok", "refused", "closed"}

\* The client names connections that have been opened.
Pointers == opened \in Pumps /\ cmd_tx \in 1..opened /\ pump_task \in 1..opened

\* The types of the state of the client and the server; no bound on the numbers.
ClientTypes ==
    /\ pump \in [Pumps -> {"none", "running", "aborted", "ended"}]
    /\ queue \in [Pumps -> Seq(Msg)] /\ control \in [Pumps -> Seq(Msg)]
    /\ pending \in [Pumps -> SUBSET Msg]
    /\ answer \in [Callers -> Answers]
    /\ link \in [Pumps -> BOOLEAN]
    /\ wire \in [Pumps -> Seq(Msg)] /\ back \in [Pumps -> Seq(Rep)]
    /\ serving \in [Pumps -> SUBSET Msg]
    /\ executed \in [Callers -> Nat]

\* A connection that is not open yet has nothing on it; a pump that does not run
\* holds nothing, and its connection is down.
NothingLeft(i) ==
    /\ i > opened <=> pump[i] = "none"
    /\ pump[i] = "none" => wire[i] = <<>> /\ back[i] = <<>> /\ serving[i] = {}
    /\ ~Runs(i) => ~link[i] /\ queue[i] = <<>> /\ control[i] = <<>> /\ pending[i] = {}

\* Control requests wait in the FIFO, all others in the maps; URBs run on the server.
Sorted(i) ==
    /\ \A k \in 1..Len(control[i]) : IsControl(control[i][k])
    /\ \A m \in pending[i] : ~IsControl(m)
    /\ \A m \in serving[i] : m.kind = "urb"

\* A caller has at most one request, in one place of one pump.
OnePlace(i) ==
    /\ Distinct(queue[i]) /\ Distinct(control[i])
    /\ \A x, y \in pending[i] : x.from = y.from => x = y
    /\ Senders(queue[i]) \cap Senders(control[i]) = {}
    /\ Senders(queue[i]) \cap Froms(pending[i]) = {}
    /\ Senders(control[i]) \cap Froms(pending[i]) = {}

\* Also on a connection that is down the replies that are left are in step.
InStep(i) ==
    Runs(i) => /\ RepliesInStep(control[i], back[i])
               /\ link[i] => RequestsInStep(control[i], back[i], wire[i])

\* All of it, for one pump.
PumpInv(i) == NothingLeft(i) /\ Sorted(i) /\ OnePlace(i) /\ InStep(i)

\* No caller is held by two pumps.
Apart == \A i, j \in Pumps : i # j => Held(i) \cap Held(j) = {}

\* It waits iff it has one.
HeldWait == \A c \in Callers : answer[c] = "waiting" <=> \E i \in Pumps : c \in Held(i)

\* The inductive invariant of the client.
ClientInv ==
    Pointers /\ ClientTypes /\ (\A i \in Pumps : PumpInv(i)) /\ Apart /\ HeldWait

\* The senders of requests are callers.
LEMMA SendersCallers ==
    ASSUME NEW s \in Seq(Msg)
    PROVE  Senders(s) \subseteq Callers
<1>1. \A k \in 1..Len(s) : s[k] \in Msg
  OBVIOUS
<1>2. \A m \in Msg : m.from \in Callers
  BY DEF Msg
<1> QED
  BY <1>1, <1>2, Zenon DEF Senders

\* What a pump holds is in its channel, in its FIFO and in its maps.
LEMMA HeldParts ==
    ASSUME ClientTypes
    PROVE  \A i \in Pumps :
             /\ Held(i) = Froms(pending[i]) \cup Senders(control[i]) \cup Senders(queue[i])
             /\ Held(i) \subseteq Callers
<1> TAKE i \in Pumps
<1>1. queue[i] \in Seq(Msg) /\ control[i] \in Seq(Msg) /\ pending[i] \subseteq Msg
  BY DEF ClientTypes
<1>2. DOMAIN queue[i] = 1..Len(queue[i]) /\ DOMAIN control[i] = 1..Len(control[i])
  BY <1>1
<1>3. Held(i) = Froms(pending[i]) \cup Senders(control[i]) \cup Senders(queue[i])
  BY <1>2, Zenon DEF Held, ToSet, Froms, Senders
<1>4. Froms(pending[i]) \subseteq Callers
  BY <1>1 DEF Froms, Msg
<1> QED
  BY <1>1, <1>3, <1>4, SendersCallers

\* The same in the next state.
LEMMA HeldPartsNext ==
    ASSUME ClientTypes'
    PROVE  \A i \in Pumps :
             Held(i)' = Froms(pending'[i]) \cup Senders(control'[i]) \cup Senders(queue'[i])
<1> TAKE i \in Pumps
<1>1. queue'[i] \in Seq(Msg) /\ control'[i] \in Seq(Msg)
  BY DEF ClientTypes
<1>2. DOMAIN queue'[i] = 1..Len(queue'[i]) /\ DOMAIN control'[i] = 1..Len(control'[i])
  BY <1>1
<1> QED
  BY <1>2, Zenon DEF Held, ToSet, Froms, Senders

\* A pump lets go of some of its callers, each of which it answers.
LEMMA Released ==
    ASSUME Apart, HeldWait, NEW i \in Pumps,
           Held(i)' \subseteq Held(i),
           \A j \in Pumps : j # i => Held(j)' = Held(j),
           \A c \in Callers : IF c \in Held(i) /\ c \notin Held(i)'
                              THEN answer'[c] # "waiting"
                              ELSE answer'[c] = "waiting" <=> answer[c] = "waiting"
    PROVE  Apart' /\ HeldWait'
<1>1. \A j \in Pumps : Held(j)' \subseteq Held(j)
  OBVIOUS
<1>2. Apart'
  BY <1>1 DEF Apart
<1>3. ASSUME NEW c \in Callers
      PROVE  answer'[c] = "waiting" <=> \E j \in Pumps : c \in Held(j)'
  <2>1. CASE c \in Held(i)
    <3>1. \A j \in Pumps : j # i => c \notin Held(j)
      BY <2>1 DEF Apart
    <3>2. answer[c] = "waiting"
      BY <2>1 DEF HeldWait
    <3>3. CASE c \in Held(i)'
      BY <3>2, <3>3
    <3>4. CASE c \notin Held(i)'
      BY <3>1, <3>4, <2>1
    <3> QED
      BY <3>3, <3>4
  <2>2. CASE c \notin Held(i)
    <3>1. c \notin Held(i)' /\ (answer'[c] = "waiting" <=> answer[c] = "waiting")
      BY <2>2
    <3>2. (\E j \in Pumps : c \in Held(j)') <=> (\E j \in Pumps : c \in Held(j))
      BY <3>1, <2>2
    <3> QED
      BY <3>1, <3>2 DEF HeldWait
  <2> QED
    BY <2>1, <2>2
<1> QED
  BY <1>2, <1>3 DEF HeldWait

\* A caller that does not wait gives its request to a pump.
LEMMA Given ==
    ASSUME Apart, HeldWait, NEW i \in Pumps, NEW c \in Callers, answer[c] # "waiting",
           Held(i)' = Held(i) \cup {c},
           \A j \in Pumps : j # i => Held(j)' = Held(j),
           answer'[c] = "waiting",
           \A d \in Callers : d # c => answer'[d] = answer[d]
    PROVE  Apart' /\ HeldWait'
<1>1. \A j \in Pumps : c \notin Held(j)
  BY DEF HeldWait
<1>2. Apart'
  <2> SUFFICES ASSUME NEW j \in Pumps, NEW k \in Pumps, j # k
               PROVE  Held(j)' \cap Held(k)' = {}
    BY DEF Apart
  <2> QED
    BY <1>1 DEF Apart
<1>3. ASSUME NEW d \in Callers
      PROVE  answer'[d] = "waiting" <=> \E j \in Pumps : d \in Held(j)'
  <2>1. CASE d = c
    BY <2>1
  <2>2. CASE d # c
    <3>1. \A j \in Pumps : d \in Held(j)' <=> d \in Held(j)
      BY <2>2
    <3> QED
      BY <2>2, <3>1 DEF HeldWait
  <2> QED
    BY <2>1, <2>2
<1> QED
  BY <1>2, <1>3 DEF HeldWait

\* A pump that a step leaves alone.
LEMMA SamePump ==
    ASSUME NEW i \in Pumps, PumpInv(i), opened' = opened, pump'[i] = pump[i],
           queue'[i] = queue[i], control'[i] = control[i], pending'[i] = pending[i],
           link'[i] = link[i], wire'[i] = wire[i], back'[i] = back[i], serving'[i] = serving[i]
    PROVE  PumpInv(i)'
<1>1. NothingLeft(i)'
  BY DEF PumpInv, NothingLeft, Runs
<1>2. Sorted(i)'
  BY DEF PumpInv, Sorted
<1>3. OnePlace(i)'
  BY DEF PumpInv, OnePlace
<1>4. InStep(i)'
  BY DEF PumpInv, InStep, Runs
<1> QED
  BY <1>1, <1>2, <1>3, <1>4 DEF PumpInv

\* A pump whose channel, FIFO and maps do not change holds the same callers.
LEMMA SameHeld ==
    ASSUME NEW i \in Pumps,
           queue'[i] = queue[i], control'[i] = control[i], pending'[i] = pending[i]
    PROVE  Held(i)' = Held(i)
BY Zenon DEF Held

-----------------------------------------------------------------------------
(* What the callers do.                                                    *)

\* The part of the invariant that a request can disturb.
CallInv == ClientTypes /\ (\A i \in Pumps : PumpInv(i)) /\ Apart /\ HeldWait

\* send_cmd: the request is held, or refused at once.
LEMMA SendKeeps ==
    ASSUME ClientInv, NEW c \in Callers, NEW kind \in Kinds, NEW n \in Nat, NEW i \in Pumps,
           answer[c] # "waiting", SendCmd(c, kind, n, i),
           UNCHANGED <<opened, pump, pending, control, remoteVars>>
    PROVE  CallInv'
<1> DEFINE m == [from |-> c, kind |-> kind, seq |-> n]
<1> USE DEF remoteVars
<1>1. m \in Msg /\ m.from = c
  BY DEF Msg
<1>2. ClientTypes /\ PumpInv(i) /\ (\A j \in Pumps : PumpInv(j)) /\ Apart /\ HeldWait
  BY DEF ClientInv
<1>3. queue[i] \in Seq(Msg)
  BY <1>2 DEF ClientTypes
<1>4. CASE Runs(i)
  <2>1. /\ queue' = [queue EXCEPT ![i] = Append(@, m)]
        /\ answer' = [answer EXCEPT ![c] = "waiting"]
    BY <1>4 DEF SendCmd
  <2> HIDE DEF m
  <2>2. queue'[i] = Append(queue[i], m) /\ (\A j \in Pumps : j # i => queue'[j] = queue[j])
    BY <2>1, <1>2 DEF ClientTypes
  <2>3. ClientTypes'
    <3>1. queue' \in [Pumps -> Seq(Msg)]
      BY <2>1, <1>1, <1>2 DEF ClientTypes
    <3>2. answer' \in [Callers -> Answers]
      BY <2>1, <1>2 DEF ClientTypes, Answers
    <3> QED
      BY <3>1, <3>2, <1>2 DEF ClientTypes
  <2>4. c \notin Held(i)
    BY <1>2 DEF HeldWait
  <2>5. /\ c \notin Senders(queue[i]) /\ c \notin Senders(control[i])
        /\ c \notin Froms(pending[i])
    BY <2>4, <1>2, HeldParts
  <2>6. Senders(queue'[i]) = Senders(queue[i]) \cup {c} /\ Distinct(queue'[i])
    BY <2>2, <2>5, <1>1, <1>2, <1>3, SendersAppend DEF PumpInv, OnePlace
  <2>7. PumpInv(i)'
    <3>1. NothingLeft(i)'
      BY <1>2, <1>4 DEF PumpInv, NothingLeft, Runs
    <3>2. Sorted(i)'
      BY <1>2 DEF PumpInv, Sorted
    <3>3. OnePlace(i)'
      BY <1>2, <2>5, <2>6 DEF PumpInv, OnePlace
    <3>4. InStep(i)'
      BY <1>2 DEF PumpInv, InStep, Runs
    <3> QED
      BY <3>1, <3>2, <3>3, <3>4 DEF PumpInv
  <2>8. ASSUME NEW j \in Pumps, j # i PROVE PumpInv(j)' /\ Held(j)' = Held(j)
    BY <1>2, <2>2, <2>8, SamePump, SameHeld
  <2>9. Held(i)' = Held(i) \cup {c}
    BY <1>2, <2>3, <2>6, HeldParts, HeldPartsNext
  <2>10. answer'[c] = "waiting" /\ (\A d \in Callers : d # c => answer'[d] = answer[d])
    BY <2>1, <1>2 DEF ClientTypes
  <2>11. Apart' /\ HeldWait'
    BY <1>2, <2>8, <2>9, <2>10, Given
  <2> QED
    BY <2>3, <2>7, <2>8, <2>11 DEF CallInv
<1>5. CASE ~Runs(i)
  <2>1. answer' = [answer EXCEPT ![c] = "closed"] /\ queue' = queue
    BY <1>5 DEF SendCmd
  <2>2. ClientTypes'
    BY <2>1, <1>2 DEF ClientTypes, Answers
  <2>3. ASSUME NEW j \in Pumps PROVE PumpInv(j)' /\ Held(j)' = Held(j)
    BY <1>2, <2>1, SamePump, SameHeld
  <2>4. \A d \in Callers : answer'[d] = "waiting" <=> answer[d] = "waiting"
    BY <2>1, <1>2 DEF ClientTypes
  <2>5. Apart' /\ HeldWait'
    BY <1>2, <2>3, <2>4, Released
  <2> QED
    BY <2>2, <2>3, <2>5 DEF CallInv
<1> QED
  BY <1>4, <1>5

\* A call keeps the invariant, whichever pump its sender reaches.
LEMMA CallKeeps ==
    ASSUME ClientInv, NEW c \in Callers, NEW kind \in Kinds, NEW n \in Nat, NEW i \in Pumps,
           answer[c] # "waiting", SendOn(c, kind, n, i)
    PROVE  ClientInv'
<1>1. SendCmd(c, kind, n, i)
  BY DEF SendOn
<1>2. UNCHANGED <<opened, pump, pending, control, remoteVars>> /\ UNCHANGED <<cmd_tx, pump_task>>
  BY DEF SendOn
<1>3. CallInv'
  BY <1>1, <1>2, SendKeeps
<1>4. Pointers'
  BY <1>2 DEF ClientInv, Pointers
<1> QED
  BY <1>3, <1>4 DEF ClientInv, CallInv

\* So does taking the answer.
LEMMA TakeKeeps ==
    ASSUME ClientInv, NEW c \in Callers, answer[c] # "waiting", Take(c)
    PROVE  ClientInv'
<1> USE DEF Take, remoteVars
<1>1. ClientTypes /\ (\A j \in Pumps : PumpInv(j)) /\ Apart /\ HeldWait /\ Pointers
  BY DEF ClientInv
<1>2. ClientTypes' /\ Pointers'
  BY <1>1 DEF ClientTypes, Answers, Pointers
<1>3. ASSUME NEW j \in Pumps PROVE PumpInv(j)' /\ Held(j)' = Held(j)
  BY <1>1, SamePump, SameHeld
<1>4. \A d \in Callers : answer'[d] = "waiting" <=> answer[d] = "waiting"
  BY <1>1 DEF ClientTypes
<1>5. PICK i \in Pumps : i = opened
  BY <1>1 DEF Pointers
<1>6. Apart' /\ HeldWait'
  BY <1>1, <1>3, <1>4, <1>5, Released
<1> QED
  BY <1>2, <1>3, <1>6 DEF ClientInv

\* A step that changes neither what the pumps hold nor the answers.
LEMMA SameHolders ==
    ASSUME Apart, HeldWait, UNCHANGED <<queue, control, pending, answer>>
    PROVE  Apart' /\ HeldWait'
<1>1. \A j \in Pumps : Held(j)' = Held(j)
  BY SameHeld
<1>2. Apart'
  BY <1>1 DEF Apart
<1>3. HeldWait'
  BY <1>1 DEF HeldWait
<1> QED
  BY <1>2, <1>3

\* New senders are those of the new pump.
LEMMA SwapKeeps ==
    ASSUME ClientInv, SwapTx
    PROVE  ClientInv'
<1> USE DEF SwapTx, remoteVars
<1>1. ClientTypes /\ (\A j \in Pumps : PumpInv(j)) /\ Apart /\ HeldWait /\ Pointers
  BY DEF ClientInv
<1>2. ClientTypes'
  BY <1>1 DEF ClientTypes
<1>3. Pointers'
  BY <1>1 DEF Pointers, Pumps
<1>4. ASSUME NEW j \in Pumps PROVE PumpInv(j)'
  BY <1>1, SamePump
<1>5. Apart' /\ HeldWait'
  BY <1>1, SameHolders
<1> QED
  BY <1>2, <1>3, <1>4, <1>5 DEF ClientInv

\* A new pump starts with nothing.
LEMMA ConnectKeeps ==
    ASSUME ClientInv, Connect
    PROVE  ClientInv'
<1>1. ClientTypes /\ (\A j \in Pumps : PumpInv(j)) /\ Apart /\ HeldWait /\ Pointers
  BY DEF ClientInv
<1>2. opened \in Nat /\ opened' = opened + 1 /\ opened' \in Pumps /\ MaxPumps \in Nat
  BY <1>1, PumpAssumption DEF Pointers, Pumps, Connect
<1>3. PICK i \in Pumps : i = opened'
  BY <1>2
<1>4. pump' = [pump EXCEPT ![i] = "running"] /\ link' = [link EXCEPT ![i] = TRUE]
  BY <1>3 DEF Connect
<1>5. UNCHANGED <<queue, pending, control, cmd_tx, pump_task, answer, wire, back, serving, executed>>
  BY DEF Connect
<1>6. ClientTypes'
  BY <1>1, <1>4, <1>5 DEF ClientTypes
<1>7. Pointers'
  BY <1>1, <1>2, <1>5 DEF Pointers
<1>8. pump[i] = "none" /\ pump'[i] = "running" /\ link'[i]
  BY <1>1, <1>2, <1>3, <1>4 DEF ClientTypes, PumpInv, NothingLeft, Pumps
<1>9. /\ wire[i] = <<>> /\ back[i] = <<>> /\ serving[i] = {}
      /\ queue[i] = <<>> /\ control[i] = <<>> /\ pending[i] = {}
  BY <1>1, <1>8 DEF PumpInv, NothingLeft, Runs
<1>10. PumpInv(i)'
  <2>1. NothingLeft(i)'
    BY <1>8, <1>3, <1>2 DEF NothingLeft, Runs
  <2>2. Sorted(i)'
    BY <1>5, <1>9 DEF Sorted
  <2>3. OnePlace(i)'
    BY <1>1, <1>5 DEF PumpInv, OnePlace
  <2>4. InStep(i)'
    <3>1. Len(<<>>) = 0 /\ Rank(<<>>, 0) = 0 /\ 1..0 = {}
      BY RankZero
    <3>2. RepliesInStep(<<>>, <<>>)
      BY <3>1 DEF RepliesInStep
    <3>3. RequestsInStep(<<>>, <<>>, <<>>)
      BY <3>1 DEF RequestsInStep
    <3> QED
      BY <1>5, <1>9, <3>2, <3>3 DEF InStep
  <2> QED
    BY <2>1, <2>2, <2>3, <2>4 DEF PumpInv
<1>11. ASSUME NEW j \in Pumps, j # i PROVE PumpInv(j)'
  <2>1. pump'[j] = pump[j] /\ link'[j] = link[j]
    BY <1>1, <1>4, <1>11 DEF ClientTypes
  <2>2. NothingLeft(j)'
    <3>1. j \in Nat /\ (j > opened' <=> j > opened)
      BY <1>2, <1>3, <1>11 DEF Pumps
    <3> QED
      BY <1>1, <1>5, <2>1, <3>1 DEF PumpInv, NothingLeft, Runs
  <2>3. Sorted(j)'
    BY <1>1, <1>5 DEF PumpInv, Sorted
  <2>4. OnePlace(j)'
    BY <1>1, <1>5 DEF PumpInv, OnePlace
  <2>5. InStep(j)'
    BY <1>1, <1>5, <2>1 DEF PumpInv, InStep, Runs
  <2> QED
    BY <2>2, <2>3, <2>4, <2>5 DEF PumpInv
<1>12. Apart' /\ HeldWait'
  BY <1>1, <1>5, SameHolders
<1> QED
  BY <1>6, <1>7, <1>10, <1>11, <1>12 DEF ClientInv

\* A pump that is aborted still runs, and holds what it held.
LEMMA AbortKeeps ==
    ASSUME ClientInv, AbortOld
    PROVE  ClientInv'
<1> USE DEF remoteVars
<1>1. ClientTypes /\ (\A j \in Pumps : PumpInv(j)) /\ Apart /\ HeldWait /\ Pointers
  BY DEF ClientInv
<1>2. PICK i \in Pumps : i = pump_task
  BY <1>1, PumpAssumption DEF Pointers, Pumps
<1>3. /\ pump' = [pump EXCEPT ![i] = IF @ = "running" THEN "aborted" ELSE @]
      /\ pump_task' = opened
      /\ UNCHANGED <<opened, queue, pending, control, cmd_tx, answer, remoteVars>>
  BY <1>2 DEF AbortOld
<1>4. ClientTypes'
  <2>1. pump' \in [Pumps -> {"none", "running", "aborted", "ended"}]
    BY <1>1, <1>3 DEF ClientTypes
  <2> QED
    BY <2>1, <1>1, <1>3 DEF ClientTypes
<1>5. Pointers'
  BY <1>1, <1>3 DEF Pointers, Pumps
<1>6. ASSUME NEW j \in Pumps
      PROVE  (pump'[j] = "none" <=> pump[j] = "none") /\ (Runs(j)' <=> Runs(j))
  <2>1. CASE j = i
    BY <1>1, <1>3, <2>1 DEF ClientTypes, Runs
  <2>2. CASE j # i
    BY <1>1, <1>3, <2>2 DEF ClientTypes, Runs
  <2> QED
    BY <2>1, <2>2
<1>7. ASSUME NEW j \in Pumps PROVE PumpInv(j)'
  <2>1. NothingLeft(j)'
    BY <1>1, <1>3, <1>6 DEF PumpInv, NothingLeft
  <2>2. Sorted(j)'
    BY <1>1, <1>3 DEF PumpInv, Sorted
  <2>3. OnePlace(j)'
    BY <1>1, <1>3 DEF PumpInv, OnePlace
  <2>4. InStep(j)'
    BY <1>1, <1>3, <1>6 DEF PumpInv, InStep
  <2> QED
    BY <2>1, <2>2, <2>3, <2>4 DEF PumpInv
<1>8. Apart' /\ HeldWait'
  BY <1>1, <1>3, SameHolders
<1> QED
  BY <1>4, <1>5, <1>7, <1>8 DEF ClientInv

-----------------------------------------------------------------------------
(* What the pump does.                                                     *)

\* Requests of other callers leave a map, and perhaps a new one comes.
LEMMA MapParts ==
    ASSUME NEW p \in SUBSET Msg, NEW f \in SUBSET p, NEW m \in Msg,
           \A x, y \in p : x.from = y.from => x = y, m.from \notin Froms(p)
    PROVE  /\ Froms(p \ f) = Froms(p) \ Froms(f)
           /\ Froms((p \ f) \cup {m}) = (Froms(p) \ Froms(f)) \cup {m.from}
           /\ \A x, y \in (p \ f) \cup {m} : x.from = y.from => x = y
<1>1. Froms(p \ f) = Froms(p) \ Froms(f)
  BY Zenon DEF Froms
<1>2. Froms((p \ f) \cup {m}) = Froms(p \ f) \cup {m.from}
  BY Zenon DEF Froms
<1>3. \A x \in p : x.from # m.from
  BY Zenon DEF Froms
<1> QED
  BY <1>1, <1>2, <1>3

\* A pump takes a command, registers it and writes it.
LEMMA WriteKeeps ==
    ASSUME ClientInv, NEW i \in Pumps, PumpWrite(i)
    PROVE  ClientInv'
<1> DEFINE m == Head(queue[i])
<1>1. ClientTypes /\ (\A j \in Pumps : PumpInv(j)) /\ Apart /\ HeldWait /\ Pointers
  BY DEF ClientInv
<1>2. /\ queue[i] \in Seq(Msg) /\ control[i] \in Seq(Msg) /\ pending[i] \subseteq Msg
      /\ wire[i] \in Seq(Msg) /\ back[i] \in Seq(Rep)
  BY <1>1 DEF ClientTypes
<1>3. /\ Runs(i) /\ queue[i] # <<>> /\ queue' = [queue EXCEPT ![i] = Tail(@)] /\ Register(i, m)
      /\ wire' = IF link[i] THEN [wire EXCEPT ![i] = Append(@, m)] ELSE wire
      /\ UNCHANGED <<opened, pump, cmd_tx, pump_task, link, back, serving, session, leased, executed>>
  BY DEF PumpWrite
<1> DEFINE F == IF IsControl(m) THEN {} ELSE Filed(i, m)
<1>4. /\ m \in Msg /\ m.from \in Senders(queue[i]) /\ Distinct(Tail(queue[i]))
      /\ Senders(Tail(queue[i])) = Senders(queue[i]) \ {m.from}
  BY <1>1, <1>2, <1>3, SendersTail DEF PumpInv, OnePlace
<1> HIDE DEF m
<1>5. F \subseteq pending[i]
  BY DEF Filed
<1>6. /\ m.from \notin Senders(control[i]) /\ m.from \notin Froms(pending[i])
      /\ \A x, y \in pending[i] : x.from = y.from => x = y
  BY <1>1, <1>4 DEF PumpInv, OnePlace
<1>7. /\ queue'[i] = Tail(queue[i]) /\ queue' \in [Pumps -> Seq(Msg)]
      /\ \A j \in Pumps : j # i => queue'[j] = queue[j]
  BY <1>1, <1>2, <1>3 DEF ClientTypes
<1>8. /\ wire'[i] = (IF link[i] THEN Append(wire[i], m) ELSE wire[i])
      /\ wire' \in [Pumps -> Seq(Msg)]
      /\ \A j \in Pumps : j # i => wire'[j] = wire[j]
  <2>1. CASE link[i]
    BY <2>1, <1>1, <1>2, <1>3, <1>4 DEF ClientTypes
  <2>2. CASE ~link[i]
    BY <2>2, <1>1, <1>2, <1>3 DEF ClientTypes
  <2> QED
    BY <2>1, <2>2
<1>9. /\ control'[i] = (IF IsControl(m) THEN Append(control[i], m) ELSE control[i])
      /\ control' \in [Pumps -> Seq(Msg)]
      /\ \A j \in Pumps : j # i => control'[j] = control[j]
  <2>1. CASE IsControl(m)
    <3>1. control' = [control EXCEPT ![i] = Append(@, m)]
      BY <2>1, <1>3 DEF Register
    <3> QED
      BY <3>1, <2>1, <1>1, <1>2, <1>4 DEF ClientTypes
  <2>2. CASE ~IsControl(m)
    BY <2>2, <1>1, <1>3 DEF ClientTypes, Register
  <2> QED
    BY <2>1, <2>2
<1>10. /\ pending'[i] = (IF IsControl(m) THEN pending[i] ELSE (pending[i] \ F) \cup {m})
       /\ pending' \in [Pumps -> SUBSET Msg]
       /\ \A j \in Pumps : j # i => pending'[j] = pending[j]
  <2>1. CASE IsControl(m)
    BY <2>1, <1>1, <1>3 DEF ClientTypes, Register
  <2>2. CASE ~IsControl(m)
    <3>1. pending' = [pending EXCEPT ![i] = (@ \ F) \cup {m}]
      BY <2>2, <1>3 DEF Register
    <3> HIDE DEF F
    <3>2. (pending[i] \ F) \cup {m} \in SUBSET Msg
      BY <1>2, <1>4
    <3> QED
      BY <3>1, <3>2, <2>2, <1>1 DEF ClientTypes
  <2> QED
    BY <2>1, <2>2
<1>11. \A c \in Callers : answer'[c] = IF c \in Froms(F) THEN "closed" ELSE answer[c]
  <2>1. CASE IsControl(m)
    <3>1. Froms(F) = {} /\ answer' = answer
      BY <2>1, <1>3 DEF Register, Froms
    <3> QED
      BY <3>1
  <2>2. CASE ~IsControl(m)
    <3>1. F = Filed(i, m)
      BY <2>2
    <3>2. answer' = [c \in Callers |->
                       IF \E x \in Filed(i, m) : x.from = c THEN "closed" ELSE answer[c]]
      BY <2>2, <1>3 DEF Register
    <3> HIDE DEF F
    <3>3. \A c : (\E x \in Filed(i, m) : x.from = c) <=> c \in Froms(F)
      BY <3>1, Zenon DEF Froms
    <3> QED
      BY <3>2, <3>3
  <2> QED
    BY <2>1, <2>2
<1>12. answer' \in [Callers -> Answers]
  <2>1. CASE IsControl(m)
    BY <2>1, <1>1, <1>3 DEF Register, ClientTypes
  <2>2. CASE ~IsControl(m)
    BY <2>2, <1>1, <1>3 DEF Register, ClientTypes, Answers
  <2> QED
    BY <2>1, <2>2
<1>13. ClientTypes'
  BY <1>1, <1>3, <1>7, <1>8, <1>9, <1>10, <1>12 DEF ClientTypes
<1>14. Pointers'
  BY <1>1, <1>3 DEF Pointers
<1>15. /\ Senders(control'[i]) = Senders(control[i]) \cup (IF IsControl(m) THEN {m.from} ELSE {})
       /\ Distinct(control'[i])
  <2>1. Distinct(control[i])
    BY <1>1 DEF PumpInv, OnePlace
  <2>2. CASE IsControl(m)
    BY <2>1, <2>2, <1>2, <1>4, <1>6, <1>9, SendersAppend
  <2>3. CASE ~IsControl(m)
    BY <2>1, <2>3, <1>9
  <2> QED
    BY <2>2, <2>3
<1>16. /\ Froms(pending'[i]) = (Froms(pending[i]) \ Froms(F)) \cup (IF IsControl(m) THEN {} ELSE {m.from})
       /\ \A x, y \in pending'[i] : x.from = y.from => x = y
  <2>1. CASE IsControl(m)
    <3>1. Froms(F) = {}
      BY <2>1 DEF Froms
    <3> HIDE DEF F
    <3> QED
      BY <3>1, <2>1, <1>6, <1>10
  <2>2. CASE ~IsControl(m)
    <3> HIDE DEF F
    <3>1. pending[i] \in SUBSET Msg /\ F \in SUBSET pending[i]
      BY <1>2, <1>5
    <3>2. /\ Froms((pending[i] \ F) \cup {m}) = (Froms(pending[i]) \ Froms(F)) \cup {m.from}
          /\ \A x, y \in (pending[i] \ F) \cup {m} : x.from = y.from => x = y
      BY <3>1, <1>4, <1>6, MapParts, Zenon
    <3> QED
      BY <3>2, <2>2, <1>10
  <2> QED
    BY <2>1, <2>2
<1> HIDE DEF F
<1>17. Froms(F) \subseteq Froms(pending[i])
  BY <1>5, Zenon DEF Froms
<1>18. PumpInv(i)'
  <2>1. NothingLeft(i)'
    BY <1>1, <1>3 DEF PumpInv, NothingLeft, Runs
  <2>2. Sorted(i)'
    <3>1. \A k \in 1..Len(control'[i]) : IsControl(control'[i][k])
      <4>1. CASE IsControl(m)
        <5>1. \A k \in 1..Len(Append(control[i], m)) :
                 Append(control[i], m)[k] = m \/ (k \in 1..Len(control[i]) /\ Append(control[i], m)[k] = control[i][k])
          BY <1>2, <1>4
        <5> QED
          BY <5>1, <4>1, <1>1, <1>9 DEF PumpInv, Sorted
      <4>2. CASE ~IsControl(m)
        BY <4>2, <1>1, <1>9 DEF PumpInv, Sorted
      <4> QED
        BY <4>1, <4>2
    <3>2. \A x \in pending'[i] : ~IsControl(x)
      BY <1>1, <1>10 DEF PumpInv, Sorted
    <3>3. \A x \in serving'[i] : x.kind = "urb"
      BY <1>1, <1>3 DEF PumpInv, Sorted
    <3> QED
      BY <3>1, <3>2, <3>3 DEF Sorted
  <2>3. OnePlace(i)'
    <3>1. /\ Senders(queue[i]) \cap Senders(control[i]) = {}
          /\ Senders(queue[i]) \cap Froms(pending[i]) = {}
          /\ Senders(control[i]) \cap Froms(pending[i]) = {}
      BY <1>1 DEF PumpInv, OnePlace
    <3>2. /\ Senders(queue'[i]) \cap Senders(control'[i]) = {}
          /\ Senders(queue'[i]) \cap Froms(pending'[i]) = {}
          /\ Senders(control'[i]) \cap Froms(pending'[i]) = {}
      BY <3>1, <1>4, <1>6, <1>7, <1>15, <1>16
    <3>3. Distinct(queue'[i])
      BY <1>4, <1>7
    <3> QED
      BY <3>2, <3>3, <1>15, <1>16 DEF OnePlace
  <2>4. InStep(i)'
    <3>1. RepliesInStep(control[i], back[i]) /\ (link[i] => RequestsInStep(control[i], back[i], wire[i]))
      BY <1>1, <1>3 DEF PumpInv, InStep
    <3>2. RepliesInStep(control'[i], back[i])
      BY <3>1, <1>2, <1>4, <1>9, RepliesWrite
    <3>3. ASSUME link[i] PROVE RequestsInStep(control'[i], back[i], wire'[i])
      <4>1. CASE IsControl(m)
        BY <4>1, <3>1, <3>3, <1>2, <1>4, <1>8, <1>9, RequestsWrite
      <4>2. CASE ~IsControl(m)
        BY <4>2, <3>1, <3>3, <1>2, <1>4, <1>8, <1>9, RequestsWriteOther
      <4> QED
        BY <4>1, <4>2
    <3> QED
      BY <3>2, <3>3, <1>3 DEF InStep
  <2> QED
    BY <2>1, <2>2, <2>3, <2>4 DEF PumpInv
<1>19. ASSUME NEW j \in Pumps, j # i PROVE PumpInv(j)' /\ Held(j)' = Held(j)
  BY <1>1, <1>3, <1>7, <1>8, <1>9, <1>10, <1>19, SamePump, SameHeld
<1>20. Held(i)' = Held(i) \ Froms(F)
  <2>1. Held(i) = Froms(pending[i]) \cup Senders(control[i]) \cup Senders(queue[i])
    BY <1>1, HeldParts
  <2>2. Held(i)' = Froms(pending'[i]) \cup Senders(control'[i]) \cup Senders(queue'[i])
    BY <1>13, HeldPartsNext
  <2>3. m.from \notin Froms(F)
    BY <1>6, <1>17
  <2>4. Froms(F) \cap Senders(control[i]) = {} /\ Froms(F) \cap Senders(queue[i]) = {}
    BY <1>1, <1>17 DEF PumpInv, OnePlace
  <2> QED
    BY <2>1, <2>2, <2>3, <2>4, <1>4, <1>7, <1>15, <1>16
<1>21. Apart' /\ HeldWait'
  <2>1. Froms(F) \subseteq Held(i)
    BY <1>1, <1>17, HeldParts
  <2>2. \A c \in Callers : IF c \in Held(i) /\ c \notin Held(i)'
                           THEN answer'[c] # "waiting"
                           ELSE answer'[c] = "waiting" <=> answer[c] = "waiting"
    BY <2>1, <1>11, <1>20
  <2>3. Held(i)' \subseteq Held(i)
    BY <1>20
  <2> QED
    BY <2>2, <2>3, <1>1, <1>19, Released
<1> QED
  BY <1>13, <1>14, <1>18, <1>19, <1>21 DEF ClientInv

\* A pump reads a reply and gives it to a caller.
LEMMA ReadKeeps ==
    ASSUME ClientInv, NEW i \in Pumps, PumpRead(i)
    PROVE  ClientInv'
<1> DEFINE r == Head(back[i])
           F == IF IsControl(r) THEN {Head(control[i])} ELSE Filed(i, r)
<1>1. ClientTypes /\ (\A j \in Pumps : PumpInv(j)) /\ Apart /\ HeldWait /\ Pointers
  BY DEF ClientInv
<1>2. /\ queue[i] \in Seq(Msg) /\ control[i] \in Seq(Msg) /\ pending[i] \subseteq Msg
      /\ wire[i] \in Seq(Msg) /\ back[i] \in Seq(Rep)
  BY <1>1 DEF ClientTypes
<1>3. /\ Runs(i) /\ back[i] # <<>> /\ back' = [back EXCEPT ![i] = Tail(@)]
      /\ control' = IF IsControl(r) THEN [control EXCEPT ![i] = Tail(@)] ELSE control
      /\ pending' = [pending EXCEPT ![i] = @ \ F]
      /\ answer' = [c \in Callers |->
                      IF \E x \in F : x.from = c THEN IF r.ok THEN "ok" ELSE "refused"
                      ELSE answer[c]]
      /\ UNCHANGED <<opened, pump, queue, cmd_tx, pump_task, link, wire,
                     serving, session, leased, executed>>
  BY DEF PumpRead
<1>4. RepliesInStep(control[i], back[i]) /\ (link[i] => RequestsInStep(control[i], back[i], wire[i]))
  BY <1>1, <1>3 DEF PumpInv, InStep
<1> HIDE DEF r
<1>5. IsControl(r) => control[i] # <<>>
  BY <1>2, <1>3, <1>4, ReadFirst DEF r
<1>6. /\ back'[i] = Tail(back[i]) /\ back' \in [Pumps -> Seq(Rep)]
      /\ \A j \in Pumps : j # i => back'[j] = back[j]
  BY <1>1, <1>2, <1>3 DEF ClientTypes
<1>7. /\ control'[i] = (IF IsControl(r) THEN Tail(control[i]) ELSE control[i])
      /\ control' \in [Pumps -> Seq(Msg)]
      /\ \A j \in Pumps : j # i => control'[j] = control[j]
  <2>1. CASE IsControl(r)
    BY <2>1, <1>1, <1>2, <1>3, <1>5 DEF ClientTypes
  <2>2. CASE ~IsControl(r)
    BY <2>2, <1>1, <1>3 DEF ClientTypes
  <2> QED
    BY <2>1, <2>2
<1>8. CASE IsControl(r)
  <2> DEFINE m == Head(control[i])
  <2>1. /\ m \in Msg /\ m.from \in Senders(control[i]) /\ Distinct(Tail(control[i]))
        /\ Senders(Tail(control[i])) = Senders(control[i]) \ {m.from}
    BY <1>1, <1>2, <1>5, <1>8, SendersTail DEF PumpInv, OnePlace
  <2>2. IsControl(m)
    <3>1. m = control[i][1] /\ 1 \in 1..Len(control[i])
      BY <1>2, <1>5, <1>8
    <3> QED
      BY <3>1, <1>1 DEF PumpInv, Sorted
  <2>3. F = {m}
    BY <1>8
  <2> HIDE DEF m, F
  <2>4. m \notin pending[i]
    BY <2>2, <1>1 DEF PumpInv, Sorted
  <2>5. pending' = pending
    <3>1. pending[i] \ F = pending[i]
      BY <2>3, <2>4
    <3> QED
      BY <3>1, <1>1, <1>3 DEF ClientTypes
  <2>6. \A c \in Callers : IF c = m.from THEN answer'[c] # "waiting" ELSE answer'[c] = answer[c]
    BY <2>3, <1>3
  <2>7. answer' \in [Callers -> Answers]
    BY <1>1, <1>3 DEF ClientTypes, Answers
  <2>8. ClientTypes'
    BY <1>1, <1>3, <1>6, <1>7, <2>5, <2>7 DEF ClientTypes
  <2>9. control'[i] = Tail(control[i])
    BY <1>7, <1>8
  <2>10. PumpInv(i)'
    <3>1. NothingLeft(i)'
      BY <1>1, <1>3 DEF PumpInv, NothingLeft, Runs
    <3>2. Sorted(i)'
      <4>1. \A k \in 1..Len(Tail(control[i])) :
               k + 1 \in 1..Len(control[i]) /\ Tail(control[i])[k] = control[i][k + 1]
        BY <1>2, <1>5, <1>8
      <4>2. \A k \in 1..Len(control[i]) : IsControl(control[i][k])
        BY <1>1 DEF PumpInv, Sorted
      <4>3. \A k \in 1..Len(control'[i]) : IsControl(control'[i][k])
        BY <4>1, <4>2, <2>9
      <4> QED
        BY <4>3, <1>1, <1>3, <2>5 DEF PumpInv, Sorted
    <3>3. OnePlace(i)'
      BY <1>1, <1>3, <2>1, <2>5, <2>9 DEF PumpInv, OnePlace
    <3>4. InStep(i)'
      <4>1. RepliesInStep(control'[i], back'[i])
        BY <1>2, <1>3, <1>4, <1>6, <1>8, <2>9, ReadFirst DEF r
      <4>2. ASSUME link[i] PROVE RequestsInStep(control'[i], back'[i], wire[i])
        BY <4>2, <1>2, <1>3, <1>4, <1>6, <1>8, <2>9, ReadFirstRequests DEF r
      <4> QED
        BY <4>1, <4>2, <1>3 DEF InStep
    <3> QED
      BY <3>1, <3>2, <3>3, <3>4 DEF PumpInv
  <2>11. ASSUME NEW j \in Pumps, j # i PROVE PumpInv(j)' /\ Held(j)' = Held(j)
    BY <1>1, <1>3, <1>6, <1>7, <2>5, <2>11, SamePump, SameHeld
  <2>12. Held(i)' = Held(i) \ {m.from} /\ m.from \in Held(i)
    <3>1. Held(i) = Froms(pending[i]) \cup Senders(control[i]) \cup Senders(queue[i])
      BY <1>1, HeldParts
    <3>2. Held(i)' = Froms(pending[i]) \cup Senders(Tail(control[i])) \cup Senders(queue[i])
      BY <1>3, <2>5, <2>8, <2>9, HeldPartsNext
    <3>3. m.from \notin Froms(pending[i]) /\ m.from \notin Senders(queue[i])
      BY <1>1, <2>1 DEF PumpInv, OnePlace
    <3> QED
      BY <3>1, <3>2, <3>3, <2>1
  <2>13. Apart' /\ HeldWait'
    <3>1. \A c \in Callers : IF c \in Held(i) /\ c \notin Held(i)'
                             THEN answer'[c] # "waiting"
                             ELSE answer'[c] = "waiting" <=> answer[c] = "waiting"
      BY <2>6, <2>12
    <3>2. Held(i)' \subseteq Held(i)
      BY <2>12
    <3> QED
      BY <3>1, <3>2, <1>1, <2>11, Released
  <2>14. Pointers'
    BY <1>1, <1>3 DEF Pointers
  <2> QED
    BY <2>8, <2>10, <2>11, <2>13, <2>14 DEF ClientInv
<1>9. CASE ~IsControl(r)
  <2>1. F \subseteq pending[i] /\ control' = control
    BY <1>3, <1>9 DEF Filed
  <2> HIDE DEF F
  <2>2. /\ pending'[i] = pending[i] \ F /\ pending' \in [Pumps -> SUBSET Msg]
        /\ \A j \in Pumps : j # i => pending'[j] = pending[j]
    BY <1>1, <1>2, <1>3 DEF ClientTypes
  <2>3. \A c \in Callers : IF c \in Froms(F) THEN answer'[c] # "waiting" ELSE answer'[c] = answer[c]
    <3>1. \A c : (\E x \in F : x.from = c) <=> c \in Froms(F)
      BY Zenon DEF Froms
    <3> QED
      BY <3>1, <1>3
  <2>4. answer' \in [Callers -> Answers]
    BY <1>1, <1>3 DEF ClientTypes, Answers
  <2>5. ClientTypes'
    BY <1>1, <1>3, <1>6, <1>7, <2>2, <2>4 DEF ClientTypes
  <2>6. \A x, y \in pending[i] : x.from = y.from => x = y
    BY <1>1 DEF PumpInv, OnePlace
  <2>7. Froms(pending'[i]) = Froms(pending[i]) \ Froms(F) /\ Froms(F) \subseteq Froms(pending[i])
    <3>1. Froms(pending[i] \ F) = Froms(pending[i]) \ Froms(F)
      BY <2>1, <2>6, Zenon DEF Froms
    <3>2. Froms(F) \subseteq Froms(pending[i])
      BY <2>1, Zenon DEF Froms
    <3> QED
      BY <3>1, <3>2, <2>2
  <2>8. PumpInv(i)'
    <3>1. NothingLeft(i)'
      BY <1>1, <1>3 DEF PumpInv, NothingLeft, Runs
    <3>2. Sorted(i)'
      BY <1>1, <1>3, <2>1, <2>2 DEF PumpInv, Sorted
    <3>3. OnePlace(i)'
      <4>1. \A x, y \in pending'[i] : x.from = y.from => x = y
        BY <2>2, <2>6
      <4> QED
        BY <4>1, <1>1, <1>3, <2>1, <2>7 DEF PumpInv, OnePlace
    <3>4. InStep(i)'
      <4>1. RepliesInStep(control'[i], back'[i])
        BY <1>2, <1>3, <1>4, <1>6, <1>9, <2>1, ReadOther DEF r
      <4>2. ASSUME link[i] PROVE RequestsInStep(control'[i], back'[i], wire[i])
        BY <4>2, <1>2, <1>3, <1>4, <1>6, <1>9, <2>1, ReadOtherRequests DEF r
      <4> QED
        BY <4>1, <4>2, <1>3 DEF InStep
    <3> QED
      BY <3>1, <3>2, <3>3, <3>4 DEF PumpInv
  <2>9. ASSUME NEW j \in Pumps, j # i PROVE PumpInv(j)' /\ Held(j)' = Held(j)
    BY <1>1, <1>3, <1>6, <1>7, <2>2, <2>9, SamePump, SameHeld
  <2>10. Held(i)' = Held(i) \ Froms(F) /\ Froms(F) \subseteq Held(i)
    <3>1. Held(i) = Froms(pending[i]) \cup Senders(control[i]) \cup Senders(queue[i])
      BY <1>1, HeldParts
    <3>2. Held(i)' = Froms(pending'[i]) \cup Senders(control[i]) \cup Senders(queue[i])
      BY <1>3, <2>1, <2>5, HeldPartsNext
    <3>3. Froms(F) \cap Senders(control[i]) = {} /\ Froms(F) \cap Senders(queue[i]) = {}
      BY <1>1, <2>7 DEF PumpInv, OnePlace
    <3> QED
      BY <3>1, <3>2, <3>3, <2>7
  <2>11. Apart' /\ HeldWait'
    <3>1. \A c \in Callers : IF c \in Held(i) /\ c \notin Held(i)'
                             THEN answer'[c] # "waiting"
                             ELSE answer'[c] = "waiting" <=> answer[c] = "waiting"
      BY <2>3, <2>10
    <3>2. Held(i)' \subseteq Held(i)
      BY <2>10
    <3> QED
      BY <3>1, <3>2, <1>1, <2>9, Released
  <2>12. Pointers'
    BY <1>1, <1>3 DEF Pointers
  <2> QED
    BY <2>5, <2>8, <2>9, <2>11, <2>12 DEF ClientInv
<1> QED
  BY <1>8, <1>9

\* A pump ends: everyone it holds is told.
LEMMA EndKeeps ==
    ASSUME ClientInv, NEW i \in Pumps, PumpEnd(i)
    PROVE  ClientInv'
<1>1. ClientTypes /\ (\A j \in Pumps : PumpInv(j)) /\ Apart /\ HeldWait /\ Pointers
  BY DEF ClientInv
<1>2. /\ pump' = [pump EXCEPT ![i] = "ended"]
      /\ queue' = [queue EXCEPT ![i] = <<>>] /\ control' = [control EXCEPT ![i] = <<>>]
      /\ pending' = [pending EXCEPT ![i] = {}] /\ link' = [link EXCEPT ![i] = FALSE]
      /\ back' = [back EXCEPT ![i] = <<>>]
      /\ answer' = [c \in Callers |-> IF c \in Held(i) THEN "closed" ELSE answer[c]]
      /\ UNCHANGED <<opened, cmd_tx, pump_task, wire, serving, session, leased, executed>>
      /\ pump[i] # "none"
  BY DEF PumpEnd
<1>3. /\ pump' \in [Pumps -> {"none", "running", "aborted", "ended"}]
      /\ pending' \in [Pumps -> SUBSET Msg] /\ link' \in [Pumps -> BOOLEAN]
  BY <1>1, <1>2 DEF ClientTypes
<1>4. queue' \in [Pumps -> Seq(Msg)] /\ control' \in [Pumps -> Seq(Msg)]
  BY <1>1, <1>2 DEF ClientTypes
<1>5. back' \in [Pumps -> Seq(Rep)]
  BY <1>1, <1>2 DEF ClientTypes
<1>6. answer' \in [Callers -> Answers]
  BY <1>1, <1>2 DEF ClientTypes, Answers
<1>7. ClientTypes' /\ Pointers'
  BY <1>1, <1>2, <1>3, <1>4, <1>5, <1>6 DEF ClientTypes, Pointers
<1>8. /\ pump'[i] = "ended" /\ queue'[i] = <<>> /\ control'[i] = <<>> /\ pending'[i] = {}
      /\ ~link'[i]
  BY <1>1, <1>2 DEF ClientTypes
<1>9. Senders(<<>>) = {} /\ Froms({}) = {} /\ Distinct(<<>>)
  BY DEF Senders, Froms, Distinct
<1>10. PumpInv(i)'
  <2>1. NothingLeft(i)'
    BY <1>1, <1>2, <1>8 DEF PumpInv, NothingLeft, Runs
  <2>2. Sorted(i)'
    BY <1>1, <1>2, <1>8 DEF PumpInv, Sorted
  <2>3. OnePlace(i)'
    BY <1>8, <1>9 DEF OnePlace
  <2>4. InStep(i)'
    BY <1>8 DEF InStep, Runs
  <2> QED
    BY <2>1, <2>2, <2>3, <2>4 DEF PumpInv
<1>11. ASSUME NEW j \in Pumps, j # i PROVE PumpInv(j)' /\ Held(j)' = Held(j)
  <2>1. /\ pump'[j] = pump[j] /\ queue'[j] = queue[j] /\ control'[j] = control[j]
        /\ pending'[j] = pending[j] /\ link'[j] = link[j] /\ back'[j] = back[j]
    BY <1>1, <1>2, <1>11 DEF ClientTypes
  <2> QED
    BY <2>1, <1>1, <1>2, SamePump, SameHeld
<1>12. Held(i)' = {}
  BY <1>7, <1>8, <1>9, HeldPartsNext
<1>13. Apart' /\ HeldWait'
  <2>1. \A c \in Callers : IF c \in Held(i) /\ c \notin Held(i)'
                           THEN answer'[c] # "waiting"
                           ELSE answer'[c] = "waiting" <=> answer[c] = "waiting"
    <3> DEFINE H == Held(i)
    <3>1. answer' = [c \in Callers |-> IF c \in H THEN "closed" ELSE answer[c]]
      BY <1>2
    <3> HIDE DEF H
    <3>2. \A c \in Callers : IF c \in H THEN answer'[c] # "waiting" ELSE answer'[c] = answer[c]
      BY <3>1
    <3> QED
      BY <3>2, <1>12 DEF H
  <2>2. Held(i)' \subseteq Held(i)
    BY <1>12
  <2> QED
    BY <2>1, <2>2, <1>1, <1>11, Released
<1> QED
  BY <1>7, <1>10, <1>11, <1>13 DEF ClientInv

-----------------------------------------------------------------------------
(* What the server and the network do.                                     *)

\* The reply to a request.
Answered(m, ok) == [from |-> m.from, kind |-> m.kind, seq |-> m.seq, ok |-> ok]

\* What a response does to the stream of replies.
LEMMA Responds ==
    ASSUME ClientTypes, NEW i \in Pumps, PumpInv(i), NEW m \in Msg, NEW ok \in BOOLEAN, Respond(i, m, ok)
    PROVE  /\ Answered(m, ok) \in Rep
           /\ back'[i] = IF link[i] THEN Append(back[i], Answered(m, ok)) ELSE back[i]
           /\ back' \in [Pumps -> Seq(Rep)]
           /\ \A j \in Pumps : j # i => back'[j] = back[j]
<1> DEFINE r == Answered(m, ok)
<1>1. r \in Rep
  BY DEF Answered, Msg, Rep
<1>2. link[i] => pump[i] # "ended"
  BY DEF PumpInv, NothingLeft, Runs
<1>3. back' = IF link[i] THEN [back EXCEPT ![i] = Append(@, r)] ELSE back
  BY <1>2 DEF Respond, Answered
<1> HIDE DEF r
<1>4. CASE link[i]
  BY <1>1, <1>3, <1>4 DEF ClientTypes, r
<1>5. CASE ~link[i]
  BY <1>1, <1>3, <1>5 DEF ClientTypes, r
<1> QED
  BY <1>4, <1>5

\* The server reads a request.
LEMMA ServeKeeps ==
    ASSUME ClientInv, NEW i \in Pumps, ServerRead(i)
    PROVE  ClientInv'
<1> DEFINE m == Head(wire[i])
<1>1. ClientTypes /\ (\A j \in Pumps : PumpInv(j)) /\ Apart /\ HeldWait /\ Pointers
  BY DEF ClientInv
<1>2. /\ queue[i] \in Seq(Msg) /\ control[i] \in Seq(Msg) /\ serving[i] \subseteq Msg
      /\ wire[i] \in Seq(Msg) /\ back[i] \in Seq(Rep)
  BY <1>1 DEF ClientTypes
<1>3. /\ wire[i] # <<>> /\ wire' = [wire EXCEPT ![i] = Tail(@)]
      /\ UNCHANGED <<opened, pump, queue, pending, control, cmd_tx, pump_task, answer, link, executed>>
  BY DEF ServerRead, pumpVars
<1>4. \/ m.kind = "urb" /\ serving' = [serving EXCEPT ![i] = @ \cup {m}] /\ back' = back
      \/ (\E ok \in BOOLEAN : Respond(i, m, ok)) /\ serving' = serving
  <2>1. CASE m.kind = "urb" /\ leased /\ session[i] = "paired"
    BY <2>1 DEF ServerRead
  <2>2. CASE ~(m.kind = "urb" /\ leased /\ session[i] = "paired")
    <3> DEFINE ok == /\ Greeted(i, m)
                     /\ \/ m.kind \in {"hello", "list", "detach"}
                        \/ leased' /\ session'[i] = "paired"
    <3>1. Respond(i, m, ok) /\ serving' = serving
      BY <2>2 DEF ServerRead
    <3>2. ok \in BOOLEAN
      BY Zenon
    <3> HIDE DEF ok
    <3> QED
      BY <3>1, <3>2, Zenon
  <2> QED
    BY <2>1, <2>2
<1>5. m \in Msg
  BY <1>2, <1>3
<1> HIDE DEF m
<1>6. /\ wire'[i] = Tail(wire[i]) /\ wire' \in [Pumps -> Seq(Msg)]
      /\ \A j \in Pumps : j # i => wire'[j] = wire[j]
  BY <1>1, <1>2, <1>3 DEF ClientTypes
<1>7. /\ serving'[i] = serving[i] \/ (m.kind = "urb" /\ serving'[i] = serving[i] \cup {m})
      /\ serving' \in [Pumps -> SUBSET Msg]
      /\ \A j \in Pumps : j # i => serving'[j] = serving[j]
  <2>1. CASE m.kind = "urb" /\ serving' = [serving EXCEPT ![i] = @ \cup {m}]
    BY <2>1, <1>1, <1>2, <1>5 DEF ClientTypes
  <2>2. CASE serving' = serving
    BY <2>2, <1>1 DEF ClientTypes
  <2> QED
    BY <2>1, <2>2, <1>4
<1>8. /\ back' \in [Pumps -> Seq(Rep)]
      /\ \A j \in Pumps : j # i => back'[j] = back[j]
      /\ \/ back'[i] = back[i] /\ (link[i] => ~IsControl(m))
         \/ link[i] /\ \E ok \in BOOLEAN : /\ Answered(m, ok) \in Rep
                                           /\ back'[i] = Append(back[i], Answered(m, ok))
  <2>1. CASE m.kind = "urb" /\ back' = back
    BY <2>1, <1>1 DEF ClientTypes, IsControl, ControlKinds
  <2>2. CASE \E ok \in BOOLEAN : Respond(i, m, ok)
    <3>1. PICK ok \in BOOLEAN : Respond(i, m, ok)
      BY <2>2
    <3>2. /\ Answered(m, ok) \in Rep
          /\ back'[i] = IF link[i] THEN Append(back[i], Answered(m, ok)) ELSE back[i]
          /\ back' \in [Pumps -> Seq(Rep)]
          /\ \A j \in Pumps : j # i => back'[j] = back[j]
      BY <3>1, <1>1, <1>5, Responds
    <3>3. CASE link[i]
      BY <3>2, <3>3, Zenon
    <3>4. CASE ~link[i]
      BY <3>2, <3>4, Zenon
    <3> QED
      BY <3>3, <3>4
  <2> QED
    BY <2>1, <2>2, <1>4
<1>9. ClientTypes' /\ Pointers'
  BY <1>1, <1>3, <1>6, <1>7, <1>8 DEF ClientTypes, Pointers
<1>10. PumpInv(i)'
  <2>1. NothingLeft(i)'
    BY <1>1, <1>3 DEF PumpInv, NothingLeft, Runs
  <2>2. Sorted(i)'
    BY <1>1, <1>3, <1>7 DEF PumpInv, Sorted
  <2>3. OnePlace(i)'
    BY <1>1, <1>3 DEF PumpInv, OnePlace
  <2>4. InStep(i)'
    <3> SUFFICES ASSUME Runs(i)
                 PROVE  /\ RepliesInStep(control[i], back'[i])
                        /\ link[i] => RequestsInStep(control[i], back'[i], wire'[i])
      BY <1>3 DEF InStep, Runs
    <3>1. RepliesInStep(control[i], back[i]) /\ (link[i] => RequestsInStep(control[i], back[i], wire[i]))
      BY <1>1 DEF PumpInv, InStep
    <3>2. CASE back'[i] = back[i] /\ (link[i] => ~IsControl(m))
      BY <3>1, <3>2, <1>2, <1>3, <1>6, TakeOther DEF m
    <3>3. CASE link[i] /\ \E ok \in BOOLEAN : /\ Answered(m, ok) \in Rep
                                              /\ back'[i] = Append(back[i], Answered(m, ok))
      <4>1. PICK ok \in BOOLEAN : /\ Answered(m, ok) \in Rep
                                  /\ back'[i] = Append(back[i], Answered(m, ok))
        BY <3>3
      <4> DEFINE r == Answered(m, ok)
      <4>2. m = [from |-> r.from, kind |-> r.kind, seq |-> r.seq]
        BY <1>5 DEF Answered, Msg
      <4>3. r \in Rep /\ back'[i] = Append(back[i], r) /\ (IsControl(r) <=> IsControl(m))
        BY <4>1, <4>2 DEF IsControl
      <4>4. m = Head(wire[i])
        BY DEF m
      <4> HIDE DEF r
      <4>5. CASE IsControl(m)
        <5>1. RepliesInStep(control[i], Append(back[i], r)) /\ RequestsInStep(control[i], Append(back[i], r), Tail(wire[i]))
          BY <4>2, <4>3, <4>4, <4>5, <3>1, <3>3, <1>2, <1>3, AnswerControl
        <5> QED
          BY <5>1, <4>3, <1>6
      <4>6. CASE ~IsControl(m)
        <5>1. RequestsInStep(control[i], back[i], Tail(wire[i])) /\ Tail(wire[i]) \in Seq(Msg)
          BY <4>4, <4>6, <3>1, <3>3, <1>2, <1>3, TakeOther
        <5>2. RepliesInStep(control[i], Append(back[i], r))
          BY <4>3, <4>6, <3>1, <1>2, AnswerOther
        <5>3. RequestsInStep(control[i], Append(back[i], r), Tail(wire[i]))
          BY <4>3, <4>6, <5>1, <3>1, <1>2, AnswerOtherRequests
        <5> QED
          BY <5>2, <5>3, <4>3, <1>6
      <4> QED
        BY <4>5, <4>6
    <3> QED
      BY <3>2, <3>3, <1>8
  <2> QED
    BY <2>1, <2>2, <2>3, <2>4 DEF PumpInv
<1>11. ASSUME NEW j \in Pumps, j # i PROVE PumpInv(j)'
  BY <1>1, <1>3, <1>6, <1>7, <1>8, <1>11, SamePump
<1>12. Apart' /\ HeldWait'
  BY <1>1, <1>3, SameHolders
<1> QED
  BY <1>9, <1>10, <1>11, <1>12 DEF ClientInv

\* The server completes a URB.
LEMMA CompleteKeeps ==
    ASSUME ClientInv, NEW i \in Pumps, NEW m \in serving[i], ServerComplete(i, m)
    PROVE  ClientInv'
<1>1. ClientTypes /\ (\A j \in Pumps : PumpInv(j)) /\ Apart /\ HeldWait /\ Pointers
  BY DEF ClientInv
<1>2. /\ queue[i] \in Seq(Msg) /\ control[i] \in Seq(Msg) /\ serving[i] \subseteq Msg
      /\ wire[i] \in Seq(Msg) /\ back[i] \in Seq(Rep) /\ m \in Msg /\ m.from \in Callers
  <2>1. /\ queue[i] \in Seq(Msg) /\ control[i] \in Seq(Msg) /\ serving[i] \subseteq Msg
        /\ wire[i] \in Seq(Msg) /\ back[i] \in Seq(Rep)
    BY <1>1 DEF ClientTypes
  <2>2. m \in Msg
    BY <2>1
  <2> QED
    BY <2>1, <2>2 DEF Msg
<1>3. /\ serving' = [serving EXCEPT ![i] = @ \ {m}]
      /\ executed' = [executed EXCEPT ![m.from] = @ + 1] /\ Respond(i, m, TRUE)
      /\ UNCHANGED <<opened, pump, queue, pending, control, cmd_tx, pump_task, answer, link, wire>>
  BY DEF ServerComplete, pumpVars
<1>4. ~IsControl(m)
  BY <1>1 DEF PumpInv, Sorted, IsControl, ControlKinds
<1>5. /\ Answered(m, TRUE) \in Rep /\ back' \in [Pumps -> Seq(Rep)]
      /\ back'[i] = IF link[i] THEN Append(back[i], Answered(m, TRUE)) ELSE back[i]
      /\ \A j \in Pumps : j # i => back'[j] = back[j]
  BY <1>1, <1>2, <1>3, Responds
<1>6. /\ serving'[i] = serving[i] \ {m} /\ serving' \in [Pumps -> SUBSET Msg]
      /\ \A j \in Pumps : j # i => serving'[j] = serving[j]
  BY <1>1, <1>2, <1>3 DEF ClientTypes
<1>7. executed' \in [Callers -> Nat]
  BY <1>1, <1>2, <1>3 DEF ClientTypes
<1>8. ClientTypes' /\ Pointers'
  BY <1>1, <1>3, <1>5, <1>6, <1>7 DEF ClientTypes, Pointers
<1>9. PumpInv(i)'
  <2>1. NothingLeft(i)'
    BY <1>1, <1>3 DEF PumpInv, NothingLeft, Runs
  <2>2. Sorted(i)'
    BY <1>1, <1>3, <1>6 DEF PumpInv, Sorted
  <2>3. OnePlace(i)'
    BY <1>1, <1>3 DEF PumpInv, OnePlace
  <2>4. InStep(i)'
    <3> SUFFICES ASSUME Runs(i)
                 PROVE  /\ RepliesInStep(control[i], back'[i])
                        /\ link[i] => RequestsInStep(control[i], back'[i], wire[i])
      BY <1>3 DEF InStep, Runs
    <3>1. RepliesInStep(control[i], back[i]) /\ (link[i] => RequestsInStep(control[i], back[i], wire[i]))
      BY <1>1 DEF PumpInv, InStep
    <3>2. CASE ~link[i]
      BY <3>1, <3>2, <1>5
    <3>3. CASE link[i]
      <4>1. ~IsControl(Answered(m, TRUE))
        BY <1>4 DEF IsControl, Answered
      <4>2. RepliesInStep(control[i], Append(back[i], Answered(m, TRUE)))
        BY <4>1, <3>1, <1>2, <1>5, AnswerOther
      <4>3. RequestsInStep(control[i], Append(back[i], Answered(m, TRUE)), wire[i])
        BY <4>1, <3>1, <3>3, <1>2, <1>5, AnswerOtherRequests
      <4> QED
        BY <4>2, <4>3, <3>3, <1>5
    <3> QED
      BY <3>2, <3>3
  <2> QED
    BY <2>1, <2>2, <2>3, <2>4 DEF PumpInv
<1>10. ASSUME NEW j \in Pumps, j # i PROVE PumpInv(j)'
  BY <1>1, <1>3, <1>5, <1>6, <1>10, SamePump
<1>11. Apart' /\ HeldWait'
  BY <1>1, <1>3, SameHolders
<1> QED
  BY <1>8, <1>9, <1>10, <1>11 DEF ClientInv

\* The server ends a session.
LEMMA TeardownKeeps ==
    ASSUME ClientInv, NEW i \in Pumps, ServerTeardown(i)
    PROVE  ClientInv'
<1>1. ClientTypes /\ (\A j \in Pumps : PumpInv(j)) /\ Apart /\ HeldWait /\ Pointers
  BY DEF ClientInv
<1>2. /\ ~link[i] /\ wire' = [wire EXCEPT ![i] = <<>>]
      /\ UNCHANGED <<opened, pump, queue, pending, control, cmd_tx, pump_task, answer, link, back,
                     serving, executed>>
  BY DEF ServerTeardown, pumpVars
<1>3. /\ wire'[i] = <<>> /\ wire' \in [Pumps -> Seq(Msg)]
      /\ \A j \in Pumps : j # i => wire'[j] = wire[j]
  BY <1>1, <1>2 DEF ClientTypes
<1>4. ClientTypes' /\ Pointers'
  BY <1>1, <1>2, <1>3 DEF ClientTypes, Pointers
<1>5. PumpInv(i)'
  <2>1. NothingLeft(i)'
    BY <1>1, <1>2, <1>3 DEF PumpInv, NothingLeft, Runs
  <2>2. Sorted(i)'
    BY <1>1, <1>2 DEF PumpInv, Sorted
  <2>3. OnePlace(i)'
    BY <1>1, <1>2 DEF PumpInv, OnePlace
  <2>4. InStep(i)'
    BY <1>1, <1>2 DEF PumpInv, InStep, Runs
  <2> QED
    BY <2>1, <2>2, <2>3, <2>4 DEF PumpInv
<1>6. ASSUME NEW j \in Pumps, j # i PROVE PumpInv(j)'
  BY <1>1, <1>2, <1>3, <1>6, SamePump
<1>7. Apart' /\ HeldWait'
  BY <1>1, <1>2, SameHolders
<1> QED
  BY <1>4, <1>5, <1>6, <1>7 DEF ClientInv

\* The network loses a connection.
LEMMA DropKeeps ==
    ASSUME ClientInv, NEW i \in Pumps, Drop(i)
    PROVE  ClientInv'
<1>1. ClientTypes /\ (\A j \in Pumps : PumpInv(j)) /\ Apart /\ HeldWait /\ Pointers
  BY DEF ClientInv
<1>2. /\ link' = [link EXCEPT ![i] = FALSE]
      /\ UNCHANGED <<opened, pump, queue, pending, control, cmd_tx, pump_task, answer, wire, back,
                     serving, executed>>
  BY DEF Drop, pumpVars
<1>3. /\ ~link'[i] /\ link' \in [Pumps -> BOOLEAN]
      /\ \A j \in Pumps : j # i => link'[j] = link[j]
  BY <1>1, <1>2 DEF ClientTypes
<1>4. ClientTypes' /\ Pointers'
  BY <1>1, <1>2, <1>3 DEF ClientTypes, Pointers
<1>5. PumpInv(i)'
  <2>1. NothingLeft(i)'
    BY <1>1, <1>2, <1>3 DEF PumpInv, NothingLeft, Runs
  <2>2. Sorted(i)'
    BY <1>1, <1>2 DEF PumpInv, Sorted
  <2>3. OnePlace(i)'
    BY <1>1, <1>2 DEF PumpInv, OnePlace
  <2>4. InStep(i)'
    BY <1>1, <1>2, <1>3 DEF PumpInv, InStep, Runs
  <2> QED
    BY <2>1, <2>2, <2>3, <2>4 DEF PumpInv
<1>6. ASSUME NEW j \in Pumps, j # i PROVE PumpInv(j)'
  BY <1>1, <1>2, <1>3, <1>6, SamePump
<1>7. Apart' /\ HeldWait'
  BY <1>1, <1>2, SameHolders
<1> QED
  BY <1>4, <1>5, <1>6, <1>7 DEF ClientInv

\* A step that leaves the client as it is, but for the lease.
LEMMA IdleKeeps ==
    ASSUME ClientInv, UNCHANGED pumpVars, UNCHANGED <<link, wire, back, serving, executed>>
    PROVE  ClientInv'
<1> USE DEF pumpVars
<1>1. ClientTypes /\ (\A j \in Pumps : PumpInv(j)) /\ Apart /\ HeldWait /\ Pointers
  BY DEF ClientInv
<1>2. ClientTypes' /\ Pointers'
  BY <1>1 DEF ClientTypes, Pointers
<1>3. ASSUME NEW j \in Pumps PROVE PumpInv(j)'
  BY <1>1, SamePump
<1>4. Apart' /\ HeldWait'
  BY <1>1, SameHolders
<1> QED
  BY <1>2, <1>3, <1>4 DEF ClientInv

\* What the tasks do to the client, and what it does itself.
ClientStep ==
    \/ \E c \in Callers, kind \in Kinds, n \in Nat, i \in Pumps :
         answer[c] # "waiting" /\ SendOn(c, kind, n, i)
    \/ \E c \in Callers : answer[c] # "waiting" /\ Take(c)
    \/ Connect \/ AbortOld \/ SwapTx \/ Revoke
    \/ \E i \in Pumps : \/ PumpWrite(i) \/ PumpRead(i) \/ PumpEnd(i)
                        \/ ServerRead(i) \/ ServerTeardown(i) \/ Drop(i)
                        \/ \E m \in serving[i] : ServerComplete(i, m)
    \/ UNCHANGED clientVars

\* Every step keeps the invariant of the client.
LEMMA ClientKeeps ==
    ASSUME ClientInv, ClientStep
    PROVE  ClientInv'
<1>1. CASE \E c \in Callers, kind \in Kinds, n \in Nat, i \in Pumps :
              answer[c] # "waiting" /\ SendOn(c, kind, n, i)
  BY <1>1, CallKeeps
<1>2. CASE \E c \in Callers : answer[c] # "waiting" /\ Take(c)
  BY <1>2, TakeKeeps
<1>3. CASE Connect
  BY <1>3, ConnectKeeps
<1>4. CASE AbortOld \/ SwapTx
  BY <1>4, AbortKeeps, SwapKeeps
<1>5. CASE Revoke
  BY <1>5, IdleKeeps DEF Revoke
<1>6. ASSUME NEW i \in Pumps,
             \/ PumpWrite(i) \/ PumpRead(i) \/ PumpEnd(i)
             \/ ServerRead(i) \/ ServerTeardown(i) \/ Drop(i)
      PROVE  ClientInv'
  BY <1>6, WriteKeeps, ReadKeeps, EndKeeps, ServeKeeps, TeardownKeeps, DropKeeps
<1>7. ASSUME NEW i \in Pumps, NEW m \in serving[i], ServerComplete(i, m)
      PROVE  ClientInv'
  BY <1>7, CompleteKeeps
<1>8. CASE UNCHANGED clientVars
  BY <1>8, IdleKeeps DEF clientVars, remoteVars
<1> QED
  BY <1>1, <1>2, <1>3, <1>4, <1>5, <1>6, <1>7, <1>8 DEF ClientStep

\* It holds at the start.
LEMMA ClientStarts == PumpInit => ClientInv
<1> SUFFICES ASSUME PumpInit PROVE ClientInv
  OBVIOUS
<1> USE DEF PumpInit
<1>1. MaxPumps \in Nat /\ 1 \in Pumps
  BY PumpAssumption DEF Pumps
<1>2. Pointers
  BY <1>1 DEF Pointers
<1>3. ClientTypes
  BY DEF ClientTypes, Answers
<1>4. Senders(<<>>) = {} /\ Froms({}) = {} /\ Distinct(<<>>)
  BY DEF Senders, Froms, Distinct
<1>5. \A i \in Pumps : Held(i) = {}
  BY <1>3, <1>4, HeldParts
<1>6. Apart /\ HeldWait
  BY <1>5 DEF Apart, HeldWait
<1>7. ASSUME NEW i \in Pumps PROVE PumpInv(i)
  <2>1. /\ queue[i] = <<>> /\ control[i] = <<>> /\ pending[i] = {} /\ wire[i] = <<>>
        /\ back[i] = <<>> /\ serving[i] = {} /\ link[i] = (i = 1)
        /\ pump[i] = IF i = 1 THEN "running" ELSE "none"
    OBVIOUS
  <2>2. NothingLeft(i)
    <3>1. i > opened <=> i # 1
      BY <1>1 DEF Pumps
    <3> QED
      BY <2>1, <3>1 DEF NothingLeft, Runs
  <2>3. Sorted(i)
    BY <2>1 DEF Sorted
  <2>4. OnePlace(i)
    BY <2>1, <1>4 DEF OnePlace
  <2>5. InStep(i)
    <3>1. Len(<<>>) = 0 /\ Rank(<<>>, 0) = 0 /\ 1..0 = {}
      BY RankZero
    <3>2. RepliesInStep(<<>>, <<>>)
      BY <3>1 DEF RepliesInStep
    <3>3. RequestsInStep(<<>>, <<>>, <<>>)
      BY <3>1 DEF RequestsInStep
    <3> QED
      BY <2>1, <3>2, <3>3 DEF InStep
  <2> QED
    BY <2>2, <2>3, <2>4, <2>5 DEF PumpInv
<1> QED
  BY <1>2, <1>3, <1>6, <1>7 DEF ClientInv

-----------------------------------------------------------------------------
(* The tasks.                                                              *)

\* A task that waits is where it waits; a sender that was taken is of the pump that
\* cmd_tx reaches, or of an earlier one.
TaskInv ==
    /\ pc \in [Callers -> States]
    /\ attempt \in [UrbTasks -> 0..1]
    /\ owner \in [Spawned -> Importers \cup {NoCaller}]
    /\ seq \in [Spawned -> Nat]
    /\ tx \in [Callers -> Nat]
    /\ \A c \in Callers : answer[c] = "waiting" => pc[c] \in Kinds
    /\ \A c \in Callers : pc[c] = "tx" => tx[c] \in 1..cmd_tx

\* The URBs an import has submitted.
TasksOf(h) == {d \in UrbTasks : owner[d] = h}

\* The steps of the tasks, by what they do to the client.  A task sends a request,
\* a URB by the sender that it has taken, a request of its recovery by cmd_tx.
Calls(c, kind, n, i) ==
    /\ answer[c] # "waiting" /\ SendOn(c, kind, n, i) /\ GoTo(c, kind)
    /\ c \in UrbTasks => \/ kind = "urb" /\ pc[c] = "tx" /\ n = seq[c] /\ i = tx[c]
                         \/ kind = "hello" /\ pc[c] = "swapped"
                         \/ kind = "attach" /\ pc[c] = "hello"
    /\ c \notin UrbTasks => kind # "urb"
    /\ c \in Spawned => pc[c] # "idle"
    /\ tx' = tx \/ tx' = [tx EXCEPT ![c] = 0]
    /\ UNCHANGED <<attempt, owner, seq>>

\* It takes the answer and goes on.
Takes(c, s) ==
    /\ answer[c] # "waiting" /\ Take(c) /\ GoTo(c, s) /\ s \notin Kinds /\ s # "tx"
    /\ c \in Spawned => pc[c] # "idle" /\ s # "idle"
    /\ c \in UrbTasks =>
         \/ pc[c] = "urb" /\ s = "reply" /\ attempt' = attempt
         \/ pc[c] = "urb" /\ s = "recover" /\ attempt[c] = 0 /\ attempt' = [attempt EXCEPT ![c] = 1]
         \/ pc[c] \in {"hello", "attach"} /\ s \in {"recover", "reply", "call"} /\ attempt' = attempt
    /\ c \notin UrbTasks => attempt' = attempt
    /\ UNCHANGED <<owner, seq, tx>>

\* It replaces the connection.
Recovers(c) ==
    /\ \/ pc[c] = "recover" /\ Connect /\ GoTo(c, "connected")
       \/ pc[c] = "connected" /\ AbortOld /\ GoTo(c, "swap")
       \/ pc[c] = "swap" /\ SwapTx /\ GoTo(c, "swapped")
    /\ UNCHANGED <<attempt, owner, seq, tx>>

\* It goes on by itself, perhaps with a sender that it takes.
Moves(c, s) ==
    /\ UNCHANGED clientVars /\ GoTo(c, s) /\ pc[c] \notin Kinds /\ s \notin Kinds
    /\ c \in Spawned => pc[c] # "idle" /\ s # "idle"
    /\ c \in UrbTasks => \/ pc[c] = "call" /\ s = "cloned"
                         \/ pc[c] = "cloned" /\ s = "tx"
                         \/ pc[c] = "recover" /\ s \in {"recover", "reply"}
                         \/ pc[c] = "reply" /\ s = "done"
    /\ tx' = IF s = "tx" THEN [tx EXCEPT ![c] = cmd_tx] ELSE tx
    /\ UNCHANGED <<attempt, owner, seq>>

\* No task does anything.
Stays == UNCHANGED <<clientVars, pc, attempt, owner, seq, tx>>

\* It is spawned, with a number of its own if it is a URB.
Spawns(h, c, n) ==
    /\ Spawn(h, c, n)
    /\ c \in UrbTasks => n = 1 + Cardinality(TasksOf(h))

\* The client and the server by themselves.
Alone ==
    \/ Revoke
    \/ \E i \in Pumps : \/ PumpWrite(i) \/ PumpRead(i) \/ PumpEnd(i)
                        \/ ServerRead(i) \/ ServerTeardown(i) \/ Drop(i)
                        \/ \E m \in serving[i] : ServerComplete(i, m)

\* The normal form of a step.
Steps ==
    \/ \E c \in Callers, kind \in Kinds, n \in Nat, i \in Pumps : Calls(c, kind, n, i)
    \/ \E c \in Callers, s \in States : Takes(c, s)
    \/ \E c \in UrbTasks : Recovers(c)
    \/ \E c \in Callers, s \in States : Moves(c, s)
    \/ \E h \in Importers, c \in Spawned, n \in Nat : Spawns(h, c, n)
    \/ Alone /\ UNCHANGED taskVars
    \/ Stays

\* The kinds of tasks, from the assumptions on the constants.
LEMMA TaskKinds ==
    /\ UrbTasks \subseteq Callers /\ UnlinkTasks \subseteq Callers /\ Importers \subseteq Callers
    /\ UrbTasks \subseteq Spawned /\ UnlinkTasks \subseteq Spawned /\ Spawned \subseteq Callers
    /\ UrbTasks \cap UnlinkTasks = {} /\ Importers \cap Spawned = {} /\ NoCaller \notin Callers
    /\ IsFiniteSet(UrbTasks)
<1>1. UrbTasks \subseteq Callers /\ IsFiniteSet(Callers)
  BY ForwardAssumption
<1>2. IsFiniteSet(UrbTasks)
  BY <1>1, FS_Subset
<1> QED
  BY <1>2, ForwardAssumption DEF Spawned

\* The client and the senders that were taken name pumps.
LEMMA Senders1 ==
    ASSUME ClientInv, TaskInv
    PROVE  cmd_tx \in Pumps /\ (\A c \in Callers : pc[c] = "tx" => tx[c] \in Pumps)
<1>1. opened \in Pumps /\ cmd_tx \in 1..opened /\ MaxPumps \in Nat
  BY PumpAssumption DEF ClientInv, Pointers
<1>2. \A c \in Callers : pc[c] = "tx" => tx[c] \in 1..cmd_tx
  BY DEF TaskInv
<1> QED
  BY <1>1, <1>2 DEF Pumps

\* A call on a clone of the client in the normal form.
LEMMA CloneSteps ==
    ASSUME ClientInv, TaskInv, NEW c \in Callers, NEW state \in {"idle", "call"},
           NEW kind \in {"urb", "list"}, NEW n \in Nat,
           c \in UrbTasks => state = "call" /\ kind = "urb" /\ n = seq[c],
           c \notin UrbTasks => c \notin Spawned /\ kind # "urb",
           CloneClient(c, state) \/ TakeTx(c) \/ SendTx(c, kind, n)
    PROVE  \/ \E i \in Pumps : Calls(c, kind, n, i)
           \/ \E s \in States : Moves(c, s)
<1>1. answer[c] = "waiting" => pc[c] \in Kinds
  BY DEF TaskInv
<1>2. /\ {"idle", "call", "cloned", "tx"} \cap Kinds = {}
      /\ {"cloned", "tx"} \subseteq States
  BY DEF Kinds, ControlKinds, States
<1>3. CASE CloneClient(c, state)
  <2>1. Moves(c, "cloned")
    BY <1>2, <1>3 DEF CloneClient, Moves, packetVars
  <2> QED
    BY <2>1, <1>2
<1>4. CASE TakeTx(c)
  <2>1. Moves(c, "tx")
    BY <1>2, <1>4 DEF TakeTx, Moves, packetVars
  <2> QED
    BY <2>1, <1>2
<1>5. CASE SendTx(c, kind, n)
  <2>1. pc[c] = "tx" /\ tx[c] \in Pumps
    BY <1>5, Senders1 DEF SendTx
  <2>2. Calls(c, kind, n, tx[c])
    BY <1>1, <1>2, <1>5, <2>1 DEF SendTx, Calls, packetVars
  <2> QED
    BY <2>1, <2>2
<1> QED
  BY <1>3, <1>4, <1>5

\* The steps of urb_with_recovery in the normal form.
LEMMA UrbSteps ==
    ASSUME ClientInv, TaskInv, NEW c \in UrbTasks, UrbNext(c)
    PROVE  \/ \E kind \in Kinds, n \in Nat, i \in Pumps : Calls(c, kind, n, i)
           \/ \E s \in States : Takes(c, s)
           \/ \E s \in States : Moves(c, s)
           \/ Recovers(c)
<1>1. /\ c \in Callers /\ c \in Spawned /\ c \notin Importers
      /\ seq[c] \in Nat /\ 0 \in Nat /\ (answer[c] = "waiting" => pc[c] \in Kinds)
  BY TaskKinds DEF TaskInv
<1>2. /\ {"urb", "attach", "hello"} \subseteq Kinds
      /\ {"reply", "recover", "call", "connected", "swap", "swapped"} \cap Kinds = {}
      /\ {"reply", "recover", "call"} \subseteq States
  BY DEF Kinds, ControlKinds, States
<1>3. CASE UrbCall(c)
  BY <1>1, <1>2, <1>3, CloneSteps DEF UrbCall
<1>4. CASE UrbEnds(c)
  <2>1. Takes(c, "reply")
    BY <1>1, <1>2, <1>4 DEF UrbEnds, Takes, packetVars, Got
  <2> QED
    BY <2>1, <1>2
<1>5. CASE UrbLost(c)
  <2>1. Takes(c, "recover")
    BY <1>1, <1>2, <1>5 DEF UrbLost, Takes, packetVars, Got
  <2> QED
    BY <2>1, <1>2
<1>6. CASE Reconnect(c)
  BY <1>6 DEF Reconnect, Recovers, packetVars
<1>7. CASE ReconnectFails(c)
  <2>1. PICK s \in {"recover", "reply"} : GoTo(c, s)
    BY <1>7 DEF ReconnectFails, NextRound
  <2>2. Moves(c, s)
    BY <1>2, <1>7, <2>1 DEF ReconnectFails, Moves, packetVars
  <2> QED
    BY <1>2, <2>1, <2>2
<1>8. CASE ReconnectAborts(c) \/ ReconnectSwaps(c)
  BY <1>8 DEF ReconnectAborts, ReconnectSwaps, Recovers, packetVars
<1>9. CASE ReconnectHello(c)
  <2>1. Calls(c, "hello", 0, cmd_tx)
    BY <1>1, <1>2, <1>9 DEF ReconnectHello, Calls, packetVars, Call, CallSeq
  <2> QED
    BY <2>1, <1>1, <1>2, Senders1
<1>10. CASE Reattach(c)
  <2>1. Calls(c, "attach", 0, cmd_tx)
    BY <1>1, <1>2, <1>10 DEF Reattach, Calls, packetVars, Call, CallSeq, Got
  <2> QED
    BY <2>1, <1>1, <1>2, Senders1
<1>11. CASE Recovered(c)
  <2>1. Takes(c, "call")
    BY <1>1, <1>2, <1>11 DEF Recovered, Takes, packetVars, Got
  <2> QED
    BY <2>1, <1>2
<1>12. CASE ReattachRejected(c)
  <2>1. Takes(c, "reply")
    BY <1>1, <1>2, <1>12 DEF ReattachRejected, Takes, packetVars, Got
  <2> QED
    BY <2>1, <1>2
<1>13. CASE RoundLost(c)
  <2>1. PICK s \in {"recover", "reply"} : GoTo(c, s)
    BY <1>13 DEF RoundLost, NextRound
  <2>2. Takes(c, s)
    BY <1>1, <1>2, <1>13, <2>1 DEF RoundLost, Takes, packetVars, Got
  <2> QED
    BY <2>1, <2>2, <1>2
<1> QED
  BY <1>3, <1>4, <1>5, <1>6, <1>7, <1>8, <1>9, <1>10, <1>11, <1>12, <1>13 DEF UrbNext

\* The steps of an unlink task in the normal form.
LEMMA UnlinkSteps ==
    ASSUME ClientInv, TaskInv, NEW c \in UnlinkTasks, UnlinkNext(c)
    PROVE  \/ \E kind \in Kinds, n \in Nat, i \in Pumps : Calls(c, kind, n, i)
           \/ \E s \in States : Takes(c, s)
<1>1. /\ c \in Callers /\ c \in Spawned /\ c \notin UrbTasks
      /\ seq[c] \in Nat /\ (answer[c] = "waiting" => pc[c] \in Kinds)
  BY TaskKinds DEF TaskInv
<1>2. "unlink" \in Kinds /\ "call" \notin Kinds /\ "reply" \notin Kinds /\ "reply" \in States
  BY DEF Kinds, ControlKinds, States
<1>3. CASE Unlink(c)
  <2>1. Calls(c, "unlink", seq[c], cmd_tx)
    BY <1>1, <1>2, <1>3 DEF Unlink, Calls, packetVars, CallSeq
  <2> QED
    BY <2>1, <1>1, <1>2, Senders1
<1>4. CASE UnlinkEnds(c)
  <2>1. Takes(c, "reply")
    BY <1>1, <1>2, <1>4 DEF UnlinkEnds, Takes, packetVars, Returned
  <2> QED
    BY <2>1, <1>2
<1> QED
  BY <1>3, <1>4 DEF UnlinkNext

\* The steps of handle_forward in the normal form.
LEMMA ImportSteps ==
    ASSUME ClientInv, TaskInv, NEW h \in Importers, ImportNext(h) \/ ListRequest(h)
    PROVE  \/ \E kind \in Kinds, n \in Nat, i \in Pumps : Calls(h, kind, n, i)
           \/ \E s \in States : Takes(h, s)
           \/ \E s \in States : Moves(h, s)
<1>1. /\ h \in Callers /\ h \notin Spawned /\ h \notin UrbTasks
      /\ (answer[h] = "waiting" => pc[h] \in Kinds) /\ 0 \in Nat
  BY TaskKinds DEF TaskInv
<1>2. {"list", "attach", "detach"} \subseteq Kinds /\ {"idle", "importing", "closing", "done"} \cap Kinds = {}
      /\ {"idle", "importing", "closing", "done"} \subseteq States
  BY DEF Kinds, ControlKinds, States
<1>3. CASE ListDevices(h) \/ ListRequest(h)
  BY <1>1, <1>2, <1>3, CloneSteps DEF ListDevices, ListRequest
<1>4. CASE ListEnds(h)
  <2>1. Takes(h, "idle")
    BY <1>1, <1>2, <1>4 DEF ListEnds, Takes, packetVars, Returned
  <2> QED
    BY <2>1, <1>2
<1>5. CASE ImportAttach(h)
  <2>1. Calls(h, "attach", 0, cmd_tx)
    BY <1>1, <1>2, <1>5 DEF ImportAttach, Calls, packetVars, Call, CallSeq, Got
  <2> QED
    BY <2>1, <1>1, <1>2, Senders1
<1>6. CASE ImportAttached(h)
  <2>1. PICK s \in {"importing", "done"} : GoTo(h, s)
    BY <1>6 DEF ImportAttached
  <2>2. Takes(h, s)
    BY <1>1, <1>2, <1>6, <2>1 DEF ImportAttached, Takes, packetVars, Got
  <2> QED
    BY <2>1, <2>2, <1>2
<1>7. CASE ImportRejected(h)
  <2>1. Takes(h, "idle")
    BY <1>1, <1>2, <1>7 DEF ImportRejected, Takes, packetVars, Got
  <2> QED
    BY <2>1, <1>2
<1>8. CASE ImportDetach(h)
  <2>1. Calls(h, "detach", 0, cmd_tx)
    BY <1>1, <1>2, <1>8 DEF ImportDetach, Calls, packetVars, Call, CallSeq
  <2> QED
    BY <2>1, <1>1, <1>2, Senders1
<1>9. CASE ImportEnds(h)
  <2>1. Takes(h, "done")
    BY <1>1, <1>2, <1>9 DEF ImportEnds, Takes, packetVars, Returned
  <2> QED
    BY <2>1, <1>2
<1> QED
  BY <1>3, <1>4, <1>5, <1>6, <1>7, <1>8, <1>9 DEF ImportNext

\* The end of the two halves of a USB/IP connection, and of the tasks, in the normal form.
LEMMA EndSteps ==
    /\ \A h \in Importers : ReaderStops(h) \/ PeerGoes(h) => \E s \in States : Moves(h, s)
    /\ \A h \in Importers : WriterFails(h) => Stays
    /\ \A c \in Spawned : RetSent(c) => \E s \in States : Moves(c, s)
<1>1. /\ {"importing", "closing", "reply", "done"} \cap Kinds = {}
      /\ {"closing", "done"} \subseteq States
  BY DEF Kinds, ControlKinds, States
<1>2. ASSUME NEW h \in Importers, ReaderStops(h) \/ PeerGoes(h) PROVE \E s \in States : Moves(h, s)
  <2>1. h \notin Spawned /\ h \notin UrbTasks
    BY TaskKinds
  <2>2. Moves(h, "closing")
    BY <1>1, <1>2, <2>1 DEF ReaderStops, PeerGoes, Moves, packetVars
  <2> QED
    BY <1>1, <2>2
<1>3. ASSUME NEW h \in Importers, WriterFails(h) PROVE Stays
  BY <1>3 DEF WriterFails, Stays
<1>4. ASSUME NEW c \in Spawned, RetSent(c) PROVE \E s \in States : Moves(c, s)
  <2>1. Moves(c, "done")
    BY <1>1, <1>4 DEF RetSent, Moves, packetVars
  <2> QED
    BY <1>1, <2>1
<1> QED
  BY <1>2, <1>3, <1>4

\* The packets of the peer in the normal form.
LEMMA SpawnSteps ==
    ASSUME TaskInv, NEW h \in Importers,
           (\E c \in UrbTasks : Submit(h, c)) \/ (\E c \in UnlinkTasks : CmdUnlink(h, c))
    PROVE  \E c \in Spawned, n \in Nat : Spawns(h, c, n)
<1>1. CASE \E c \in UrbTasks : Submit(h, c)
  <2>1. PICK c \in UrbTasks : Submit(h, c)
    BY <1>1
  <2>2. c \in Spawned /\ IsFiniteSet(TasksOf(h))
    BY TaskKinds, FS_Subset DEF TasksOf
  <2>3. 1 + Cardinality(TasksOf(h)) \in Nat
    BY <2>2, FS_CardinalityType
  <2>4. Spawns(h, c, 1 + Cardinality(TasksOf(h)))
    BY <2>1 DEF Submit, Spawns, TasksOf
  <2> QED
    BY <2>2, <2>3, <2>4
<1>2. CASE \E c \in UnlinkTasks : CmdUnlink(h, c)
  <2>1. PICK c \in UnlinkTasks : CmdUnlink(h, c)
    BY <1>2
  <2>2. PICK u \in UrbTasks : Spawn(h, c, seq[u])
    BY <2>1 DEF CmdUnlink
  <2>3. c \in Spawned /\ c \notin UrbTasks /\ seq[u] \in Nat
    BY TaskKinds DEF TaskInv
  <2>4. Spawns(h, c, seq[u])
    BY <2>2, <2>3 DEF Spawns
  <2> QED
    BY <2>3, <2>4
<1> QED
  BY <1>1, <1>2

\* Every step of the specification has the normal form.
LEMMA NextSteps ==
    ASSUME ClientInv, TaskInv, [ForwardNext]_forwardVars
    PROVE  Steps
<1>1. ASSUME NEW c \in UrbTasks, UrbNext(c) PROVE Steps
  BY <1>1, UrbSteps, TaskKinds DEF Steps
<1>2. ASSUME NEW c \in UnlinkTasks, UnlinkNext(c) PROVE Steps
  BY <1>2, UnlinkSteps, TaskKinds DEF Steps
<1>3. ASSUME NEW h \in Importers, ImportNext(h) PROVE Steps
  BY <1>3, ImportSteps, TaskKinds DEF Steps
<1>4. ASSUME NEW h \in Importers, PeerNext(h) PROVE Steps
  <2>1. CASE ListRequest(h)
    BY <2>1, ImportSteps, TaskKinds DEF Steps
  <2>2. CASE ReaderStops(h) \/ PeerGoes(h) \/ WriterFails(h)
    BY <2>2, EndSteps, TaskKinds DEF Steps
  <2>3. CASE (\E c \in UrbTasks : Submit(h, c)) \/ (\E c \in UnlinkTasks : CmdUnlink(h, c))
    BY <2>3, SpawnSteps DEF Steps
  <2> QED
    BY <1>4, <2>1, <2>2, <2>3 DEF PeerNext
<1>5. ASSUME NEW c \in Spawned, RetSent(c) PROVE Steps
  BY <1>5, EndSteps, TaskKinds DEF Steps
<1>6. CASE /\ Revoke \/ \E i \in Pumps : PumpNext(i) \/ ServerNext(i) \/ ServerTeardown(i) \/ Drop(i)
           /\ UNCHANGED taskVars
  <2>1. Alone
    BY <1>6 DEF Alone, PumpNext, ServerNext, UrbServed
  <2> QED
    BY <2>1, <1>6 DEF Steps
<1>7. CASE UNCHANGED forwardVars
  BY <1>7 DEF Steps, Stays, forwardVars, taskVars, packetVars
<1> QED
  BY <1>1, <1>2, <1>3, <1>4, <1>5, <1>6, <1>7 DEF ForwardNext

-----------------------------------------------------------------------------
(* The tasks and the client together.                                      *)

\* Every step is one that the invariant of the client knows.
LEMMA StepsOfClient ==
    ASSUME Steps
    PROVE  ClientStep
<1>1. ASSUME NEW c \in Callers, NEW kind \in Kinds, NEW n \in Nat, NEW i \in Pumps, Calls(c, kind, n, i)
      PROVE  ClientStep
  BY <1>1 DEF Calls, ClientStep
<1>2. ASSUME NEW c \in Callers, NEW s \in States, Takes(c, s) PROVE ClientStep
  BY <1>2 DEF Takes, ClientStep
<1>3. ASSUME NEW c \in UrbTasks, Recovers(c) PROVE ClientStep
  BY <1>3 DEF Recovers, ClientStep
<1>4. ASSUME NEW h \in Importers, NEW c \in Spawned, NEW n \in Nat, Spawns(h, c, n) PROVE ClientStep
  BY <1>4 DEF Spawns, Spawn, ClientStep
<1>5. ASSUME NEW c \in Callers, NEW s \in States, Moves(c, s) PROVE ClientStep
  BY <1>5 DEF Moves, ClientStep
<1>6. CASE Alone
  BY <1>6 DEF Alone, ClientStep
<1>7. CASE Stays
  BY <1>7 DEF Stays, ClientStep
<1> QED
  BY <1>1, <1>2, <1>3, <1>4, <1>5, <1>6, <1>7 DEF Steps

\* The client alone makes nobody wait.
LEMMA AloneAnswers ==
    ASSUME ClientTypes, Alone
    PROVE  \A c \in Callers : answer'[c] = "waiting" => answer[c] = "waiting"
<1> SUFFICES ASSUME NEW c \in Callers, answer'[c] = "waiting" PROVE answer[c] = "waiting"
  OBVIOUS
<1>1. CASE Revoke
  BY <1>1 DEF Revoke, pumpVars
<1>2. ASSUME NEW i \in Pumps, PumpWrite(i) PROVE answer[c] = "waiting"
  BY <1>2 DEF PumpWrite, Register
<1>3. ASSUME NEW i \in Pumps, PumpRead(i) PROVE answer[c] = "waiting"
  BY <1>3 DEF PumpRead
<1>4. ASSUME NEW i \in Pumps, PumpEnd(i) PROVE answer[c] = "waiting"
  BY <1>4 DEF PumpEnd
<1>5. ASSUME NEW i \in Pumps, ServerRead(i) \/ ServerTeardown(i) \/ Drop(i) PROVE answer[c] = "waiting"
  BY <1>5 DEF ServerRead, ServerTeardown, Drop, pumpVars
<1>6. ASSUME NEW i \in Pumps, NEW m \in serving[i], ServerComplete(i, m) PROVE answer[c] = "waiting"
  BY <1>6 DEF ServerComplete, pumpVars
<1> QED
  BY <1>1, <1>2, <1>3, <1>4, <1>5, <1>6 DEF Alone

\* What a task leaves of its senders when it moves: the pumps that cmd_tx reaches only grow.
LEMMA SendersKeep ==
    ASSUME TaskInv, cmd_tx \in Nat, cmd_tx' \in Nat, cmd_tx <= cmd_tx', NEW c \in Callers,
           NEW s \in States, pc' = [pc EXCEPT ![c] = s], s # "tx",
           tx' = tx \/ tx' = [tx EXCEPT ![c] = 0]
    PROVE  tx' \in [Callers -> Nat] /\ (\A d \in Callers : pc'[d] = "tx" => tx'[d] \in 1..cmd_tx')
<1>1. /\ tx \in [Callers -> Nat] /\ pc \in [Callers -> States]
      /\ \A d \in Callers : pc[d] = "tx" => tx[d] \in 1..cmd_tx
  BY DEF TaskInv
<1>2. tx' \in [Callers -> Nat]
  BY <1>1
<1>3. ASSUME NEW d \in Callers, pc'[d] = "tx" PROVE tx'[d] \in 1..cmd_tx'
  <2>1. d # c /\ pc[d] = "tx" /\ tx'[d] = tx[d]
    BY <1>1, <1>3
  <2> QED
    BY <1>1, <2>1
<1> QED
  BY <1>2, <1>3

\* Every step keeps the invariant of the tasks.
LEMMA TasksKeep ==
    ASSUME ClientInv, TaskInv, Steps
    PROVE  TaskInv'
<1>1. /\ pc \in [Callers -> States] /\ attempt \in [UrbTasks -> 0..1]
      /\ owner \in [Spawned -> Importers \cup {NoCaller}] /\ seq \in [Spawned -> Nat]
      /\ \A c \in Callers : answer[c] = "waiting" => pc[c] \in Kinds
      /\ answer \in [Callers -> Answers] /\ ClientTypes
  BY DEF TaskInv, ClientInv, ClientTypes
<1>2. Kinds \subseteq States /\ "tx" \notin Kinds
  BY DEF Kinds, ControlKinds, States
<1>3. opened \in Nat /\ cmd_tx \in Nat /\ cmd_tx <= opened /\ cmd_tx <= cmd_tx /\ cmd_tx \in 1..cmd_tx
  BY PumpAssumption DEF ClientInv, Pointers, Pumps
<1>4. ASSUME NEW c \in Callers, NEW kind \in Kinds, NEW n \in Nat, NEW i \in Pumps, Calls(c, kind, n, i)
      PROVE  TaskInv'
  <2>1. /\ pc' = [pc EXCEPT ![c] = kind] /\ UNCHANGED <<attempt, owner, seq, cmd_tx>>
        /\ kind \in States /\ kind # "tx" /\ (tx' = tx \/ tx' = [tx EXCEPT ![c] = 0])
    BY <1>2, <1>4 DEF Calls, SendOn, GoTo
  <2>2. \A d \in Callers : d # c => answer'[d] = answer[d]
    BY <1>1, <1>4 DEF Calls, SendOn, SendCmd
  <2>3. \A d \in Callers : answer'[d] = "waiting" => pc'[d] \in Kinds
    BY <1>1, <2>1, <2>2
  <2>4. tx' \in [Callers -> Nat] /\ (\A d \in Callers : pc'[d] = "tx" => tx'[d] \in 1..cmd_tx')
    BY <1>3, <2>1, SendersKeep
  <2> QED
    BY <1>1, <2>1, <2>3, <2>4 DEF TaskInv
<1>5. ASSUME NEW c \in Callers, NEW s \in States, Takes(c, s) PROVE TaskInv'
  <2>1. pc' = [pc EXCEPT ![c] = s] /\ UNCHANGED <<owner, seq, tx>> /\ s # "tx"
    BY <1>5 DEF Takes, GoTo
  <2>2. answer' = [answer EXCEPT ![c] = "none"] /\ cmd_tx' = cmd_tx
    BY <1>5 DEF Takes, Take
  <2>3. \A d \in Callers : answer'[d] = "waiting" => pc'[d] \in Kinds
    BY <1>1, <2>1, <2>2
  <2>4. attempt' \in [UrbTasks -> 0..1]
    BY <1>1, <1>5 DEF Takes
  <2>5. tx' \in [Callers -> Nat] /\ (\A d \in Callers : pc'[d] = "tx" => tx'[d] \in 1..cmd_tx')
    BY <1>3, <2>1, <2>2, SendersKeep
  <2> QED
    BY <1>1, <2>1, <2>3, <2>4, <2>5 DEF TaskInv
<1>6. ASSUME NEW c \in UrbTasks, Recovers(c) PROVE TaskInv'
  <2>1. c \in Callers /\ UNCHANGED <<attempt, owner, seq, tx>>
    BY <1>6, TaskKinds DEF Recovers
  <2>2. {"connected", "swap", "swapped"} \subseteq States
        /\ {"recover", "connected", "swap"} \cap Kinds = {}
    BY DEF Kinds, ControlKinds, States
  <2>3. PICK s \in {"connected", "swap", "swapped"} : pc' = [pc EXCEPT ![c] = s]
    BY <1>6 DEF Recovers, GoTo
  <2>4. answer' = answer /\ (cmd_tx' = cmd_tx \/ cmd_tx' = opened)
    BY <1>6 DEF Recovers, Connect, AbortOld, SwapTx
  <2>5. pc[c] \notin Kinds
    BY <1>6, <2>2 DEF Recovers
  <2>6. \A d \in Callers : answer'[d] = "waiting" => pc'[d] \in Kinds
    BY <1>1, <2>1, <2>3, <2>4, <2>5
  <2>7. s \in States /\ s # "tx" /\ cmd_tx' \in Nat /\ cmd_tx <= cmd_tx'
    BY <1>3, <2>2, <2>3, <2>4
  <2>8. tx' \in [Callers -> Nat] /\ (\A d \in Callers : pc'[d] = "tx" => tx'[d] \in 1..cmd_tx')
    BY <1>3, <2>1, <2>3, <2>7, SendersKeep
  <2> QED
    BY <1>1, <2>1, <2>3, <2>6, <2>7, <2>8 DEF TaskInv
<1>7. ASSUME NEW c \in Callers, NEW s \in States, Moves(c, s) PROVE TaskInv'
  <2>1. /\ pc' = [pc EXCEPT ![c] = s] /\ UNCHANGED <<attempt, owner, seq, answer, cmd_tx>>
        /\ pc[c] \notin Kinds /\ tx' = IF s = "tx" THEN [tx EXCEPT ![c] = cmd_tx] ELSE tx
    BY <1>7 DEF Moves, GoTo, clientVars, pumpVars
  <2>2. \A d \in Callers : answer'[d] = "waiting" => pc'[d] \in Kinds
    BY <1>1, <2>1
  <2>3. tx' \in [Callers -> Nat] /\ (\A d \in Callers : pc'[d] = "tx" => tx'[d] \in 1..cmd_tx')
    <3>1. CASE s # "tx"
      BY <3>1, <1>3, <2>1, SendersKeep
    <3>2. CASE s = "tx"
      <4>1. tx' = [tx EXCEPT ![c] = cmd_tx] /\ tx \in [Callers -> Nat]
        BY <3>2, <2>1 DEF TaskInv
      <4>2. \A d \in Callers : pc[d] = "tx" => tx[d] \in 1..cmd_tx
        BY DEF TaskInv
      <4> QED
        BY <4>1, <4>2, <2>1, <1>1, <1>3
    <3> QED
      BY <3>1, <3>2
  <2> QED
    BY <1>1, <2>1, <2>2, <2>3 DEF TaskInv
<1>8. ASSUME NEW h \in Importers, NEW c \in Spawned, NEW n \in Nat, Spawns(h, c, n) PROVE TaskInv'
  <2>1. /\ pc[c] = "idle" /\ pc' = [pc EXCEPT ![c] = "call"]
        /\ owner' = [owner EXCEPT ![c] = h] /\ seq' = [seq EXCEPT ![c] = n]
        /\ UNCHANGED <<answer, attempt, tx, cmd_tx>>
    BY <1>8 DEF Spawns, Spawn, GoTo, clientVars, pumpVars
  <2>2. c \in Callers /\ "call" \in States /\ "idle" \notin Kinds
    BY TaskKinds DEF States, Kinds, ControlKinds
  <2>3. \A d \in Callers : answer'[d] = "waiting" => pc'[d] \in Kinds
    BY <1>1, <2>1, <2>2
  <2>4. tx' \in [Callers -> Nat] /\ (\A d \in Callers : pc'[d] = "tx" => tx'[d] \in 1..cmd_tx')
    BY <1>3, <2>1, <2>2, SendersKeep
  <2> QED
    BY <1>1, <2>1, <2>2, <2>3, <2>4 DEF TaskInv
<1>9. CASE Alone /\ UNCHANGED taskVars
  <2>1. cmd_tx' = cmd_tx
    BY <1>9 DEF Alone, Revoke, PumpWrite, PumpRead, PumpEnd, ServerRead, ServerTeardown, Drop,
                ServerComplete, pumpVars
  <2> QED
    BY <1>1, <1>9, <2>1, AloneAnswers DEF TaskInv, taskVars, packetVars
<1>10. CASE Stays
  BY <1>10 DEF TaskInv, Stays, clientVars, pumpVars
<1> QED
  BY <1>4, <1>5, <1>6, <1>7, <1>8, <1>9, <1>10 DEF Steps

\* Both invariants hold at the start.
LEMMA ForwardStarts == ForwardInit => ClientInv /\ TaskInv
<1> SUFFICES ASSUME ForwardInit PROVE ClientInv /\ TaskInv
  OBVIOUS
<1>1. ClientInv
  BY ClientStarts DEF ForwardInit
<1>2. TaskInv
  BY DEF TaskInv, ForwardInit, PumpInit, States
<1> QED
  BY <1>1, <1>2

\* The invariants of the client and of the tasks hold, whatever the tasks of
\* usbip_forward.rs and the pumps of client.rs do.
THEOREM ClientHolds == ForwardSpec => [](ClientInv /\ TaskInv)
<1>1. ForwardInit => ClientInv /\ TaskInv
  BY ForwardStarts
<1>2. ClientInv /\ TaskInv /\ [ForwardNext]_forwardVars => (ClientInv /\ TaskInv)'
  <2> SUFFICES ASSUME ClientInv, TaskInv, [ForwardNext]_forwardVars
               PROVE  (ClientInv /\ TaskInv)'
    OBVIOUS
  <2>1. Steps
    BY NextSteps
  <2>2. ClientInv'
    BY <2>1, StepsOfClient, ClientKeeps
  <2>3. TaskInv'
    BY <2>1, TasksKeep
  <2> QED
    BY <2>2, <2>3
<1> QED
  BY <1>1, <1>2, PTL DEF ForwardSpec

\* A caller waits exactly while a pump that has not ended holds its request:
\* run_client_pump answers everyone it holds when it ends, also when a
\* reconnect aborts it, and no caller is answered while its request is held.
\* Callers take senders and use them at any point of a reconnect.
THEOREM NobodyWaitsInVain == ForwardSpec => []WaiterHeld
<1>1. ClientInv => WaiterHeld
  <2> SUFFICES ASSUME ClientInv, NEW c \in Callers
               PROVE  answer[c] = "waiting" <=> \E i \in Pumps : c \in Held(i) /\ Runs(i)
    BY DEF WaiterHeld
  <2>1. answer[c] = "waiting" <=> \E i \in Pumps : c \in Held(i)
    BY DEF ClientInv, HeldWait
  <2>2. ASSUME NEW i \in Pumps, ~Runs(i) PROVE Held(i) = {}
    <3>1. queue[i] = <<>> /\ control[i] = <<>> /\ pending[i] = {}
      BY <2>2 DEF ClientInv, PumpInv, NothingLeft
    <3>2. Senders(<<>>) = {} /\ Froms({}) = {}
      BY DEF Senders, Froms
    <3>3. Held(i) = Froms(pending[i]) \cup Senders(control[i]) \cup Senders(queue[i])
      BY HeldParts DEF ClientInv
    <3> QED
      BY <3>1, <3>2, <3>3
  <2> QED
    BY <2>1, <2>2
<1> QED
  BY <1>1, ClientHolds, PTL

\* The FIFO control_replies is in step with the connection: every control
\* reply is given to the caller whose request it answers.
THEOREM RepliesGoToTheirCallers == ForwardSpec => []ControlInStep
<1>1. ClientInv => ControlInStep
  BY DEF ClientInv, PumpInv, InStep, ControlInStep
<1> QED
  BY <1>1, ClientHolds, PTL

-----------------------------------------------------------------------------
(* Numbers: who is told what.                                              *)

\* The messages of a sequence; what a pump has; what the server has to do.
Items(s) == {s[k] : k \in 1..Len(s)}
InPump(i) == Items(queue[i]) \cup Items(control[i]) \cup pending[i]
OnLine(i) == Items(wire[i]) \cup serving[i]

\* A URB bears the number that its task was given.
Numbered(m) ==
    m.kind = "urb" => m.from \in UrbTasks /\ m.seq = seq[m.from] /\ pc[m.from] # "idle"

\* The requests a pump holds are of tasks that wait for them, and a reply that
\* says ok is of a URB that was carried out.
Messages(i) ==
    /\ \A m \in InPump(i) : m.kind = pc[m.from] /\ Numbered(m)
    /\ \A m \in OnLine(i) : Numbered(m)
    /\ \A r \in Items(back[i]) : Numbered(r) /\ (r.kind = "urb" /\ r.ok => executed[r.from] > 0)

\* The URBs of one import bear different numbers.
NumbersDiffer ==
    /\ \A c \in Spawned : owner[c] = NoCaller <=> pc[c] = "idle"
    /\ \A h \in Importers : \A c \in TasksOf(h) : seq[c] <= Cardinality(TasksOf(h))
    /\ \A c, d \in UrbTasks : owner[c] = owner[d] /\ owner[c] # NoCaller /\ seq[c] = seq[d] => c = d

\* CompletionReal, of URBs that have been submitted.
Told ==
    \A c \in UrbTasks : Got(c, "urb", "ok") =>
        \E d \in UrbTasks :
            /\ executed[d] > 0
            /\ seq[d] = seq[c] /\ pc[d] # "idle"
            /\ (owner[d] = owner[c] => d = c)

\* The inductive invariant of the numbers.
NumberInv == (\A i \in Pumps : Messages(i)) /\ NumbersDiffer /\ Told

\* The messages of a sequence that has grown.
LEMMA ItemsAppend ==
    ASSUME NEW T, NEW s \in Seq(T), NEW m \in T
    PROVE  Items(Append(s, m)) = Items(s) \cup {m}
<1>1. /\ Len(s) \in Nat /\ Len(Append(s, m)) = Len(s) + 1 /\ Append(s, m)[Len(s) + 1] = m
      /\ \A k \in 1..Len(s) : Append(s, m)[k] = s[k]
  OBVIOUS
<1>2. \A k \in 1..(Len(s) + 1) : k = Len(s) + 1 \/ k \in 1..Len(s)
  BY <1>1
<1>3. 1..Len(s) \subseteq 1..(Len(s) + 1) /\ Len(s) + 1 \in 1..(Len(s) + 1)
  BY <1>1
<1> QED
  BY <1>1, <1>2, <1>3, Zenon DEF Items

\* The messages of a sequence that has lost its head.
LEMMA ItemsTail ==
    ASSUME NEW T, NEW s \in Seq(T), s # <<>>
    PROVE  Items(Tail(s)) \subseteq Items(s) /\ Head(s) \in Items(s)
<1>1. Len(s) \in Nat \ {0} /\ Len(Tail(s)) = Len(s) - 1 /\ Head(s) = s[1] /\ 1 \in 1..Len(s)
  OBVIOUS
<1>2. \A k \in 1..(Len(s) - 1) : k + 1 \in 1..Len(s) /\ Tail(s)[k] = s[k + 1]
  BY <1>1
<1>3. ASSUME NEW x \in Items(Tail(s)) PROVE x \in Items(s)
  <2>1. PICK k \in 1..(Len(s) - 1) : x = Tail(s)[k]
    BY <1>1 DEF Items
  <2> QED
    BY <2>1, <1>2 DEF Items
<1>4. Head(s) \in Items(s)
  BY <1>1, Zenon DEF Items
<1> QED
  BY <1>3, <1>4

\* An empty sequence has none.
LEMMA ItemsEmpty == Items(<<>>) = {}
BY DEF Items

\* The sender of a request that a pump has is held by it.
LEMMA InPumpHeld ==
    ASSUME ClientTypes, NEW i \in Pumps, NEW m \in InPump(i)
    PROVE  m.from \in Held(i) /\ m.from \in Callers
<1>1. Held(i) = Froms(pending[i]) \cup Senders(control[i]) \cup Senders(queue[i]) /\ Held(i) \subseteq Callers
  BY HeldParts
<1>2. m.from \in Froms(pending[i]) \cup Senders(control[i]) \cup Senders(queue[i])
  BY Zenon DEF InPump, Items, Froms, Senders
<1> QED
  BY <1>1, <1>2

\* Messages only move on: from the pump to the line, and come back as replies.
Moved(i) ==
    /\ InPump(i)' \subseteq InPump(i)
    /\ OnLine(i)' \subseteq OnLine(i) \cup InPump(i)
    /\ \A r \in Items(back[i])' :
         \/ r \in Items(back[i])
         \/ \E m \in OnLine(i) : /\ r.from = m.from /\ r.kind = m.kind /\ r.seq = m.seq
                                 /\ (m.kind = "urb" /\ r.ok => executed'[m.from] > 0)

\* A connection that a step leaves alone.
LEMMA SameMoved ==
    ASSUME NEW i \in Pumps, queue'[i] = queue[i], control'[i] = control[i], pending'[i] = pending[i],
           wire'[i] = wire[i], serving'[i] = serving[i], back'[i] = back[i]
    PROVE  Moved(i)
<1>1. InPump(i)' = InPump(i)
  BY DEF InPump
<1>2. OnLine(i)' = OnLine(i)
  BY DEF OnLine
<1>3. Items(back[i])' = Items(back[i])
  BY DEF Items
<1> QED
  BY <1>1, <1>2, <1>3 DEF Moved

\* A sequence of requests to which m may have been added.
LEMMA ItemsAdded ==
    ASSUME NEW u \in Seq(Msg), NEW m \in Msg, NEW v, v = u \/ v = Append(u, m)
    PROVE  Items(v) \subseteq Items(u) \cup {m}
<1>1. Items(Append(u, m)) = Items(u) \cup {m}
  BY ItemsAppend
<1>2. CASE v = u
  BY <1>2
<1>3. CASE v = Append(u, m)
  BY <1>1, <1>3
<1> QED
  BY <1>2, <1>3

\* A write moves a request from the channel to the stream.
LEMMA WriteMoves ==
    ASSUME ClientInv, NEW i \in Pumps, PumpWrite(i)
    PROVE  (\A j \in Pumps : Moved(j)) /\ executed' = executed
<1> DEFINE m == Head(queue[i])
<1>1. ClientTypes
  BY DEF ClientInv
<1>2. /\ queue[i] \in Seq(Msg) /\ control[i] \in Seq(Msg) /\ wire[i] \in Seq(Msg)
  BY <1>1 DEF ClientTypes
<1>3. /\ queue[i] # <<>> /\ queue' = [queue EXCEPT ![i] = Tail(@)] /\ Register(i, m)
      /\ wire' = IF link[i] THEN [wire EXCEPT ![i] = Append(@, m)] ELSE wire
      /\ UNCHANGED <<back, serving, executed>>
  BY DEF PumpWrite
<1>4. Items(Tail(queue[i])) \subseteq Items(queue[i]) /\ m \in Items(queue[i]) /\ m \in Msg
  BY <1>2, <1>3, ItemsTail
<1> HIDE DEF m
<1>5. Items(queue'[i]) \subseteq Items(queue[i]) /\ (\A j \in Pumps : j # i => queue'[j] = queue[j])
  BY <1>1, <1>3, <1>4 DEF ClientTypes
<1>6. Items(wire'[i]) \subseteq Items(wire[i]) \cup {m} /\ (\A j \in Pumps : j # i => wire'[j] = wire[j])
  <2>1. wire'[i] = wire[i] \/ wire'[i] = Append(wire[i], m)
    BY <1>1, <1>3 DEF ClientTypes
  <2>2. Items(wire'[i]) \subseteq Items(wire[i]) \cup {m}
    BY <2>1, <1>2, <1>4, ItemsAdded
  <2> QED
    BY <2>2, <1>1, <1>3 DEF ClientTypes
<1>7. Items(control'[i]) \subseteq Items(control[i]) \cup {m} /\ (\A j \in Pumps : j # i => control'[j] = control[j])
  <2>1. control' = control \/ control' = [control EXCEPT ![i] = Append(@, m)]
    BY <1>3 DEF Register
  <2>2. control'[i] = control[i] \/ control'[i] = Append(control[i], m)
    BY <2>1, <1>1 DEF ClientTypes
  <2>3. Items(control'[i]) \subseteq Items(control[i]) \cup {m}
    BY <2>2, <1>2, <1>4, ItemsAdded
  <2> QED
    BY <2>1, <2>3, <1>1 DEF ClientTypes
<1>8. pending'[i] \subseteq pending[i] \cup {m} /\ (\A j \in Pumps : j # i => pending'[j] = pending[j])
  BY <1>1, <1>3 DEF ClientTypes, Register
<1>9. InPump(i)' \subseteq InPump(i)
  <2>1. InPump(i)' = Items(queue'[i]) \cup Items(control'[i]) \cup pending'[i]
    BY DEF InPump
  <2> QED
    BY <2>1, <1>4, <1>5, <1>7, <1>8 DEF InPump
<1>10. OnLine(i)' \subseteq OnLine(i) \cup InPump(i)
  <2>1. OnLine(i)' = Items(wire'[i]) \cup serving'[i]
    BY DEF OnLine
  <2> QED
    BY <2>1, <1>3, <1>4, <1>6 DEF InPump, OnLine
<1>11. Items(back[i])' = Items(back[i])
  BY <1>3
<1>12. Moved(i)
  BY <1>9, <1>10, <1>11 DEF Moved
<1>13. ASSUME NEW j \in Pumps, j # i PROVE Moved(j)
  BY <1>3, <1>5, <1>6, <1>7, <1>8, <1>13, SameMoved
<1> QED
  BY <1>3, <1>12, <1>13

\* A read takes a reply, and the request it answers.
LEMMA ReadMoves ==
    ASSUME ClientInv, NEW i \in Pumps, PumpRead(i)
    PROVE  /\ \A j \in Pumps : Moved(j)
           /\ executed' = executed
           /\ IsControl(Head(back[i])) => control[i] # <<>> /\ Head(control[i]) \in InPump(i)
           /\ Head(back[i]) \in Items(back[i])
<1> DEFINE r == Head(back[i])
<1>1. ClientTypes /\ PumpInv(i)
  BY DEF ClientInv
<1>2. control[i] \in Seq(Msg) /\ back[i] \in Seq(Rep)
  BY <1>1 DEF ClientTypes
<1>3. /\ Runs(i) /\ back[i] # <<>> /\ back' = [back EXCEPT ![i] = Tail(@)]
      /\ control' = IF IsControl(r) THEN [control EXCEPT ![i] = Tail(@)] ELSE control
      /\ \E F : pending' = [pending EXCEPT ![i] = @ \ F]
      /\ UNCHANGED <<queue, wire, serving, executed>>
  BY DEF PumpRead
<1>4. RepliesInStep(control[i], back[i])
  BY <1>1, <1>3 DEF PumpInv, InStep
<1>5. IsControl(r) => control[i] # <<>>
  BY <1>2, <1>3, <1>4, ReadFirst
<1>6. Items(Tail(back[i])) \subseteq Items(back[i]) /\ r \in Items(back[i])
  BY <1>2, <1>3, ItemsTail
<1> HIDE DEF r
<1>7. /\ IsControl(r) => Items(Tail(control[i])) \subseteq Items(control[i]) /\ Head(control[i]) \in Items(control[i])
  BY <1>2, <1>5, ItemsTail
<1>8. Items(control'[i]) \subseteq Items(control[i]) /\ (\A j \in Pumps : j # i => control'[j] = control[j])
  <2>1. CASE IsControl(r)
    <3>1. control'[i] = Tail(control[i])
      BY <2>1, <1>1, <1>3 DEF ClientTypes
    <3> QED
      BY <3>1, <2>1, <1>1, <1>3, <1>7 DEF ClientTypes
  <2>2. CASE ~IsControl(r)
    BY <2>2, <1>3
  <2> QED
    BY <2>1, <2>2
<1>9. pending'[i] \subseteq pending[i] /\ (\A j \in Pumps : j # i => pending'[j] = pending[j])
  BY <1>1, <1>3 DEF ClientTypes
<1>10. Items(back[i])' \subseteq Items(back[i]) /\ (\A j \in Pumps : j # i => back'[j] = back[j])
  <2>1. back'[i] = Tail(back[i])
    BY <1>1, <1>3 DEF ClientTypes
  <2>2. Items(back[i])' \subseteq Items(back[i])
    BY <2>1, <1>6
  <2> QED
    BY <2>2, <1>1, <1>3 DEF ClientTypes
<1>11. InPump(i)' \subseteq InPump(i)
  <2>1. InPump(i)' = Items(queue'[i]) \cup Items(control'[i]) \cup pending'[i]
    BY DEF InPump
  <2> QED
    BY <2>1, <1>3, <1>8, <1>9 DEF InPump
<1>12. OnLine(i)' = OnLine(i)
  BY <1>3 DEF OnLine
<1>13. Moved(i)
  BY <1>10, <1>11, <1>12 DEF Moved
<1>14. ASSUME NEW j \in Pumps, j # i PROVE Moved(j)
  BY <1>3, <1>8, <1>9, <1>10, <1>14, SameMoved
<1>15. IsControl(r) => control[i] # <<>> /\ Head(control[i]) \in InPump(i)
  BY <1>5, <1>7 DEF InPump
<1> QED
  BY <1>3, <1>6, <1>13, <1>14, <1>15 DEF r

\* The end of a pump drops what it has.
LEMMA EndMoves ==
    ASSUME ClientInv, NEW i \in Pumps, PumpEnd(i)
    PROVE  (\A j \in Pumps : Moved(j)) /\ executed' = executed
<1>1. ClientTypes
  BY DEF ClientInv
<1>2. /\ queue' = [queue EXCEPT ![i] = <<>>] /\ control' = [control EXCEPT ![i] = <<>>]
      /\ pending' = [pending EXCEPT ![i] = {}] /\ back' = [back EXCEPT ![i] = <<>>]
      /\ UNCHANGED <<wire, serving, executed>>
  BY DEF PumpEnd
<1>3. queue'[i] = <<>> /\ control'[i] = <<>> /\ pending'[i] = {} /\ back'[i] = <<>>
  BY <1>1, <1>2 DEF ClientTypes
<1>4. InPump(i)' = {} /\ Items(back[i])' = {}
  BY <1>3, ItemsEmpty DEF InPump
<1>5. OnLine(i)' = OnLine(i)
  BY <1>2 DEF OnLine
<1>6. Moved(i)
  BY <1>4, <1>5 DEF Moved
<1>7. ASSUME NEW j \in Pumps, j # i PROVE Moved(j)
  <2>1. queue'[j] = queue[j] /\ control'[j] = control[j] /\ pending'[j] = pending[j] /\ back'[j] = back[j]
    BY <1>1, <1>2, <1>7 DEF ClientTypes
  <2> QED
    BY <2>1, <1>2, SameMoved
<1> QED
  BY <1>2, <1>6, <1>7

\* The server takes a request and may reply.
LEMMA ServeMoves ==
    ASSUME ClientInv, NEW i \in Pumps, ServerRead(i)
    PROVE  (\A j \in Pumps : Moved(j)) /\ executed' = executed
<1> DEFINE m == Head(wire[i])
<1>1. ClientTypes /\ PumpInv(i)
  BY DEF ClientInv
<1>2. wire[i] \in Seq(Msg) /\ back[i] \in Seq(Rep)
  BY <1>1 DEF ClientTypes
<1>3. /\ wire[i] # <<>> /\ wire' = [wire EXCEPT ![i] = Tail(@)]
      /\ UNCHANGED <<queue, pending, control, executed>>
  BY DEF ServerRead, pumpVars
<1>4. Items(Tail(wire[i])) \subseteq Items(wire[i]) /\ m \in Items(wire[i]) /\ m \in Msg
  BY <1>2, <1>3, ItemsTail
<1>5. \/ serving' = [serving EXCEPT ![i] = @ \cup {m}] /\ back' = back
      \/ /\ serving' = serving
         /\ \E ok \in BOOLEAN : Respond(i, m, ok) /\ (m.kind = "urb" => ~ok)
  <2>1. CASE m.kind = "urb" /\ leased /\ session[i] = "paired"
    BY <2>1 DEF ServerRead
  <2>2. CASE ~(m.kind = "urb" /\ leased /\ session[i] = "paired")
    <3> DEFINE ok == /\ Greeted(i, m)
                     /\ \/ m.kind \in {"hello", "list", "detach"}
                        \/ leased' /\ session'[i] = "paired"
    <3>1. Respond(i, m, ok) /\ serving' = serving
      BY <2>2 DEF ServerRead
    <3>2. ok \in BOOLEAN
      BY Zenon
    <3>3. m.kind = "urb" => ~ok
      <4> SUFFICES ASSUME m.kind = "urb" PROVE ~ok
        OBVIOUS
      <4> HIDE DEF m
      <4>1. leased' = leased /\ session' = session
        BY DEF ServerRead, m
      <4> QED
        BY <4>1, <2>2
    <3> HIDE DEF ok
    <3> QED
      BY <3>1, <3>2, <3>3, Zenon
  <2> QED
    BY <2>1, <2>2
<1> HIDE DEF m
<1>6. Items(wire'[i]) \subseteq Items(wire[i]) /\ (\A j \in Pumps : j # i => wire'[j] = wire[j])
  BY <1>1, <1>3, <1>4 DEF ClientTypes
<1>7. serving'[i] \subseteq serving[i] \cup {m} /\ (\A j \in Pumps : j # i => serving'[j] = serving[j])
  BY <1>1, <1>5 DEF ClientTypes
<1>8. /\ \A j \in Pumps : j # i => back'[j] = back[j]
      /\ \A r \in Items(back[i])' :
           r \in Items(back[i]) \/ (r.from = m.from /\ r.kind = m.kind /\ r.seq = m.seq /\ (m.kind = "urb" => ~r.ok))
  <2>1. CASE back' = back
    BY <2>1
  <2>2. CASE \E ok \in BOOLEAN : Respond(i, m, ok) /\ (m.kind = "urb" => ~ok)
    <3>1. PICK ok \in BOOLEAN : Respond(i, m, ok) /\ (m.kind = "urb" => ~ok)
      BY <2>2
    <3> DEFINE a == Answered(m, ok)
    <3>2. /\ a \in Rep
          /\ back'[i] = IF link[i] THEN Append(back[i], a) ELSE back[i]
          /\ \A j \in Pumps : j # i => back'[j] = back[j]
      BY <3>1, <1>1, <1>4, Responds
    <3>3. a.from = m.from /\ a.kind = m.kind /\ a.seq = m.seq /\ (m.kind = "urb" => ~a.ok)
      BY <3>1 DEF Answered
    <3> HIDE DEF a
    <3>4. Items(back[i])' \subseteq Items(back[i]) \cup {a}
      <4>1. CASE link[i]
        BY <4>1, <3>2, <1>2, ItemsAppend
      <4>2. CASE ~link[i]
        BY <4>2, <3>2
      <4> QED
        BY <4>1, <4>2
    <3> QED
      BY <3>2, <3>3, <3>4
  <2> QED
    BY <2>1, <2>2, <1>5
<1>9. InPump(i)' = InPump(i)
  BY <1>3 DEF InPump
<1>10. OnLine(i)' \subseteq OnLine(i) /\ m \in OnLine(i)
  <2>1. OnLine(i)' = Items(wire'[i]) \cup serving'[i]
    BY DEF OnLine
  <2> QED
    BY <2>1, <1>4, <1>6, <1>7 DEF OnLine
<1>11. Moved(i)
  BY <1>8, <1>9, <1>10 DEF Moved
<1>12. ASSUME NEW j \in Pumps, j # i PROVE Moved(j)
  BY <1>3, <1>6, <1>7, <1>8, <1>12, SameMoved
<1> QED
  BY <1>3, <1>11, <1>12

\* A completed URB is counted before its reply is sent.
LEMMA CompleteMoves ==
    ASSUME ClientInv, NEW i \in Pumps, NEW m \in serving[i], ServerComplete(i, m)
    PROVE  /\ \A j \in Pumps : Moved(j)
           /\ \A c \in Callers : executed'[c] = IF c = m.from THEN executed[c] + 1 ELSE executed[c]
<1>1. ClientTypes /\ PumpInv(i)
  BY DEF ClientInv
<1>2. serving[i] \subseteq Msg /\ back[i] \in Seq(Rep)
  BY <1>1 DEF ClientTypes
<1>3. m \in Msg /\ m.from \in Callers
  BY <1>2 DEF Msg
<1>4. /\ serving' = [serving EXCEPT ![i] = @ \ {m}]
      /\ executed' = [executed EXCEPT ![m.from] = @ + 1] /\ Respond(i, m, TRUE)
      /\ UNCHANGED <<queue, pending, control, wire>>
  BY DEF ServerComplete, pumpVars
<1>5. \A c \in Callers : executed'[c] = IF c = m.from THEN executed[c] + 1 ELSE executed[c]
  BY <1>1, <1>3, <1>4 DEF ClientTypes
<1>6. executed'[m.from] > 0
  BY <1>1, <1>3, <1>5 DEF ClientTypes
<1> DEFINE a == Answered(m, TRUE)
<1>7. /\ a \in Rep
      /\ back'[i] = IF link[i] THEN Append(back[i], a) ELSE back[i]
      /\ \A j \in Pumps : j # i => back'[j] = back[j]
  BY <1>1, <1>3, <1>4, Responds
<1>8. a.from = m.from /\ a.kind = m.kind /\ a.seq = m.seq
  BY DEF Answered
<1> HIDE DEF a
<1>9. Items(back[i])' \subseteq Items(back[i]) \cup {a}
  <2>1. CASE link[i]
    BY <2>1, <1>2, <1>7, ItemsAppend
  <2>2. CASE ~link[i]
    BY <2>2, <1>7
  <2> QED
    BY <2>1, <2>2
<1>10. serving'[i] \subseteq serving[i] /\ (\A j \in Pumps : j # i => serving'[j] = serving[j])
  BY <1>1, <1>4 DEF ClientTypes
<1>11. InPump(i)' = InPump(i)
  BY <1>4 DEF InPump
<1>12. OnLine(i)' \subseteq OnLine(i) /\ m \in OnLine(i)
  <2>1. OnLine(i)' = Items(wire'[i]) \cup serving'[i]
    BY DEF OnLine
  <2> QED
    BY <2>1, <1>4, <1>10 DEF OnLine
<1>13. Moved(i)
  BY <1>6, <1>8, <1>9, <1>11, <1>12 DEF Moved
<1>14. ASSUME NEW j \in Pumps, j # i PROVE Moved(j)
  BY <1>4, <1>7, <1>10, <1>14, SameMoved
<1> QED
  BY <1>5, <1>13, <1>14

\* Client and server only move messages on.
LEMMA AloneMoves ==
    ASSUME ClientInv, Alone
    PROVE  /\ \A j \in Pumps : Moved(j)
           /\ \A c \in Callers : executed'[c] \in Nat /\ executed'[c] >= executed[c]
<1>1. \A c \in Callers : executed[c] \in Nat
  BY DEF ClientInv, ClientTypes
<1>2. CASE Revoke
  <2>1. UNCHANGED <<queue, control, pending, wire, serving, back, executed>>
    BY <1>2 DEF Revoke, pumpVars
  <2> QED
    BY <2>1, <1>1, SameMoved
<1>3. ASSUME NEW i \in Pumps, PumpWrite(i) \/ PumpRead(i) \/ PumpEnd(i) \/ ServerRead(i)
      PROVE  (\A j \in Pumps : Moved(j)) /\ executed' = executed
  BY <1>3, WriteMoves, ReadMoves, EndMoves, ServeMoves
<1>4. ASSUME NEW i \in Pumps, NEW m \in serving[i], ServerComplete(i, m)
      PROVE  /\ \A j \in Pumps : Moved(j)
             /\ \A c \in Callers : executed'[c] \in Nat /\ executed'[c] >= executed[c]
  BY <1>1, <1>4, CompleteMoves
<1>5. ASSUME NEW i \in Pumps, Drop(i)
      PROVE  (\A j \in Pumps : Moved(j)) /\ executed' = executed
  <2>1. UNCHANGED <<queue, control, pending, wire, serving, back, executed>>
    BY <1>5 DEF Drop, pumpVars
  <2> QED
    BY <2>1, SameMoved
<1>6. ASSUME NEW i \in Pumps, ServerTeardown(i)
      PROVE  (\A j \in Pumps : Moved(j)) /\ executed' = executed
  <2>1. /\ UNCHANGED <<queue, control, pending, serving, back, executed>>
        /\ wire' = [wire EXCEPT ![i] = <<>>]
    BY <1>6 DEF ServerTeardown, pumpVars
  <2>2. wire'[i] = <<>> /\ (\A j \in Pumps : j # i => wire'[j] = wire[j])
    BY <2>1 DEF ClientInv, ClientTypes
  <2>3. InPump(i)' = InPump(i) /\ Items(back[i])' = Items(back[i])
    BY <2>1 DEF InPump
  <2>4. OnLine(i)' \subseteq OnLine(i)
    BY <2>1, <2>2, ItemsEmpty DEF OnLine
  <2>5. Moved(i)
    BY <2>3, <2>4 DEF Moved
  <2>6. ASSUME NEW j \in Pumps, j # i PROVE Moved(j)
    BY <2>1, <2>2, <2>6, SameMoved
  <2> QED
    BY <2>1, <2>5, <2>6
<1> QED
  BY <1>1, <1>2, <1>3, <1>4, <1>5, <1>6 DEF Alone

\* A task that does not wait moves on, and perhaps gives its own request to a pump.
LEMMA MoveKeepsNumbers ==
    ASSUME ClientInv, TaskInv, NumberInv, NEW c \in Callers, answer[c] # "waiting",
           \A d \in Callers : d # c => pc'[d] = pc[d] /\ answer'[d] = answer[d],
           c \in Spawned => pc[c] # "idle" /\ pc'[c] # "idle",
           c \in UrbTasks => answer'[c] # "ok" \/ pc'[c] # "urb",
           UNCHANGED <<seq, owner, executed, wire, serving, back>>,
           \A i \in Pumps : \A m \in InPump(i)' :
               m \in InPump(i) \/ (m.from = c /\ m.kind = pc'[c] /\ Numbered(m)')
    PROVE  NumberInv'
<1>1. (\A i \in Pumps : Messages(i)) /\ NumbersDiffer /\ Told /\ ClientTypes /\ HeldWait
  BY DEF NumberInv, ClientInv
<1>2. \A d \in Spawned : pc'[d] = "idle" <=> pc[d] = "idle"
  BY TaskKinds
<1>3. \A m : Numbered(m) => Numbered(m)'
  BY <1>2, TaskKinds DEF Numbered
<1>4. ASSUME NEW i \in Pumps PROVE Messages(i)'
  <2>1. ASSUME NEW m \in InPump(i)' PROVE m.kind = pc'[m.from] /\ Numbered(m)'
    <3>1. CASE m \in InPump(i)
      <4>1. m.from \in Held(i) /\ m.from \in Callers
        BY <3>1, <1>1, InPumpHeld
      <4>2. m.from # c
        BY <4>1, <1>1 DEF HeldWait
      <4>3. m.kind = pc[m.from] /\ Numbered(m)
        BY <3>1, <1>1 DEF Messages
      <4> QED
        BY <4>1, <4>2, <4>3, <1>3
    <3>2. CASE m.from = c /\ m.kind = pc'[c] /\ Numbered(m)'
      BY <3>2
    <3> QED
      BY <2>1, <3>1, <3>2
  <2>2. OnLine(i)' = OnLine(i) /\ Items(back[i])' = Items(back[i])
    BY DEF OnLine
  <2>3. \A m \in OnLine(i)' : Numbered(m)'
    BY <2>2, <1>1, <1>3 DEF Messages
  <2>4. \A r \in Items(back[i])' : Numbered(r)' /\ (r.kind = "urb" /\ r.ok => executed'[r.from] > 0)
    BY <2>2, <1>1, <1>3 DEF Messages
  <2> QED
    BY <2>1, <2>3, <2>4 DEF Messages
<1>5. NumbersDiffer'
  <2>1. \A h : TasksOf(h)' = TasksOf(h)
    BY DEF TasksOf
  <2> QED
    BY <2>1, <1>1, <1>2 DEF NumbersDiffer
<1>6. Told'
  <2> SUFFICES ASSUME NEW b \in UrbTasks, pc'[b] = "urb", answer'[b] = "ok"
               PROVE  \E d \in UrbTasks : /\ executed'[d] > 0
                                          /\ seq'[d] = seq'[b] /\ pc'[d] # "idle"
                                          /\ (owner'[d] = owner'[b] => d = b)
    BY DEF Told, Got
  <2>1. b # c /\ b \in Callers
    BY TaskKinds
  <2>2. Got(b, "urb", "ok")
    BY <2>1 DEF Got
  <2>3. PICK d \in UrbTasks : /\ executed[d] > 0
                              /\ seq[d] = seq[b] /\ pc[d] # "idle"
                              /\ (owner[d] = owner[b] => d = b)
    BY <2>2, <1>1 DEF Told
  <2>4. pc'[d] # "idle"
    BY <2>3, <1>2, TaskKinds
  <2> QED
    BY <2>3, <2>4
<1> QED
  BY <1>4, <1>5, <1>6 DEF NumberInv

\* A new task gets a number that its import has not used.
LEMMA SpawnKeepsNumbers ==
    ASSUME ClientInv, TaskInv, NumberInv, NEW h \in Importers, NEW c \in Spawned, NEW n \in Nat,
           Spawns(h, c, n)
    PROVE  NumberInv'
<1>1. (\A i \in Pumps : Messages(i)) /\ NumbersDiffer /\ Told /\ ClientTypes /\ HeldWait
  BY DEF NumberInv, ClientInv
<1>2. /\ pc[c] = "idle" /\ pc' = [pc EXCEPT ![c] = "call"]
      /\ owner' = [owner EXCEPT ![c] = h] /\ seq' = [seq EXCEPT ![c] = n]
      /\ UNCHANGED clientVars
      /\ c \in UrbTasks => n = 1 + Cardinality(TasksOf(h))
  BY DEF Spawns, Spawn, GoTo
<1>3. /\ pc'[c] = "call" /\ owner'[c] = h /\ seq'[c] = n
      /\ \A d \in Spawned : d # c => pc'[d] = pc[d] /\ owner'[d] = owner[d] /\ seq'[d] = seq[d]
      /\ \A d \in Callers : d # c => pc'[d] = pc[d]
      /\ c \in Callers
  BY <1>2, TaskKinds DEF TaskInv
<1>4. UNCHANGED <<queue, control, pending, wire, serving, back, answer, executed>>
  BY <1>2 DEF clientVars, pumpVars, remoteVars
<1>5. \A m : Numbered(m) => Numbered(m)'
  BY <1>2, <1>3, TaskKinds DEF Numbered
<1>6. ASSUME NEW i \in Pumps PROVE Messages(i)'
  <2>1. InPump(i)' = InPump(i) /\ OnLine(i)' = OnLine(i) /\ Items(back[i])' = Items(back[i])
    BY <1>4 DEF InPump, OnLine
  <2>2. ASSUME NEW m \in InPump(i) PROVE m.kind = pc'[m.from] /\ Numbered(m)'
    <3>1. m.from \in Held(i) /\ m.from \in Callers
      BY <1>1, InPumpHeld
    <3>2. pc[m.from] \in Kinds
      BY <3>1, <1>1 DEF HeldWait, TaskInv
    <3>3. m.from # c
      BY <3>2, <1>2 DEF Kinds, ControlKinds
    <3> QED
      BY <3>1, <3>3, <1>1, <1>3, <1>5 DEF Messages
  <2>3. \A m \in OnLine(i)' : Numbered(m)'
    BY <2>1, <1>1, <1>5 DEF Messages
  <2>4. \A r \in Items(back[i])' : Numbered(r)' /\ (r.kind = "urb" /\ r.ok => executed'[r.from] > 0)
    BY <2>1, <1>1, <1>4, <1>5 DEF Messages
  <2> QED
    BY <2>1, <2>2, <2>3, <2>4 DEF Messages
<1>7. h \in Callers /\ h # NoCaller /\ owner[c] = NoCaller
  BY <1>1, <1>2, TaskKinds DEF NumbersDiffer
<1>8. NumbersDiffer'
  <2>1. \A d \in Spawned : owner'[d] = NoCaller <=> pc'[d] = "idle"
    BY <1>1, <1>3, <1>7 DEF NumbersDiffer
  <2>2. CASE c \notin UrbTasks
    <3>1. \A d \in UrbTasks : owner'[d] = owner[d] /\ seq'[d] = seq[d]
      BY <2>2, <1>3, TaskKinds
    <3>2. \A g : TasksOf(g)' = TasksOf(g)
      BY <3>1 DEF TasksOf
    <3>3. ASSUME NEW g \in Importers, NEW d \in TasksOf(g)
          PROVE  seq'[d] <= Cardinality(TasksOf(g)')
      <4>1. seq'[d] = seq[d] /\ Cardinality(TasksOf(g)') = Cardinality(TasksOf(g))
        BY <3>1, <3>2 DEF TasksOf
      <4> QED
        BY <4>1, <1>1 DEF NumbersDiffer
    <3>4. \A d, e \in UrbTasks : owner'[d] = owner'[e] /\ owner'[d] # NoCaller /\ seq'[d] = seq'[e] => d = e
      BY <3>1, <1>1 DEF NumbersDiffer
    <3> QED
      BY <2>1, <3>2, <3>3, <3>4 DEF NumbersDiffer
  <2>3. CASE c \in UrbTasks
    <3>1. \A d \in UrbTasks : d # c => owner'[d] = owner[d] /\ seq'[d] = seq[d]
      BY <1>3, TaskKinds
    <3>2. IsFiniteSet(TasksOf(h)) /\ c \notin TasksOf(h)
      <4>1. TasksOf(h) \subseteq UrbTasks /\ c \notin TasksOf(h)
        BY <1>7 DEF TasksOf
      <4> QED
        BY <4>1, TaskKinds, FS_Subset
    <3>3. TasksOf(h)' = TasksOf(h) \cup {c}
      BY <2>3, <3>1, <1>3 DEF TasksOf
    <3>4. n = 1 + Cardinality(TasksOf(h)) /\ Cardinality(TasksOf(h)) \in Nat
      BY <2>3, <3>2, <1>2, FS_CardinalityType
    <3>5. Cardinality(TasksOf(h) \cup {c}) = n
      <4>1. Cardinality(TasksOf(h) \cup {c}) = Cardinality(TasksOf(h)) + 1
        BY <3>2, FS_AddElement
      <4> QED
        BY <4>1, <3>4
    <3>6. ASSUME NEW g \in Importers, NEW d \in TasksOf(g)'
          PROVE  seq'[d] <= Cardinality(TasksOf(g)')
      <4>1. d \in UrbTasks /\ owner'[d] = g
        BY <3>6 DEF TasksOf
      <4>2. CASE g = h
        <5>1. Cardinality(TasksOf(g)') = n
          BY <4>2, <3>3, <3>5
        <5>2. CASE d = c
          BY <5>1, <5>2, <3>4, <1>3
        <5>3. CASE d # c
          <6>1. seq'[d] = seq[d] /\ d \in TasksOf(h)
            BY <5>3, <4>1, <4>2, <3>1 DEF TasksOf
          <6>2. seq[d] <= Cardinality(TasksOf(h)) /\ seq[d] \in Nat
            BY <6>1, <4>1, <1>1, TaskKinds DEF NumbersDiffer, TaskInv
          <6> QED
            BY <6>1, <6>2, <5>1, <3>4
        <5> QED
          BY <5>2, <5>3
      <4>3. CASE g # h
        <5>1. d # c /\ g # NoCaller
          BY <4>1, <4>3, <1>3, TaskKinds
        <5>2. TasksOf(g)' = TasksOf(g)
          BY <2>3, <4>3, <5>1, <3>1, <1>3, <1>7 DEF TasksOf
        <5>3. seq'[d] = seq[d] /\ d \in TasksOf(g)
          BY <4>1, <5>1, <5>2, <3>1
        <5> QED
          BY <5>2, <5>3, <1>1 DEF NumbersDiffer
      <4> QED
        BY <4>2, <4>3
    <3>7. ASSUME NEW d \in UrbTasks, NEW e \in UrbTasks, owner'[d] = owner'[e],
                 owner'[d] # NoCaller, seq'[d] = seq'[e]
          PROVE  d = e
      <4>1. ASSUME NEW x \in UrbTasks, x # c, owner[x] = h PROVE seq[x] # n
        <5>1. x \in TasksOf(h) /\ seq[x] \in Nat
          BY <4>1, TaskKinds DEF TasksOf, TaskInv
        <5>2. seq[x] <= Cardinality(TasksOf(h))
          BY <5>1, <1>1 DEF NumbersDiffer
        <5> QED
          BY <5>1, <5>2, <3>4
      <4>2. CASE d = c /\ e # c
        BY <4>1, <4>2, <3>7, <3>1, <1>3
      <4>3. CASE e = c /\ d # c
        BY <4>1, <4>3, <3>7, <3>1, <1>3
      <4>4. CASE d # c /\ e # c
        BY <4>4, <3>7, <3>1, <1>1 DEF NumbersDiffer
      <4> QED
        BY <4>2, <4>3, <4>4
    <3> QED
      BY <2>1, <3>6, <3>7 DEF NumbersDiffer
  <2> QED
    BY <2>2, <2>3
<1>9. Told'
  <2> SUFFICES ASSUME NEW b \in UrbTasks, pc'[b] = "urb", answer'[b] = "ok"
               PROVE  \E d \in UrbTasks : /\ executed'[d] > 0
                                          /\ seq'[d] = seq'[b] /\ pc'[d] # "idle"
                                          /\ (owner'[d] = owner'[b] => d = b)
    BY DEF Told, Got
  <2>1. b # c /\ b \in Spawned /\ pc[b] = "urb" /\ answer[b] = "ok"
    BY <1>3, <1>4, TaskKinds
  <2>2. PICK d \in UrbTasks : /\ executed[d] > 0
                              /\ seq[d] = seq[b] /\ pc[d] # "idle"
                              /\ (owner[d] = owner[b] => d = b)
    BY <2>1, <1>1 DEF Told, Got
  <2>3. d # c /\ d \in Spawned
    BY <2>2, <1>2, TaskKinds
  <2> QED
    BY <2>1, <2>2, <2>3, <1>3, <1>4
<1> QED
  BY <1>6, <1>8, <1>9 DEF NumberInv

\* A caller is told ok only by a reply that says so, to a request with its number.
LEMMA AloneTells ==
    ASSUME ClientInv, NumberInv, Alone, NEW c \in Callers, answer'[c] = "ok", pc[c] = "urb"
    PROVE  \/ answer[c] = "ok"
           \/ \E i \in Pumps : \E r \in Items(back[i]), x \in InPump(i) :
                /\ x.from = c /\ x.kind = "urb" /\ r.kind = "urb" /\ r.ok /\ r.seq = x.seq
<1>1. CASE Revoke
  BY <1>1 DEF Revoke, pumpVars
<1>2. ASSUME NEW i \in Pumps, PumpWrite(i) PROVE answer[c] = "ok"
  BY <1>2 DEF PumpWrite, Register
<1>3. ASSUME NEW i \in Pumps, PumpEnd(i) PROVE answer[c] = "ok"
  BY <1>3 DEF PumpEnd
<1>4. ASSUME NEW i \in Pumps, ServerRead(i) \/ ServerTeardown(i) \/ Drop(i) PROVE answer[c] = "ok"
  BY <1>4 DEF ServerRead, ServerTeardown, Drop, pumpVars
<1>5. ASSUME NEW i \in Pumps, NEW m \in serving[i], ServerComplete(i, m) PROVE answer[c] = "ok"
  BY <1>5 DEF ServerComplete, pumpVars
<1>6. ASSUME NEW i \in Pumps, PumpRead(i), answer[c] # "ok"
      PROVE  \E r \in Items(back[i]), x \in InPump(i) :
                /\ x.from = c /\ x.kind = "urb" /\ r.kind = "urb" /\ r.ok /\ r.seq = x.seq
  <2> DEFINE r == Head(back[i])
             to == IF IsControl(r) THEN {Head(control[i])} ELSE Filed(i, r)
  <2>1. answer' = [d \in Callers |->
                     IF \E x \in to : x.from = d THEN IF r.ok THEN "ok" ELSE "refused"
                     ELSE answer[d]]
    BY <1>6 DEF PumpRead
  <2>2. /\ r \in Items(back[i])
        /\ IsControl(r) => control[i] # <<>> /\ Head(control[i]) \in InPump(i)
    BY <1>6, ReadMoves
  <2> HIDE DEF r, to
  <2>3. PICK x \in to : x.from = c /\ r.ok
    BY <2>1, <1>6
  <2>4. \A y \in InPump(i) : y.kind = pc[y.from]
    BY DEF NumberInv, Messages
  <2>5. CASE IsControl(r)
    <3>1. x = Head(control[i]) /\ x \in InPump(i) /\ control[i] # <<>>
      BY <2>2, <2>3, <2>5 DEF to
    <3>2. control[i] \in Seq(Msg)
      BY DEF ClientInv, ClientTypes
    <3>3. x = control[i][1] /\ 1 \in 1..Len(control[i])
      BY <3>1, <3>2
    <3>4. IsControl(x)
      BY <3>3 DEF ClientInv, PumpInv, Sorted
    <3>5. x.kind = "urb"
      BY <3>1, <2>3, <2>4
    <3> QED
      BY <3>4, <3>5 DEF IsControl, ControlKinds
  <2>6. CASE ~IsControl(r)
    <3>1. x \in pending[i] /\ x.kind = r.kind /\ x.seq = r.seq
      BY <2>3, <2>6 DEF to, Filed
    <3>2. x \in InPump(i)
      BY <3>1 DEF InPump
    <3>3. x.kind = "urb"
      BY <3>2, <2>3, <2>4
    <3> QED
      BY <3>1, <3>2, <3>3, <2>2, <2>3
  <2> QED
    BY <2>5, <2>6
<1> QED
  BY <1>1, <1>2, <1>3, <1>4, <1>5, <1>6 DEF Alone

\* Client and server keep the numbers.
LEMMA AloneKeepsNumbers ==
    ASSUME ClientInv, TaskInv, NumberInv, Alone, UNCHANGED <<pc, seq, owner>>
    PROVE  NumberInv'
<1>1. (\A i \in Pumps : Messages(i)) /\ NumbersDiffer /\ Told /\ ClientTypes
  BY DEF NumberInv, ClientInv
<1>2. /\ \A j \in Pumps : Moved(j)
      /\ \A c \in Callers : executed'[c] \in Nat /\ executed'[c] >= executed[c]
  BY AloneMoves
<1>3. \A c \in Callers : executed[c] > 0 => executed'[c] > 0
  BY <1>1, <1>2 DEF ClientTypes
<1>4. \A m : Numbered(m)' <=> Numbered(m)
  BY DEF Numbered
<1>5. ASSUME NEW i \in Pumps PROVE Messages(i)'
  <2>1. \A m \in InPump(i)' : m.kind = pc'[m.from] /\ Numbered(m)'
    BY <1>1, <1>2, <1>4 DEF Messages, Moved
  <2>2. \A m \in OnLine(i)' : Numbered(m)'
    BY <1>1, <1>2, <1>4 DEF Messages, Moved
  <2>3. ASSUME NEW r \in Items(back[i])'
        PROVE  Numbered(r)' /\ (r.kind = "urb" /\ r.ok => executed'[r.from] > 0)
    <3>1. CASE r \in Items(back[i])
      <4>1. Numbered(r) /\ (r.kind = "urb" /\ r.ok => executed[r.from] > 0)
        BY <3>1, <1>1 DEF Messages
      <4>2. r.kind = "urb" => r.from \in Callers
        BY <4>1, TaskKinds DEF Numbered
      <4> QED
        BY <4>1, <4>2, <1>3, <1>4
    <3>2. CASE \E m \in OnLine(i) : /\ r.from = m.from /\ r.kind = m.kind /\ r.seq = m.seq
                                    /\ (m.kind = "urb" /\ r.ok => executed'[m.from] > 0)
      <4>1. PICK m \in OnLine(i) : /\ r.from = m.from /\ r.kind = m.kind /\ r.seq = m.seq
                                   /\ (m.kind = "urb" /\ r.ok => executed'[m.from] > 0)
        BY <3>2
      <4>2. Numbered(m)
        BY <1>1 DEF Messages
      <4>3. Numbered(r)
        BY <4>1, <4>2 DEF Numbered
      <4> QED
        BY <4>1, <4>3, <1>4
    <3> QED
      BY <2>3, <3>1, <3>2, <1>2 DEF Moved
  <2> QED
    BY <2>1, <2>2, <2>3 DEF Messages
<1>6. NumbersDiffer'
  BY <1>1 DEF NumbersDiffer, TasksOf
<1>7. Told'
  <2> SUFFICES ASSUME NEW b \in UrbTasks, pc[b] = "urb", answer'[b] = "ok"
               PROVE  \E d \in UrbTasks : /\ executed'[d] > 0
                                          /\ seq[d] = seq[b] /\ pc[d] # "idle"
                                          /\ (owner[d] = owner[b] => d = b)
    BY DEF Told, Got
  <2>1. b \in Callers /\ b \in Spawned
    BY TaskKinds
  <2>2. CASE answer[b] = "ok"
    <3>1. PICK d \in UrbTasks : /\ executed[d] > 0
                                /\ seq[d] = seq[b] /\ pc[d] # "idle"
                                /\ (owner[d] = owner[b] => d = b)
      BY <2>2, <1>1 DEF Told, Got
    <3> QED
      BY <3>1, <1>3, TaskKinds
  <2>3. CASE answer[b] # "ok"
    <3>1. PICK i \in Pumps : \E r \in Items(back[i]), x \in InPump(i) :
                /\ x.from = b /\ x.kind = "urb" /\ r.kind = "urb" /\ r.ok /\ r.seq = x.seq
      BY <2>1, <2>3, AloneTells
    <3>2. PICK r \in Items(back[i]), x \in InPump(i) :
                /\ x.from = b /\ x.kind = "urb" /\ r.kind = "urb" /\ r.ok /\ r.seq = x.seq
      BY <3>1
    <3>3. /\ r.from \in UrbTasks /\ r.seq = seq[r.from] /\ pc[r.from] # "idle"
          /\ executed[r.from] > 0
      BY <3>2, <1>1 DEF Messages, Numbered
    <3>4. x.seq = seq[b]
      BY <3>2, <1>1 DEF Messages, Numbered
    <3>5. owner[r.from] = owner[b] => r.from = b
      <4>1. owner[b] # NoCaller
        BY <2>1, <1>1 DEF NumbersDiffer
      <4> QED
        BY <4>1, <3>2, <3>3, <3>4, <1>1 DEF NumbersDiffer
    <3>6. executed'[r.from] > 0
      BY <3>3, <1>3, TaskKinds
    <3> QED
      BY <3>2, <3>3, <3>4, <3>5, <3>6
  <2> QED
    BY <2>2, <2>3
<1> QED
  BY <1>5, <1>6, <1>7 DEF NumberInv

\* A call adds one request, and one only.
LEMMA SendAdds ==
    ASSUME ClientTypes, NEW c \in Callers, NEW kind \in Kinds, NEW n \in Nat, NEW i \in Pumps,
           SendCmd(c, kind, n, i), UNCHANGED <<control, pending>>
    PROVE  /\ \A j \in Pumps : \A m \in InPump(j)' :
                m \in InPump(j) \/ m = [from |-> c, kind |-> kind, seq |-> n]
           /\ \A d \in Callers : d # c => answer'[d] = answer[d]
           /\ answer'[c] # "ok"
<1> DEFINE q == [from |-> c, kind |-> kind, seq |-> n]
<1>1. q \in Msg /\ queue[i] \in Seq(Msg)
  BY DEF Msg, ClientTypes
<1>2. /\ \A d \in Callers : d # c => answer'[d] = answer[d]
      /\ answer'[c] # "ok"
  BY DEF SendCmd, ClientTypes
<1>3. queue' = queue \/ queue' = [queue EXCEPT ![i] = Append(@, q)]
  BY DEF SendCmd
<1> HIDE DEF q
<1>4. Items(queue'[i]) \subseteq Items(queue[i]) \cup {q}
  <2>1. queue'[i] = queue[i] \/ queue'[i] = Append(queue[i], q)
    BY <1>3 DEF ClientTypes
  <2> QED
    BY <2>1, <1>1, ItemsAppend
<1>5. \A j \in Pumps : j # i => queue'[j] = queue[j]
  BY <1>3 DEF ClientTypes
<1>6. ASSUME NEW j \in Pumps, NEW m \in InPump(j)' PROVE m \in InPump(j) \/ m = q
  <2>1. m \in Items(queue'[j]) \cup Items(control[j]) \cup pending[j]
    BY <1>6 DEF InPump
  <2> QED
    BY <2>1, <1>4, <1>5 DEF InPump
<1> QED
  BY <1>2, <1>6 DEF q

\* Every step keeps the invariant of the numbers.
LEMMA NumbersKeep ==
    ASSUME ClientInv, TaskInv, NumberInv, Steps
    PROVE  NumberInv'
<1>1. ClientTypes
  BY DEF ClientInv
<1>2. /\ pc \in [Callers -> States] /\ answer \in [Callers -> Answers]
  BY <1>1 DEF TaskInv, ClientTypes
<1>3. ASSUME NEW c \in Callers, NEW kind \in Kinds, NEW n \in Nat, NEW i \in Pumps, Calls(c, kind, n, i)
      PROVE  NumberInv'
  <2>1. /\ answer[c] # "waiting" /\ SendCmd(c, kind, n, i)
        /\ UNCHANGED <<control, pending, wire, serving, back, executed, seq, owner>>
    BY <1>3 DEF Calls, SendOn, remoteVars
  <2>2. pc'[c] = kind /\ (\A d \in Callers : d # c => pc'[d] = pc[d])
    BY <1>2, <1>3 DEF Calls, GoTo
  <2>3. /\ \A j \in Pumps : \A m \in InPump(j)' :
                m \in InPump(j) \/ m = [from |-> c, kind |-> kind, seq |-> n]
        /\ \A d \in Callers : d # c => answer'[d] = answer[d]
        /\ answer'[c] # "ok"
    BY <1>1, <2>1, SendAdds
  <2>4. c \in Spawned => pc[c] # "idle" /\ pc'[c] # "idle"
    BY <1>3, <2>2 DEF Calls, Kinds, ControlKinds
  <2>5. kind = "urb" => c \in UrbTasks /\ n = seq[c]
    BY <1>3 DEF Calls
  <2>6. ASSUME NEW j \in Pumps, NEW m \in InPump(j)'
        PROVE  m \in InPump(j) \/ (m.from = c /\ m.kind = pc'[c] /\ Numbered(m)')
    <3>1. CASE m = [from |-> c, kind |-> kind, seq |-> n]
      BY <3>1, <2>1, <2>2, <2>4, <2>5, TaskKinds DEF Numbered
    <3> QED
      BY <2>6, <3>1, <2>3
  <2> QED
    BY <2>1, <2>2, <2>3, <2>4, <2>6, MoveKeepsNumbers
<1>4. ASSUME NEW c \in Callers, NEW s \in States, Takes(c, s) PROVE NumberInv'
  <2>1. /\ answer[c] # "waiting" /\ answer' = [answer EXCEPT ![c] = "none"]
        /\ UNCHANGED <<queue, control, pending, wire, serving, back, executed, seq, owner>>
    BY <1>4 DEF Takes, Take, remoteVars
  <2>2. pc'[c] = s /\ (\A d \in Callers : d # c => pc'[d] = pc[d])
    BY <1>2, <1>4 DEF Takes, GoTo
  <2>3. answer'[c] # "ok" /\ (\A d \in Callers : d # c => answer'[d] = answer[d])
    BY <1>2, <2>1
  <2>4. c \in Spawned => pc[c] # "idle" /\ pc'[c] # "idle"
    BY <1>4, <2>2 DEF Takes
  <2>5. \A j \in Pumps : InPump(j)' = InPump(j)
    BY <2>1 DEF InPump
  <2> QED
    BY <2>1, <2>2, <2>3, <2>4, <2>5, MoveKeepsNumbers
<1>5. ASSUME NEW c \in UrbTasks, Recovers(c) PROVE NumberInv'
  <2>1. c \in Callers /\ c \in Spawned /\ UNCHANGED <<seq, owner>>
    BY <1>5, TaskKinds DEF Recovers
  <2>2. pc[c] \in {"recover", "connected", "swap"}
    BY <1>5 DEF Recovers
  <2>3. answer[c] # "waiting"
    BY <2>1, <2>2 DEF TaskInv, Kinds, ControlKinds
  <2>4. /\ UNCHANGED <<queue, control, pending, answer, wire, serving, back, executed>>
        /\ \E s \in {"connected", "swap", "swapped"} : GoTo(c, s)
    BY <1>5 DEF Recovers, Connect, AbortOld, SwapTx, remoteVars
  <2>5. pc'[c] # "idle" /\ pc'[c] # "urb" /\ (\A d \in Callers : d # c => pc'[d] = pc[d])
    BY <1>2, <2>1, <2>4 DEF GoTo
  <2>6. \A j \in Pumps : InPump(j)' = InPump(j)
    BY <2>4 DEF InPump
  <2> QED
    BY <2>1, <2>2, <2>3, <2>4, <2>5, <2>6, MoveKeepsNumbers
<1>6. ASSUME NEW c \in Callers, NEW s \in States, Moves(c, s) PROVE NumberInv'
  <2>1. answer[c] # "waiting" /\ s # "urb"
    BY <1>6 DEF Moves, TaskInv, Kinds
  <2>2. UNCHANGED <<queue, control, pending, answer, wire, serving, back, executed, seq, owner>>
    BY <1>6 DEF Moves, clientVars, pumpVars, remoteVars
  <2>3. pc'[c] = s /\ (\A d \in Callers : d # c => pc'[d] = pc[d])
    BY <1>2, <1>6 DEF Moves, GoTo
  <2>4. c \in Spawned => pc[c] # "idle" /\ pc'[c] # "idle"
    BY <1>6, <2>3 DEF Moves
  <2>5. \A j \in Pumps : InPump(j)' = InPump(j)
    BY <2>2 DEF InPump
  <2> QED
    BY <2>1, <2>2, <2>3, <2>4, <2>5, MoveKeepsNumbers
<1>7. ASSUME NEW h \in Importers, NEW c \in Spawned, NEW n \in Nat, Spawns(h, c, n) PROVE NumberInv'
  BY <1>7, SpawnKeepsNumbers
<1>8. CASE Alone /\ UNCHANGED taskVars
  BY <1>8, AloneKeepsNumbers DEF taskVars, packetVars
<1>9. CASE Stays
  <2>1. UNCHANGED <<queue, control, pending, answer, wire, serving, back, executed, pc, seq, owner>>
    BY <1>9 DEF Stays, clientVars, pumpVars, remoteVars
  <2>2. \A i \in Pumps : Messages(i)'
    BY <2>1 DEF NumberInv, Messages, InPump, OnLine, Numbered
  <2>3. NumbersDiffer' /\ Told'
    BY <2>1 DEF NumberInv, NumbersDiffer, Told, Got, TasksOf
  <2> QED
    BY <2>2, <2>3 DEF NumberInv
<1> QED
  BY <1>3, <1>4, <1>5, <1>6, <1>7, <1>8, <1>9 DEF Steps

-----------------------------------------------------------------------------
(* Copies: how often a URB can be carried out.                             *)

\* A URB of task c, among the messages of a set.
IsUrbOf(m, c) == m.kind = "urb" /\ m.from = c
HasUrb(S, c) == \E m \in S : IsUrbOf(m, c)

\* It is on the way once.
Once(s, c) == \A j, k \in 1..Len(s) : IsUrbOf(s[j], c) /\ IsUrbOf(s[k], c) => j = k

\* Connection i still has a URB of task c to carry out.
Site(i, c) == HasUrb(Items(queue[i]), c) \/ HasUrb(Items(wire[i]), c) \/ HasUrb(serving[i], c)
Sites(c) == {i \in Pumps : Site(i, c)}

\* It is there in one place only.
OneCopy(i, c) ==
    /\ Once(wire[i], c)
    /\ \A x, y \in serving[i] : x.from = c /\ y.from = c => x = y
    /\ ~(HasUrb(Items(queue[i]), c) /\ HasUrb(Items(wire[i]), c))
    /\ ~(HasUrb(Items(queue[i]), c) /\ HasUrb(serving[i], c))
    /\ ~(HasUrb(Items(wire[i]), c) /\ HasUrb(serving[i], c))

\* The calls that a task has made at most, and the last connection they went over.
Made(c) == attempt[c] + (IF pc[c] \in {"urb", "reply", "done"} THEN 1 ELSE 0)
Reach(c) == IF pc[c] \in {"connected", "swap"} THEN opened - 1
            ELSE IF pc[c] \in {"idle", "call", "cloned", "swapped", "hello", "attach"} THEN cmd_tx - 1
            ELSE IF pc[c] = "tx" THEN tx[c] - 1
            ELSE cmd_tx

\* No more copies than calls, and none beyond the last connection used.
Counted(c) ==
    /\ executed[c] + Cardinality(Sites(c)) <= Made(c)
    /\ \A i \in Sites(c) : i <= Reach(c)

\* The inductive invariant of the copies: what was carried out and what still
\* may be are no more than the calls made, each call on a later connection.
CopyInv == \A c \in UrbTasks : Counted(c) /\ (\A i \in Pumps : OneCopy(i, c))

\* A connection that a step leaves alone keeps its copies.
LEMMA SameSite ==
    ASSUME NEW i \in Pumps, NEW c, OneCopy(i, c),
           queue'[i] = queue[i], wire'[i] = wire[i], serving'[i] = serving[i]
    PROVE  OneCopy(i, c)' /\ (Site(i, c)' <=> Site(i, c))
<1>1. OneCopy(i, c)'
  BY DEF OneCopy
<1>2. Site(i, c)' <=> Site(i, c)
  BY DEF Site
<1> QED
  BY <1>1, <1>2

\* A message is put on a stream that has no copy of it.
LEMMA OnceAppend ==
    ASSUME NEW s \in Seq(Msg), NEW m \in Msg, NEW c, Once(s, c),
           IsUrbOf(m, c) => ~HasUrb(Items(s), c)
    PROVE  Once(Append(s, m), c)
<1>1. /\ Len(s) \in Nat /\ Len(Append(s, m)) = Len(s) + 1 /\ Append(s, m)[Len(s) + 1] = m
      /\ \A k \in 1..Len(s) : Append(s, m)[k] = s[k]
  OBVIOUS
<1>2. \A k \in 1..(Len(s) + 1) : k = Len(s) + 1 \/ k \in 1..Len(s)
  BY <1>1
<1>3. \A k \in 1..Len(s) : IsUrbOf(m, c) => ~IsUrbOf(s[k], c)
  BY Zenon DEF HasUrb, Items
<1> HIDE DEF IsUrbOf
<1> QED
  BY <1>1, <1>2, <1>3, Zenon DEF Once

\* The head of a stream is read.
LEMMA OnceTail ==
    ASSUME NEW s \in Seq(Msg), s # <<>>, NEW c, Once(s, c)
    PROVE  /\ Once(Tail(s), c)
           /\ IsUrbOf(Head(s), c) => ~HasUrb(Items(Tail(s)), c)
<1>1. /\ Len(s) \in Nat \ {0} /\ Len(Tail(s)) = Len(s) - 1 /\ Head(s) = s[1] /\ 1 \in 1..Len(s)
      /\ \A k \in 1..(Len(s) - 1) : Tail(s)[k] = s[k + 1]
  OBVIOUS
<1>2. \A k \in 1..(Len(s) - 1) : k + 1 \in 1..Len(s) /\ k + 1 # 1
  BY <1>1
<1>3. ASSUME NEW j \in 1..(Len(s) - 1), NEW k \in 1..(Len(s) - 1),
             IsUrbOf(Tail(s)[j], c), IsUrbOf(Tail(s)[k], c)
      PROVE  j = k
  <2>1. IsUrbOf(s[j + 1], c) /\ IsUrbOf(s[k + 1], c) /\ j + 1 \in 1..Len(s) /\ k + 1 \in 1..Len(s)
    BY <1>1, <1>2, <1>3
  <2>2. j + 1 = k + 1
    BY <2>1 DEF Once
  <2> QED
    BY <2>2
<1>4. Once(Tail(s), c)
  BY <1>1, <1>3 DEF Once
<1>5. ASSUME IsUrbOf(Head(s), c), NEW m \in Items(Tail(s)), IsUrbOf(m, c) PROVE FALSE
  <2>1. PICK k \in 1..(Len(s) - 1) : m = Tail(s)[k]
    BY <1>1, <1>5 DEF Items
  <2>2. IsUrbOf(s[k + 1], c) /\ k + 1 \in 1..Len(s) /\ k + 1 # 1 /\ IsUrbOf(s[1], c)
    BY <2>1, <1>1, <1>2, <1>5
  <2> QED
    BY <2>2, <1>1 DEF Once
<1> QED
  BY <1>4, <1>5 DEF HasUrb

\* A URB taken from the channel leaves no copy there.
LEMMA DistinctTail ==
    ASSUME NEW s \in Seq(Msg), s # <<>>, NEW c, Distinct(s), IsUrbOf(Head(s), c)
    PROVE  ~HasUrb(Items(Tail(s)), c)
<1>1. Head(s).from \notin Senders(Tail(s))
  BY SendersTail
<1>2. \A m \in Items(Tail(s)) : m.from \in Senders(Tail(s))
  BY Zenon DEF Items, Senders
<1> QED
  BY <1>1, <1>2 DEF HasUrb, IsUrbOf

\* A set that has gained a message.
LEMMA HasUrbAdd ==
    ASSUME NEW S, NEW m, NEW c
    PROVE  HasUrb(S \cup {m}, c) <=> HasUrb(S, c) \/ IsUrbOf(m, c)
BY Zenon DEF HasUrb

\* A set that has lost some.
LEMMA HasUrbSub ==
    ASSUME NEW S, NEW R, NEW c, R \subseteq S, HasUrb(R, c)
    PROVE  HasUrb(S, c)
BY Zenon DEF HasUrb

\* What a step of the client does to the copies of a URB.
Fewer(c) ==
    /\ \A i \in Pumps : OneCopy(i, c)'
    /\ \A i \in Pumps : Site(i, c)' => Site(i, c)
    /\ \/ executed'[c] = executed[c]
       \/ executed'[c] = executed[c] + 1 /\ \E i \in Pumps : Site(i, c) /\ ~Site(i, c)'

\* A URB is moved from the channel to the stream.
LEMMA WriteCopies ==
    ASSUME ClientInv, NEW c \in UrbTasks, \A j \in Pumps : OneCopy(j, c), NEW i \in Pumps, PumpWrite(i)
    PROVE  Fewer(c)
<1> DEFINE m == Head(queue[i])
           q == queue[i]
           w == wire[i]
<1>1. ClientTypes /\ PumpInv(i) /\ OneCopy(i, c)
  BY DEF ClientInv
<1>2. q \in Seq(Msg) /\ w \in Seq(Msg) /\ Distinct(q)
  BY <1>1 DEF ClientTypes, PumpInv, OnePlace
<1>3. /\ q # <<>> /\ queue' = [queue EXCEPT ![i] = Tail(@)]
      /\ wire' = IF link[i] THEN [wire EXCEPT ![i] = Append(@, m)] ELSE wire
      /\ UNCHANGED <<serving, executed>>
  BY DEF PumpWrite
<1>4. Items(Tail(q)) \subseteq Items(q) /\ m \in Items(q) /\ m \in Msg
  BY <1>2, <1>3, ItemsTail
<1>5. IsUrbOf(m, c) => ~HasUrb(Items(Tail(q)), c) /\ HasUrb(Items(q), c)
  BY <1>2, <1>3, <1>4, DistinctTail DEF HasUrb
<1>6. queue'[i] = Tail(q) /\ (\A j \in Pumps : j # i => queue'[j] = queue[j])
  BY <1>1, <1>3 DEF ClientTypes
<1>7. /\ wire'[i] = w \/ wire'[i] = Append(w, m)
      /\ \A j \in Pumps : j # i => wire'[j] = wire[j]
  BY <1>1, <1>3 DEF ClientTypes
<1> HIDE DEF m, q, w
<1>8. HasUrb(Items(Tail(q)), c) => HasUrb(Items(q), c)
  BY <1>4, HasUrbSub
<1>9. /\ HasUrb(Items(wire'[i]), c) => HasUrb(Items(w), c) \/ IsUrbOf(m, c)
      /\ Once(wire'[i], c)
  <2>1. Once(w, c) /\ (IsUrbOf(m, c) => ~HasUrb(Items(w), c))
    BY <1>1, <1>5 DEF OneCopy, q, w
  <2>2. Once(Append(w, m), c)
    BY <2>1, <1>2, <1>4, OnceAppend
  <2>3. Items(Append(w, m)) = Items(w) \cup {m}
    BY <1>2, <1>4, ItemsAppend
  <2>4. HasUrb(Items(Append(w, m)), c) => HasUrb(Items(w), c) \/ IsUrbOf(m, c)
    BY <2>3, HasUrbAdd
  <2> QED
    BY <2>1, <2>2, <2>4, <1>7
<1>10. /\ ~(HasUrb(Items(q), c) /\ HasUrb(Items(w), c))
       /\ ~(HasUrb(Items(q), c) /\ HasUrb(serving[i], c))
       /\ ~(HasUrb(Items(w), c) /\ HasUrb(serving[i], c))
       /\ \A x, y \in serving[i] : x.from = c /\ y.from = c => x = y
  BY <1>1 DEF OneCopy, q, w
<1>11. OneCopy(i, c)'
  <2>1. /\ ~(HasUrb(Items(Tail(q)), c) /\ HasUrb(Items(wire'[i]), c))
        /\ ~(HasUrb(Items(Tail(q)), c) /\ HasUrb(serving[i], c))
        /\ ~(HasUrb(Items(wire'[i]), c) /\ HasUrb(serving[i], c))
    BY <1>5, <1>8, <1>9, <1>10
  <2> QED
    BY <2>1, <1>3, <1>6, <1>9, <1>10 DEF OneCopy
<1>12. Site(i, c)' => Site(i, c)
  <2>1. Site(i, c)' <=> HasUrb(Items(Tail(q)), c) \/ HasUrb(Items(wire'[i]), c) \/ HasUrb(serving[i], c)
    BY <1>3, <1>6 DEF Site
  <2>2. Site(i, c) <=> HasUrb(Items(q), c) \/ HasUrb(Items(w), c) \/ HasUrb(serving[i], c)
    BY DEF Site, q, w
  <2> QED
    BY <2>1, <2>2, <1>5, <1>8, <1>9
<1>13. ASSUME NEW j \in Pumps, j # i PROVE OneCopy(j, c)' /\ (Site(j, c)' <=> Site(j, c))
  BY <1>3, <1>6, <1>7, <1>13, SameSite
<1> QED
  BY <1>3, <1>11, <1>12, <1>13 DEF Fewer

\* A URB is moved from the stream to the server.
LEMMA ServeCopies ==
    ASSUME ClientInv, NEW c \in UrbTasks, \A j \in Pumps : OneCopy(j, c), NEW i \in Pumps, ServerRead(i)
    PROVE  Fewer(c)
<1> DEFINE m == Head(wire[i])
           w == wire[i]
<1>1. ClientTypes /\ PumpInv(i) /\ OneCopy(i, c)
  BY DEF ClientInv
<1>2. w \in Seq(Msg) /\ (\A x \in serving[i] : x.kind = "urb")
  BY <1>1 DEF ClientTypes, PumpInv, Sorted
<1>3. /\ w # <<>> /\ wire' = [wire EXCEPT ![i] = Tail(@)]
      /\ UNCHANGED <<queue, executed>>
  BY DEF ServerRead, pumpVars
<1>4. serving' = serving \/ (m.kind = "urb" /\ serving' = [serving EXCEPT ![i] = @ \cup {m}])
  BY DEF ServerRead
<1>5. Items(Tail(w)) \subseteq Items(w) /\ m \in Items(w)
  BY <1>2, <1>3, ItemsTail
<1>6. Once(Tail(w), c) /\ (IsUrbOf(m, c) => ~HasUrb(Items(Tail(w)), c) /\ HasUrb(Items(w), c))
  <2>1. Once(w, c)
    BY <1>1 DEF OneCopy
  <2> QED
    BY <2>1, <1>2, <1>3, <1>5, OnceTail DEF HasUrb
<1>7. wire'[i] = Tail(w) /\ (\A j \in Pumps : j # i => wire'[j] = wire[j])
  BY <1>1, <1>3 DEF ClientTypes
<1> HIDE DEF m, w
<1>8. /\ serving'[i] = serving[i] \/ (m.kind = "urb" /\ serving'[i] = serving[i] \cup {m})
      /\ \A j \in Pumps : j # i => serving'[j] = serving[j]
  BY <1>1, <1>4 DEF ClientTypes
<1>9. HasUrb(Items(Tail(w)), c) => HasUrb(Items(w), c)
  BY <1>5, HasUrbSub
<1>10. HasUrb(serving'[i], c) => HasUrb(serving[i], c) \/ IsUrbOf(m, c)
  BY <1>8, HasUrbAdd
<1>11. /\ ~(HasUrb(Items(queue[i]), c) /\ HasUrb(Items(w), c))
       /\ ~(HasUrb(Items(queue[i]), c) /\ HasUrb(serving[i], c))
       /\ ~(HasUrb(Items(w), c) /\ HasUrb(serving[i], c))
       /\ \A x, y \in serving[i] : x.from = c /\ y.from = c => x = y
  BY <1>1 DEF OneCopy, w
<1>12. \A x, y \in serving'[i] : x.from = c /\ y.from = c => x = y
  <2>1. CASE serving'[i] = serving[i]
    BY <2>1, <1>11
  <2>2. CASE m.kind = "urb" /\ serving'[i] = serving[i] \cup {m}
    <3>1. m.from = c => \A x \in serving[i] : x.from # c
      BY <2>2, <1>2, <1>6, <1>11 DEF HasUrb, IsUrbOf
    <3> QED
      BY <3>1, <2>2, <1>11
  <2> QED
    BY <2>1, <2>2, <1>8
<1>13. OneCopy(i, c)'
  <2>1. /\ ~(HasUrb(Items(queue[i]), c) /\ HasUrb(Items(Tail(w)), c))
        /\ ~(HasUrb(Items(queue[i]), c) /\ HasUrb(serving'[i], c))
        /\ ~(HasUrb(Items(Tail(w)), c) /\ HasUrb(serving'[i], c))
    BY <1>6, <1>9, <1>10, <1>11
  <2> QED
    BY <2>1, <1>3, <1>6, <1>7, <1>12 DEF OneCopy
<1>14. Site(i, c)' => Site(i, c)
  <2>1. Site(i, c)' <=> HasUrb(Items(queue[i]), c) \/ HasUrb(Items(Tail(w)), c) \/ HasUrb(serving'[i], c)
    BY <1>3, <1>7 DEF Site
  <2>2. Site(i, c) <=> HasUrb(Items(queue[i]), c) \/ HasUrb(Items(w), c) \/ HasUrb(serving[i], c)
    BY DEF Site, w
  <2> QED
    BY <2>1, <2>2, <1>6, <1>9, <1>10
<1>15. ASSUME NEW j \in Pumps, j # i PROVE OneCopy(j, c)' /\ (Site(j, c)' <=> Site(j, c))
  BY <1>3, <1>7, <1>8, <1>15, SameSite
<1> QED
  BY <1>3, <1>13, <1>14, <1>15 DEF Fewer

\* A URB that is carried out is not on its connection any more.
LEMMA CompleteCopies ==
    ASSUME ClientInv, NEW c \in UrbTasks, \A j \in Pumps : OneCopy(j, c), NEW i \in Pumps,
           NEW m \in serving[i], ServerComplete(i, m)
    PROVE  Fewer(c)
<1>1. ClientTypes /\ PumpInv(i) /\ OneCopy(i, c) /\ c \in Callers
  BY TaskKinds DEF ClientInv
<1>2. m.kind = "urb"
  BY <1>1 DEF PumpInv, Sorted
<1>3. /\ serving' = [serving EXCEPT ![i] = @ \ {m}] /\ UNCHANGED <<queue, wire>>
  BY DEF ServerComplete, pumpVars
<1>4. executed'[c] = IF c = m.from THEN executed[c] + 1 ELSE executed[c]
  BY <1>1, CompleteMoves
<1>5. serving'[i] = serving[i] \ {m} /\ (\A j \in Pumps : j # i => serving'[j] = serving[j])
  BY <1>1, <1>3 DEF ClientTypes
<1>6. HasUrb(serving'[i], c) => HasUrb(serving[i], c)
  BY <1>5 DEF HasUrb
<1>7. OneCopy(i, c)'
  BY <1>1, <1>3, <1>5, <1>6 DEF OneCopy
<1>8. Site(i, c)' => Site(i, c)
  <2>1. Site(i, c)' <=> HasUrb(Items(queue[i]), c) \/ HasUrb(Items(wire[i]), c) \/ HasUrb(serving'[i], c)
    BY <1>3 DEF Site
  <2> QED
    BY <2>1, <1>6 DEF Site
<1>9. ASSUME c = m.from PROVE Site(i, c) /\ ~Site(i, c)'
  <2>1. HasUrb(serving[i], c)
    BY <1>2, <1>9 DEF HasUrb, IsUrbOf
  <2>2. ~HasUrb(Items(queue[i]), c) /\ ~HasUrb(Items(wire[i]), c)
    BY <2>1, <1>1 DEF OneCopy
  <2>3. ~HasUrb(serving'[i], c)
    BY <1>1, <1>5, <1>9 DEF OneCopy, HasUrb, IsUrbOf
  <2>4. Site(i, c)' <=> HasUrb(Items(queue[i]), c) \/ HasUrb(Items(wire[i]), c) \/ HasUrb(serving'[i], c)
    BY <1>3 DEF Site
  <2> QED
    BY <2>1, <2>2, <2>3, <2>4 DEF Site
<1>10. ASSUME NEW j \in Pumps, j # i PROVE OneCopy(j, c)' /\ (Site(j, c)' <=> Site(j, c))
  BY <1>3, <1>5, <1>10, SameSite
<1> QED
  BY <1>4, <1>7, <1>8, <1>9, <1>10 DEF Fewer

\* Client and server make no copies.
LEMMA AloneCopies ==
    ASSUME ClientInv, NEW c \in UrbTasks, \A j \in Pumps : OneCopy(j, c), Alone
    PROVE  Fewer(c) /\ UNCHANGED <<opened, cmd_tx>>
<1>1. ClientTypes
  BY DEF ClientInv
<1>2. ASSUME UNCHANGED <<queue, wire, serving, executed>> PROVE Fewer(c)
  BY <1>2, SameSite DEF Fewer
<1>3. CASE Revoke
  BY <1>2, <1>3 DEF Revoke, pumpVars
<1>4. ASSUME NEW i \in Pumps, PumpWrite(i) PROVE Fewer(c) /\ UNCHANGED <<opened, cmd_tx>>
  BY <1>4, WriteCopies DEF PumpWrite
<1>5. ASSUME NEW i \in Pumps, PumpRead(i) \/ Drop(i) PROVE Fewer(c) /\ UNCHANGED <<opened, cmd_tx>>
  BY <1>2, <1>5 DEF PumpRead, Drop, pumpVars
<1>6. ASSUME NEW i \in Pumps, PumpEnd(i) PROVE Fewer(c) /\ UNCHANGED <<opened, cmd_tx>>
  <2>1. queue' = [queue EXCEPT ![i] = <<>>] /\ UNCHANGED <<opened, cmd_tx, wire, serving, executed>>
    BY <1>6 DEF PumpEnd
  <2>2. queue'[i] = <<>> /\ (\A j \in Pumps : j # i => queue'[j] = queue[j])
    BY <2>1, <1>1 DEF ClientTypes
  <2>3. ~HasUrb(Items(queue'[i]), c)
    BY <2>2, ItemsEmpty DEF HasUrb
  <2>4. OneCopy(i, c)' /\ (Site(i, c)' => Site(i, c))
    BY <2>1, <2>3 DEF OneCopy, Site
  <2>5. ASSUME NEW j \in Pumps, j # i PROVE OneCopy(j, c)' /\ (Site(j, c)' <=> Site(j, c))
    BY <2>1, <2>2, <2>5, SameSite
  <2> QED
    BY <2>1, <2>4, <2>5 DEF Fewer
<1>7. ASSUME NEW i \in Pumps, ServerTeardown(i) PROVE Fewer(c) /\ UNCHANGED <<opened, cmd_tx>>
  <2>1. wire' = [wire EXCEPT ![i] = <<>>] /\ UNCHANGED <<opened, cmd_tx, queue, serving, executed>>
    BY <1>7 DEF ServerTeardown, pumpVars
  <2>2. wire'[i] = <<>> /\ (\A j \in Pumps : j # i => wire'[j] = wire[j])
    BY <2>1, <1>1 DEF ClientTypes
  <2>3. ~HasUrb(Items(wire'[i]), c) /\ Once(wire'[i], c)
    BY <2>2, ItemsEmpty DEF HasUrb, Once
  <2>4. OneCopy(i, c)' /\ (Site(i, c)' => Site(i, c))
    BY <2>1, <2>3 DEF OneCopy, Site
  <2>5. ASSUME NEW j \in Pumps, j # i PROVE OneCopy(j, c)' /\ (Site(j, c)' <=> Site(j, c))
    BY <2>1, <2>2, <2>5, SameSite
  <2> QED
    BY <2>1, <2>4, <2>5 DEF Fewer
<1>8. ASSUME NEW i \in Pumps, ServerRead(i) PROVE Fewer(c) /\ UNCHANGED <<opened, cmd_tx>>
  BY <1>8, ServeCopies DEF ServerRead, pumpVars
<1>9. ASSUME NEW i \in Pumps, NEW m \in serving[i], ServerComplete(i, m)
      PROVE  Fewer(c) /\ UNCHANGED <<opened, cmd_tx>>
  BY <1>9, CompleteCopies DEF ServerComplete, pumpVars
<1> QED
  BY <1>3, <1>4, <1>5, <1>6, <1>7, <1>8, <1>9 DEF Alone

\* Sets of connections are finite.
LEMMA SomePumps ==
    ASSUME NEW S, S \subseteq Pumps
    PROVE  IsFiniteSet(S) /\ Cardinality(S) \in Nat
<1>1. IsFiniteSet(Pumps)
  BY PumpAssumption, FS_Interval DEF Pumps
<1> QED
  BY <1>1, FS_Subset, FS_CardinalityType

\* The request of another task, or another kind of request, is no copy.
LEMMA SendCopies ==
    ASSUME ClientInv, NEW c \in Callers, NEW kind \in Kinds, NEW n \in Nat, NEW i \in Pumps,
           SendCmd(c, kind, n, i), UNCHANGED <<wire, serving, executed>>,
           NEW d \in UrbTasks, \A j \in Pumps : OneCopy(j, d)
    PROVE  /\ kind # "urb" \/ d # c => Fewer(d)
           /\ ~Site(i, d) => \A j \in Pumps : OneCopy(j, d)' /\ (Site(j, d)' => Site(j, d) \/ j = i)
<1> DEFINE m == [from |-> c, kind |-> kind, seq |-> n]
<1>1. ClientTypes /\ OneCopy(i, d)
  BY DEF ClientInv
<1>2. m \in Msg /\ queue[i] \in Seq(Msg) /\ (IsUrbOf(m, d) <=> kind = "urb" /\ d = c)
  BY <1>1 DEF Msg, ClientTypes, IsUrbOf
<1>3. queue' = queue \/ queue' = [queue EXCEPT ![i] = Append(@, m)]
  BY DEF SendCmd
<1> HIDE DEF m
<1>4. queue'[i] = queue[i] \/ queue'[i] = Append(queue[i], m)
  BY <1>1, <1>3 DEF ClientTypes
<1>5. \A j \in Pumps : j # i => queue'[j] = queue[j]
  BY <1>1, <1>3 DEF ClientTypes
<1>6. HasUrb(Items(queue'[i]), d) => HasUrb(Items(queue[i]), d) \/ IsUrbOf(m, d)
  <2>1. Items(Append(queue[i], m)) = Items(queue[i]) \cup {m}
    BY <1>2, ItemsAppend
  <2> QED
    BY <2>1, <1>4, HasUrbAdd
<1>7. ASSUME NEW j \in Pumps, j # i PROVE OneCopy(j, d)' /\ (Site(j, d)' <=> Site(j, d))
  BY <1>5, <1>7, SameSite
<1>8. ASSUME kind # "urb" \/ d # c PROVE Fewer(d)
  <2>1. HasUrb(Items(queue'[i]), d) => HasUrb(Items(queue[i]), d)
    BY <1>2, <1>6, <1>8
  <2>2. OneCopy(i, d)' /\ (Site(i, d)' => Site(i, d))
    BY <2>1, <1>1 DEF OneCopy, Site
  <2> QED
    BY <2>2, <1>7 DEF Fewer
<1>9. ASSUME ~Site(i, d)
      PROVE  \A j \in Pumps : OneCopy(j, d)' /\ (Site(j, d)' => Site(j, d) \/ j = i)
  <2>1. OneCopy(i, d)'
    BY <1>1, <1>9 DEF OneCopy, Site
  <2> QED
    BY <2>1, <1>7
<1> QED
  BY <1>8, <1>9

\* A step that adds no copy keeps the count.
LEMMA FewerCounts ==
    ASSUME ClientInv, NEW c \in UrbTasks, Counted(c), Fewer(c),
           Made(c) \in Nat, Made(c)' \in Nat, Made(c) <= Made(c)',
           Reach(c) \in Int, Reach(c)' \in Int, Reach(c) <= Reach(c)'
    PROVE  Counted(c)'
<1> DEFINE S == Sites(c)
           R == {i \in Pumps : Site(i, c)'}
<1>1. S \subseteq Pumps /\ R \subseteq Pumps /\ R \subseteq S /\ Sites(c)' = R
  BY DEF Sites, Fewer
<1>2. executed[c] \in Nat
  BY TaskKinds DEF ClientInv, ClientTypes
<1>3. \/ executed'[c] = executed[c]
      \/ executed'[c] = executed[c] + 1 /\ \E i \in S : i \notin R
  BY DEF Fewer, Sites
<1>4. executed[c] + Cardinality(S) <= Made(c) /\ (\A i \in S : i <= Reach(c))
  BY DEF Counted
<1> HIDE DEF S, R
<1>5. /\ IsFiniteSet(S) /\ IsFiniteSet(R) /\ Cardinality(S) \in Nat /\ Cardinality(R) \in Nat
  BY <1>1, SomePumps
<1>6. Cardinality(R) <= Cardinality(S)
  BY <1>1, <1>5, FS_Subset
<1>7. ASSUME NEW i \in S, i \notin R PROVE Cardinality(R) + 1 <= Cardinality(S)
  <2>1. R # S
    BY <1>7
  <2>2. Cardinality(R) < Cardinality(S)
    BY <2>1, <1>1, <1>5, <1>6, FS_Subset
  <2> QED
    BY <2>2, <1>5
<1>8. executed'[c] + Cardinality(R) <= Made(c)'
  <2>1. CASE executed'[c] = executed[c]
    BY <2>1, <1>2, <1>4, <1>5, <1>6
  <2>2. CASE executed'[c] = executed[c] + 1 /\ \E i \in S : i \notin R
    <3>1. Cardinality(R) + 1 <= Cardinality(S)
      BY <2>2, <1>7
    <3> QED
      BY <3>1, <2>2, <1>2, <1>4, <1>5
  <2> QED
    BY <2>1, <2>2, <1>3
<1>9. \A i \in R : i <= Reach(c)'
  <2>1. \A i \in R : i \in Int /\ i <= Reach(c)
    BY <1>1, <1>4 DEF Pumps
  <2> QED
    BY <2>1
<1> QED
  BY <1>1, <1>8, <1>9 DEF Counted

\* One more call is one more copy, on a connection that no earlier one went over.
LEMMA CallCounts ==
    ASSUME ClientInv, NEW c \in UrbTasks, Counted(c), NEW k \in Pumps,
           \A j \in Pumps : Site(j, c)' => Site(j, c) \/ j = k,
           executed' = executed, Made(c) \in Nat, Made(c)' = Made(c) + 1,
           Reach(c) \in Int, Reach(c)' \in Int, Reach(c) <= Reach(c)', k <= Reach(c)'
    PROVE  Counted(c)'
<1> DEFINE S == Sites(c)
           R == {i \in Pumps : Site(i, c)'}
<1>1. S \subseteq Pumps /\ R \subseteq Pumps /\ R \subseteq S \cup {k} /\ Sites(c)' = R
  BY DEF Sites
<1>2. executed[c] \in Nat
  BY TaskKinds DEF ClientInv, ClientTypes
<1>3. executed[c] + Cardinality(S) <= Made(c) /\ (\A i \in S : i <= Reach(c))
  BY DEF Counted
<1> HIDE DEF S, R
<1>4. /\ IsFiniteSet(S) /\ Cardinality(S) \in Nat /\ Cardinality(R) \in Nat
      /\ IsFiniteSet(S \cup {k}) /\ Cardinality(S \cup {k}) \in Nat
  <2>1. S \cup {k} \subseteq Pumps
    BY <1>1
  <2> QED
    BY <2>1, <1>1, SomePumps
<1>5. Cardinality(R) <= Cardinality(S \cup {k})
  BY <1>1, <1>4, FS_Subset
<1>6. Cardinality(S \cup {k}) <= Cardinality(S) + 1
  <2>1. Cardinality(S \cup {k}) = (IF k \in S THEN Cardinality(S) ELSE Cardinality(S) + 1)
    BY <1>4, FS_AddElement
  <2> QED
    BY <2>1, <1>4
<1>7. executed'[c] + Cardinality(R) <= Made(c)'
  BY <1>2, <1>3, <1>4, <1>5, <1>6
<1>8. \A i \in R : i <= Reach(c)'
  <2>1. \A i \in R : i \in Int /\ (i <= Reach(c) \/ i = k)
    BY <1>1, <1>3 DEF Pumps
  <2> QED
    BY <2>1
<1> QED
  BY <1>1, <1>7, <1>8 DEF Counted

\* A task makes progress: it never takes a call back, nor an earlier connection.
LEMMA TasksProgress ==
    ASSUME ClientInv, ClientInv', TaskInv, TaskInv', Steps, NEW c \in UrbTasks
    PROVE  /\ Made(c) \in Nat /\ Made(c)' \in Nat /\ Made(c) <= Made(c)'
           /\ Reach(c) \in Int /\ Reach(c)' \in Int /\ Reach(c) <= Reach(c)'
<1>1. /\ c \in Callers /\ attempt[c] \in 0..1 /\ attempt'[c] \in 0..1 /\ pc \in [Callers -> States]
      /\ attempt \in [UrbTasks -> 0..1] /\ tx \in [Callers -> Nat] /\ tx[c] \in Nat /\ tx'[c] \in Nat
      /\ pc[c] = "tx" => tx[c] <= cmd_tx
  BY TaskKinds DEF TaskInv
<1>2. /\ opened \in Nat /\ cmd_tx \in Nat /\ cmd_tx <= opened
      /\ opened' \in Nat /\ cmd_tx' \in Nat
  BY PumpAssumption DEF ClientInv, Pointers, Pumps
<1>3. /\ Made(c) \in Nat /\ Made(c)' \in Nat /\ Reach(c) \in Int /\ Reach(c)' \in Int
  BY <1>1, <1>2 DEF Made, Reach
<1> DEFINE Grows == Made(c) <= Made(c)' /\ Reach(c) <= Reach(c)'
<1>4. ASSUME pc'[c] = pc[c], attempt'[c] = attempt[c], opened <= opened', cmd_tx <= cmd_tx', tx'[c] = tx[c]
      PROVE  Grows
  <2>1. Made(c)' = Made(c)
    BY <1>4 DEF Made
  <2>2. Reach(c) <= Reach(c)'
    <3>1. CASE pc[c] \in {"connected", "swap"}
      <4>1. Reach(c) = opened - 1 /\ Reach(c)' = opened' - 1
        BY <3>1, <1>4 DEF Reach
      <4>2. \A a, b \in Nat : a <= b => a - 1 <= b - 1
        OBVIOUS
      <4>3. opened - 1 <= opened' - 1
        BY <4>2, <1>2, <1>4
      <4> QED
        BY <4>1, <4>3
    <3>2. CASE pc[c] \in {"idle", "call", "cloned", "swapped", "hello", "attach"}
      <4>1. Reach(c) = cmd_tx - 1 /\ Reach(c)' = cmd_tx' - 1
        BY <3>2, <1>4 DEF Reach
      <4>2. \A a, b \in Nat : a <= b => a - 1 <= b - 1
        OBVIOUS
      <4>3. cmd_tx - 1 <= cmd_tx' - 1
        BY <4>2, <1>2, <1>4
      <4> QED
        BY <4>1, <4>3
    <3>3. CASE pc[c] = "tx"
      BY <3>3, <1>1, <1>4 DEF Reach
    <3>4. CASE pc[c] \notin {"connected", "swap", "idle", "call", "cloned", "swapped", "hello", "attach", "tx"}
      BY <3>4, <1>2, <1>4 DEF Reach
    <3> QED
      BY <3>1, <3>2, <3>3, <3>4
  <2> QED
    BY <2>1, <2>2, <1>3
<1>5. ASSUME NEW d \in Callers, NEW kind \in Kinds, NEW n \in Nat, NEW i \in Pumps, Calls(d, kind, n, i)
      PROVE  Grows
  <2>1. /\ UNCHANGED <<opened, cmd_tx, attempt>> /\ pc' = [pc EXCEPT ![d] = kind]
        /\ tx' = tx \/ tx' = [tx EXCEPT ![d] = 0]
    BY <1>5 DEF Calls, SendOn, GoTo
  <2>2. CASE d = c
    <3>1. \/ pc[c] = "tx" /\ pc'[c] = "urb"
          \/ pc[c] = "swapped" /\ pc'[c] = "hello"
          \/ pc[c] = "hello" /\ pc'[c] = "attach"
      BY <1>1, <1>5, <2>1, <2>2 DEF Calls
    <3> QED
      BY <2>1, <3>1, <1>1, <1>2 DEF Made, Reach
  <2>3. CASE d # c
    BY <2>1, <2>3, <1>1, <1>2, <1>4
  <2> QED
    BY <2>2, <2>3
<1>6. ASSUME NEW d \in Callers, NEW s \in States, Takes(d, s) PROVE Grows
  <2>1. UNCHANGED <<opened, cmd_tx, tx>> /\ pc' = [pc EXCEPT ![d] = s]
    BY <1>6 DEF Takes, Take, GoTo
  <2>2. CASE d = c
    <3>1. pc'[c] = s
      BY <2>1, <2>2, <1>1
    <3>2. \/ pc[c] = "urb" /\ s = "reply" /\ attempt' = attempt
          \/ pc[c] = "urb" /\ s = "recover" /\ attempt[c] = 0 /\ attempt'[c] = 1
          \/ pc[c] \in {"hello", "attach"} /\ s \in {"recover", "reply", "call"} /\ attempt' = attempt
      BY <2>2, <1>1, <1>6 DEF Takes
    <3> QED
      BY <2>1, <3>1, <3>2, <1>1, <1>2 DEF Made, Reach
  <2>3. CASE d # c
    <3>1. attempt'[c] = attempt[c]
      BY <2>3, <1>1, <1>6 DEF Takes
    <3> QED
      BY <3>1, <2>1, <2>3, <1>1, <1>2, <1>4
  <2> QED
    BY <2>2, <2>3
<1>7. ASSUME NEW d \in UrbTasks, Recovers(d) PROVE Grows
  <2>1. d \in Callers /\ attempt' = attempt /\ tx' = tx
    BY <1>7, TaskKinds DEF Recovers
  <2>2. \/ pc[d] = "recover" /\ pc' = [pc EXCEPT ![d] = "connected"] /\ opened' = opened + 1 /\ cmd_tx' = cmd_tx
        \/ pc[d] = "connected" /\ pc' = [pc EXCEPT ![d] = "swap"] /\ opened' = opened /\ cmd_tx' = cmd_tx
        \/ pc[d] = "swap" /\ pc' = [pc EXCEPT ![d] = "swapped"] /\ opened' = opened /\ cmd_tx' = opened
    BY <1>7 DEF Recovers, Connect, AbortOld, SwapTx, GoTo
  <2>3. CASE d = c
    <3>1. \/ pc[c] = "recover" /\ pc'[c] = "connected" /\ opened' = opened + 1 /\ cmd_tx' = cmd_tx
          \/ pc[c] = "connected" /\ pc'[c] = "swap" /\ opened' = opened /\ cmd_tx' = cmd_tx
          \/ pc[c] = "swap" /\ pc'[c] = "swapped" /\ opened' = opened /\ cmd_tx' = opened
      BY <2>2, <2>3, <1>1
    <3>2. Made(c) <= Made(c)'
      BY <3>1, <2>1, <1>1 DEF Made
    <3>3. Reach(c) <= Reach(c)'
      BY <3>1, <1>2 DEF Reach
    <3> QED
      BY <3>2, <3>3
  <2>4. CASE d # c
    <3>1. pc'[c] = pc[c] /\ opened <= opened' /\ cmd_tx <= cmd_tx'
      BY <2>1, <2>2, <2>4, <1>1, <1>2
    <3> QED
      BY <3>1, <2>1, <1>4
  <2> QED
    BY <2>3, <2>4
<1>8. ASSUME NEW d \in Callers, NEW s \in States, Moves(d, s) PROVE Grows
  <2>1. UNCHANGED <<opened, cmd_tx, attempt>> /\ pc' = [pc EXCEPT ![d] = s]
        /\ tx' = IF s = "tx" THEN [tx EXCEPT ![d] = cmd_tx] ELSE tx
    BY <1>8 DEF Moves, GoTo, clientVars, pumpVars
  <2>2. CASE d = c
    <3>1. /\ pc'[c] = s /\ tx'[c] = IF s = "tx" THEN cmd_tx ELSE tx[c]
          /\ \/ pc[c] = "call" /\ s = "cloned"
             \/ pc[c] = "cloned" /\ s = "tx"
             \/ pc[c] = "recover" /\ s \in {"recover", "reply"}
             \/ pc[c] = "reply" /\ s = "done"
      BY <1>1, <1>8, <2>1, <2>2 DEF Moves
    <3> QED
      BY <2>1, <3>1, <1>1, <1>2 DEF Made, Reach
  <2>3. CASE d # c
    BY <2>1, <2>3, <1>1, <1>2, <1>4
  <2> QED
    BY <2>2, <2>3
<1>9. ASSUME NEW h \in Importers, NEW d \in Spawned, NEW n \in Nat, Spawns(h, d, n) PROVE Grows
  <2>1. UNCHANGED <<opened, cmd_tx, attempt, tx>> /\ pc[d] = "idle" /\ pc' = [pc EXCEPT ![d] = "call"]
    BY <1>9 DEF Spawns, Spawn, GoTo, clientVars, pumpVars
  <2>2. CASE d = c
    BY <2>1, <2>2, <1>1, <1>2 DEF Made, Reach
  <2>3. CASE d # c
    BY <2>1, <2>3, <1>1, <1>2, <1>4
  <2> QED
    BY <2>2, <2>3
<1>10. CASE Alone /\ UNCHANGED taskVars
  <2>1. UNCHANGED <<pc, attempt, tx>>
    BY <1>10 DEF taskVars
  <2>2. UNCHANGED <<opened, cmd_tx>>
    BY <1>10 DEF Alone, Revoke, PumpWrite, PumpRead, PumpEnd, ServerRead, ServerTeardown, Drop,
                 ServerComplete, pumpVars
  <2>3. opened <= opened' /\ cmd_tx <= cmd_tx' /\ pc'[c] = pc[c] /\ attempt'[c] = attempt[c] /\ tx'[c] = tx[c]
    BY <2>1, <2>2, <1>2
  <2> QED
    BY <2>3, <1>3, <1>4
<1>11. CASE Stays
  <2>1. UNCHANGED <<pc, attempt, opened, cmd_tx, tx>>
    BY <1>11 DEF Stays, clientVars, pumpVars
  <2>2. opened <= opened' /\ cmd_tx <= cmd_tx' /\ pc'[c] = pc[c] /\ attempt'[c] = attempt[c] /\ tx'[c] = tx[c]
    BY <2>1, <1>2
  <2> QED
    BY <2>2, <1>3, <1>4
<1> QED
  BY <1>3, <1>5, <1>6, <1>7, <1>8, <1>9, <1>10, <1>11 DEF Steps

\* A call goes over a connection that the earlier ones of its task did not use.
LEMMA CallKeepsCopies ==
    ASSUME ClientInv, ClientInv', TaskInv, TaskInv', CopyInv, Steps, NEW c \in UrbTasks,
           NEW d \in Callers, NEW kind \in Kinds, NEW n \in Nat, NEW i \in Pumps, Calls(d, kind, n, i)
    PROVE  Counted(c)' /\ (\A j \in Pumps : OneCopy(j, c)')
<1>1. Counted(c) /\ (\A j \in Pumps : OneCopy(j, c))
  BY DEF CopyInv
<1>2. /\ SendCmd(d, kind, n, i) /\ UNCHANGED <<wire, serving, executed, attempt, cmd_tx>>
      /\ pc' = [pc EXCEPT ![d] = kind]
  BY DEF Calls, SendOn, remoteVars, GoTo
<1>3. /\ kind # "urb" \/ c # d => Fewer(c)
      /\ ~Site(i, c) => \A j \in Pumps : OneCopy(j, c)' /\ (Site(j, c)' => Site(j, c) \/ j = i)
  BY <1>1, <1>2, SendCopies
<1>4. /\ Made(c) \in Nat /\ Made(c)' \in Nat /\ Made(c) <= Made(c)'
      /\ Reach(c) \in Int /\ Reach(c)' \in Int /\ Reach(c) <= Reach(c)'
  BY TasksProgress
<1>5. CASE kind # "urb" \/ c # d
  <2>1. Fewer(c)
    BY <1>3, <1>5
  <2>2. Counted(c)'
    BY <2>1, <1>1, <1>4, FewerCounts
  <2> QED
    BY <2>1, <2>2 DEF Fewer
<1>6. CASE kind = "urb" /\ c = d
  <2>1. pc[c] = "tx" /\ i = tx[c] /\ pc'[c] = "urb" /\ attempt[c] \in Nat
    BY <1>2, <1>6 DEF Calls, TaskInv
  <2>2. i \in Int /\ Reach(c) = i - 1 /\ Reach(c)' = cmd_tx
    BY <2>1, <1>2 DEF Reach, Pumps
  <2>3. Made(c)' = Made(c) + 1
    BY <2>1, <1>2 DEF Made
  <2>4. ~Site(i, c)
    <3>1. i \in Sites(c) => i <= Reach(c)
      BY <1>1 DEF Counted
    <3>2. Site(i, c) => i \in Sites(c)
      BY DEF Sites
    <3> QED
      BY <3>1, <3>2, <2>2
  <2>5. \A j \in Pumps : OneCopy(j, c)' /\ (Site(j, c)' => Site(j, c) \/ j = i)
    BY <2>4, <1>3
  <2>6. i <= Reach(c)'
    <3>1. i \in 1..cmd_tx
      BY <1>6, <2>1 DEF TaskInv
    <3> QED
      BY <3>1, <2>2
  <2>7. Counted(c)'
    BY <2>3, <2>5, <2>6, <1>1, <1>2, <1>4, CallCounts
  <2> QED
    BY <2>5, <2>7
<1> QED
  BY <1>5, <1>6

\* Every step keeps the invariant of the copies.
LEMMA CopiesKeep ==
    ASSUME ClientInv, ClientInv', TaskInv, TaskInv', CopyInv, Steps
    PROVE  CopyInv'
<1> SUFFICES ASSUME NEW c \in UrbTasks
             PROVE  Counted(c)' /\ (\A i \in Pumps : OneCopy(i, c)')
  BY DEF CopyInv
<1>1. Counted(c) /\ (\A i \in Pumps : OneCopy(i, c))
  BY DEF CopyInv
<1>2. /\ Made(c) \in Nat /\ Made(c)' \in Nat /\ Made(c) <= Made(c)'
      /\ Reach(c) \in Int /\ Reach(c)' \in Int /\ Reach(c) <= Reach(c)'
  BY TasksProgress
<1>3. ASSUME Fewer(c) PROVE Counted(c)' /\ (\A i \in Pumps : OneCopy(i, c)')
  <2>1. Counted(c)'
    BY <1>1, <1>2, <1>3, FewerCounts
  <2> QED
    BY <2>1, <1>3 DEF Fewer
<1>4. ASSUME UNCHANGED <<queue, wire, serving, executed>> PROVE Fewer(c)
  BY <1>1, <1>4, SameSite DEF Fewer
<1>5. ASSUME NEW d \in Callers, NEW kind \in Kinds, NEW n \in Nat, NEW k \in Pumps, Calls(d, kind, n, k)
      PROVE  Counted(c)' /\ (\A i \in Pumps : OneCopy(i, c)')
  BY <1>5, CallKeepsCopies
<1>6. ASSUME NEW d \in Callers, NEW s \in States, Takes(d, s) PROVE Fewer(c)
  BY <1>4, <1>6 DEF Takes, Take, remoteVars
<1>7. ASSUME NEW d \in UrbTasks, Recovers(d) PROVE Fewer(c)
  BY <1>4, <1>7 DEF Recovers, Connect, AbortOld, SwapTx, remoteVars
<1>8. ASSUME NEW h \in Importers, NEW d \in Spawned, NEW n \in Nat, Spawns(h, d, n) PROVE Fewer(c)
  BY <1>4, <1>8 DEF Spawns, Spawn, clientVars, pumpVars, remoteVars
<1>9. ASSUME NEW d \in Callers, NEW s \in States, Moves(d, s) PROVE Fewer(c)
  BY <1>4, <1>9 DEF Moves, clientVars, pumpVars, remoteVars
<1>10. CASE Alone
  BY <1>1, <1>3, <1>10, AloneCopies
<1>11. CASE Stays
  BY <1>3, <1>4, <1>11 DEF Stays, clientVars, pumpVars, remoteVars
<1> QED
  BY <1>3, <1>5, <1>6, <1>7, <1>8, <1>9, <1>10, <1>11 DEF Steps

\* The invariant of the numbers holds at the start.
LEMMA NumbersStart == ForwardInit => NumberInv
<1> SUFFICES ASSUME ForwardInit PROVE NumberInv
  OBVIOUS
<1>1. \A i \in Pumps : Messages(i)
  <2> SUFFICES ASSUME NEW i \in Pumps PROVE Messages(i)
    OBVIOUS
  <2>1. /\ queue[i] = <<>> /\ control[i] = <<>> /\ pending[i] = {}
        /\ wire[i] = <<>> /\ serving[i] = {} /\ back[i] = <<>>
    BY DEF ForwardInit, PumpInit
  <2>2. InPump(i) = {} /\ OnLine(i) = {} /\ Items(back[i]) = {}
    BY <2>1, ItemsEmpty DEF InPump, OnLine
  <2> QED
    BY <2>2 DEF Messages
<1>2. /\ \A c \in Callers : pc[c] = "idle"
      /\ \A c \in Spawned : owner[c] = NoCaller
  BY DEF ForwardInit
<1>3. NumbersDiffer
  <2>1. \A h \in Importers : h # NoCaller
    BY TaskKinds
  <2>2. \A h \in Importers : TasksOf(h) = {}
    BY <2>1, <1>2, TaskKinds DEF TasksOf
  <2> QED
    BY <2>2, <1>2, TaskKinds DEF NumbersDiffer
<1>4. Told
  BY <1>2, TaskKinds DEF Told, Got
<1> QED
  BY <1>1, <1>3, <1>4 DEF NumberInv

\* The invariant of the copies holds at the start.
LEMMA CopiesStart == ForwardInit => CopyInv
<1> SUFFICES ASSUME ForwardInit, NEW c \in UrbTasks
             PROVE  Counted(c) /\ (\A i \in Pumps : OneCopy(i, c))
  BY DEF CopyInv
<1>1. ASSUME NEW i \in Pumps PROVE OneCopy(i, c) /\ ~Site(i, c)
  <2>1. queue[i] = <<>> /\ wire[i] = <<>> /\ serving[i] = {}
    BY DEF ForwardInit, PumpInit
  <2>2. Items(<<>>) = {} /\ ~HasUrb({}, c) /\ Once(<<>>, c)
    BY ItemsEmpty DEF HasUrb, Once
  <2> QED
    BY <2>1, <2>2 DEF OneCopy, Site
<1>2. Sites(c) = {}
  BY <1>1 DEF Sites
<1>3. executed[c] = 0 /\ attempt[c] = 0 /\ pc[c] = "idle"
  BY TaskKinds DEF ForwardInit, PumpInit
<1>4. Made(c) = 0
  BY <1>3 DEF Made
<1>5. Cardinality(Sites(c)) = 0
  BY <1>2, FS_EmptySet
<1> QED
  BY <1>1, <1>2, <1>3, <1>4, <1>5 DEF Counted

\* All the invariants of Forward hold together.
THEOREM CopiesHold == ForwardSpec => [](ClientInv /\ TaskInv /\ NumberInv /\ CopyInv)
<1>1. ForwardInit => NumberInv /\ CopyInv
  BY NumbersStart, CopiesStart
<1>2. /\ ClientInv /\ TaskInv /\ (ClientInv /\ TaskInv)' /\ NumberInv /\ CopyInv
      /\ [ForwardNext]_forwardVars
      => (NumberInv /\ CopyInv)'
  BY NextSteps, NumbersKeep, CopiesKeep
<1> QED
  BY <1>1, <1>2, ClientHolds, PTL DEF ForwardSpec

\* A peer is told that its URB was carried out only when it was, or when a URB of
\* another import with the same number was: the pump files URBs by their number
\* and looks at nothing else.
THEOREM CompletionsAreReal == ForwardSpec => []CompletionReal
<1>1. NumberInv => CompletionReal
  BY DEF NumberInv, Told, CompletionReal
<1> QED
  BY <1>1, CopiesHold, PTL

\* The server carries out no URB more than twice: urb_with_recovery calls at most
\* twice, the second time on a later connection, and no connection multiplies a URB.
THEOREM UrbsRunTwiceAtMost == ForwardSpec => []AtMostTwice
<1>1. ClientInv /\ TaskInv /\ CopyInv => AtMostTwice
  <2> SUFFICES ASSUME ClientInv, TaskInv, CopyInv, NEW c \in UrbTasks PROVE executed[c] <= 2
    BY DEF AtMostTwice
  <2>1. executed[c] + Cardinality(Sites(c)) <= Made(c)
    BY DEF CopyInv, Counted
  <2>2. executed[c] \in Nat /\ attempt[c] \in 0..1
    BY TaskKinds DEF ClientInv, ClientTypes, TaskInv
  <2>3. Cardinality(Sites(c)) \in Nat
    BY SomePumps DEF Sites
  <2>4. Made(c) \in Nat /\ Made(c) <= 2
    BY <2>2 DEF Made
  <2> QED
    BY <2>1, <2>2, <2>3, <2>4
<1> QED
  BY <1>1, CopiesHold, PTL
=============================================================================
