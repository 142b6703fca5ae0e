----------------------------- MODULE WireProofs ------------------------------
(***************************************************************************)
(* Proofs about Wire, for every message and every transfer: decode undoes  *)
(* encode and accepts nothing else, no transfer is too long for a frame,   *)
(* and USB/IP clients that list devices never lose step; and with that of  *)
(* Link, whose connections carry the messages.                             *)
(*                                                                         *)
(* Claims about lists of any length are proved by induction over the set   *)
(* of the lengths for which they hold.                                     *)
(***************************************************************************)
EXTENDS Link, SequenceTheorems, WellFoundedInduction, TLAPS

-----------------------------------------------------------------------------
(* Induction over the numbers up to n.                                     *)

\* A set of numbers that is not empty has a least one.
LEMMA Least ==
    ASSUME NEW T, T \subseteq Nat, T # {}
    PROVE  \E n \in T : \A m \in T : n <= m
<1> DEFINE R == OpToRel(<, Nat)
<1>1. IsWellFoundedOn(R, Nat) BY NatLessThanWellFounded
<1>2. PICK n \in T : \A m \in T : ~ (<<m, n>> \in R) BY <1>1, WFMin, Zenon
<1>3. ASSUME NEW m \in T PROVE n <= m
  <2>1. m \in Nat /\ n \in Nat OBVIOUS
  <2>2. ~ (m < n) BY <1>2, <2>1 DEF OpToRel
  <2> QED BY <2>1, <2>2
<1> QED BY <1>3

\* Induction up to n, over the set of the numbers for which a claim holds.
LEMMA UpTo ==
    ASSUME NEW n \in Nat, NEW H, 0 \in H, \A k \in 1..n : k - 1 \in H => k \in H
    PROVE  \A k \in 0..n : k \in H
<1> DEFINE T == {k \in 0..n : k \notin H}
<1> SUFFICES ASSUME T # {} PROVE FALSE OBVIOUS
<1>1. T \subseteq Nat OBVIOUS
<1>2. PICK k \in T : \A m \in T : k <= m BY <1>1, Least, Zenon
<1>3. k \in 0..n /\ k \notin H OBVIOUS
<1>4. k \in 1..n BY <1>3
<1>5. k - 1 \in H
  <2>1. k - 1 \in 0..n /\ ~(k <= k - 1) BY <1>4
  <2> QED BY <2>1, <1>2
<1> QED BY <1>3, <1>4, <1>5

-----------------------------------------------------------------------------
(* Octets, and how they are put together.                                  *)

\* What stands in pieces: numbers, strings and blocks.  The names that the model
\* gives to what it omits are strings too.
Texts == STRING \cup {"data", "path", "busnum"}
PieceValues == Int \cup Texts \cup [len : Nat, is : Texts]
Pieces == [w : Nat, v : PieceValues]
Octets == Seq(Pieces)
\* \o and <<_>> under names of their own.
Cat(s, t) == s \o t
Single(p) == <<p>>

\* The empty sequence is one of them.
LEMMA NoOctets == <<>> \in Octets
BY DEF Octets

\* Octets after octets are octets.
LEMMA CatType == \A s, t \in Octets : Cat(s, t) \in Octets
BY ConcatProperties DEF Octets, Cat

\* The empty sequence adds nothing.
LEMMA CatEmpty == \A s \in Octets : Cat(s, <<>>) = s /\ Cat(<<>>, s) = s
BY ConcatEmptySeq DEF Octets, Cat

\* It does not matter which two of three are joined first.
LEMMA CatAssoc == \A s, t, u \in Octets : Cat(Cat(s, t), u) = Cat(s, Cat(t, u))
BY ConcatAssociative DEF Octets, Cat

\* What comes after the same beginning is the same.
LEMMA CatCancel == \A s, t, u \in Octets : Cat(s, t) = Cat(s, u) => t = u
BY ConcatSimplifications, Zenon DEF Octets, Cat

\* Only empty sequences join to an empty one.
LEMMA CatNone == \A s, t \in Octets : Cat(s, t) = <<>> => s = <<>> /\ t = <<>>
BY ConcatSimplifications, Zenon DEF Octets, Cat

\* A sequence that begins with a piece has it as its head.
LEMMA CatSingle ==
    \A p \in Pieces, s \in Octets :
        Single(p) \in Octets /\ Single(p) # <<>> /\ Head(Cat(Single(p), s)) = p
BY DEF Octets, Cat, Single

\* A sequence is its head and its tail.
LEMMA CatHeadTail ==
    \A s \in Octets : s # <<>> =>
        Head(s) \in Pieces /\ Tail(s) \in Octets /\ s = Cat(Single(Head(s)), Tail(s))
<1> SUFFICES ASSUME NEW s \in Seq(Pieces), s # <<>>
             PROVE  /\ Head(s) \in Pieces /\ Tail(s) \in Seq(Pieces)
                    /\ s = <<Head(s)>> \o Tail(s)
  BY DEF Octets, Cat, Single
<1> DEFINE h == Head(s)  t == Tail(s)
<1>1. /\ h \in Pieces /\ t \in Seq(Pieces) /\ Len(t) = Len(s) - 1
      /\ \A i \in 1..Len(t) : t[i] = s[i + 1]
  BY HeadTailProperties
<1>2. s = <<h>> \o t
  <2>1. <<h>> \in Seq(Pieces) /\ Len(<<h>>) = 1 /\ <<h>>[1] = h BY <1>1
  <2>2. /\ <<h>> \o t \in Seq(Pieces)
        /\ Len(<<h>> \o t) = Len(s)
        /\ \A i \in 1..Len(s) : (<<h>> \o t)[i] = IF i <= 1 THEN h ELSE t[i - 1]
    <3>1. Len(s) \in Nat /\ 1 + Len(t) = Len(s) BY <1>1
    <3> QED BY <2>1, <1>1, <3>1, ConcatProperties
  <2>3. h = s[1] OBVIOUS
  <2>4. \A i \in 1..Len(s) : s[i] = (<<h>> \o t)[i] BY <2>2, <2>3, <1>1
  <2> QED BY <2>2, <2>4, SeqEqual
<1> QED BY <1>1, <1>2

\* If q goes on, with x after it, as p and r do, its first piece is p.
LEMMA CatFirst ==
    ASSUME NEW q \in Octets, NEW x \in Octets, NEW r \in Octets, NEW p \in Pieces,
           q # <<>>, Cat(q, x) = Cat(Single(p), r)
    PROVE  Head(q) = p /\ Tail(q) \in Octets /\ Cat(Tail(q), x) = r
<1> DEFINE h == Head(q)  t == Tail(q)
<1>1. h \in Pieces /\ t \in Octets /\ q = Cat(Single(h), t) BY CatHeadTail, Zenon
<1>2. Single(h) \in Octets /\ Single(p) \in Octets BY <1>1, CatSingle, NoOctets, Zenon
<1>3. Cat(t, x) \in Octets BY <1>1, CatType, Zenon
<1> HIDE DEF h, t
<1>4. Cat(Single(h), Cat(t, x)) = Cat(Single(p), r) BY <1>1, <1>2, CatAssoc
<1>5. h = p BY <1>1, <1>3, <1>4, CatSingle
<1>6. Cat(t, x) = r BY <1>2, <1>3, <1>4, <1>5, CatCancel
<1> QED BY <1>1, <1>5, <1>6 DEF h, t

-----------------------------------------------------------------------------
(* What the reader of one field makes of what its writer wrote.            *)

\* A cursor, whatever it has read.
IsCursor(c) ==
    /\ c = [ok |-> c.ok, rest |-> c.rest, v |-> c.v]
    /\ c.ok \in BOOLEAN
    /\ c.ok => c.rest \in Octets

\* A reader that has gone from cur to done reads enc as val.  Before it is what a
\* writer wrote, enc and then r, except for the x at the end that has been cut
\* off.  It never takes anything else for the value, stops right after it, and
\* succeeds if nothing is missing: truncated payloads (x # <<>>), whole ones and
\* ones that go on (r # <<>>) are cases of the one claim.
Reads(cur, done, enc, val, x, r) ==
    (IsCursor(cur) /\ (cur.ok => Cat(cur.rest, x) = Cat(enc, r))) =>
        /\ IsCursor(done)
        /\ done.ok => cur.ok /\ done.v = val /\ Cat(done.rest, x) = r
        /\ cur.ok /\ x = <<>> => done.ok

\* Take reads a piece of its width.
LEMMA TakeReads ==
    ASSUME NEW cur, NEW n, NEW val, NEW x \in Octets, NEW r \in Octets,
           [w |-> n, v |-> val] \in Pieces
    PROVE  Reads(cur, Take(cur, n), Piece(n, val), val, x, r)
<1> SUFFICES ASSUME IsCursor(cur), cur.ok => Cat(cur.rest, x) = Cat(Piece(n, val), r)
             PROVE  /\ IsCursor(Take(cur, n))
                    /\ Take(cur, n).ok => /\ cur.ok /\ Take(cur, n).v = val
                                          /\ Cat(Take(cur, n).rest, x) = r
                    /\ cur.ok /\ x = <<>> => Take(cur, n).ok
    BY DEF Reads
<1> DEFINE p == [w |-> n, v |-> val]  q == cur.rest
<1>0. IsCursor(Failed) /\ ~Failed.ok BY DEF IsCursor, Failed
<1>1. CASE ~cur.ok BY <1>0, <1>1 DEF Take
<1>2. CASE cur.ok
  <2>0. p \in Pieces /\ p.w = n /\ p.v = val OBVIOUS
  <2>1. q \in Octets /\ Cat(q, x) = Cat(Single(p), r) BY <1>2 DEF IsCursor, Piece, Single
  <2> HIDE DEF p
  <2>3. CASE q = <<>>
    <3>1. x = Cat(Single(p), r) BY <2>1, <2>3, CatEmpty
    <3>2. x # <<>> BY <3>1, <2>0, CatSingle, CatNone
    <3> QED BY <1>0, <3>2, <2>3 DEF Take
  <2>4. CASE q # <<>>
    <3>1. Head(q) = p /\ Tail(q) \in Octets /\ Cat(Tail(q), x) = r
      <4> HIDE DEF q
      <4> QED BY <2>0, <2>1, <2>4, CatFirst
    <3>2. Take(cur, n) = [ok |-> TRUE, rest |-> Tail(q), v |-> val]
      <4>1. Head(cur.rest).w = n /\ Head(cur.rest).v = val BY <3>1, <2>0
      <4> QED BY <1>2, <2>4, <4>1 DEF Take
    <3> QED BY <1>2, <3>1, <3>2 DEF IsCursor
  <2> QED BY <2>3, <2>4
<1> QED BY <1>1, <1>2

\* A code read through a table in which it is the only one is the name it was
\* written for.
LEMMA NamedReads ==
    ASSUME NEW cur, NEW t, NEW enc, NEW table, NEW name \in DOMAIN table,
           NEW x \in Octets, NEW r \in Octets,
           \A a \in DOMAIN table : table[a] = table[name] => a = name,
           Reads(cur, t, enc, table[name], x, r)
    PROVE  Reads(cur, Named(t, table), enc, name, x, r)
<1> SUFFICES ASSUME IsCursor(cur), cur.ok => Cat(cur.rest, x) = Cat(enc, r)
             PROVE  /\ IsCursor(Named(t, table))
                    /\ Named(t, table).ok => /\ cur.ok /\ Named(t, table).v = name
                                             /\ Cat(Named(t, table).rest, x) = r
                    /\ cur.ok /\ x = <<>> => Named(t, table).ok
    BY DEF Reads
<1>1. /\ IsCursor(t)
      /\ t.ok => cur.ok /\ t.v = table[name] /\ Cat(t.rest, x) = r
      /\ cur.ok /\ x = <<>> => t.ok
  BY DEF Reads
<1>2. IsCursor(Failed) /\ ~Failed.ok BY DEF IsCursor, Failed
<1>3. CASE ~t.ok BY <1>1, <1>2, <1>3 DEF Named
<1>4. CASE t.ok
  <2> DEFINE names == {n \in DOMAIN table : table[n] = t.v}
  <2>1. names = {name} BY <1>1, <1>4
  <2>2. (CHOOSE n \in names : TRUE) = name BY <2>1
  <2>3. Named(t, table) = [t EXCEPT !.v = name] BY <1>4, <2>1, <2>2 DEF Named
  <2>4. [t EXCEPT !.v = name] = [ok |-> t.ok, rest |-> t.rest, v |-> name]
    BY <1>1 DEF IsCursor
  <2> QED BY <1>1, <1>4, <2>3, <2>4 DEF IsCursor
<1> QED BY <1>3, <1>4

\* A bool is read as it was written.
LEMMA FlagReads ==
    ASSUME NEW cur, NEW t, NEW enc, NEW b \in BOOLEAN, NEW x \in Octets, NEW r \in Octets,
           Reads(cur, t, enc, IF b THEN 1 ELSE 0, x, r)
    PROVE  Reads(cur, Flag(t), enc, b, x, r)
<1> SUFFICES ASSUME IsCursor(cur), cur.ok => Cat(cur.rest, x) = Cat(enc, r)
             PROVE  /\ IsCursor(Flag(t))
                    /\ Flag(t).ok => cur.ok /\ Flag(t).v = b /\ Cat(Flag(t).rest, x) = r
                    /\ cur.ok /\ x = <<>> => Flag(t).ok
    BY DEF Reads
<1>1. /\ IsCursor(t)
      /\ t.ok => cur.ok /\ t.v = (IF b THEN 1 ELSE 0) /\ Cat(t.rest, x) = r
      /\ cur.ok /\ x = <<>> => t.ok
  BY DEF Reads
<1>2. IsCursor(Failed) /\ ~Failed.ok BY DEF IsCursor, Failed
<1>3. CASE ~t.ok BY <1>1, <1>2, <1>3 DEF Flag
<1>4. CASE t.ok
  <2>1. t.v \in {0, 1} /\ (t.v = 1) = b BY <1>1, <1>4
  <2>2. Flag(t) = [t EXCEPT !.v = (@ = 1)] BY <1>4, <2>1 DEF Flag
  <2>3. [t EXCEPT !.v = (@ = 1)] = [ok |-> t.ok, rest |-> t.rest, v |-> b]
    BY <1>1, <2>1 DEF IsCursor
  <2> QED BY <1>1, <1>4, <2>2, <2>3 DEF IsCursor
<1> QED BY <1>3, <1>4

\* A piece of any width and value is bytes.
LEMMA PieceType ==
    ASSUME NEW n \in Nat, NEW val \in PieceValues
    PROVE  [w |-> n, v |-> val] \in Pieces /\ Piece(n, val) \in Octets
<1>1. [w |-> n, v |-> val] \in Pieces BY DEF Pieces
<1> QED BY <1>1, CatSingle, NoOctets DEF Piece, Single

\* A block and its length can stand in pieces.
LEMMA BlockType ==
    ASSUME NEW b \in Blocks
    PROVE  /\ b.len \in Nat /\ b.len \in PieceValues /\ b \in PieceValues
           /\ Block(b) \in Octets
<1>1. b.len \in Nat /\ b \in [len : Nat, is : Texts] BY DEF Blocks, Texts
<1>2. b.len \in PieceValues /\ b \in PieceValues BY <1>1 DEF PieceValues
<1> QED BY <1>1, <1>2, PieceType, NoOctets DEF Block

\* A length and its block, empty ones included, are read as they were written.
LEMMA BlockReads ==
    ASSUME NEW cur, NEW n \in Nat, NEW b \in Blocks, NEW x \in Octets, NEW r \in Octets
    PROVE  Reads(cur, TakeBlock(cur, n), Cat(Piece(n, b.len), Block(b)), b, x, r)
<1> DEFINE t == Take(cur, n)
<1>0. /\ Block(b) \in Octets /\ Piece(n, b.len) \in Octets /\ Cat(Block(b), r) \in Octets
      /\ Cat(Cat(Piece(n, b.len), Block(b)), r) = Cat(Piece(n, b.len), Cat(Block(b), r))
  <2>1. Block(b) \in Octets /\ Piece(n, b.len) \in Octets BY BlockType, PieceType
  <2> QED BY <2>1, CatType, CatAssoc
<1>1. Reads(cur, t, Piece(n, b.len), b.len, x, Cat(Block(b), r))
  BY <1>0, BlockType, PieceType, TakeReads
<1> HIDE DEF t
<1>2. CASE b.len = 0
  <2>1. b = EmptyBlock /\ Cat(Block(b), r) = r BY <1>2, CatEmpty DEF Blocks, Block
  <2>2. TakeBlock(cur, n) = IF t.ok /\ t.v = 0 THEN [t EXCEPT !.v = EmptyBlock] ELSE Take(t, t.v)
    BY DEF TakeBlock, t
  <2>3. ASSUME IsCursor(t)
        PROVE  [t EXCEPT !.v = EmptyBlock] = [ok |-> t.ok, rest |-> t.rest, v |-> EmptyBlock]
    BY <2>3 DEF IsCursor
  <2>4. ~t.ok => Take(t, t.v) = Failed BY DEF Take
  <2>5. IsCursor(Failed) /\ ~Failed.ok BY DEF IsCursor, Failed
  <2> QED BY <1>0, <1>1, <1>2, <2>1, <2>2, <2>3, <2>4, <2>5 DEF Reads, IsCursor
<1>3. CASE b.len # 0
  <2>1. Block(b) = Piece(b.len, b) BY <1>3 DEF Block
  <2>2. Reads(t, Take(t, b.len), Block(b), b, x, r)
    BY <2>1, BlockType, PieceType, TakeReads
  <2>3. Take(t, t.v) = IF t.ok THEN Take(t, t.v) ELSE Take(t, b.len)  BY DEF Take
  <2>4. TakeBlock(cur, n) = IF t.ok /\ t.v = 0 THEN [t EXCEPT !.v = EmptyBlock] ELSE Take(t, t.v)
    BY DEF TakeBlock, t
  <2> QED BY <1>0, <1>1, <1>3, <2>2, <2>3, <2>4 DEF Reads
<1> QED BY <1>2, <1>3

\* The kinds of fields.
Kinds == {"u8", "u16", "u32", "i32", "raw", "bool", "speed", "transfer", "code", "str8", "data8",
          "str16", "data32"}

\* No two names of a table have the same code (lib.rs: the enums and TryFrom).
LEMMA CodesDiffer ==
    /\ \A a, b \in DOMAIN Speeds : Speeds[a] \in Nat /\ (Speeds[a] = Speeds[b] => a = b)
    /\ \A a, b \in DOMAIN Transfers : Transfers[a] \in Nat /\ (Transfers[a] = Transfers[b] => a = b)
    /\ \A a, b \in DOMAIN Codes : Codes[a] \in Nat /\ (Codes[a] = Codes[b] => a = b)
    /\ \A a, b \in DOMAIN Types : Types[a] \in Nat /\ (Types[a] = Types[b] => a = b)
<1>1. \A a, b \in DOMAIN Speeds : Speeds[a] \in Nat /\ (Speeds[a] = Speeds[b] => a = b)
  BY DEF Speeds
<1>2. \A a, b \in DOMAIN Transfers : Transfers[a] \in Nat /\ (Transfers[a] = Transfers[b] => a = b)
  BY DEF Transfers
<1>3. \A a, b \in DOMAIN Codes : Codes[a] \in Nat /\ (Codes[a] = Codes[b] => a = b)
  BY DEF Codes
<1>4. \A a, b \in DOMAIN Types : Types[a] \in Nat /\ (Types[a] = Types[b] => a = b)
  BY DEF Types
<1> QED BY <1>1, <1>2, <1>3, <1>4

\* Every kind of field is read as it was written.
LEMMA GetReads ==
    ASSUME NEW kind \in Kinds, NEW val \in Values(kind), NEW cur, NEW x \in Octets, NEW r \in Octets
    PROVE  /\ Put(kind, val) \in Octets
           /\ Reads(cur, Get(kind, cur), Put(kind, val), val, x, r)
<1>0. Nat \subseteq PieceValues /\ Int \subseteq PieceValues /\ STRING \subseteq PieceValues BY DEF PieceValues, Texts
<1>1. ASSUME NEW n \in Nat, NEW u \in PieceValues
      PROVE  Piece(n, u) \in Octets /\ Reads(cur, Take(cur, n), Piece(n, u), u, x, r)
  BY PieceType, TakeReads
<1>2. ASSUME NEW n \in Nat, NEW b \in Blocks
      PROVE  /\ Cat(Piece(n, b.len), Block(b)) \in Octets
             /\ Reads(cur, TakeBlock(cur, n), Cat(Piece(n, b.len), Block(b)), b, x, r)
  BY BlockReads, BlockType, PieceType, CatType
<1>3. CASE kind = "u8"
  <2>1. val \in Nat /\ Put(kind, val) = Piece(1, val) /\ Get(kind, cur) = Take(cur, 1)
    BY <1>3 DEF Values, Put, Get
  <2> QED BY <2>1, <1>0, <1>1
<1>4. CASE kind = "u16"
  <2>1. val \in Nat /\ Put(kind, val) = Piece(2, val) /\ Get(kind, cur) = Take(cur, 2)
    BY <1>4 DEF Values, Put, Get
  <2> QED BY <2>1, <1>0, <1>1
<1>5. CASE kind = "u32"
  <2>1. val \in Nat /\ Put(kind, val) = Piece(4, val) /\ Get(kind, cur) = Take(cur, 4)
    BY <1>5 DEF Values, Put, Get
  <2> QED BY <2>1, <1>0, <1>1
<1>6. CASE kind = "raw"
  <2>1. val \in STRING /\ Put(kind, val) = Piece(32, val) /\ Get(kind, cur) = Take(cur, 32)
    BY <1>6 DEF Values, Put, Get
  <2> QED BY <2>1, <1>0, <1>1
<1>7. CASE kind = "bool"
  <2>1. /\ val \in BOOLEAN
        /\ Put(kind, val) = Piece(1, IF val THEN 1 ELSE 0)
        /\ Get(kind, cur) = Flag(Take(cur, 1))
    BY <1>7 DEF Values, Put, Get
  <2>2. (IF val THEN 1 ELSE 0) \in PieceValues BY <1>0
  <2> QED BY <2>1, <2>2, <1>1, FlagReads
<1>8. CASE kind = "speed"
  <2>1. /\ val \in DOMAIN Speeds
        /\ Put(kind, val) = Piece(1, Speeds[val])
        /\ Get(kind, cur) = Named(Take(cur, 1), Speeds)
    BY <1>8 DEF Values, Put, Get
  <2>2. Speeds[val] \in PieceValues BY <2>1, <1>0, CodesDiffer
  <2> QED BY <2>1, <2>2, <1>1, NamedReads, CodesDiffer
<1>9. CASE kind = "transfer"
  <2>1. /\ val \in DOMAIN Transfers
        /\ Put(kind, val) = Piece(1, Transfers[val])
        /\ Get(kind, cur) = Named(Take(cur, 1), Transfers)
    BY <1>9 DEF Values, Put, Get
  <2>2. Transfers[val] \in PieceValues BY <2>1, <1>0, CodesDiffer
  <2> QED BY <2>1, <2>2, <1>1, NamedReads, CodesDiffer
<1>10. CASE kind = "code"
  <2>1. /\ val \in DOMAIN Codes
        /\ Put(kind, val) = Piece(2, Codes[val])
        /\ Get(kind, cur) = Named(Take(cur, 2), Codes)
    BY <1>10 DEF Values, Put, Get
  <2>2. Codes[val] \in PieceValues BY <2>1, <1>0, CodesDiffer
  <2> QED BY <2>1, <2>2, <1>1, NamedReads, CodesDiffer
<1>11. CASE kind \in {"str8", "data8"}
  <2>1. /\ val \in Blocks
        /\ Put(kind, val) = Cat(Piece(1, val.len), Block(val))
        /\ Get(kind, cur) = TakeBlock(cur, 1)
    BY <1>11 DEF Values, Put, Get, Cat, Blocks
  <2> QED BY <2>1, <1>2
<1>12. CASE kind = "str16"
  <2>1. /\ val \in Blocks
        /\ Put(kind, val) = Cat(Piece(2, val.len), Block(val))
        /\ Get(kind, cur) = TakeBlock(cur, 2)
    BY <1>12 DEF Values, Put, Get, Cat, Blocks
  <2> QED BY <2>1, <1>2
<1>13. CASE kind = "data32"
  <2>1. /\ val \in Blocks
        /\ Put(kind, val) = Cat(Piece(4, val.len), Block(val))
        /\ Get(kind, cur) = TakeBlock(cur, 4)
    BY <1>13 DEF Values, Put, Get, Cat, Blocks
  <2> QED BY <2>1, <1>2
<1>14. CASE kind = "i32"
  <2>1. val \in Int /\ Put(kind, val) = Piece(4, val) /\ Get(kind, cur) = Take(cur, 4)
    BY <1>14 DEF Values, Put, Get
  <2> QED BY <2>1, <1>0, <1>1
<1> QED BY <1>3, <1>4, <1>5, <1>6, <1>7, <1>8, <1>9, <1>10, <1>11, <1>12, <1>13, <1>14 DEF Kinds

-----------------------------------------------------------------------------
(* One part after the other.                                               *)

\* The prefixes of what a list of bytes is put together to.
\* The prefixes of what a list of bytes is put together to.
LEMMA FlatBefore ==
    ASSUME NEW n \in Nat, NEW seqs \in [1..n -> Octets]
    PROVE  \E pre \in [0..n -> Octets] :
              /\ pre[0] = <<>>
              /\ \A i \in 1..n : pre[i] = Cat(pre[i - 1], seqs[i])
<1> DEFINE E(k) == \E pre \in [0..k -> Octets] :
                      /\ pre[0] = <<>>
                      /\ \A i \in 1..k : pre[i] = Cat(pre[i - 1], seqs[i])
           H == {k \in Nat : E(k)}
<1>1. E(0)
  <2> DEFINE f == [i \in 0..0 |-> <<>>]
  <2>1. f \in [0..0 -> Octets] /\ f[0] = <<>> /\ \A i \in 1..0 : FALSE BY NoOctets
  <2> QED BY <2>1
<1>2. ASSUME NEW k \in 1..n, E(k - 1) PROVE E(k)
  <2>1. PICK f \in [0..(k - 1) -> Octets] :
           f[0] = <<>> /\ \A i \in 1..(k - 1) : f[i] = Cat(f[i - 1], seqs[i])
    BY <1>2
  <2> DEFINE g == [i \in 0..k |-> IF i = k THEN Cat(f[k - 1], seqs[k]) ELSE f[i]]
  <2>2. Cat(f[k - 1], seqs[k]) \in Octets BY CatType
  <2>3. g \in [0..k -> Octets] BY <2>2
  <2>4. g[0] = <<>> BY <2>1
  <2>5. ASSUME NEW i \in 1..k PROVE g[i] = Cat(g[i - 1], seqs[i])
    <3>1. i - 1 \in 0..k /\ i - 1 # k /\ g[i - 1] = f[i - 1] OBVIOUS
    <3>2. CASE i = k BY <3>1, <3>2
    <3>3. CASE i # k
      <4>1. i \in 1..(k - 1) BY <3>3
      <4> QED BY <2>1, <3>1, <3>3, <4>1
    <3> QED BY <3>2, <3>3
  <2> HIDE DEF g
  <2> QED BY <2>3, <2>4, <2>5
<1> HIDE DEF E
<1>3. 0 \in H BY <1>1
<1>4. \A k \in 1..n : k - 1 \in H => k \in H
  <2> SUFFICES ASSUME NEW k \in 1..n, k - 1 \in H PROVE k \in H OBVIOUS
  <2>1. E(k - 1) OBVIOUS
  <2> QED BY <1>2, <2>1
<1> HIDE DEF H
<1>5. n \in H BY <1>3, <1>4, UpTo
<1>6. E(n) BY <1>5 DEF H
<1> QED BY <1>6 DEF E

\* FlattenSeq is the last of them.
LEMMA FlatLast ==
    ASSUME NEW n \in Nat, NEW seqs \in [1..n -> Octets]
    PROVE  \E pre \in [0..n -> Octets] :
              /\ pre[0] = <<>>
              /\ \A i \in 1..n : pre[i] = Cat(pre[i - 1], seqs[i])
              /\ FlattenSeq(seqs) = pre[n]
<1>1. PICK pre \in [0..n -> Octets] :
         /\ pre[0] = <<>>
         /\ \A i \in 1..n : pre[i] = Cat(pre[i - 1], seqs[i])
  BY FlatBefore
<1>2. seqs \in Seq(Octets) /\ Len(seqs) = n OBVIOUS
<1>3. CASE n = 0
  <2>1. seqs = <<>> BY <1>2, <1>3
  <2> QED BY <1>1, <1>2, <1>3, <2>1 DEF FlattenSeq
<1>4. CASE n # 0
  <2> DEFINE G(f) == [i \in 1..n |-> IF i = 1 THEN seqs[i] ELSE f[i - 1] \o seqs[i]]
             f0 == [i \in 1..n |-> pre[i]]
             fl == CHOOSE f : f = G(f)
             H == {k \in Nat : k = 0 \/ fl[k] = pre[k]}
  <2>1. f0 = G(f0)
    <3>1. ASSUME NEW i \in 1..n PROVE f0[i] = G(f0)[i]
      <4>1. CASE i = 1 BY <1>1, <4>1, CatEmpty
      <4>2. CASE i # 1
        <5>1. i - 1 \in 1..n /\ f0[i - 1] = pre[i - 1] BY <4>2
        <5> QED BY <1>1, <4>2, <5>1 DEF Cat
      <4> QED BY <4>1, <4>2
    <3> QED BY <3>1
  <2>2. fl = G(fl) BY <2>1, Zenon
  <2>3. FlattenSeq(seqs) = fl[n] BY <1>2, <1>4 DEF FlattenSeq
  <2>4. \A i \in 1..n : fl[i] = IF i = 1 THEN seqs[i] ELSE Cat(fl[i - 1], seqs[i])
    <3> HIDE DEF fl
    <3> QED BY <2>2 DEF Cat
  <2> HIDE DEF fl
  <2>5. 0 \in H OBVIOUS
  <2>6. \A k \in 1..n : k - 1 \in H => k \in H
    <3> SUFFICES ASSUME NEW k \in 1..n, k - 1 \in H PROVE k \in H OBVIOUS
    <3>1. CASE k = 1 BY <3>1, <2>4, <1>1, CatEmpty
    <3>2. CASE k # 1
      <4>1. fl[k - 1] = pre[k - 1] BY <3>2
      <4> QED BY <4>1, <3>2, <2>4, <1>1
    <3> QED BY <3>1, <3>2
  <2>7. n \in H
    <3> HIDE DEF H
    <3> QED BY <2>5, <2>6, UpTo
  <2>8. fl[n] = pre[n] BY <2>7, <1>4
  <2> QED BY <1>1, <2>3, <2>8
<1> QED BY <1>3, <1>4

\* What is left of it after each of its parts.
LEMMA FlatAfter ==
    ASSUME NEW n \in Nat, NEW seqs \in [1..n -> Octets]
    PROVE  /\ FlattenSeq(seqs) \in Octets
           /\ \E suf \in [0..n -> Octets] :
                 /\ suf[0] = FlattenSeq(seqs)
                 /\ suf[n] = <<>>
                 /\ \A i \in 1..n : suf[i - 1] = Cat(seqs[i], suf[i])
<1>1. PICK pre \in [0..n -> Octets] :
         /\ pre[0] = <<>>
         /\ \A i \in 1..n : pre[i] = Cat(pre[i - 1], seqs[i])
         /\ FlattenSeq(seqs) = pre[n]
  BY FlatLast
<1> DEFINE S(i, z) == z \in Octets /\ pre[n] = Cat(pre[i], z)
           H == {k \in Nat : k <= n => \E z : S(n - k, z)}
<1>2. 0 \in H
  <2>1. S(n, <<>>) BY NoOctets, CatEmpty
  <2>2. n - 0 = n OBVIOUS
  <2> QED BY <2>1, <2>2
<1>3. \A k \in 1..n : k - 1 \in H => k \in H
  <2> SUFFICES ASSUME NEW k \in 1..n, k - 1 \in H PROVE \E z : S(n - k, z) OBVIOUS
  <2>1. k - 1 <= n /\ n - (k - 1) = (n - k) + 1 /\ n - k \in 0..n /\ (n - k) + 1 \in 1..n OBVIOUS
  <2>2. PICK z : S((n - k) + 1, z) BY <2>1
  <2>3. pre[(n - k) + 1] = Cat(pre[n - k], seqs[(n - k) + 1])
    <3>1. ((n - k) + 1) - 1 = n - k OBVIOUS
    <3> QED BY <3>1, <2>1, <1>1
  <2>4. pre[n - k] \in Octets /\ seqs[(n - k) + 1] \in Octets BY <2>1
  <2>5. S(n - k, Cat(seqs[(n - k) + 1], z)) BY <2>2, <2>3, <2>4, CatType, CatAssoc
  <2> HIDE DEF S
  <2> QED BY <2>5
<1>4. \A i \in 0..n : \E z : S(i, z)
  <2>1. \A k \in 0..n : k \in H
    <3> HIDE DEF H
    <3> QED BY <1>2, <1>3, UpTo
  <2> SUFFICES ASSUME NEW i \in 0..n PROVE \E z : S(i, z) OBVIOUS
  <2>2. n - i \in 0..n /\ n - i <= n /\ n - (n - i) = i OBVIOUS
  <2> HIDE DEF S
  <2> QED BY <2>1, <2>2
<1> DEFINE suf == [i \in 0..n |-> CHOOSE z : S(i, z)]
<1>5. \A i \in 0..n : S(i, suf[i])
  <2> HIDE DEF S
  <2> QED BY <1>4
<1> HIDE DEF suf
<1>6. suf \in [0..n -> Octets] BY <1>5 DEF suf
<1>7. suf[n] = <<>>
  <2>1. pre[n] \in Octets /\ Cat(pre[n], suf[n]) = Cat(pre[n], <<>>) BY <1>5, CatEmpty
  <2> QED BY <2>1, <1>6, NoOctets, CatCancel
<1>8. suf[0] = FlattenSeq(seqs) BY <1>1, <1>5, <1>6, CatEmpty
<1>9. ASSUME NEW i \in 1..n PROVE suf[i - 1] = Cat(seqs[i], suf[i])
  <2>1. i - 1 \in 0..n /\ i \in 0..n OBVIOUS
  <2>2. /\ pre[n] = Cat(pre[i - 1], suf[i - 1]) /\ pre[n] = Cat(pre[i], suf[i])
        /\ suf[i - 1] \in Octets /\ suf[i] \in Octets /\ pre[i - 1] \in Octets /\ seqs[i] \in Octets
    BY <1>5, <2>1
  <2>3. pre[i] = Cat(pre[i - 1], seqs[i]) BY <1>1
  <2>4. Cat(pre[i - 1], suf[i - 1]) = Cat(pre[i - 1], Cat(seqs[i], suf[i]))
    BY <2>2, <2>3, CatAssoc
  <2> QED BY <2>2, <2>4, CatType, CatCancel
<1>10. FlattenSeq(seqs) \in Octets BY <1>1
<1> QED BY <1>6, <1>7, <1>8, <1>9, <1>10

\* Every cursor of a row is the one before after reading its part, ...
Linked(n, after, put, val, x) ==
    \A i \in 1..n : \A s \in Octets : Reads(after[i - 1], after[i], put[i], val[i], x, s)

\* ... and the last is there once all parts have been read, and only then.
ReadAll(n, after, val, x, r) ==
    /\ IsCursor(after[n])
    /\ after[n].ok => /\ after[0].ok /\ Cat(after[n].rest, x) = r
                      /\ \A i \in 1..n : after[i].v = val[i]
    /\ after[0].ok /\ x = <<>> => after[n].ok

\* Readers one after the other read what their writers put one after the other:
\* the invariant is that after k of them what the rest have written is left.
LEMMA Chain ==
    ASSUME NEW n \in Nat, NEW after, NEW put \in [1..n -> Octets], NEW val,
           NEW x \in Octets, NEW r \in Octets,
           IsCursor(after[0]),
           after[0].ok => Cat(after[0].rest, x) = Cat(FlattenSeq(put), r),
           Linked(n, after, put, val, x)
    PROVE  ReadAll(n, after, val, x, r)
<1>1. PICK suf \in [0..n -> Octets] :
         /\ suf[0] = FlattenSeq(put)
         /\ suf[n] = <<>>
         /\ \A i \in 1..n : suf[i - 1] = Cat(put[i], suf[i])
  BY FlatAfter
<1> DEFINE Q(k) == /\ IsCursor(after[k])
                   /\ after[k].ok => /\ after[0].ok /\ Cat(after[k].rest, x) = Cat(suf[k], r)
                                     /\ \A i \in 1..k : after[i].v = val[i]
                   /\ after[0].ok /\ x = <<>> => after[k].ok
           H == {k \in Nat : Q(k)}
<1>2. Q(0)
  <2>1. \A i \in 1..0 : FALSE OBVIOUS
  <2> QED BY <1>1, <2>1
<1>3. ASSUME NEW k \in 1..n, Q(k - 1) PROVE Q(k)
  <2>1. /\ k - 1 \in 0..n /\ k \in 0..n /\ suf[k] \in Octets /\ put[k] \in Octets
        /\ suf[k - 1] = Cat(put[k], suf[k])
    BY <1>1
  <2>2. Cat(suf[k], r) \in Octets /\ Cat(suf[k - 1], r) = Cat(put[k], Cat(suf[k], r))
    BY <2>1, CatType, CatAssoc
  <2>3. Reads(after[k - 1], after[k], put[k], val[k], x, Cat(suf[k], r))
    BY <2>2 DEF Linked
  <2>4. /\ IsCursor(after[k])
        /\ after[k].ok => /\ after[k - 1].ok /\ after[k].v = val[k]
                          /\ Cat(after[k].rest, x) = Cat(suf[k], r)
        /\ after[k - 1].ok /\ x = <<>> => after[k].ok
    BY <1>3, <2>2, <2>3 DEF Reads
  <2>5. \A i \in 1..k : i = k \/ i \in 1..(k - 1) OBVIOUS
  <2> QED BY <1>3, <2>4, <2>5
<1> HIDE DEF Q
<1>4. 0 \in H BY <1>2
<1>5. \A k \in 1..n : k - 1 \in H => k \in H
  <2> SUFFICES ASSUME NEW k \in 1..n, k - 1 \in H PROVE k \in H OBVIOUS
  <2>1. Q(k - 1) OBVIOUS
  <2> QED BY <1>3, <2>1
<1> HIDE DEF H
<1>6. n \in H
  <2>1. \A k \in 0..n : k \in H BY <1>4, <1>5, UpTo, Zenon
  <2> QED BY <2>1
<1>7. Q(n) BY <1>6 DEF H
<1>8. Cat(suf[n], r) = r BY <1>1, CatEmpty
<1> QED BY <1>7, <1>8 DEF Q, ReadAll

\* The cursors that GetAll goes through.
FieldCursors(fields, cur) ==
    CHOOSE f : f = [i \in 0..Len(fields) |-> IF i = 0 THEN cur ELSE Get(fields[i][2], f[i - 1])]

\* There are such cursors: the recursive function in GetAll is what its equation
\* says, from 0 to each k.
LEMMA FieldCursorsAre ==
    ASSUME NEW fields, Len(fields) \in Nat, NEW cur, NEW after, after = FieldCursors(fields, cur)
    PROVE  /\ after[0] = cur
           /\ \A i \in 1..Len(fields) : after[i] = Get(fields[i][2], after[i - 1])
<1> DEFINE n == Len(fields)
           Step(i, c) == Get(fields[i][2], c)
           G(f, k) == [i \in 0..k |-> IF i = 0 THEN cur ELSE Step(i, f[i - 1])]
           E(k) == \E f : f = G(f, k)
           H == {k \in Nat : E(k)}
<1>n. n \in Nat OBVIOUS
<1> HIDE DEF Step, n
<1>1. E(0)
  <2> DEFINE f == [i \in 0..0 |-> cur]
  <2>1. f = G(f, 0) OBVIOUS
  <2> QED BY <2>1
<1>2. ASSUME NEW k \in 1..n, E(k - 1) PROVE E(k)
  <2>1. PICK f : f = G(f, k - 1) BY <1>2
  <2>2. \A i \in 0..(k - 1) : f[i] = IF i = 0 THEN cur ELSE Step(i, f[i - 1]) BY <2>1
  <2> DEFINE g == [i \in 0..k |-> IF i = k THEN Step(k, f[k - 1]) ELSE f[i]]
  <2>3. ASSUME NEW i \in 0..k PROVE g[i] = G(g, k)[i]
    <3>1. CASE i = 0 BY <3>1, <2>2
    <3>2. CASE i # 0
      <4>1. i - 1 \in 0..k /\ i - 1 # k /\ g[i - 1] = f[i - 1] BY <3>2
      <4>2. G(g, k)[i] = Step(i, f[i - 1]) BY <3>2, <4>1
      <4>3. CASE i = k BY <4>2, <4>3
      <4>4. CASE i # k
        <5>1. i \in 0..(k - 1) BY <4>4
        <5> QED BY <4>2, <4>4, <5>1, <2>2, <3>2
      <4> QED BY <4>3, <4>4
    <3> QED BY <3>1, <3>2
  <2>4. g = G(g, k) BY <2>3
  <2> HIDE DEF g, G
  <2> QED BY <2>4
<1> HIDE DEF E
<1>3. 0 \in H BY <1>1
<1>4. \A k \in 1..n : k - 1 \in H => k \in H
  <2> SUFFICES ASSUME NEW k \in 1..n, k - 1 \in H PROVE k \in H OBVIOUS
  <2>1. E(k - 1) OBVIOUS
  <2> QED BY <1>2, <2>1
<1> HIDE DEF H
<1>5. E(n)
  <2>1. \A k \in 0..n : k \in H BY <1>n, <1>3, <1>4, UpTo, Zenon
  <2> QED BY <1>n, <2>1 DEF H
<1>6. after = CHOOSE f : f = G(f, n) BY DEF FieldCursors, n, Step
<1>7. after = G(after, n)
  <2> HIDE DEF G
  <2> QED BY <1>5, <1>6, Zenon DEF E
<1>8. \A i \in 0..n : after[i] = IF i = 0 THEN cur ELSE Step(i, after[i - 1]) BY <1>7
<1>9. \A i \in 1..n : i \in 0..n /\ i # 0 BY <1>n
<1> QED BY <1>n, <1>8, <1>9 DEF n, Step

\* A cursor with what has been read put together.
WithValue(c, u) == [c EXCEPT !.v = u]

\* It stands where it stood.
LEMMA WithValueIs ==
    ASSUME NEW c, NEW u, IsCursor(c)
    PROVE  /\ IsCursor(WithValue(c, u))
           /\ WithValue(c, u).v = u
           /\ WithValue(c, u).ok = c.ok
           /\ WithValue(c, u).rest = c.rest
<1>1. WithValue(c, u) = [ok |-> c.ok, rest |-> c.rest, v |-> u] BY DEF IsCursor, WithValue
<1> QED BY <1>1 DEF IsCursor

-----------------------------------------------------------------------------
(* Fields, lists and messages.                                             *)

\* A layout: fields of known kinds with different names.
Layout(fields) ==
    /\ Len(fields) \in Nat
    /\ DOMAIN fields = 1..Len(fields)
    /\ \A i \in DOMAIN fields : fields[i][2] \in Kinds
    /\ \A i, j \in DOMAIN fields : fields[i][1] = fields[j][1] => i = j

\* A record is read as it was written.
LEMMA GetAllReads ==
    ASSUME NEW fields, Layout(fields), NEW body, HasValues(fields, body), NEW cur,
           NEW x \in Octets, NEW r \in Octets
    PROVE  /\ PutAll(fields, body) \in Octets
           /\ Reads(cur, GetAll(fields, cur), PutAll(fields, body),
                    [name \in Names(fields) |-> body[name]], x, r)
<1> DEFINE n == Len(fields)
           put == [i \in 1..n |-> Put(fields[i][2], body[fields[i][1]])]
           val == [i \in 1..n |-> body[fields[i][1]]]
           after == FieldCursors(fields, cur)
           At(name) == CHOOSE i \in DOMAIN fields : fields[i][1] = name
           read == [name \in Names(fields) |-> after[At(name)].v]
<1>1. n \in Nat /\ DOMAIN fields = 1..n BY DEF Layout
<1>2. \A i \in 1..n : /\ fields[i][2] \in Kinds
                      /\ body[fields[i][1]] \in Values(fields[i][2])
  BY <1>1 DEF Layout, HasValues
<1>3. put \in [1..n -> Octets] BY <1>2, GetReads, NoOctets
<1>4. PutAll(fields, body) = FlattenSeq(put) BY <1>1 DEF PutAll
<1>5. FlattenSeq(put) \in Octets
  <2> HIDE DEF put, n
  <2> QED BY <1>1, <1>3, FlatAfter
<1>6. GetAll(fields, cur) = WithValue(after[n], read) BY DEF GetAll, FieldCursors, WithValue
<1>7. after = FieldCursors(fields, cur) OBVIOUS
<1> HIDE DEF after
<1>8. after[0] = cur /\ \A i \in 1..n : after[i] = Get(fields[i][2], after[i - 1])
  BY <1>1, <1>7, FieldCursorsAre
<1>9. ASSUME NEW i \in 1..n, NEW s \in Octets
      PROVE  Reads(after[i - 1], after[i], put[i], val[i], x, s)
  <2>1. put[i] = Put(fields[i][2], body[fields[i][1]]) /\ val[i] = body[fields[i][1]] OBVIOUS
  <2> HIDE DEF n, put, val
  <2> QED BY <2>1, <1>2, <1>8, GetReads
<1>10. ASSUME IsCursor(cur), cur.ok => Cat(cur.rest, x) = Cat(FlattenSeq(put), r)
       PROVE  /\ IsCursor(after[n])
              /\ after[n].ok => /\ cur.ok /\ Cat(after[n].rest, x) = r
                                /\ \A i \in 1..n : after[i].v = val[i]
              /\ cur.ok /\ x = <<>> => after[n].ok
  <2> HIDE DEF n, put, val
  <2>1. IsCursor(after[0]) BY <1>8, <1>10
  <2>2. after[0].ok => Cat(after[0].rest, x) = Cat(FlattenSeq(put), r) BY <1>8, <1>10
  <2>3. Linked(n, after, put, val, x) BY <1>9 DEF Linked
  <2>4. ReadAll(n, after, val, x, r) BY <1>1, <1>3, <2>1, <2>2, <2>3, Chain
  <2> QED BY <1>8, <2>4 DEF ReadAll
<1>11. ASSUME \A i \in 1..n : after[i].v = val[i]
       PROVE  read = [name \in Names(fields) |-> body[name]]
  <2>1. ASSUME NEW name \in Names(fields) PROVE after[At(name)].v = body[name]
    <3>1. PICK i \in DOMAIN fields : fields[i][1] = name BY DEF Names
    <3>2. At(name) = i BY <3>1 DEF Layout
    <3> QED BY <1>1, <3>1, <3>2, <1>11
  <2> HIDE DEF At
  <2> QED BY <2>1
<1> HIDE DEF n, put, val, read
<1>13. SUFFICES ASSUME IsCursor(cur), cur.ok => Cat(cur.rest, x) = Cat(FlattenSeq(put), r)
                PROVE  /\ IsCursor(GetAll(fields, cur))
                       /\ GetAll(fields, cur).ok =>
                             /\ cur.ok
                             /\ GetAll(fields, cur).v = [name \in Names(fields) |-> body[name]]
                             /\ Cat(GetAll(fields, cur).rest, x) = r
                       /\ cur.ok /\ x = <<>> => GetAll(fields, cur).ok
  BY <1>4, <1>5 DEF Reads
<1>14. /\ IsCursor(after[n])
       /\ after[n].ok => /\ cur.ok /\ Cat(after[n].rest, x) = r
                         /\ \A i \in 1..n : after[i].v = val[i]
       /\ cur.ok /\ x = <<>> => after[n].ok
  BY <1>10, <1>13
<1>15. /\ IsCursor(GetAll(fields, cur))
       /\ GetAll(fields, cur).v = read
       /\ GetAll(fields, cur).ok = after[n].ok
       /\ GetAll(fields, cur).rest = after[n].rest
  BY <1>6, <1>14, WithValueIs
<1> QED BY <1>11, <1>14, <1>15

\* The layouts that encode and parse_payload describe by hand are layouts, and the
\* same ones.
LEMMA Layouts ==
    /\ Layout(PutInterfaceFields) /\ Layout(PutDeviceFields)
    /\ \A ty \in DOMAIN PutFields : Layout(PutFields[ty])
    /\ GetInterfaceFields = PutInterfaceFields
    /\ GetDeviceFields = PutDeviceFields
    /\ GetFields = PutFields
<1>1. Layout(PutInterfaceFields) BY DEF Layout, PutInterfaceFields, Kinds
<1>2. Layout(PutDeviceFields) BY DEF Layout, PutDeviceFields, Kinds
<1>3. ASSUME NEW ty \in DOMAIN PutFields PROVE Layout(PutFields[ty])
  <2>1. CASE ty = "Hello" BY <2>1 DEF Layout, PutFields, Kinds
  <2>2. CASE ty = "Error" BY <2>2 DEF Layout, PutFields, Kinds
  <2>3. CASE ty = "Detach" BY <2>3 DEF Layout, PutFields, Kinds
  <2>4. CASE ty = "DetachRequest" BY <2>4 DEF Layout, PutFields, Kinds
  <2>5. CASE ty = "DeviceListRequest" BY <2>5 DEF Layout, PutFields, Kinds
  <2>6. CASE ty = "PairRequest" BY <2>6 DEF Layout, PutFields, Kinds
  <2>7. CASE ty = "PairResponse" BY <2>7 DEF Layout, PutFields, Kinds
  <2>8. CASE ty = "AttachRequest" BY <2>8 DEF Layout, PutFields, Kinds
  <2>9. CASE ty = "AttachResponse" BY <2>9 DEF Layout, PutFields, Kinds
  <2>10. CASE ty = "UrbSubmit" BY <2>10 DEF Layout, PutFields, Kinds
  <2>11. CASE ty = "UrbComplete" BY <2>11 DEF Layout, PutFields, Kinds
  <2>12. CASE ty = "UrbUnlink" BY <2>12 DEF Layout, PutFields, Kinds
  <2>13. CASE ty = "UrbUnlinked" BY <2>13 DEF Layout, PutFields, Kinds
  <2> QED BY <2>1, <2>2, <2>3, <2>4, <2>5, <2>6, <2>7, <2>8, <2>9, <2>10, <2>11, <2>12,
            <2>13 DEF PutFields
<1>4. GetInterfaceFields = PutInterfaceFields BY DEF GetInterfaceFields, PutInterfaceFields
<1>5. GetDeviceFields = PutDeviceFields BY DEF GetDeviceFields, PutDeviceFields
<1>6. GetFields = PutFields BY DEF GetFields, PutFields
<1> QED BY <1>1, <1>2, <1>3, <1>4, <1>5, <1>6

\* A row of cursors that starts after a count of m, reads m items, and ends in a
\* cursor with the list of them.
ReadsItems(count, m, after, put, list, x, done) ==
    /\ count.ok /\ count.v = m =>
           /\ after[0] = count /\ Linked(m, after, put, list, x)
           /\ done = WithValue(after[m], [i \in 1..m |-> after[i].v])
    /\ ~count.ok => done = Failed

\* A count and a list of that many items are read as they were written, for any
\* row of cursors that reads the items.
LEMMA ListReads ==
    ASSUME NEW m \in Nat, NEW n \in Nat, NEW list, list = [i \in 1..m |-> list[i]],
           NEW put \in [1..m -> Octets], NEW cur, NEW x \in Octets, NEW r \in Octets,
           NEW after, NEW done,
           ReadsItems(Take(cur, n), m, after, put, list, x, done)
    PROVE  /\ Cat(Piece(n, m), FlattenSeq(put)) \in Octets
           /\ Reads(cur, done, Cat(Piece(n, m), FlattenSeq(put)), list, x, r)
<1> DEFINE flat == FlattenSeq(put)  count == Take(cur, n)
<1>1. m \in PieceValues BY DEF PieceValues
<1>2. flat \in Octets BY FlatAfter
<1>3. Piece(n, m) \in Octets /\ [w |-> n, v |-> m] \in Pieces BY <1>1, PieceType
<1> HIDE DEF flat
<1>4. /\ Cat(Piece(n, m), flat) \in Octets /\ Cat(flat, r) \in Octets
      /\ Cat(Cat(Piece(n, m), flat), r) = Cat(Piece(n, m), Cat(flat, r))
  BY <1>2, <1>3, CatType, CatAssoc
<1>5. Reads(cur, count, Piece(n, m), m, x, Cat(flat, r)) BY <1>3, <1>4, TakeReads
<1>6. IsCursor(Failed) /\ ~Failed.ok BY DEF IsCursor, Failed
<1> HIDE DEF count
<1>7. SUFFICES ASSUME IsCursor(cur), cur.ok => Cat(cur.rest, x) = Cat(Piece(n, m), Cat(flat, r))
               PROVE  /\ IsCursor(done)
                      /\ done.ok => cur.ok /\ done.v = list /\ Cat(done.rest, x) = r
                      /\ cur.ok /\ x = <<>> => done.ok
  BY <1>4 DEF Reads, flat
<1>8. /\ IsCursor(count)
      /\ count.ok => cur.ok /\ count.v = m /\ Cat(count.rest, x) = Cat(flat, r)
      /\ cur.ok /\ x = <<>> => count.ok
  BY <1>5, <1>7 DEF Reads
<1>9. CASE ~count.ok BY <1>6, <1>8, <1>9 DEF count, ReadsItems
<1>10. CASE count.ok
  <2> DEFINE read == [i \in 1..m |-> after[i].v]
  <2>1. after[0] = count /\ Linked(m, after, put, list, x) /\ done = WithValue(after[m], read)
    BY <1>8, <1>10 DEF count, ReadsItems
  <2>3. ReadAll(m, after, list, x, r)
    <3>1. IsCursor(after[0]) BY <1>8, <2>1
    <3>2. after[0].ok => Cat(after[0].rest, x) = Cat(FlattenSeq(put), r) BY <1>8, <2>1 DEF flat
    <3> QED BY <2>1, <3>1, <3>2, Chain
  <2>4. ASSUME \A i \in 1..m : after[i].v = list[i] PROVE read = list
    BY <2>4
  <2> HIDE DEF read
  <2>5. /\ IsCursor(done) /\ done.v = read /\ done.ok = after[m].ok /\ done.rest = after[m].rest
    BY <2>1, <2>3, WithValueIs DEF ReadAll
  <2> QED BY <1>8, <1>10, <2>1, <2>3, <2>4, <2>5 DEF ReadAll
<1> QED BY <1>9, <1>10

\* An interface is read as it was written.
LEMMA InterfaceReads ==
    ASSUME NEW f, IsInterface(f), NEW cur, NEW x \in Octets, NEW r \in Octets
    PROVE  /\ PutInterface(f) \in Octets
           /\ Reads(cur, GetInterface(cur), PutInterface(f), f, x, r)
<1>1. f = [name \in Names(PutInterfaceFields) |-> f[name]] BY DEF IsInterface, Struct
<1>2. HasValues(PutInterfaceFields, f) BY DEF IsInterface
<1>3. /\ PutAll(PutInterfaceFields, f) \in Octets
      /\ Reads(cur, GetAll(PutInterfaceFields, cur), PutAll(PutInterfaceFields, f),
               [name \in Names(PutInterfaceFields) |-> f[name]], x, r)
  BY <1>2, Layouts, GetAllReads
<1> QED BY <1>1, <1>3, Layouts DEF PutInterface, GetInterface

\* The cursors that GetList goes through for interfaces.
InterfaceCursors(cur, m) ==
    CHOOSE f : f = [i \in 0..m |-> IF i = 0 THEN cur ELSE GetInterface(f[i - 1])]

\* There are such cursors.
LEMMA InterfaceCursorsAre ==
    ASSUME NEW m \in Nat, NEW cur, NEW after, after = InterfaceCursors(cur, m)
    PROVE  after[0] = cur /\ \A i \in 1..m : after[i] = GetInterface(after[i - 1])
<1> DEFINE Step(c) == GetInterface(c)
           G(f, k) == [i \in 0..k |-> IF i = 0 THEN cur ELSE Step(f[i - 1])]
           E(k) == \E f : f = G(f, k)
           H == {k \in Nat : E(k)}
<1> HIDE DEF Step
<1>1. E(0)
  <2> DEFINE f == [i \in 0..0 |-> cur]
  <2>1. f = G(f, 0) OBVIOUS
  <2> QED BY <2>1
<1>2. ASSUME NEW k \in 1..m, E(k - 1) PROVE E(k)
  <2>1. PICK f : f = G(f, k - 1) BY <1>2
  <2>2. \A i \in 0..(k - 1) : f[i] = IF i = 0 THEN cur ELSE Step(f[i - 1]) BY <2>1
  <2> DEFINE g == [i \in 0..k |-> IF i = k THEN Step(f[k - 1]) ELSE f[i]]
  <2>3. ASSUME NEW i \in 0..k PROVE g[i] = G(g, k)[i]
    <3>1. CASE i = 0 BY <3>1, <2>2
    <3>2. CASE i # 0
      <4>1. i - 1 \in 0..k /\ i - 1 # k /\ g[i - 1] = f[i - 1] BY <3>2
      <4>2. G(g, k)[i] = Step(f[i - 1]) BY <3>2, <4>1
      <4>3. CASE i = k BY <4>2, <4>3
      <4>4. CASE i # k
        <5>1. i \in 0..(k - 1) BY <4>4
        <5> QED BY <4>2, <4>4, <5>1, <2>2, <3>2
      <4> QED BY <4>3, <4>4
    <3> QED BY <3>1, <3>2
  <2>4. g = G(g, k) BY <2>3
  <2> HIDE DEF g, G
  <2> QED BY <2>4
<1> HIDE DEF E
<1>3. 0 \in H BY <1>1
<1>4. \A k \in 1..m : k - 1 \in H => k \in H
  <2> SUFFICES ASSUME NEW k \in 1..m, k - 1 \in H PROVE k \in H OBVIOUS
  <2>1. E(k - 1) OBVIOUS
  <2> QED BY <1>2, <2>1
<1> HIDE DEF H
<1>5. E(m)
  <2>1. \A k \in 0..m : k \in H BY <1>3, <1>4, UpTo, Zenon
  <2> QED BY <2>1 DEF H
<1>6. after = CHOOSE f : f = G(f, m) BY DEF InterfaceCursors, Step
<1>7. after = G(after, m)
  <2> HIDE DEF G
  <2> QED BY <1>5, <1>6, Zenon DEF E
<1>8. \A i \in 0..m : after[i] = IF i = 0 THEN cur ELSE Step(after[i - 1]) BY <1>7
<1>9. \A i \in 1..m : i \in 0..m /\ i # 0 OBVIOUS
<1> QED BY <1>8, <1>9 DEF Step

\* The cursors that GetList goes through for devices.
DeviceCursors(cur, m) ==
    CHOOSE f : f = [i \in 0..m |-> IF i = 0 THEN cur ELSE GetDevice(f[i - 1])]

\* There are such cursors.
LEMMA DeviceCursorsAre ==
    ASSUME NEW m \in Nat, NEW cur, NEW after, after = DeviceCursors(cur, m)
    PROVE  after[0] = cur /\ \A i \in 1..m : after[i] = GetDevice(after[i - 1])
<1> DEFINE Step(c) == GetDevice(c)
           G(f, k) == [i \in 0..k |-> IF i = 0 THEN cur ELSE Step(f[i - 1])]
           E(k) == \E f : f = G(f, k)
           H == {k \in Nat : E(k)}
<1> HIDE DEF Step
<1>1. E(0)
  <2> DEFINE f == [i \in 0..0 |-> cur]
  <2>1. f = G(f, 0) OBVIOUS
  <2> QED BY <2>1
<1>2. ASSUME NEW k \in 1..m, E(k - 1) PROVE E(k)
  <2>1. PICK f : f = G(f, k - 1) BY <1>2
  <2>2. \A i \in 0..(k - 1) : f[i] = IF i = 0 THEN cur ELSE Step(f[i - 1]) BY <2>1
  <2> DEFINE g == [i \in 0..k |-> IF i = k THEN Step(f[k - 1]) ELSE f[i]]
  <2>3. ASSUME NEW i \in 0..k PROVE g[i] = G(g, k)[i]
    <3>1. CASE i = 0 BY <3>1, <2>2
    <3>2. CASE i # 0
      <4>1. i - 1 \in 0..k /\ i - 1 # k /\ g[i - 1] = f[i - 1] BY <3>2
      <4>2. G(g, k)[i] = Step(f[i - 1]) BY <3>2, <4>1
      <4>3. CASE i = k BY <4>2, <4>3
      <4>4. CASE i # k
        <5>1. i \in 0..(k - 1) BY <4>4
        <5> QED BY <4>2, <4>4, <5>1, <2>2, <3>2
      <4> QED BY <4>3, <4>4
    <3> QED BY <3>1, <3>2
  <2>4. g = G(g, k) BY <2>3
  <2> HIDE DEF g, G
  <2> QED BY <2>4
<1> HIDE DEF E
<1>3. 0 \in H BY <1>1
<1>4. \A k \in 1..m : k - 1 \in H => k \in H
  <2> SUFFICES ASSUME NEW k \in 1..m, k - 1 \in H PROVE k \in H OBVIOUS
  <2>1. E(k - 1) OBVIOUS
  <2> QED BY <1>2, <2>1
<1> HIDE DEF H
<1>5. E(m)
  <2>1. \A k \in 0..m : k \in H BY <1>3, <1>4, UpTo, Zenon
  <2> QED BY <2>1 DEF H
<1>6. after = CHOOSE f : f = G(f, m) BY DEF DeviceCursors, Step
<1>7. after = G(after, m)
  <2> HIDE DEF G
  <2> QED BY <1>5, <1>6, Zenon DEF E
<1>8. \A i \in 0..m : after[i] = IF i = 0 THEN cur ELSE Step(after[i - 1]) BY <1>7
<1>9. \A i \in 1..m : i \in 0..m /\ i # 0 OBVIOUS
<1> QED BY <1>8, <1>9 DEF Step

\* The interfaces of a device are read as they were written.
LEMMA InterfacesRead ==
    ASSUME NEW list, list \in Seq(ToSet(list)), \A d \in ToSet(list) : IsInterface(d),
           NEW n \in Nat,
           NEW cur, NEW x \in Octets, NEW r \in Octets,
           NEW put, put = [i \in DOMAIN list |-> PutInterface(list[i])]
    PROVE  /\ Cat(Piece(n, Len(list)), FlattenSeq(put)) \in Octets
           /\ Reads(cur, GetList(GetInterface, cur, n),
                    Cat(Piece(n, Len(list)), FlattenSeq(put)), list, x, r)
<1> DEFINE m == Len(list)  count == Take(cur, n)
           after == InterfaceCursors(count, m)  done == GetList(GetInterface, cur, n)
<1>1. /\ m \in Nat /\ DOMAIN list = 1..m /\ list = [i \in 1..m |-> list[i]]
      /\ \A i \in 1..m : IsInterface(list[i])
  <2>1. m \in Nat /\ DOMAIN list = 1..m /\ list = [i \in 1..m |-> list[i]] BY LenProperties
  <2> QED BY <2>1 DEF ToSet
<1>2. put \in [1..m -> Octets] BY <1>1, InterfaceReads
<1>3. ASSUME count.ok, count.v = m
      PROVE  /\ after[0] = count /\ Linked(m, after, put, list, x)
             /\ done = WithValue(after[m], [i \in 1..m |-> after[i].v])
  <2>1. done = WithValue(after[m], [i \in 1..m |-> after[i].v])
    BY <1>3 DEF GetList, WithValue, InterfaceCursors
  <2>2. after = InterfaceCursors(count, m) OBVIOUS
  <2> HIDE DEF after, count, m
  <2>3. after[0] = count /\ \A i \in 1..m : after[i] = GetInterface(after[i - 1])
    BY <1>1, <2>2, InterfaceCursorsAre
  <2>4. ASSUME NEW i \in 1..m, NEW s \in Octets
        PROVE  Reads(after[i - 1], after[i], put[i], list[i], x, s)
    <3>1. put[i] = PutInterface(list[i]) BY <1>1
    <3> QED BY <1>1, <2>3, <3>1, InterfaceReads
  <2> QED BY <2>1, <2>3, <2>4 DEF Linked
<1>4. ASSUME ~count.ok PROVE done = Failed BY <1>4 DEF GetList
<1>5. ReadsItems(Take(cur, n), m, after, put, list, x, done) BY <1>3, <1>4 DEF ReadsItems
<1> HIDE DEF m, after, done
<1>6. /\ Cat(Piece(n, m), FlattenSeq(put)) \in Octets
      /\ Reads(cur, done, Cat(Piece(n, m), FlattenSeq(put)), list, x, r)
  BY <1>1, <1>2, <1>5, ListReads, Zenon
<1> QED BY <1>6 DEF m, done

\* A device with its interfaces is read as it was written.
LEMMA DeviceReads ==
    ASSUME NEW d, IsDevice(d), NEW cur, NEW x \in Octets, NEW r \in Octets
    PROVE  /\ PutDevice(d) \in Octets
           /\ Reads(cur, GetDevice(cur), PutDevice(d), d, x, r)
<1> DEFINE device == GetAll(GetDeviceFields, cur)
           list == GetList(GetInterface, device, 1)
           names == Names(PutDeviceFields)
           put == [i \in DOMAIN d.interfaces |-> PutInterface(d.interfaces[i])]
           head == PutAll(PutDeviceFields, d)
           tail == Cat(Piece(1, Len(d.interfaces)), FlattenSeq(put))
           fields == [name \in names |-> d[name]]
           read == [n \in names \cup {"interfaces"} |->
                        IF n = "interfaces" THEN list.v ELSE device.v[n]]
<1>1. /\ d = [n \in names \cup {"interfaces"} |-> d[n]]
      /\ HasValues(PutDeviceFields, d)
      /\ d.interfaces \in Seq(ToSet(d.interfaces))
      /\ \A f \in ToSet(d.interfaces) : IsInterface(f)
  BY DEF IsDevice, Struct
<1>2. \A s \in Octets : Reads(cur, device, head, fields, x, s) /\ head \in Octets
  BY <1>1, Layouts, GetAllReads
<1>3. tail \in Octets /\ Reads(device, list, tail, d.interfaces, x, r)
  <2> HIDE DEF device
  <2> QED BY <1>1, InterfacesRead
<1>4. GetDevice(cur) = WithValue(list, read) BY Layouts DEF GetDevice, WithValue
<1>5. PutDevice(d) = Cat(Cat(head, Piece(1, Len(d.interfaces))), FlattenSeq(put))
  BY DEF PutDevice, Cat
<1>6. head \in Octets BY <1>2, NoOctets
<1>7. PutDevice(d) = Cat(head, tail)
  <2>1. Piece(1, Len(d.interfaces)) \in Octets
    <3>1. Len(d.interfaces) \in PieceValues BY <1>1, LenProperties DEF PieceValues
    <3> QED BY <3>1, PieceType
  <2>2. FlattenSeq(put) \in Octets
    <3>1. Len(d.interfaces) \in Nat /\ DOMAIN d.interfaces = 1..Len(d.interfaces)
      BY <1>1, LenProperties
    <3>2. put \in [1..Len(d.interfaces) -> Octets]
      BY <1>1, <3>1, InterfaceReads, NoOctets DEF ToSet
    <3> HIDE DEF put
    <3> QED BY <3>1, <3>2, FlatAfter
  <2> HIDE DEF head, put
  <2> QED BY <1>5, <1>6, <2>1, <2>2, CatAssoc
<1>8. Cat(tail, r) \in Octets /\ Cat(head, tail) \in Octets
      /\ Cat(Cat(head, tail), r) = Cat(head, Cat(tail, r))
  <2> HIDE DEF head, tail
  <2> QED BY <1>3, <1>6, CatType, CatAssoc
<1>9. ASSUME device.v = fields, list.v = d.interfaces PROVE read = d
  <2> HIDE DEF device, list, names
  <2>1. \A n \in names : device.v[n] = d[n] BY <1>9
  <2> QED BY <1>1, <1>9, <2>1
<1>10. Reads(cur, device, head, fields, x, Cat(tail, r)) BY <1>2, <1>8
<1> HIDE DEF device, list, names, head, tail, fields, read
<1>11. SUFFICES ASSUME IsCursor(cur), cur.ok => Cat(cur.rest, x) = Cat(head, Cat(tail, r))
                PROVE  LET done == GetDevice(cur) IN
                       /\ IsCursor(done)
                       /\ done.ok => cur.ok /\ done.v = d /\ Cat(done.rest, x) = r
                       /\ cur.ok /\ x = <<>> => done.ok
  BY <1>7, <1>8 DEF Reads
<1>12. /\ IsCursor(device)
       /\ device.ok => cur.ok /\ device.v = fields /\ Cat(device.rest, x) = Cat(tail, r)
       /\ cur.ok /\ x = <<>> => device.ok
  BY <1>10, <1>11 DEF Reads
<1>13. /\ IsCursor(list)
       /\ list.ok => device.ok /\ list.v = d.interfaces /\ Cat(list.rest, x) = r
       /\ device.ok /\ x = <<>> => list.ok
  BY <1>3, <1>12 DEF Reads
<1>14. /\ IsCursor(WithValue(list, read)) /\ WithValue(list, read).v = read
       /\ WithValue(list, read).ok = list.ok /\ WithValue(list, read).rest = list.rest
  BY <1>13, WithValueIs
<1> QED BY <1>4, <1>9, <1>12, <1>13, <1>14

\* A list of devices is read as it was written.
LEMMA DevicesRead ==
    ASSUME NEW list, list \in Seq(ToSet(list)), \A d \in ToSet(list) : IsDevice(d), NEW n \in Nat,
           NEW cur, NEW x \in Octets, NEW r \in Octets,
           NEW put, put = [i \in DOMAIN list |-> PutDevice(list[i])]
    PROVE  /\ Cat(Piece(n, Len(list)), FlattenSeq(put)) \in Octets
           /\ Reads(cur, GetList(GetDevice, cur, n),
                    Cat(Piece(n, Len(list)), FlattenSeq(put)), list, x, r)
<1> DEFINE m == Len(list)  count == Take(cur, n)
           after == DeviceCursors(count, m)  done == GetList(GetDevice, cur, n)
<1>1. /\ m \in Nat /\ DOMAIN list = 1..m /\ list = [i \in 1..m |-> list[i]]
      /\ \A i \in 1..m : IsDevice(list[i])
  <2>1. m \in Nat /\ DOMAIN list = 1..m /\ list = [i \in 1..m |-> list[i]] BY LenProperties
  <2> QED BY <2>1 DEF ToSet
<1>2. put \in [1..m -> Octets] BY <1>1, DeviceReads
<1>3. ASSUME count.ok, count.v = m
      PROVE  /\ after[0] = count /\ Linked(m, after, put, list, x)
             /\ done = WithValue(after[m], [i \in 1..m |-> after[i].v])
  <2>1. done = WithValue(after[m], [i \in 1..m |-> after[i].v])
    BY <1>3 DEF GetList, WithValue, DeviceCursors
  <2>2. after = DeviceCursors(count, m) OBVIOUS
  <2> HIDE DEF after, count, m
  <2>3. after[0] = count /\ \A i \in 1..m : after[i] = GetDevice(after[i - 1])
    BY <1>1, <2>2, DeviceCursorsAre
  <2>4. ASSUME NEW i \in 1..m, NEW s \in Octets
        PROVE  Reads(after[i - 1], after[i], put[i], list[i], x, s)
    <3>1. put[i] = PutDevice(list[i]) BY <1>1
    <3> QED BY <1>1, <2>3, <3>1, DeviceReads
  <2> QED BY <2>1, <2>3, <2>4 DEF Linked
<1>4. ASSUME ~count.ok PROVE done = Failed BY <1>4 DEF GetList
<1>5. ReadsItems(Take(cur, n), m, after, put, list, x, done) BY <1>3, <1>4 DEF ReadsItems
<1> HIDE DEF m, after, done
<1>6. /\ Cat(Piece(n, m), FlattenSeq(put)) \in Octets
      /\ Reads(cur, done, Cat(Piece(n, m), FlattenSeq(put)), list, x, r)
  BY <1>1, <1>2, <1>5, ListReads, Zenon
<1> QED BY <1>6 DEF m, done

\* The payload of a message is read as it was written.
LEMMA PayloadReads ==
    ASSUME NEW m, IsMessage(m), NEW q \in Octets, NEW x \in Octets, NEW r \in Octets
    PROVE  /\ PutPayload(m) \in Octets
           /\ Reads(Cursor(q), parse_payload(m.ty, q), PutPayload(m), m.body, x, r)
<1>1. CASE m.ty = "DeviceList"
  <2> DEFINE ds == m.body.devices
             put == [i \in DOMAIN ds |-> PutDevice(ds[i])]
             list == GetList(GetDevice, Cursor(q), 2)
  <2>1. /\ m.body = [n \in {"devices"} |-> m.body[n]] /\ ds \in Seq(ToSet(ds))
        /\ \A d \in ToSet(ds) : IsDevice(d)
    BY <1>1 DEF IsMessage, Struct
  <2>2. m.body = [devices |-> ds] BY <2>1
  <2>3. PutPayload(m) = Cat(Piece(2, Len(ds)), FlattenSeq(put)) BY <1>1 DEF PutPayload, Cat
  <2>4. parse_payload(m.ty, q) = WithValue(list, [devices |-> list.v])
    BY <1>1 DEF parse_payload, WithValue
  <2>5. put = [i \in DOMAIN ds |-> PutDevice(ds[i])] OBVIOUS
  <2> HIDE DEF ds, put
  <2>6. /\ Cat(Piece(2, Len(ds)), FlattenSeq(put)) \in Octets
        /\ Reads(Cursor(q), list, Cat(Piece(2, Len(ds)), FlattenSeq(put)), ds, x, r)
    BY <2>1, <2>5, DevicesRead
  <2> HIDE DEF list
  <2>7. ASSUME IsCursor(list)
        PROVE  LET done == WithValue(list, [devices |-> list.v])
               IN  /\ IsCursor(done) /\ done.v = [devices |-> list.v]
                   /\ done.ok = list.ok /\ done.rest = list.rest
    BY <2>7, WithValueIs
  <2>8. Reads(Cursor(q), WithValue(list, [devices |-> list.v]),
              Cat(Piece(2, Len(ds)), FlattenSeq(put)), [devices |-> ds], x, r)
    BY <2>6, <2>7 DEF Reads
  <2> QED BY <2>2, <2>3, <2>4, <2>6, <2>8
<1>2. CASE m.ty # "DeviceList"
  <2> DEFINE fields == PutFields[m.ty]
  <2>1. /\ m.ty \in DOMAIN PutFields /\ m.body = [n \in Names(fields) |-> m.body[n]]
        /\ HasValues(fields, m.body)
    BY <1>2 DEF IsMessage, Struct
  <2>2. PutPayload(m) = PutAll(fields, m.body) BY <1>2 DEF PutPayload
  <2>3. parse_payload(m.ty, q) = GetAll(fields, Cursor(q)) BY <1>2, Layouts DEF parse_payload
  <2>4. Layout(fields) BY <2>1, Layouts
  <2> HIDE DEF fields
  <2>5. /\ PutAll(fields, m.body) \in Octets
        /\ Reads(Cursor(q), GetAll(fields, Cursor(q)), PutAll(fields, m.body),
                 [n \in Names(fields) |-> m.body[n]], x, r)
    BY <2>1, <2>4, GetAllReads
  <2> QED BY <2>1, <2>2, <2>3, <2>5
<1> QED BY <1>1, <1>2

\* A cursor at the start of a payload.
LEMMA CursorIs == ASSUME NEW q \in Octets
                  PROVE  IsCursor(Cursor(q)) /\ Cursor(q).ok /\ Cursor(q).rest = q
BY DEF IsCursor, Cursor

\* decode of a frame whose header is right for its payload: only the payload and
\* its length decide.
LEMMA DecodeIs ==
    ASSUME NEW ty \in DOMAIN Types, NEW q
    PROVE  decode([header |-> Header(Types[ty], Width(q)), payload |-> q]) =
              IF Width(q) > MaxPayload THEN Err("PayloadTooLarge")
              ELSE IF finish(parse_payload(ty, q))
                   THEN Ok([ty |-> ty, body |-> parse_payload(ty, q).v])
                   ELSE Err("Malformed")
<1> DEFINE frame == [header |-> Header(Types[ty], Width(q)), payload |-> q]
           named == {n \in DOMAIN Types : Types[n] = frame.header.ty}
<1>1. /\ frame.header.magic = "FARB" /\ frame.header.version = VERSION
      /\ frame.header.len = Width(q) /\ frame.header.ty = Types[ty] /\ frame.payload = q
  BY DEF Header
<1>2. named = {ty} BY <1>1, CodesDiffer
<1>3. (CHOOSE n \in named : TRUE) = ty BY <1>2
<1> HIDE DEF frame
<1> QED BY <1>1, <1>2, <1>3 DEF decode, frame

\* decode undoes encode, for every message there is and not only for samples: what
\* encode accepts reads back as it was, and no payload that ends early or goes on
\* is taken for a message (farbus-protocol lib.rs, encode and decode).
THEOREM MessageExact ==
    ASSUME NEW m, IsMessage(m), encode(m).ok
    PROVE  Exact(m)
<1> DEFINE p == PutPayload(m)
           Framed(q) == [header |-> Header(Types[m.ty], Width(q)), payload |-> q]
           parse(q) == parse_payload(m.ty, q)
<1>1. /\ ~(Width(p) > MaxPayload) /\ encode(m).is = Framed(p)
  BY DEF encode, Ok, Err
<1>2. encode(m).is.payload = p BY <1>1
<1>3. /\ m.ty \in DOMAIN Types /\ m = [n \in {"ty", "body"} |-> m[n]]
  BY DEF IsMessage, Struct, PutFields, Types
<1>4. m = [ty |-> m.ty, body |-> m.body] BY <1>3
<1>5. p \in Octets BY PayloadReads, NoOctets
<1>6. \A q : decode(Framed(q)) =
              IF Width(q) > MaxPayload THEN Err("PayloadTooLarge")
              ELSE IF finish(parse(q)) THEN Ok([ty |-> m.ty, body |-> parse(q).v])
                   ELSE Err("Malformed")
  BY <1>3, DecodeIs
<1>7. ASSUME NEW q \in Octets, NEW x \in Octets, NEW r \in Octets, Cat(q, x) = Cat(p, r)
      PROVE  /\ IsCursor(parse(q))
             /\ parse(q).ok => parse(q).v = m.body /\ Cat(parse(q).rest, x) = r
             /\ x = <<>> => parse(q).ok
  BY <1>7, PayloadReads, CursorIs DEF Reads
<1> HIDE DEF p, parse, Framed
<1>8. decode(Framed(p)) = Ok(m)
  <2>1. parse(p).ok /\ parse(p).v = m.body /\ Cat(parse(p).rest, <<>>) = <<>>
        /\ IsCursor(parse(p))
    BY <1>5, <1>7, NoOctets
  <2>2. parse(p).rest = <<>> BY <2>1, CatEmpty DEF IsCursor
  <2>3. finish(parse(p)) BY <2>1, <2>2 DEF finish
  <2> QED BY <1>1, <1>4, <1>6, <2>1, <2>3
<1>9. ASSUME NEW q, ~finish(parse(q)) PROVE ~decode(Framed(q)).ok
  <2>1. ~Err("PayloadTooLarge").ok /\ ~Err("Malformed").ok BY DEF Err
  <2>2. decode(Framed(q)) = Err("PayloadTooLarge") \/ decode(Framed(q)) = Err("Malformed")
    BY <1>6, <1>9
  <2> QED BY <2>1, <2>2
<1>10. ASSUME NEW n \in 0..(Len(p) - 1) PROVE ~decode(Framed(SubSeq(p, 1, n))).ok
  <2> DEFINE q == SubSeq(p, 1, n)  x == SubSeq(p, n + 1, Len(p))
  <2>1. Len(p) \in Nat BY <1>5, LenProperties DEF Octets
  <2>2. q \o x = p
    <3>1. q \o x = SubSeq(p, 1, Len(p)) BY <1>5, <2>1, ConcatAdjacentSubSeq DEF Octets
    <3>2. SubSeq(p, 1, Len(p)) = p BY <1>5, SubSeqFull DEF Octets
    <3> QED BY <3>1, <3>2
  <2>3. q \in Octets /\ x \in Octets /\ Len(x) = Len(p) - n
    <3>1. \A i \in 1..Len(p) : p[i] \in Pieces BY <1>5, ElementOfSeq DEF Octets
    <3>2. (\A i \in 1..n : p[i] \in Pieces) /\ (\A i \in (n + 1)..Len(p) : p[i] \in Pieces)
      BY <2>1, <3>1
    <3>3. q \in Octets BY <2>1, <3>2, SubSeqProperties DEF Octets
    <3>4. /\ x \in Octets
          /\ Len(x) = IF n + 1 <= Len(p) THEN Len(p) - (n + 1) + 1 ELSE 0
      BY <2>1, <3>2, SubSeqProperties DEF Octets
    <3> QED BY <2>1, <3>3, <3>4
  <2>4. x # <<>>
    <3> HIDE DEF x
    <3>1. Len(x) # 0 BY <2>1, <2>3
    <3> QED BY <3>1, EmptySeq
  <2>5. Cat(q, x) = Cat(p, <<>>) BY <1>5, <2>2, CatEmpty DEF Cat
  <2> HIDE DEF q, x
  <2>6. IsCursor(parse(q)) /\ (parse(q).ok => Cat(parse(q).rest, x) = <<>>)
    BY <1>7, <2>3, <2>5, NoOctets
  <2>7. ~parse(q).ok BY <2>3, <2>4, <2>6, CatNone DEF IsCursor
  <2>8. ~finish(parse(q)) BY <2>7 DEF finish
  <2>9. ~decode(Framed(q)).ok BY <1>9, <2>8
  <2> QED BY <2>9 DEF q
<1>11. ~decode(Framed(Append(p, [w |-> 1, v |-> 0]))).ok
  <2> DEFINE e == [w |-> 1, v |-> 0]  q == Append(p, e)
  <2>1. e \in Pieces
    <3>1. 0 \in PieceValues BY DEF PieceValues
    <3> QED BY <3>1, PieceType
  <2> HIDE DEF e
  <2>2. q = p \o <<e>> BY <1>5, <2>1, AppendIsConcat DEF Octets
  <2>3. q = Cat(p, Single(e)) BY <2>2 DEF Cat, Single
  <2> HIDE DEF q
  <2>4. Single(e) \in Octets /\ Single(e) # <<>> BY <2>1, CatSingle, NoOctets
  <2>5. q \in Octets /\ Cat(q, <<>>) = Cat(p, Single(e)) BY <1>5, <2>3, <2>4, CatType, CatEmpty
  <2>6. IsCursor(parse(q)) /\ parse(q).ok /\ Cat(parse(q).rest, <<>>) = Single(e)
    BY <1>7, <2>4, <2>5, NoOctets
  <2>7. parse(q).rest # <<>> BY <2>4, <2>6, CatEmpty, NoOctets
  <2>8. ~finish(parse(q)) BY <2>7 DEF finish
  <2>9. ~decode(Framed(q)).ok BY <1>9, <2>8
  <2> QED BY <2>9 DEF q, e
<1> QED BY <1>1, <1>2, <1>8, <1>10, <1>11 DEF Exact, Framed

-----------------------------------------------------------------------------
(* Headers of USB/IP, and widths.                                          *)

\* Both descriptions of the USB/IP headers have every field at the same offset,
\* which no two share (usbip.rs, encode and decode of the four packets).
LEMMA UsbipHeadersAgree == UsbipExact
<1>1. \A a, b \in DOMAIN CmdSubmitPut : CmdSubmitPut[a] = CmdSubmitPut[b] => a = b
  BY DEF CmdSubmitPut
<1>2. \A a, b \in DOMAIN RetSubmitPut : RetSubmitPut[a] = RetSubmitPut[b] => a = b
  BY DEF RetSubmitPut
<1>3. CmdSubmitGet = CmdSubmitPut BY DEF CmdSubmitGet, CmdSubmitPut
<1>4. RetSubmitGet = RetSubmitPut BY DEF RetSubmitGet, RetSubmitPut
<1>5. ASSUME NEW table, \A a, b \in DOMAIN table : table[a] = table[b] => a = b
      PROVE  UsbipDecode(table, UsbipEncode(table)) = [n \in DOMAIN table |-> n]
  <2> DEFINE bytes == UsbipEncode(table)
  <2>1. ASSUME NEW n \in DOMAIN table PROVE bytes[table[n]] = n
    <3>1. table[n] \in {table[k] : k \in DOMAIN table} OBVIOUS
    <3>2. bytes[table[n]] = CHOOSE k \in DOMAIN table : table[k] = table[n]
      BY <3>1 DEF UsbipEncode
    <3> QED BY <3>2, <1>5
  <2> HIDE DEF bytes
  <2>2. [n \in DOMAIN table |-> bytes[table[n]]] = [n \in DOMAIN table |-> n] BY <2>1
  <2> QED BY <2>2 DEF UsbipDecode, bytes
<1>6. \A n \in {"seqnum", "devid", "direction", "ep"} :
         CmdUnlinkGet[n] = RetUnlinkPut[n] /\ RetUnlinkPut[n] = RetSubmitPut[n]
  BY DEF CmdUnlinkGet, RetUnlinkPut, RetSubmitPut
<1>7. UsbipDecode(CmdSubmitPut, UsbipEncode(CmdSubmitPut)) = [n \in DOMAIN CmdSubmitPut |-> n]
  BY <1>1, <1>5
<1>8. UsbipDecode(RetSubmitPut, UsbipEncode(RetSubmitPut)) = [n \in DOMAIN RetSubmitPut |-> n]
  BY <1>2, <1>5
<1> QED BY <1>3, <1>4, <1>6, <1>7, <1>8 DEF UsbipExact

\* Width adds up.
\* The recursive function in Width exists, and sums the widths of the pieces.
LEMMA WidthSums ==
    ASSUME NEW s \in Octets
    PROVE  \E f \in [0..Len(s) -> Nat] :
              /\ f[0] = 0 /\ Width(s) = f[Len(s)]
              /\ \A i \in 1..Len(s) : f[i] = f[i - 1] + s[i].w
<1> DEFINE n == Len(s)  W(i) == s[i].w
           G(f, k) == [i \in 0..k |-> IF i = 0 THEN 0 ELSE f[i - 1] + W(i)]
           E(k) == \E f : f = G(f, k)
           H == {k \in Nat : E(k)}
<1>1. n \in Nat /\ \A i \in 1..n : W(i) \in Nat
  <2>1. n \in Nat BY LenProperties DEF Octets
  <2>2. ASSUME NEW i \in 1..n PROVE s[i].w \in Nat
    <3>1. s[i] \in Pieces BY ElementOfSeq DEF Octets
    <3> QED BY <3>1 DEF Pieces
  <2> QED BY <2>1, <2>2
<1>2. Width(s) = (CHOOSE f : f = G(f, n))[n] BY DEF Width
<1> HIDE DEF W, n
<1>3. E(0)
  <2> DEFINE f == [i \in 0..0 |-> 0]
  <2>1. f = G(f, 0) OBVIOUS
  <2> QED BY <2>1
<1>4. ASSUME NEW k \in 1..n, E(k - 1) PROVE E(k)
  <2>1. PICK f : f = G(f, k - 1) BY <1>4
  <2>2. \A i \in 0..(k - 1) : f[i] = IF i = 0 THEN 0 ELSE f[i - 1] + W(i) BY <2>1
  <2> DEFINE g == [i \in 0..k |-> IF i = k THEN f[k - 1] + W(k) ELSE f[i]]
  <2>3. ASSUME NEW i \in 0..k PROVE g[i] = G(g, k)[i]
    <3>1. CASE i = 0 BY <1>1, <3>1, <2>2
    <3>2. CASE i # 0
      <4>1. i - 1 \in 0..k /\ i - 1 # k /\ g[i - 1] = f[i - 1] BY <1>1, <3>2
      <4>2. G(g, k)[i] = f[i - 1] + W(i) BY <3>2, <4>1
      <4>3. CASE i = k BY <4>2, <4>3
      <4>4. CASE i # k
        <5>1. i \in 0..(k - 1) BY <1>1, <4>4
        <5> QED BY <4>2, <4>4, <5>1, <2>2, <3>2
      <4> QED BY <4>3, <4>4
    <3> QED BY <3>1, <3>2
  <2>4. g = G(g, k) BY <2>3
  <2> HIDE DEF g, G
  <2> QED BY <2>4
<1> HIDE DEF E
<1>5. 0 \in H BY <1>3
<1>6. \A k \in 1..n : k - 1 \in H => k \in H
  <2> SUFFICES ASSUME NEW k \in 1..n, k - 1 \in H PROVE k \in H OBVIOUS
  <2>1. E(k - 1) OBVIOUS
  <2> QED BY <1>1, <1>4, <2>1
<1> HIDE DEF H
<1>7. E(n)
  <2>1. \A k \in 0..n : k \in H BY <1>1, <1>5, <1>6, UpTo, Zenon
  <2> QED BY <1>1, <2>1 DEF H
<1> DEFINE f == CHOOSE f : f = G(f, n)
<1>8. f = G(f, n)
  <2> HIDE DEF G
  <2> QED BY <1>7, Zenon DEF E
<1> HIDE DEF f
<1>9. /\ f[0] = 0 /\ \A i \in 1..n : f[i] = f[i - 1] + W(i)
      /\ f = [i \in 0..n |-> f[i]]
  <2>1. \A i \in 0..n : f[i] = IF i = 0 THEN 0 ELSE f[i - 1] + W(i) BY <1>8
  <2>2. f = [i \in 0..n |-> f[i]] BY <1>8
  <2>3. 0 \in 0..n /\ \A i \in 1..n : i \in 0..n /\ i # 0 BY <1>1
  <2> QED BY <2>1, <2>2, <2>3
<1> DEFINE T == {k \in Nat : f[k] \in Nat}
<1>10. 0 \in T BY <1>9
<1>11. \A k \in 1..n : k - 1 \in T => k \in T
  <2> SUFFICES ASSUME NEW k \in 1..n, k - 1 \in T PROVE k \in T OBVIOUS
  <2>1. f[k - 1] \in Nat /\ W(k) \in Nat /\ f[k] = f[k - 1] + W(k) BY <1>1, <1>9
  <2> QED BY <1>1, <2>1
<1> HIDE DEF T
<1>12. \A k \in 0..n : f[k] \in Nat
  <2>1. \A k \in 0..n : k \in T BY <1>1, <1>10, <1>11, UpTo, Zenon
  <2> QED BY <2>1 DEF T
<1>13. f \in [0..n -> Nat] BY <1>9, <1>12
<1> QED BY <1>2, <1>9, <1>13 DEF n, W, f

\* A width is a number.
LEMMA WidthType == \A s \in Octets : Width(s) \in Nat
<1> SUFFICES ASSUME NEW s \in Octets PROVE Width(s) \in Nat OBVIOUS
<1>1. PICK f \in [0..Len(s) -> Nat] : Width(s) = f[Len(s)] BY WidthSums
<1>2. Len(s) \in Nat BY LenProperties DEF Octets
<1> QED BY <1>1, <1>2

\* Nothing has no width.
LEMMA WidthEmpty == Width(<<>>) = 0
<1>1. PICK f \in [0..Len(<<>>) -> Nat] : f[0] = 0 /\ Width(<<>>) = f[Len(<<>>)]
  BY WidthSums, NoOctets
<1> QED BY <1>1

\* A piece has its width.
LEMMA WidthPiece ==
    ASSUME NEW n \in Nat, NEW val \in PieceValues
    PROVE  Width(Piece(n, val)) = n
<1> DEFINE s == Piece(n, val)
<1>1. s \in Octets BY PieceType
<1>2. Len(s) = 1 /\ s[1].w = n BY DEF Piece
<1> HIDE DEF s
<1>3. PICK f \in [0..Len(s) -> Nat] :
         /\ f[0] = 0 /\ Width(s) = f[Len(s)]
         /\ \A i \in 1..Len(s) : f[i] = f[i - 1] + s[i].w
  BY <1>1, WidthSums
<1>4. f[1] = f[0] + n
  <2>1. 1 \in 1..Len(s) /\ 1 - 1 = 0 BY <1>2
  <2> QED BY <1>2, <1>3, <2>1
<1> QED BY <1>2, <1>3, <1>4 DEF s

\* Widths add up.
LEMMA WidthCat ==
    ASSUME NEW s \in Octets, NEW t \in Octets
    PROVE  Width(Cat(s, t)) = Width(s) + Width(t)
<1> DEFINE u == Cat(s, t)  a == Len(s)  b == Len(t)
<1>1. a \in Nat /\ b \in Nat BY LenProperties DEF Octets
<1>2. u \in Octets BY CatType
<1>3. /\ Len(u) = a + b
      /\ \A i \in 1..(a + b) : u[i] = IF i <= a THEN s[i] ELSE t[i - a]
  BY ConcatProperties DEF Octets, Cat
<1> HIDE DEF u, a, b
<1>4. PICK f \in [0..a -> Nat] :
         f[0] = 0 /\ Width(s) = f[a] /\ \A i \in 1..a : f[i] = f[i - 1] + s[i].w
  BY WidthSums DEF a
<1>5. PICK g \in [0..b -> Nat] :
         g[0] = 0 /\ Width(t) = g[b] /\ \A i \in 1..b : g[i] = g[i - 1] + t[i].w
  BY WidthSums DEF b
<1>6. PICK h \in [0..(a + b) -> Nat] :
         h[0] = 0 /\ Width(u) = h[a + b] /\ \A i \in 1..(a + b) : h[i] = h[i - 1] + u[i].w
  <2>1. PICK h \in [0..Len(u) -> Nat] :
           h[0] = 0 /\ Width(u) = h[Len(u)] /\ \A i \in 1..Len(u) : h[i] = h[i - 1] + u[i].w
    BY <1>2, WidthSums
  <2> QED BY <1>3, <2>1
<1> DEFINE H == {k \in Nat : h[k] = f[k]}
<1>7. h[a] = f[a]
  <2>1. 0 \in H BY <1>4, <1>6
  <2>2. \A k \in 1..a : k - 1 \in H => k \in H
    <3> SUFFICES ASSUME NEW k \in 1..a, k - 1 \in H PROVE k \in H OBVIOUS
    <3>1. k \in 1..(a + b) /\ k <= a BY <1>1
    <3>2. u[k] = s[k] BY <1>3, <3>1
    <3>3. h[k] = h[k - 1] + s[k].w BY <1>6, <3>1, <3>2
    <3>4. h[k - 1] = f[k - 1] /\ f[k] = f[k - 1] + s[k].w BY <1>4
    <3>5. h[k] = f[k] BY <3>3, <3>4
    <3> QED BY <1>1, <3>5
  <2> HIDE DEF H
  <2>3. \A k \in 0..a : k \in H BY <1>1, <2>1, <2>2, UpTo, Zenon
  <2> QED BY <1>1, <2>3 DEF H
<1> DEFINE T == {k \in Nat : h[a + k] = f[a] + g[k]}
<1>8. h[a + b] = f[a] + g[b]
  <2>1. 0 \in T
    <3>1. f[a] \in Nat /\ a + 0 = a /\ f[a] + 0 = f[a] BY <1>1
    <3> QED BY <1>5, <1>7, <3>1
  <2>2. \A k \in 1..b : k - 1 \in T => k \in T
    <3> SUFFICES ASSUME NEW k \in 1..b, k - 1 \in T PROVE k \in T OBVIOUS
    <3>1. /\ a + k \in 1..(a + b) /\ ~(a + k <= a) /\ (a + k) - a = k
          /\ (a + k) - 1 = a + (k - 1)
      BY <1>1
    <3>2. u[a + k] = t[k] BY <1>3, <3>1
    <3>3. h[a + k] = h[a + (k - 1)] + t[k].w BY <1>6, <3>1, <3>2
    <3>4. h[a + (k - 1)] = f[a] + g[k - 1] /\ g[k] = g[k - 1] + t[k].w BY <1>5
    <3>5. t[k].w \in Nat
      <4>1. t[k] \in Pieces BY ElementOfSeq DEF Octets, b
      <4> QED BY <4>1 DEF Pieces
    <3>6. f[a] \in Nat /\ g[k - 1] \in Nat BY <1>1
    <3>7. h[a + k] = f[a] + g[k] BY <3>3, <3>4, <3>5, <3>6
    <3> QED BY <1>1, <3>7
  <2> HIDE DEF T
  <2>3. \A k \in 0..b : k \in T BY <1>1, <2>1, <2>2, UpTo, Zenon
  <2> QED BY <1>1, <2>3 DEF T
<1> QED BY <1>4, <1>5, <1>6, <1>8 DEF u

\* Widths of a list of bytes add up.
LEMMA WidthFlat ==
    ASSUME NEW n \in Nat, NEW seqs \in [1..n -> Octets]
    PROVE  \E sum \in [0..n -> Nat] :
              /\ sum[0] = 0 /\ Width(FlattenSeq(seqs)) = sum[n]
              /\ \A i \in 1..n : sum[i] = sum[i - 1] + Width(seqs[i])
<1>1. PICK pre \in [0..n -> Octets] :
         /\ pre[0] = <<>>
         /\ \A i \in 1..n : pre[i] = Cat(pre[i - 1], seqs[i])
         /\ FlattenSeq(seqs) = pre[n]
  BY FlatLast
<1> DEFINE sum == [i \in 0..n |-> Width(pre[i])]
<1>2. sum \in [0..n -> Nat] BY WidthType
<1>3. sum[0] = 0 /\ Width(FlattenSeq(seqs)) = sum[n] BY <1>1, WidthEmpty
<1>4. ASSUME NEW i \in 1..n PROVE sum[i] = sum[i - 1] + Width(seqs[i])
  <2>1. i \in 0..n /\ i - 1 \in 0..n OBVIOUS
  <2>2. pre[i - 1] \in Octets /\ seqs[i] \in Octets /\ pre[i] = Cat(pre[i - 1], seqs[i])
    BY <1>1, <2>1
  <2>3. Width(pre[i]) = Width(pre[i - 1]) + Width(seqs[i]) BY <2>2, WidthCat
  <2> QED BY <2>1, <2>3
<1> HIDE DEF sum
<1> QED BY <1>2, <1>3, <1>4

-----------------------------------------------------------------------------
(* The largest transfers.                                                  *)

\* A block of data with its length takes the length and four bytes more.
LEMMA WidthData ==
    ASSUME NEW len \in Nat, NEW data, data = [len |-> len, is |-> "data"]
    PROVE  Put("data32", data) \in Octets /\ Width(Put("data32", data)) = 4 + len
<1>1. len \in PieceValues /\ data \in PieceValues
  <2>1. "data" \in Texts BY DEF Texts
  <2>2. data \in [len : Nat, is : Texts] BY <2>1
  <2> QED BY <2>2 DEF PieceValues
<1>2. Put("data32", data) = Cat(Piece(4, len), Block(data)) BY DEF Put, Cat
<1>3. Piece(4, len) \in Octets /\ Width(Piece(4, len)) = 4 BY <1>1, PieceType, WidthPiece
<1>4. Block(data) \in Octets /\ Width(Block(data)) = len
  <2>1. CASE len = 0 BY <2>1, NoOctets, WidthEmpty DEF Block
  <2>2. CASE len # 0
    <3>1. Block(data) = Piece(len, data) BY <2>2 DEF Block
    <3> QED BY <3>1, <1>1, PieceType, WidthPiece
  <2> QED BY <2>1, <2>2
<1> QED BY <1>2, <1>3, <1>4, CatType, WidthCat

\* The widths of the other fields of an URB.
LEMMA WidthNumber ==
    ASSUME NEW k \in Nat
    PROVE  /\ Put("u32", k) \in Octets /\ Width(Put("u32", k)) = 4
           /\ Put("i32", k) \in Octets /\ Width(Put("i32", k)) = 4
           /\ Put("u8", k) \in Octets /\ Width(Put("u8", k)) = 1
           /\ Put("transfer", "Bulk") \in Octets /\ Width(Put("transfer", "Bulk")) = 1
<1>1. k \in PieceValues /\ 3 \in PieceValues BY DEF PieceValues
<1>2. /\ Put("u32", k) = Piece(4, k) /\ Put("i32", k) = Piece(4, k)
      /\ Put("u8", k) = Piece(1, k)
  BY DEF Put
<1>3. Put("transfer", "Bulk") = Piece(1, 3) BY DEF Put, Transfers
<1> QED BY <1>1, <1>2, <1>3, PieceType, WidthPiece

\* An URB of any length up to the largest transfer can be sent.
LEMMA SubmitFits ==
    ASSUME NEW ep \in Nat, NEW direction, NEW length \in Nat, length <= MaxTransfer
    PROVE  encode(UrbOut(ep, direction, length)).ok
<1> DEFINE len == UrbDataLen(ep, direction, length)
           data == [len |-> len, is |-> "data"]
           m == UrbOut(ep, direction, length)
           fields == PutFields["UrbSubmit"]
           put == [i \in DOMAIN fields |-> Put(fields[i][2], m.body[fields[i][1]])]
<1>1. len \in Nat /\ len <= 65544 /\ length \in Nat
  <2> HIDE DEF data, m, fields, put
  <2>1. length \in Nat /\ length <= 65536 BY DEF MaxTransfer
  <2>2. UrbDataLen(ep, direction, length) \in {8 + length, 8, length, 0, 8 + 0}
    BY DEF UrbDataLen
  <2> QED BY <2>1, <2>2
<1>2. m.ty = "UrbSubmit" /\ m.ty # "DeviceList"
  <2> HIDE DEF data, fields, put
  <2> QED BY DEF UrbOut
<1>3. fields = << <<"seq", "u32">>, <<"device_id", "u32">>, <<"endpoint", "u8">>,
                  <<"transfer", "transfer">>, <<"requested_length", "u32">>,
                  <<"data", "data32">> >>
  BY DEF PutFields
<1>4. /\ m.body.seq = 1 /\ m.body.device_id = 1 /\ m.body.endpoint = ep
      /\ m.body.transfer = "Bulk" /\ m.body.requested_length = length /\ m.body.data = data
  BY DEF UrbOut
<1>5. ~FieldTooLong(m)
  <2>1. DOMAIN fields = 1..6 BY <1>3
  <2>2. \A i \in 1..6 : fields[i][2] \in {"u8", "u32", "transfer", "data32"} BY <1>3
  <2>3. FitsAll(fields, m.body) BY <2>1, <2>2 DEF FitsAll, Fits
  <2> QED BY <1>2, <2>3 DEF FieldTooLong
<1>6. PutPayload(m) = FlattenSeq(put) BY <1>2 DEF PutPayload, PutAll
<1>7. /\ DOMAIN put = 1..6 /\ put = [i \in 1..6 |-> put[i]]
      /\ put[1] = Put("u32", 1) /\ put[2] = Put("u32", 1) /\ put[3] = Put("u8", ep)
      /\ put[4] = Put("transfer", "Bulk") /\ put[5] = Put("u32", length)
      /\ put[6] = Put("data32", data)
  <2>1. DOMAIN fields = 1..6 BY <1>3
  <2> QED BY <1>3, <1>4, <2>1
<1> HIDE DEF len, m, fields, put
<1>8. /\ put[1] \in Octets /\ Width(put[1]) = 4 /\ put[2] \in Octets /\ Width(put[2]) = 4
      /\ put[3] \in Octets /\ Width(put[3]) = 1 /\ put[4] \in Octets /\ Width(put[4]) = 1
      /\ put[5] \in Octets /\ Width(put[5]) = 4 /\ put[6] \in Octets /\ Width(put[6]) = 4 + len
  BY <1>1, <1>7, WidthNumber, WidthData
<1>9. put \in [1..6 -> Octets]
  <2>1. \A i \in 1..6 : i = 1 \/ i = 2 \/ i = 3 \/ i = 4 \/ i = 5 \/ i = 6 OBVIOUS
  <2>2. \A i \in 1..6 : put[i] \in Octets BY <1>8, <2>1
  <2> QED BY <1>7, <2>2
<1>10. PICK sum \in [0..6 -> Nat] :
          /\ sum[0] = 0 /\ Width(FlattenSeq(put)) = sum[6]
          /\ \A i \in 1..6 : sum[i] = sum[i - 1] + Width(put[i])
  <2>1. 6 \in Nat OBVIOUS
  <2> QED BY <1>9, <2>1, WidthFlat, Zenon
<1>11. /\ sum[1] = sum[0] + Width(put[1]) /\ sum[2] = sum[1] + Width(put[2])
       /\ sum[3] = sum[2] + Width(put[3]) /\ sum[4] = sum[3] + Width(put[4])
       /\ sum[5] = sum[4] + Width(put[5]) /\ sum[6] = sum[5] + Width(put[6])
  <2>1. 1 - 1 = 0 /\ 2 - 1 = 1 /\ 3 - 1 = 2 /\ 4 - 1 = 3 /\ 5 - 1 = 4 /\ 6 - 1 = 5 OBVIOUS
  <2> QED BY <1>10, <2>1
<1>12. Width(PutPayload(m)) = 18 + len BY <1>1, <1>6, <1>8, <1>10, <1>11
<1>13. ~(Width(PutPayload(m)) > MaxPayload) BY <1>1, <1>12 DEF MaxPayload
<1>14. encode(m).ok BY <1>5, <1>13 DEF encode, Ok
<1> QED BY <1>14 DEF m

\* So can its completion.
LEMMA CompleteFits ==
    ASSUME NEW length \in Nat, length <= MaxTransfer
    PROVE  encode(UrbBack(length)).ok
<1> DEFINE data == [len |-> length, is |-> "data"]
           m == UrbBack(length)
           fields == PutFields["UrbComplete"]
           put == [i \in DOMAIN fields |-> Put(fields[i][2], m.body[fields[i][1]])]
<1>1. length \in Nat /\ length <= 65536 BY DEF MaxTransfer
<1>2. m.ty = "UrbComplete" /\ m.ty # "DeviceList"
  <2> HIDE DEF data, fields, put
  <2> QED BY DEF UrbBack
<1>3. fields = << <<"seq", "u32">>, <<"status", "i32">>, <<"data", "data32">> >>
  BY DEF PutFields
<1>4. m.body.seq = 1 /\ m.body.status = 0 /\ m.body.data = data BY DEF UrbBack
<1>5. ~FieldTooLong(m)
  <2>1. DOMAIN fields = 1..3 BY <1>3
  <2>2. \A i \in 1..3 : fields[i][2] \in {"u32", "i32", "data32"} BY <1>3
  <2>3. FitsAll(fields, m.body) BY <2>1, <2>2 DEF FitsAll, Fits
  <2> QED BY <1>2, <2>3 DEF FieldTooLong
<1>6. PutPayload(m) = FlattenSeq(put) BY <1>2 DEF PutPayload, PutAll
<1>7. /\ DOMAIN put = 1..3 /\ put = [i \in 1..3 |-> put[i]]
      /\ put[1] = Put("u32", 1) /\ put[2] = Put("i32", 0) /\ put[3] = Put("data32", data)
  <2>1. DOMAIN fields = 1..3 BY <1>3
  <2> QED BY <1>3, <1>4, <2>1
<1> HIDE DEF m, fields, put
<1>8. /\ put[1] \in Octets /\ Width(put[1]) = 4 /\ put[2] \in Octets /\ Width(put[2]) = 4
      /\ put[3] \in Octets /\ Width(put[3]) = 4 + length
  BY <1>1, <1>7, WidthNumber, WidthData
<1>9. put \in [1..3 -> Octets]
  <2>1. \A i \in 1..3 : i = 1 \/ i = 2 \/ i = 3 OBVIOUS
  <2>2. \A i \in 1..3 : put[i] \in Octets BY <1>8, <2>1
  <2> QED BY <1>7, <2>2
<1>10. PICK sum \in [0..3 -> Nat] :
          /\ sum[0] = 0 /\ Width(FlattenSeq(put)) = sum[3]
          /\ \A i \in 1..3 : sum[i] = sum[i - 1] + Width(put[i])
  <2>1. 3 \in Nat OBVIOUS
  <2> QED BY <1>9, <2>1, WidthFlat, Zenon
<1>11. /\ sum[1] = sum[0] + Width(put[1]) /\ sum[2] = sum[1] + Width(put[2])
       /\ sum[3] = sum[2] + Width(put[3])
  <2>1. 1 - 1 = 0 /\ 2 - 1 = 1 /\ 3 - 1 = 2 OBVIOUS
  <2> QED BY <1>10, <2>1
<1>12. Width(PutPayload(m)) = 12 + length BY <1>1, <1>6, <1>8, <1>10, <1>11
<1>13. ~(Width(PutPayload(m)) > MaxPayload) BY <1>1, <1>12 DEF MaxPayload
<1>14. encode(m).ok BY <1>5, <1>13 DEF encode, Ok
<1> QED BY <1>14 DEF m

\* All transfers that the forwarder lets through fit.
LEMMA EveryTransferFits == TransfersFit
<1>1. MaxTransfer \in Nat BY DEF MaxTransfer
<1>2. \A length \in 0..MaxTransfer : length \in Nat /\ length <= MaxTransfer BY <1>1
<1>3. {0, 1} \subseteq Nat OBVIOUS
<1> QED BY <1>2, <1>3, SubmitFits, CompleteFits DEF TransfersFit

-----------------------------------------------------------------------------
(* Devices as they are listed.                                             *)

\* Padding gives a string the width that was asked for.
LEMMA PaddedWidth ==
    ASSUME NEW len \in Nat, NEW text \in Texts, NEW n \in Nat \ {0}
    PROVE  /\ padded([len |-> len, is |-> text], n) \in Octets
           /\ Width(padded([len |-> len, is |-> text], n)) = n
<1> DEFINE cut == IF len < n THEN len ELSE n - 1
           val == [len |-> cut, is |-> text]
<1>1. cut \in Nat OBVIOUS
<1>2. padded([len |-> len, is |-> text], n) = Piece(n, val) BY DEF padded
<1> HIDE DEF cut
<1>3. val \in [len : Nat, is : Texts] BY <1>1
<1>4. val \in PieceValues BY <1>3 DEF PieceValues
<1> HIDE DEF val
<1> QED BY <1>2, <1>4, PieceType, WidthPiece

\* The values in a device.
LEMMA DeviceFields ==
    ASSUME NEW d, IsDevice(d)
    PROVE  /\ d.id \in Nat /\ d.bus_id \in Blocks /\ d.vid \in Nat /\ d.pid \in Nat
           /\ d.usb_class \in Nat /\ d.speed \in DOMAIN Speeds
<1>1. \A i \in DOMAIN PutDeviceFields : d[PutDeviceFields[i][1]] \in Values(PutDeviceFields[i][2])
  BY DEF IsDevice, HasValues
<1>2. /\ DOMAIN PutDeviceFields = 1..8
      /\ PutDeviceFields[1] = <<"id", "u32">> /\ PutDeviceFields[2] = <<"bus_id", "str8">>
      /\ PutDeviceFields[3] = <<"vid", "u16">> /\ PutDeviceFields[4] = <<"pid", "u16">>
      /\ PutDeviceFields[5] = <<"usb_class", "u8">> /\ PutDeviceFields[6] = <<"speed", "speed">>
  BY DEF PutDeviceFields
<1>3. /\ d.id \in Values("u32") /\ d.bus_id \in Values("str8") /\ d.vid \in Values("u16")
      /\ d.pid \in Values("u16") /\ d.usb_class \in Values("u8") /\ d.speed \in Values("speed")
  BY <1>1, <1>2
<1> QED BY <1>3 DEF Values, Blocks

\* The values in an interface.
LEMMA InterfaceFields ==
    ASSUME NEW f, IsInterface(f)
    PROVE  f.interface_class \in Nat /\ f.interface_subclass \in Nat /\ f.interface_protocol \in Nat
<1>1. \A i \in DOMAIN PutInterfaceFields :
         f[PutInterfaceFields[i][1]] \in Values(PutInterfaceFields[i][2])
  BY DEF IsInterface, HasValues
<1>2. /\ DOMAIN PutInterfaceFields = 1..5
      /\ PutInterfaceFields[2] = <<"interface_class", "u8">>
      /\ PutInterfaceFields[3] = <<"interface_subclass", "u8">>
      /\ PutInterfaceFields[4] = <<"interface_protocol", "u8">>
  BY DEF PutInterfaceFields
<1>3. /\ f.interface_class \in Values("u8") /\ f.interface_subclass \in Values("u8")
      /\ f.interface_protocol \in Values("u8")
  BY <1>1, <1>2
<1> QED BY <1>3 DEF Values

\* The header of a device has 312 bytes, the last of which is niface.
LEMMA HeaderWidth ==
    ASSUME NEW d, IsDevice(d), niface(d) \in Nat
    PROVE  Width(encode_device_header(d)) = 312 /\ Last(encode_device_header(d)).v = niface(d)
<1> DEFINE
      p1 == padded([len |-> 21 + d.bus_id.len, is |-> "path"], 256)
      p2 == padded(d.bus_id, 32)
      p3 == Piece(4, "busnum")
      p4 == Piece(4, d.id)
      p5 == Piece(4, IF d.speed = "Super" THEN 5 ELSE Speeds[d.speed])
      p6 == Piece(2, d.vid)
      p7 == Piece(2, d.pid)
      p8 == Piece(2, 256)
      p9 == Piece(1, d.usb_class)
      p10 == Piece(1, 0)
      p11 == Piece(1, 0)
      p12 == Piece(1, 1)
      p13 == Piece(1, 1)
      p14 == Piece(1, niface(d))
<1>1. /\ d.id \in PieceValues /\ d.vid \in PieceValues /\ d.pid \in PieceValues
      /\ d.usb_class \in PieceValues /\ niface(d) \in PieceValues
      /\ \A k \in Nat : k \in PieceValues
  BY DeviceFields DEF PieceValues
<1>2. "busnum" \in PieceValues /\ "path" \in Texts BY DEF PieceValues, Texts
<1>3. (IF d.speed = "Super" THEN 5 ELSE Speeds[d.speed]) \in PieceValues
  <2>1. Speeds[d.speed] \in Nat BY DeviceFields, CodesDiffer
  <2> QED BY <1>1, <2>1
<1>4. p1 \in Octets /\ Width(p1) = 256
  <2>1. 21 + d.bus_id.len \in Nat
    <3>1. d.bus_id \in Blocks BY DeviceFields
    <3>2. d.bus_id.len \in Nat BY <3>1, BlockType
    <3> QED BY <3>2
  <2> QED BY <1>2, <2>1, PaddedWidth
<1>5. p2 \in Octets /\ Width(p2) = 32
  <2>1. PICK len \in Nat, text \in Texts : d.bus_id = [len |-> len, is |-> text]
    <3>1. d.bus_id \in Blocks BY DeviceFields
    <3>2. d.bus_id \in [len : Nat, is : STRING] BY <3>1 DEF Blocks
    <3>3. /\ d.bus_id.len \in Nat /\ d.bus_id.is \in Texts
          /\ d.bus_id = [len |-> d.bus_id.len, is |-> d.bus_id.is]
      BY <3>2 DEF Texts
    <3> QED BY <3>3
  <2> QED BY <2>1, PaddedWidth
<1>6. /\ p3 \in Octets /\ Width(p3) = 4 /\ p4 \in Octets /\ Width(p4) = 4
      /\ p5 \in Octets /\ Width(p5) = 4
  BY <1>1, <1>2, <1>3, PieceType, WidthPiece
<1>7. /\ p6 \in Octets /\ Width(p6) = 2 /\ p7 \in Octets /\ Width(p7) = 2
      /\ p8 \in Octets /\ Width(p8) = 2
  <2>1. /\ p6 \in Octets /\ Width(p6) = 2 /\ p7 \in Octets /\ Width(p7) = 2
    BY <1>1, PieceType, WidthPiece
  <2>2. 2 \in Nat /\ 256 \in PieceValues BY <1>1
  <2>3. p8 \in Octets /\ Width(p8) = 2 BY <2>2, PieceType, WidthPiece, Zenon
  <2> QED BY <2>1, <2>3
<1>8. /\ p9 \in Octets /\ Width(p9) = 1 /\ p10 \in Octets /\ Width(p10) = 1
      /\ p11 \in Octets /\ Width(p11) = 1 /\ p12 \in Octets /\ Width(p12) = 1
      /\ p13 \in Octets /\ Width(p13) = 1 /\ p14 \in Octets /\ Width(p14) = 1
  BY <1>1, PieceType, WidthPiece
<1> DEFINE
      c1 == p1
      c2 == Cat(c1, p2)
      c3 == Cat(c2, p3)
      c4 == Cat(c3, p4)
      c5 == Cat(c4, p5)
      c6 == Cat(c5, p6)
      c7 == Cat(c6, p7)
      c8 == Cat(c7, p8)
      c9 == Cat(c8, p9)
      c10 == Cat(c9, p10)
      c11 == Cat(c10, p11)
      c12 == Cat(c11, p12)
      c13 == Cat(c12, p13)
      c14 == Cat(c13, p14)
<1>9. encode_device_header(d) = c14 BY DEF encode_device_header, Cat
<1>10. p14 = Single([w |-> 1, v |-> niface(d)]) BY DEF Piece, Single
<1> HIDE DEF p1, p2, p3, p4, p5, p6, p7, p8, p9, p10, p11, p12, p13, p14
<1>11. c1 \in Octets /\ Width(c1) = 256 BY <1>4
<1> HIDE DEF c1
<1>12. c2 \in Octets /\ Width(c2) = 288 BY <1>11, <1>5, CatType, WidthCat
<1> HIDE DEF c2
<1>13. c3 \in Octets /\ Width(c3) = 292 BY <1>12, <1>6, CatType, WidthCat
<1> HIDE DEF c3
<1>14. c4 \in Octets /\ Width(c4) = 296 BY <1>13, <1>6, CatType, WidthCat
<1> HIDE DEF c4
<1>15. c5 \in Octets /\ Width(c5) = 300 BY <1>14, <1>6, CatType, WidthCat
<1> HIDE DEF c5
<1>16. c6 \in Octets /\ Width(c6) = 302 BY <1>15, <1>7, CatType, WidthCat
<1> HIDE DEF c6
<1>17. c7 \in Octets /\ Width(c7) = 304 BY <1>16, <1>7, CatType, WidthCat
<1> HIDE DEF c7
<1>18. c8 \in Octets /\ Width(c8) = 306 BY <1>17, <1>7, CatType, WidthCat
<1> HIDE DEF c8
<1>19. c9 \in Octets /\ Width(c9) = 307 BY <1>18, <1>8, CatType, WidthCat
<1> HIDE DEF c9
<1>20. c10 \in Octets /\ Width(c10) = 308 BY <1>19, <1>8, CatType, WidthCat
<1> HIDE DEF c10
<1>21. c11 \in Octets /\ Width(c11) = 309 BY <1>20, <1>8, CatType, WidthCat
<1> HIDE DEF c11
<1>22. c12 \in Octets /\ Width(c12) = 310 BY <1>21, <1>8, CatType, WidthCat
<1> HIDE DEF c12
<1>23. c13 \in Octets /\ Width(c13) = 311 BY <1>22, <1>8, CatType, WidthCat
<1> HIDE DEF c13
<1>24. c14 \in Octets /\ Width(c14) = 312 BY <1>23, <1>8, CatType, WidthCat
<1>25. c14 = Cat(c13, Single([w |-> 1, v |-> niface(d)])) BY <1>10
<1>26. [w |-> 1, v |-> niface(d)] \in Pieces BY <1>1, PieceType
<1>27. Last(c14).v = niface(d)
  <2> DEFINE e == [w |-> 1, v |-> niface(d)]
  <2>1. e.v = niface(d) OBVIOUS
  <2> HIDE DEF e
  <2>2. c13 \in Seq(Pieces) /\ <<e>> \in Seq(Pieces) /\ c14 = c13 \o <<e>>
    BY <1>23, <1>25, <1>26 DEF Octets, Cat, Single, e
  <2> HIDE DEF c14
  <2>3. Len(c13) \in Nat /\ Len(c14) = Len(c13) + 1 /\ c14[Len(c13) + 1] = e
    BY <2>2, ConcatProperties
  <2> QED BY <2>1, <2>3 DEF Last
<1> QED BY <1>9, <1>24, <1>27

\* The record of an interface has four bytes.
LEMMA InterfaceWidth ==
    ASSUME NEW a \in Nat, NEW b \in Nat, NEW c \in Nat
    PROVE  LET s == Cat(Cat(Cat(Piece(1, a), Piece(1, b)), Piece(1, c)), Piece(1, 0))
           IN  s \in Octets /\ Width(s) = 4
<1> DEFINE pa == Piece(1, a)  pb == Piece(1, b)  pc == Piece(1, c)  pd == Piece(1, 0)
           s2 == Cat(pa, pb)  s3 == Cat(s2, pc)  s4 == Cat(s3, pd)
<1>1. \A k \in Nat : k \in PieceValues BY DEF PieceValues
<1>2. /\ pa \in Octets /\ Width(pa) = 1 /\ pb \in Octets /\ Width(pb) = 1
      /\ pc \in Octets /\ Width(pc) = 1 /\ pd \in Octets /\ Width(pd) = 1
  BY <1>1, PieceType, WidthPiece
<1>3. s4 \in Octets /\ Width(s4) = 4
  <2> HIDE DEF pa, pb, pc, pd
  <2>1. s2 \in Octets /\ Width(s2) = 2 BY <1>2, CatType, WidthCat
  <2> HIDE DEF s2
  <2>2. s3 \in Octets /\ Width(s3) = 3 BY <1>2, <2>1, CatType, WidthCat
  <2> HIDE DEF s3
  <2> QED BY <1>2, <2>2, CatType, WidthCat
<1> QED BY <1>3

\* The records of the interfaces of a device have four bytes for each of niface.
LEMMA InterfacesWidth ==
    ASSUME NEW d, IsDevice(d), Len(d.interfaces) <= 255
    PROVE  niface(d) \in Nat /\ Width(encode_interfaces(d)) = 4 * niface(d)
<1> DEFINE n == Len(d.interfaces)
<1>1. /\ n \in Nat /\ DOMAIN d.interfaces = 1..n
      /\ \A i \in 1..n : IsInterface(d.interfaces[i])
  <2>1. d.interfaces \in Seq(ToSet(d.interfaces)) BY DEF IsDevice
  <2>2. n \in Nat /\ DOMAIN d.interfaces = 1..n BY <2>1, LenProperties
  <2>3. \A f \in ToSet(d.interfaces) : IsInterface(f) BY DEF IsDevice
  <2> QED BY <2>2, <2>3 DEF ToSet
<1>2. CASE d.interfaces = <<>>
  <2>1. n = 0 BY <1>2
  <2>2. niface(d) = 1 BY <2>1 DEF niface
  <2>3. encode_interfaces(d) =
            Cat(Cat(Cat(Piece(1, d.usb_class), Piece(1, 0)), Piece(1, 0)), Piece(1, 0))
    BY <1>2 DEF encode_interfaces, Cat
  <2>4. d.usb_class \in Nat /\ 0 \in Nat BY DeviceFields
  <2>5. Width(encode_interfaces(d)) = 4 BY <2>3, <2>4, InterfaceWidth
  <2> QED BY <2>2, <2>5
<1>3. CASE d.interfaces # <<>>
  <2> DEFINE Rec(f) == Cat(Cat(Cat(Piece(1, f.interface_class), Piece(1, f.interface_subclass)),
                               Piece(1, f.interface_protocol)), Piece(1, 0))
             put == [i \in 1..n |-> Rec(d.interfaces[i])]
  <2>1. n # 0
    <3>1. d.interfaces \in Seq(ToSet(d.interfaces)) BY DEF IsDevice
    <3> QED BY <1>3, <3>1, EmptySeq
  <2>2. niface(d) = n
    <3>1. n <= 255 /\ n \in Nat /\ n # 0 BY <1>1, <2>1
    <3>2. \A k \in Nat : k <= 255 /\ k # 0 => k \in 1..255 OBVIOUS
    <3>3. n \in 1..255
      <4> HIDE DEF n
      <4> QED BY <3>1, <3>2, Zenon
    <3> QED BY <3>3 DEF niface
  <2>3. encode_interfaces(d) = FlattenSeq(put) BY <1>1, <1>3 DEF encode_interfaces, Cat
  <2>4. ASSUME NEW i \in 1..n PROVE put[i] \in Octets /\ Width(put[i]) = 4
    <3> DEFINE f == d.interfaces[i]
    <3>1. /\ f.interface_class \in Nat /\ f.interface_subclass \in Nat
          /\ f.interface_protocol \in Nat
      BY <1>1, InterfaceFields
    <3>2. put[i] = Rec(f) OBVIOUS
    <3> HIDE DEF f, put
    <3> QED BY <3>1, <3>2, InterfaceWidth
  <2>5. put \in [1..n -> Octets] BY <2>4
  <2> HIDE DEF n, put
  <2>6. PICK sum \in [0..n -> Nat] :
           /\ sum[0] = 0 /\ Width(FlattenSeq(put)) = sum[n]
           /\ \A i \in 1..n : sum[i] = sum[i - 1] + Width(put[i])
    BY <1>1, <2>5, WidthFlat
  <2> DEFINE H == {k \in Nat : sum[k] = 4 * k}
  <2>7. 0 \in H BY <2>6
  <2>8. \A k \in 1..n : k - 1 \in H => k \in H
    <3> SUFFICES ASSUME NEW k \in 1..n, k - 1 \in H PROVE k \in H OBVIOUS
    <3>1. sum[k] = sum[k - 1] + 4 BY <2>4, <2>6
    <3>2. sum[k - 1] = 4 * (k - 1) OBVIOUS
    <3>3. k \in Nat /\ 4 * (k - 1) + 4 = 4 * k BY <1>1
    <3> QED BY <3>1, <3>2, <3>3
  <2> HIDE DEF H
  <2>9. sum[n] = 4 * n
    <3>1. \A k \in 0..n : k \in H BY <1>1, <2>7, <2>8, UpTo, Zenon
    <3> QED BY <1>1, <3>1 DEF H
  <2> QED BY <1>1, <2>2, <2>3, <2>6, <2>9
<1> QED BY <1>2, <1>3

\* Every device that came over the wire is listed in step.
LEMMA DevicesInStep == ListedInStep
<1> SUFFICES ASSUME NEW m \in Samples, m.ty = "DeviceList", encode(m).ok,
                    NEW d \in ToSet(m.body.devices)
             PROVE  /\ Width(encode_device_header(d)) = 312
                    /\ Width(encode_interfaces(d)) = 4 * Last(encode_device_header(d)).v
  BY DEF ListedInStep
<1>1. IsDevice(d) BY SamplesAssumption DEF IsMessage
<1>2. ~FieldTooLong(m) BY DEF encode, Err
<1>3. ~(Len(d.interfaces) > 255) BY <1>2 DEF FieldTooLong
<1>4. Len(d.interfaces) <= 255
  <2>1. Len(d.interfaces) \in Nat BY <1>1, LenProperties DEF IsDevice
  <2> QED BY <1>3, <2>1
<1> QED BY <1>1, <1>4, HeaderWidth, InterfacesWidth

-----------------------------------------------------------------------------
(* Of connections.                                                         *)

\* Over a connection that is up both ends read exactly what the other wrote,
\* whatever messages are sent (farbus-protocol lib.rs and usbip.rs, where encode
\* and decode describe each layout by hand).
THEOREM DecodeUndoesEncode == Spec => []RoundTrip
<1>1. LayoutsAgree BY SamplesAssumption, MessageExact, UsbipHeadersAgree DEF LayoutsAgree
<1>2. RoundTrip BY <1>1 DEF RoundTrip
<1> QED BY <1>2, PTL

\* No URB ends its session by its length, for every length that the forwarder and
\* the host let through (usbip_forward.rs:290 and host_usb.rs:166 against
\* MAX_PAYLOAD).
THEOREM TransfersAlwaysFit == Spec => []UrbsFit
<1>1. UrbsFit BY EveryTransferFits DEF UrbsFit
<1> QED BY <1>1, PTL

\* The device list that a USB/IP client gets never loses step, for any devices
\* with any interfaces (encode_device_header and encode_interfaces, which count
\* the interfaces independently).
THEOREM DevlistNeverLosesStep == Spec => []DevlistInStep
<1>1. DevlistInStep BY DevicesInStep DEF DevlistInStep
<1> QED BY <1>1, PTL
=============================================================================
