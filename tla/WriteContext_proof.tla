------------------------- MODULE WriteContext_proof -------------------------
(***************************************************************************)
(* Proofs about the sending half of a connection, for any number of        *)
(* slices, any mark and any strings.  What is said of the stream holds as  *)
(* long as writev does not fail with an error after which it is repeated   *)
(* and the coroutine finishes once an await has reported an error;         *)
(* AlwaysRetrieveIsLoop needs neither.                                     *)
(***************************************************************************)
EXTENDS WriteContext, WellFoundedInduction, TLAPS

(* frags are adjacent fragments with the positions from lo up to hi - 1 *)
Contiguous(frags, lo, hi) ==
    /\ frags \in Seq(Fragments)
    /\ \A i \in 1 .. Len(frags) : frags[i].pos <= frags[i].end
    /\ \A i, j \in 1 .. Len(frags) : j = i + 1 => frags[i].end = frags[j].pos
    /\ \A i, j \in 1 .. Len(frags) : i < j => frags[i].end <= frags[j].pos
    /\ Len(frags) = 0 => lo = hi
    /\ Len(frags) > 0 => frags[1].pos = lo /\ frags[Len(frags)].end = hi

(* t are the oldest fragments of the buffer q, and curr_ is behind them *)
Front(t, q) ==
    /\ t \in Seq(Fragments)
    /\ Len(t) <= Len(q.frags)
    /\ t = SubSeq(q.frags, 1, Len(t))
    /\ q.curr = Len(t) + 1

Queues == [frags : Seq(Fragments), curr : Nat \ {0}, total_len : Int]

(* The strengthening of SqeHeld: who has the loop's thread, that nobody      *)
(* resumes the coroutine of a closed connection, and that a request made in  *)
(* the error path is without a holder once the connection is closed and      *)
(* reaches the kernel after that.                                            *)
ControlInv ==
    /\ SqeHeld
    /\ sqe \in {"none", "prepared", "inflight", "cqe"}
    /\ pc \in CoPcs \cup {"loop", "wclose", "rclose"}
    /\ co = "running" <=> pc \in CoPcs
    /\ co \in {"running", "read", "write", "done", "destroyed"}
    /\ pc \in {"co_wclose", "wclose"} => is_error /\ sqe \in {"none", "prepared"}
    /\ co = "read" => read_handle
    /\ co = "write" => write_handle
    /\ closing => ~read_handle /\ ~write_handle /\ co \in {"done", "destroyed"}
    /\ is_error => pc \in {"co_wclose", "wclose"} \/ (closing /\ ~holder /\ pc = "loop")
    /\ is_error /\ sqe \in {"inflight", "cqe"} => ~sqe_open

(* the first position that retrieve() has not removed: a completion that is *)
(* not handled yet accounts for the last res bytes of the wire              *)
FirstKept == Len(wire) + 1 - (IF sqe = "cqe" /\ res # Fatal THEN res ELSE 0)

(* The strengthening of BatchIsFront: the buffer holds exactly the positions *)
(* from FirstKept to the last one appended, and an idle buffer has curr_ at  *)
(* its head.                                                                 *)
DataInv ==
    /\ output_buffer \in Queues
    /\ appended \in Nat
    /\ wire \in Seq(Nat) /\ Len(wire) <= appended
    /\ sqe = "cqe" => res = Fatal \/ res \in 0 .. Len(wire)
    /\ ~is_error => /\ Contiguous(output_buffer.frags, FirstKept, appended + 1)
                    /\ sqe = "none" => output_buffer.curr = 1
                    /\ sqe # "none" => Front(temp_data, output_buffer)
    /\ is_error => output_buffer.curr <= Len(output_buffer.frags) + 1

-----------------------------------------------------------------------------
(* an element appended to a sequence *)
LEMMA AppendProperties ==
  ASSUME NEW E, NEW q \in Seq(E), NEW e \in E
  PROVE  LET r == Append(q, e) IN
         /\ r \in Seq(E) /\ r # <<>> /\ Len(r) = Len(q) + 1
         /\ r[Len(q) + 1] = e
         /\ \A k \in 1 .. Len(q) : r[k] = q[k]
  OBVIOUS

(* an element of a sequence *)
LEMMA ElementOfSeq ==
  ASSUME NEW E, NEW q \in Seq(E), NEW k \in 1 .. Len(q)
  PROVE  q[k] \in E
  OBVIOUS

(* the empty sequence is the one without a first element *)
LEMMA EmptySeq ==
  ASSUME NEW E
  PROVE  /\ <<>> \in Seq(E) /\ Len(<<>>) = 0
         /\ \A q \in Seq(E) : q # <<>> => Len(q) \in Nat \ {0}
  OBVIOUS

(* the first element of a sequence, and the rest of it *)
LEMMA HeadTailProperties ==
  ASSUME NEW E, NEW q \in Seq(E), q # <<>>
  PROVE  /\ Head(q) \in E
         /\ Tail(q) \in Seq(E) /\ Len(Tail(q)) = Len(q) - 1
         /\ \A k \in 1 .. Len(Tail(q)) : Tail(q)[k] = q[k + 1]
  OBVIOUS

(* a segment of a sequence *)
LEMMA SubSeqProperties ==
  ASSUME NEW E, NEW q, NEW a \in Int, NEW b \in Int, \A k \in a .. b : q[k] \in E
  PROVE  LET r == SubSeq(q, a, b) IN
         /\ r \in Seq(E) /\ Len(r) = IF a <= b THEN b - a + 1 ELSE 0
         /\ \A k \in 1 .. b - a + 1 : r[k] = q[a + k - 1]
  OBVIOUS

(* two sequences, one after the other *)
LEMMA ConcatProperties ==
  ASSUME NEW E, NEW p \in Seq(E), NEW q \in Seq(E)
  PROVE  LET r == p \o q IN
         /\ r \in Seq(E) /\ Len(r) = Len(p) + Len(q)
         /\ \A k \in 1 .. Len(p) + Len(q) :
                r[k] = IF k <= Len(p) THEN p[k] ELSE q[k - Len(p)]
  OBVIOUS

(* nothing put before or after a sequence *)
LEMMA ConcatEmptySeq ==
  ASSUME NEW E, NEW q \in Seq(E)
  PROVE  q \o <<>> = q /\ <<>> \o q = q
  OBVIOUS

(* two sequences of the same length with the same elements are equal *)
LEMMA SeqEqual ==
  ASSUME NEW E, NEW q \in Seq(E), NEW r \in Seq(E),
         Len(q) = Len(r), \A k \in 1 .. Len(q) : q[k] = r[k]
  PROVE  q = r
  OBVIOUS

(* append() at the end of the stream *)
LEMMA AppendContiguous ==
  ASSUME NEW frags, NEW lo \in Nat, NEW hi \in Nat, NEW n \in Nat, Contiguous(frags, lo, hi)
  PROVE  Contiguous(Append(frags, [pos |-> hi, end |-> hi + n]), lo, hi + n)
  <1> DEFINE f == [pos |-> hi, end |-> hi + n]
             r == Append(frags, f)
  <1>1. frags \in Seq(Fragments) /\ f \in Fragments /\ f.pos = hi /\ f.end = hi + n
    BY DEF Contiguous, Fragments
  <1>2. /\ r \in Seq(Fragments) /\ Len(r) = Len(frags) + 1 /\ Len(frags) \in Nat
        /\ \A i \in 1 .. Len(frags) : r[i] = frags[i]
        /\ r[Len(frags) + 1] = f
    BY <1>1, AppendProperties
  <1>3. \A i \in 1 .. Len(frags) : frags[i].pos \in Nat /\ frags[i].end \in Nat
    <2>1. \A i \in 1 .. Len(frags) : frags[i] \in Fragments
      BY <1>1, ElementOfSeq
    <2> QED
      BY <2>1 DEF Fragments
  <1>4. \A i \in 1 .. Len(frags) : frags[i].end <= hi
    <2> TAKE i \in 1 .. Len(frags)
    <2>1. CASE i = Len(frags)
      BY <1>2, <1>3, <2>1 DEF Contiguous
    <2>2. CASE i < Len(frags)
      <3> DEFINE last == Len(frags)
      <3>1. last \in 1 .. Len(frags) /\ i < last /\ Len(frags) > 0
        BY <1>2, <2>2
      <3> HIDE DEF last
      <3>2. frags[i].end <= frags[last].pos /\ frags[last].pos <= frags[last].end
        BY <3>1 DEF Contiguous
      <3>3. frags[last].end = hi
        BY <3>1 DEF Contiguous, last
      <3> QED
        BY <1>3, <3>1, <3>2, <3>3
    <2> QED
      BY <1>2, <2>1, <2>2
  <1> HIDE DEF f, r
  <1>5. \A i \in 1 .. Len(r) : r[i].pos <= r[i].end
    BY <1>1, <1>2, <1>3 DEF Contiguous
  <1>6. \A i, j \in 1 .. Len(r) : j = i + 1 => r[i].end = r[j].pos
    <2> SUFFICES ASSUME NEW i \in 1 .. Len(r), NEW j \in 1 .. Len(r), j = i + 1
                 PROVE  r[i].end = r[j].pos
      OBVIOUS
    <2>1. CASE j = Len(frags) + 1
      BY <1>1, <1>2, <2>1 DEF Contiguous
    <2>2. CASE j \in 1 .. Len(frags)
      BY <1>2, <2>2 DEF Contiguous
    <2> QED
      BY <1>2, <2>1, <2>2
  <1>7. \A i, j \in 1 .. Len(r) : i < j => r[i].end <= r[j].pos
    <2> SUFFICES ASSUME NEW i \in 1 .. Len(r), NEW j \in 1 .. Len(r), i < j
                 PROVE  r[i].end <= r[j].pos
      OBVIOUS
    <2>1. CASE j = Len(frags) + 1
      BY <1>1, <1>2, <1>4, <2>1
    <2>2. CASE j \in 1 .. Len(frags)
      BY <1>2, <2>2 DEF Contiguous
    <2> QED
      BY <1>2, <2>1, <2>2
  <1>8. r[1].pos = lo /\ r[Len(r)].end = hi + n
    BY <1>1, <1>2 DEF Contiguous
  <1>9. Contiguous(r, lo, hi + n)
    BY <1>2, <1>5, <1>6, <1>7, <1>8 DEF Contiguous
  <1> QED
    BY <1>9 DEF r, f

(* a nonempty set of natural numbers has a least element *)
LEMMA LeastElement ==
  ASSUME NEW T, T \subseteq Nat, T # {}
  PROVE  \E k \in T : \A j \in T : ~(j < k)
  <1> DEFINE R == OpToRel(<, Nat)
  <1>1. IsWellFoundedOn(R, Nat)
    BY NatLessThanWellFounded
  <1>2. \A i, j \in Nat : i < j => <<i, j>> \in R
    BY DEF OpToRel
  <1> HIDE DEF R
  <1>3. \E k \in T : \A j \in T : ~(<<j, k>> \in R)
    BY <1>1, WFMin
  <1> QED
    BY <1>2, <1>3

(* the loop of retrieve() ends: there is a first fragment that is not popped *)
LEMMA PoppedProperty ==
  ASSUME NEW q, q.frags \in Seq(Fragments), NEW len \in Nat
  PROVE  LET k == Popped(q, len) IN
         /\ k \in 0 .. Len(q.frags)
         /\ \A i \in 1 .. k : Pops(q, len, i)
         /\ k < Len(q.frags) => ~Pops(q, len, k + 1)
  <1> DEFINE n == Len(q.frags)
             Stops == {k \in Nat : k = n \/ (k < n /\ ~Pops(q, len, k + 1))}
  <1>1. n \in Nat
    OBVIOUS
  <1>2. n \in Stops
    BY <1>1
  <1>3. PICK k \in Stops : \A j \in Stops : ~(j < k)
    <2>1. Stops \subseteq Nat /\ Stops # {}
      BY <1>2
    <2> QED
      BY <2>1, LeastElement
  <1>4. k \in 0 .. n /\ (k < n => ~Pops(q, len, k + 1))
    BY <1>1, <1>3
  <1>5. ASSUME NEW i \in 1 .. k PROVE Pops(q, len, i)
    <2>1. i - 1 \in Nat /\ i - 1 < k
      BY <1>4, <1>5
    <2>3. i - 1 \notin Stops
      BY <1>3, <2>1
    <2>4. i - 1 < n
      BY <1>1, <1>4, <2>1
    <2>5. Pops(q, len, (i - 1) + 1)
      BY <2>1, <2>3, <2>4
    <2>6. (i - 1) + 1 = i
      BY <1>5, <1>4
    <2> QED
      BY <2>5, <2>6
  <1> QED
    BY <1>4, <1>5 DEF Popped

(* a suffix of adjacent fragments whose first one begins later *)
LEMMA SuffixContiguous ==
  ASSUME NEW frags, NEW lo \in Nat, NEW hi \in Nat, Contiguous(frags, lo, hi),
         NEW k \in Nat, k < Len(frags),
         NEW p \in Nat, frags[k + 1].pos <= p, p <= frags[k + 1].end,
         NEW r \in Seq(Fragments), Len(r) = Len(frags) - k,
         r[1] = [pos |-> p, end |-> frags[k + 1].end],
         \A i \in 2 .. Len(r) : r[i] = frags[k + i]
  PROVE  Contiguous(r, p, hi)
  <1>1. frags \in Seq(Fragments) /\ Len(frags) \in Nat /\ Len(r) \in Nat /\ Len(r) >= 1
    BY DEF Contiguous
  <1>2. \A i \in 1 .. Len(frags) : frags[i].pos \in Nat /\ frags[i].end \in Nat
    <2>1. \A i \in 1 .. Len(frags) : frags[i] \in Fragments
      BY <1>1, ElementOfSeq
    <2> QED
      BY <2>1 DEF Fragments
  <1>3. r[1].pos = p /\ r[1].end = frags[k + 1].end
    OBVIOUS
  <1>4. \A i \in 1 .. Len(r) : k + i \in 1 .. Len(frags) /\ r[i].end = frags[k + i].end
    <2> TAKE i \in 1 .. Len(r)
    <2>1. k + i \in 1 .. Len(frags)
      BY <1>1
    <2>2. CASE i = 1
      BY <1>3, <2>1, <2>2
    <2>3. CASE i \in 2 .. Len(r)
      BY <2>1, <2>3
    <2> QED
      BY <1>1, <2>1, <2>2, <2>3
  <1>5. \A i \in 2 .. Len(r) : r[i].pos = frags[k + i].pos
    BY <1>1
  <1>6. \A i \in 1 .. Len(r) : r[i].pos <= r[i].end
    <2> TAKE i \in 1 .. Len(r)
    <2>1. CASE i = 1
      BY <1>3, <2>1
    <2>2. CASE i \in 2 .. Len(r)
      BY <1>4, <1>5, <2>2 DEF Contiguous
    <2> QED
      BY <1>1, <2>1, <2>2
  <1>7. ASSUME NEW i \in 1 .. Len(r), NEW j \in 1 .. Len(r), i < j
        PROVE  /\ j = i + 1 => r[i].end = r[j].pos
               /\ r[i].end <= r[j].pos
    <2>1. j \in 2 .. Len(r) /\ k + i < k + j /\ (j = i + 1 => k + j = (k + i) + 1)
      BY <1>1, <1>7
    <2>2. r[j].pos = frags[k + j].pos /\ r[i].end = frags[k + i].end
      BY <1>4, <1>5, <2>1
    <2>3. k + i \in 1 .. Len(frags) /\ k + j \in 1 .. Len(frags)
      BY <1>4
    <2>4. frags[k + i].end <= frags[k + j].pos
      BY <2>1, <2>3 DEF Contiguous
    <2>5. j = i + 1 => frags[k + i].end = frags[k + j].pos
      BY <2>1, <2>3 DEF Contiguous
    <2> QED
      BY <2>2, <2>4, <2>5
  <1>8. r[Len(r)].end = hi
    <2>1. r[Len(r)].end = frags[k + Len(r)].end /\ k + Len(r) = Len(frags) /\ Len(frags) > 0
      <3>1. Len(r) \in 1 .. Len(r) /\ k + Len(r) = Len(frags) /\ Len(frags) > 0
        BY <1>1
      <3> QED
        BY <1>4, <3>1
    <2> QED
      BY <2>1 DEF Contiguous
  <1>9. \A i, j \in 1 .. Len(r) : j = i + 1 => r[i].end = r[j].pos
    <2> SUFFICES ASSUME NEW i \in 1 .. Len(r), NEW j \in 1 .. Len(r), j = i + 1
                 PROVE  r[i].end = r[j].pos
      OBVIOUS
    <2>1. i < j
      BY <1>1
    <2> QED
      BY <1>7, <2>1
  <1>10. \A i, j \in 1 .. Len(r) : i < j => r[i].end <= r[j].pos
    BY <1>7
  <1> QED
    BY <1>1, <1>3, <1>6, <1>8, <1>9, <1>10 DEF Contiguous

(* what is left of a sequence without its first k elements *)
LEMMA SuffixProperties ==
  ASSUME NEW S, NEW s \in Seq(S), NEW k \in 0 .. Len(s)
  PROVE  LET r == SubSeq(s, k + 1, Len(s)) IN
         /\ r \in Seq(S) /\ Len(r) = Len(s) - k
         /\ \A i \in 1 .. Len(s) - k : r[i] = s[k + i]
  <1> DEFINE r == SubSeq(s, k + 1, Len(s))
  <1>1. Len(s) \in Nat /\ k \in Nat /\ k + 1 \in Nat
    OBVIOUS
  <1>2. \A i \in k + 1 .. Len(s) : s[i] \in S
    BY <1>1, ElementOfSeq
  <1>3. /\ r \in Seq(S)
        /\ Len(r) = IF k + 1 <= Len(s) THEN Len(s) - (k + 1) + 1 ELSE 0
        /\ \A i \in 1 .. Len(s) - (k + 1) + 1 : r[i] = s[(k + 1) + i - 1]
    BY <1>1, <1>2, SubSeqProperties
  <1> HIDE DEF r
  <1>4. Len(r) = Len(s) - k /\ Len(s) - (k + 1) + 1 = Len(s) - k
    BY <1>1, <1>3
  <1>5. \A i \in 1 .. Len(s) - k : r[i] = s[k + i]
    <2> TAKE i \in 1 .. Len(s) - k
    <2>1. (k + 1) + i - 1 = k + i
      BY <1>1
    <2> QED
      BY <1>3, <1>4, <2>1
  <1> QED
    BY <1>3, <1>4, <1>5 DEF r

(* retrieve(len) removes exactly the len oldest bytes and puts curr_ at the  *)
(* head of what is left.                                                     *)
LEMMA RetrieveContiguous ==
  ASSUME NEW q, NEW lo \in Nat, NEW hi \in Nat, Contiguous(q.frags, lo, hi),
         NEW len \in Nat, lo + len <= hi
  PROVE  /\ Contiguous(Retrieve(q, len).frags, lo + len, hi)
         /\ q.frags # <<>> => Retrieve(q, len).curr = 1
  <1> DEFINE frags == q.frags
             n == Len(frags)
             k == Popped(q, len)
             rest == SubSeq(frags, k + 1, n)
             p == lo + len
  <1>1. frags \in Seq(Fragments) /\ n \in Nat
    BY DEF Contiguous
  <1>2. /\ k \in 0 .. n
        /\ \A i \in 1 .. k : Pops(q, len, i)
        /\ k < n => ~Pops(q, len, k + 1)
    BY <1>1, PoppedProperty
  <1>3. \A i \in 1 .. n : frags[i] \in Fragments /\ frags[i].pos \in Nat /\ frags[i].end \in Nat
    <2>1. \A i \in 1 .. n : frags[i] \in Fragments
      BY <1>1, ElementOfSeq
    <2> QED
      BY <2>1 DEF Fragments
  <1>4. CASE frags = <<>>
    <2>1. Retrieve(q, len) = q /\ n = 0
      BY <1>4 DEF Retrieve
    <2>2. lo = hi /\ len = 0
      BY <2>1 DEF Contiguous
    <2> QED
      BY <1>4, <2>1, <2>2
  <1>5. CASE frags # <<>>
    <2>1. /\ Retrieve(q, len).frags = Advanced(q, len, rest)
          /\ Retrieve(q, len).curr = 1
      BY <1>5 DEF Retrieve, CursorAtHead
    <2>2. n > 0 /\ frags[1].pos = lo /\ frags[n].end = hi
      BY <1>1, <1>5, EmptySeq DEF Contiguous
    <2>3. /\ rest \in Seq(Fragments) /\ Len(rest) = n - k
          /\ \A i \in 1 .. n - k : rest[i] = frags[k + i]
      <3> HIDE DEF k, frags
      <3> QED
        BY <1>1, <1>2, SuffixProperties
    <2> HIDE DEF k, rest
    <2>4. CASE k = n
      <3>1. rest = <<>>
        BY <2>3, <2>4, EmptySeq
      <3>2. Pops(q, len, n)
        BY <1>2, <2>2, <2>4
      <3>3. hi - lo <= len
        BY <2>2, <3>2 DEF Pops
      <3>4. p = hi
        BY <3>3
      <3>5. Advanced(q, len, rest) = <<>>
        BY <3>1 DEF Advanced
      <3> QED
        BY <2>1, <3>4, <3>5 DEF Contiguous
    <2>5. CASE k < n
      <3>1. k \in Nat /\ k + 1 \in 1 .. n /\ ~Pops(q, len, k + 1)
        BY <1>1, <1>2, <2>5
      <3>2. frags[k + 1].pos <= p
        <4>1. CASE k = 0
          BY <2>2, <4>1
        <4>2. CASE k > 0
          <5>1. k \in 1 .. n /\ Pops(q, len, k)
            BY <1>1, <1>2, <4>2
          <5>2. frags[k].end - lo <= len
            BY <2>2, <5>1 DEF Pops
          <5>3. frags[k].end = frags[k + 1].pos
            BY <3>1, <5>1 DEF Contiguous
          <5> QED
            BY <1>3, <3>1, <5>1, <5>2, <5>3
        <4> QED
          BY <3>1, <4>1, <4>2
      <3>3. /\ frags[k + 1].pos \in Nat /\ frags[k + 1].end \in Nat
            /\ frags[k + 1].pos <= frags[k + 1].end
        BY <1>3, <3>1 DEF Contiguous
      <3>4. frags[k + 1].pos - lo >= len \/ frags[k + 1].end - lo > len
        <4>1. ~(frags[k + 1].pos - frags[1].pos < len /\ frags[k + 1].end - frags[1].pos <= len)
          BY <3>1 DEF Pops
        <4>2. frags[1].pos = lo
          BY <2>2
        <4>3. ~(frags[k + 1].pos - lo < len /\ frags[k + 1].end - lo <= len)
          BY <4>1, <4>2
        <4>4. ASSUME NEW a \in Nat, NEW b \in Nat, ~(a - lo < len /\ b - lo <= len)
              PROVE  a - lo >= len \/ b - lo > len
          BY <4>4
        <4> QED
          BY <3>3, <4>3, <4>4
      <3>5. p <= frags[k + 1].end
        BY <3>2, <3>3, <3>4
      <3>6. rest # <<>> /\ rest[1] = frags[k + 1] /\ rest[1] \in Fragments /\ Len(rest) \in Nat
        BY <1>1, <1>3, <2>3, <3>1, EmptySeq
      <3>9. Len(rest) = n - k
        BY <2>3
      <3>10. 1 \in 1 .. Len(rest) /\ p \in Nat
        BY <1>1, <3>1, <3>9
      <3> DEFINE r == Advanced(q, len, rest)
      <3>7. /\ r \in Seq(Fragments) /\ Len(r) = Len(rest)
            /\ r[1] = [pos |-> p, end |-> frags[k + 1].end]
            /\ \A i \in 2 .. Len(r) : r[i] = rest[i]
        <4>1. CASE rest[1].pos - frags[1].pos >= len
          <5>1. r = rest
            BY <4>1 DEF Advanced
          <5>2. rest[1].pos = p
            <6>1. frags[k + 1].pos - lo >= len
              BY <2>2, <3>6, <4>1
            <6>2. frags[k + 1].pos = p
              BY <3>2, <3>3, <6>1
            <6> QED
              BY <3>6, <6>2
          <5>3. rest[1] = [pos |-> rest[1].pos, end |-> rest[1].end]
            BY <3>6 DEF Fragments
          <5> QED
            BY <2>3, <3>6, <5>1, <5>2, <5>3
        <4>2. CASE ~(rest[1].pos - frags[1].pos >= len)
          <5>1. r = [rest EXCEPT ![1].pos = p]
            BY <2>2, <3>6, <4>2 DEF Advanced
          <5>2. 1 \in 1 .. Len(rest) /\ p \in Nat
            BY <3>10
          <5>3. [rest[1] EXCEPT !.pos = p] = [pos |-> p, end |-> frags[k + 1].end]
            BY <3>6 DEF Fragments
          <5>4. [pos |-> p, end |-> frags[k + 1].end] \in Fragments
            BY <3>3, <5>2 DEF Fragments
          <5>5. r = [rest EXCEPT ![1] = [pos |-> p, end |-> frags[k + 1].end]]
            BY <5>1, <5>3
          <5> QED
            BY <2>3, <5>2, <5>4, <5>5
        <4> QED
          BY <4>1, <4>2
      <3> HIDE DEF r
      <3>8. Contiguous(r, p, hi)
        <4>1. \A i \in 2 .. Len(r) : r[i] = frags[k + i]
          BY <1>1, <2>3, <3>1, <3>7
        <4> HIDE DEF p, n
        <4>2. Len(r) = Len(frags) - k /\ k < Len(frags) /\ p \in Nat
          BY <2>3, <2>5, <3>7 DEF n, p
        <4> QED
          BY <3>1, <3>2, <3>5, <3>7, <4>1, <4>2, SuffixContiguous
      <3> QED
        BY <2>1, <3>8 DEF r
    <2> QED
      BY <1>1, <1>2, <2>4, <2>5
  <1> QED
    BY <1>4, <1>5

(* getBatchFragment() from the head of the queue takes its oldest fragments *)
LEMMA BatchFromHead ==
  ASSUME NEW q, q.frags \in Seq(Fragments), q.curr = 1, NEW max \in Nat \ {0}
  PROVE  LET b == Batch(q, max) IN
         /\ b \in Seq(Fragments) /\ Len(b) <= Len(q.frags)
         /\ b = SubSeq(q.frags, 1, Len(b))
         /\ BatchEnd(q, max) = Len(b)
  <1> DEFINE e == BatchEnd(q, max)
  <1>1. e \in 0 .. Len(q.frags)
    BY DEF BatchEnd
  <1>2. Batch(q, max) = SubSeq(q.frags, 1, e)
    BY DEF Batch
  <1> HIDE DEF e
  <1>3. SubSeq(q.frags, 1, e) \in Seq(Fragments) /\ Len(SubSeq(q.frags, 1, e)) = e
    <2>1. \A i \in 1 .. e : q.frags[i] \in Fragments
      BY <1>1, ElementOfSeq
    <2> QED
      BY <1>1, <2>1, SubSeqProperties
  <1> QED
    BY <1>1, <1>2, <1>3 DEF e

-----------------------------------------------------------------------------
(* The control part of the invariant, step by step. *)
LEMMA ControlInvariant == Spec => []ControlInv
  <1>1. Init => ControlInv
    BY DEF Init, ControlInv, SqeHeld, CoPcs
  <1>2. ControlInv /\ [Next]_vars => ControlInv'
    <2> SUFFICES ASSUME ControlInv, [Next]_vars PROVE ControlInv'
      OBVIOUS
    <2> USE DEF ControlInv, SqeHeld, CoPcs
    <2>1. ASSUME NEW n \in SendLens, SendReady(n) PROVE ControlInv'
      BY <2>1 DEF SendReady, Sends, SendInLoop, MayFlush, Flush
    <2>2. ASSUME NEW n \in SendLens, SendSuspends(n) PROVE ControlInv'
      BY <2>2 DEF SendSuspends, Sends, SendInLoop, MayFlush, Flush, AfterCo
    <2>3. CASE AwaitRead
      BY <2>3 DEF AwaitRead, AfterCo, ctx, kernel
    <2>4. CASE Finish
      BY <2>4 DEF Finish, AfterCo, ctx, kernel
    <2>5. CASE Submit
      BY <2>5 DEF Submit, ctx
    <2>6. CASE Kernel
      BY <2>6 DEF Kernel, KernelFails, KernelWrites, ctx
    <2>7. CASE OnCompletion
      BY <2>7 DEF OnCompletion, Flush, GoesIdle, ResumesWriter
    <2>8. CASE OnFatal
      BY <2>8 DEF OnFatal
    <2>9. CASE OnFatalCloses
      BY <2>9 DEF OnFatalCloses, HandleClose, kernel
    <2>10. CASE ReadCompletes
      BY <2>10 DEF ReadCompletes, ctx, kernel
    <2>11. CASE ReadFails
      BY <2>11 DEF ReadFails, ctx, kernel
    <2>12. CASE ReadFailsCloses
      BY <2>12 DEF ReadFailsCloses, HandleClose, kernel
    <2>13. CASE UNCHANGED vars
      BY <2>13 DEF vars, ctx, kernel
    <2> QED
      BY <2>1, <2>2, <2>3, <2>4, <2>5, <2>6, <2>7, <2>8, <2>9, <2>10, <2>11, <2>12, <2>13 DEF Next
  <1> QED
    BY <1>1, <1>2, PTL DEF Spec

-----------------------------------------------------------------------------
(* send() behind a batch that is with the kernel leaves the batch in front *)
LEMMA AppendedQueue ==
  ASSUME NEW q \in Queues, NEW pos \in Nat, NEW n \in Nat
  PROVE  LET r == AppendData(q, pos, n) IN
         /\ r \in Queues /\ r.curr = q.curr
         /\ r.frags = Append(q.frags, [pos |-> pos, end |-> pos + n])
         /\ \A t : Front(t, q) => Front(t, r)
  <1> DEFINE f == [pos |-> pos, end |-> pos + n]
             r == AppendData(q, pos, n)
  <1>1. f \in Fragments /\ q.frags \in Seq(Fragments) /\ q.total_len \in Int
    BY DEF Fragments, Queues
  <1>2. r = [frags |-> Append(q.frags, f), curr |-> q.curr, total_len |-> q.total_len + n]
    BY DEF AppendData
  <1>3. /\ Append(q.frags, f) \in Seq(Fragments) /\ Len(Append(q.frags, f)) = Len(q.frags) + 1
        /\ \A i \in 1 .. Len(q.frags) : Append(q.frags, f)[i] = q.frags[i]
    BY <1>1, AppendProperties
  <1> HIDE DEF f, r
  <1>4. r \in Queues /\ r.curr = q.curr /\ r.frags = Append(q.frags, f)
    BY <1>1, <1>2, <1>3 DEF Queues
  <1>5. ASSUME NEW t, Front(t, q) PROVE Front(t, r)
    <2>1. Len(t) \in 0 .. Len(q.frags)
      BY <1>1, <1>5 DEF Front
    <2>2. SubSeq(r.frags, 1, Len(t)) = SubSeq(q.frags, 1, Len(t))
      BY <1>1, <1>3, <1>4, <2>1
    <2> QED
      BY <1>1, <1>3, <1>4, <1>5, <2>1, <2>2 DEF Front
  <1> QED
    BY <1>4, <1>5 DEF r, f

(* flush() of a buffer whose curr_ is at its head *)
LEMMA Flushed ==
  ASSUME NEW q \in Queues, q.curr = 1
  PROVE  /\ AfterBatch(q, MaxSlices) \in Queues
         /\ AfterBatch(q, MaxSlices).frags = q.frags
         /\ Front(Batch(q, MaxSlices), AfterBatch(q, MaxSlices))
  <1> DEFINE b == Batch(q, MaxSlices)
             e == BatchEnd(q, MaxSlices)
             r == AfterBatch(q, MaxSlices)
  <1>1. q.frags \in Seq(Fragments) /\ q.total_len \in Int
    BY DEF Queues
  <1>2. /\ b \in Seq(Fragments) /\ Len(b) <= Len(q.frags)
        /\ b = SubSeq(q.frags, 1, Len(b)) /\ e = Len(b)
    BY <1>1, SlicesAssumption, BatchFromHead
  <1>3. r = [frags |-> q.frags, curr |-> e + 1, total_len |-> q.total_len]
    BY DEF AfterBatch, Queues
  <1> HIDE DEF b, e, r
  <1>4. e \in Nat /\ r.frags = q.frags /\ r.curr = e + 1
    BY <1>2, <1>3
  <1>5. r \in Queues
    BY <1>1, <1>3, <1>4 DEF Queues
  <1>6. Front(b, r)
    BY <1>2, <1>4 DEF Front
  <1> QED
    BY <1>4, <1>5, <1>6 DEF b, r

(* flush() after a fatal error, behind the fragments that were not written *)
LEMMA FlushedLate ==
  ASSUME NEW q \in Queues, q.curr <= Len(q.frags)
  PROVE  /\ AfterBatch(q, MaxSlices) \in Queues
         /\ AfterBatch(q, MaxSlices).curr <= Len(AfterBatch(q, MaxSlices).frags) + 1
         /\ Batch(q, MaxSlices) # <<>>
  <1> DEFINE b == Batch(q, MaxSlices)
             e == BatchEnd(q, MaxSlices)
             r == AfterBatch(q, MaxSlices)
  <1>1. /\ q.frags \in Seq(Fragments) /\ q.total_len \in Int /\ Len(q.frags) \in Nat
        /\ q.curr \in Nat \ {0} /\ \A k \in 1 .. Len(q.frags) : q.frags[k] \in Fragments
    BY ElementOfSeq DEF Queues
  <1>2. e \in Nat /\ q.curr <= e /\ e <= Len(q.frags)
    BY <1>1, SlicesAssumption DEF BatchEnd
  <1>3. r = [frags |-> q.frags, curr |-> e + 1, total_len |-> q.total_len]
    BY DEF AfterBatch, Queues
  <1>4. b = SubSeq(q.frags, q.curr, e)
    BY DEF Batch
  <1> HIDE DEF b, e, r
  <1>5. r \in Queues /\ r.curr <= Len(r.frags) + 1
    BY <1>1, <1>2, <1>3 DEF Queues
  <1>6. b \in Seq(Fragments) /\ Len(b) # 0
    <2>1. \A k \in q.curr .. e : q.frags[k] \in Fragments
      BY <1>1, <1>2
    <2>2. b \in Seq(Fragments) /\ Len(b) = IF q.curr <= e THEN e - q.curr + 1 ELSE 0
      BY <1>1, <1>2, <1>4, <2>1, SubSeqProperties
    <2> QED
      BY <1>1, <1>2, <2>2
  <1>7. b # <<>>
    BY <1>6, EmptySeq
  <1> QED
    BY <1>5, <1>7 DEF b, r

(* send() after a fatal error *)
LEMMA SendsLate ==
  ASSUME DataInv, NEW n \in SendLens, Sends(n), is_error
  PROVE  /\ output_buffer' \in Queues /\ appended' \in Nat /\ appended <= appended'
         /\ output_buffer'.curr <= Len(output_buffer'.frags) + 1
         /\ \/ sqe' = "prepared" /\ temp_data' # <<>>
            \/ UNCHANGED <<sqe, temp_data>>
  <1> DEFINE q == AppendData(output_buffer, appended + 1, n)
  <1>1. n \in Nat /\ output_buffer \in Queues /\ appended \in Nat
        /\ output_buffer.curr <= Len(output_buffer.frags) + 1
    BY SendLensAssumption DEF DataInv
  <1>2. /\ output_buffer.frags \in Seq(Fragments) /\ output_buffer.curr \in Nat
        /\ [pos |-> appended + 1, end |-> (appended + 1) + n] \in Fragments
    BY <1>1 DEF Queues, Fragments
  <1>3. /\ q \in Queues /\ q.curr = output_buffer.curr
        /\ q.frags = Append(output_buffer.frags, [pos |-> appended + 1, end |-> (appended + 1) + n])
    BY <1>1, AppendedQueue
  <1>4. Len(q.frags) = Len(output_buffer.frags) + 1 /\ Len(output_buffer.frags) \in Nat
    BY <1>2, <1>3, AppendProperties
  <1>5. q.curr <= Len(q.frags)
    BY <1>1, <1>2, <1>3, <1>4
  <1>6. /\ appended' = appended + n
        /\ \/ /\ temp_data' = Batch(q, MaxSlices) /\ output_buffer' = AfterBatch(q, MaxSlices)
              /\ sqe' = "prepared"
           \/ output_buffer' = q /\ UNCHANGED <<temp_data, sqe>>
    BY DEF Sends, SendInLoop, Flush
  <1>7. q.curr \in Nat /\ Len(q.frags) \in Nat
    BY <1>2, <1>3, <1>4
  <1> HIDE DEF q
  <1>8. appended' \in Nat /\ appended <= appended'
    BY <1>1, <1>6
  <1>9. CASE /\ temp_data' = Batch(q, MaxSlices) /\ output_buffer' = AfterBatch(q, MaxSlices)
             /\ sqe' = "prepared"
    BY <1>3, <1>5, <1>8, <1>9, FlushedLate
  <1>10. CASE output_buffer' = q /\ UNCHANGED <<temp_data, sqe>>
    BY <1>3, <1>5, <1>7, <1>8, <1>10
  <1> QED
    BY <1>6, <1>9, <1>10

(* retrieve() returns a buffer *)
LEMMA RetrievedQueue ==
  ASSUME NEW q \in Queues, NEW lo \in Nat, NEW hi \in Nat, Contiguous(q.frags, lo, hi),
         NEW len \in Nat, lo + len <= hi
  PROVE  Retrieve(q, len) \in Queues
  <1>1. CASE q.frags = <<>>
    BY <1>1 DEF Retrieve
  <1>2. CASE q.frags # <<>>
    <2> DEFINE r == Retrieve(q, len)
    <2>1. r.frags \in Seq(Fragments)
      BY RetrieveContiguous DEF Contiguous
    <2>2. Bytes(q.frags) \in Int
      <3>1. 1 \in 1 .. Len(q.frags) /\ Len(q.frags) \in 1 .. Len(q.frags)
        BY <1>2, EmptySeq DEF Queues
      <3>2. q.frags[1] \in Fragments /\ q.frags[Len(q.frags)] \in Fragments
        BY <3>1, ElementOfSeq DEF Queues
      <3> QED
        BY <1>2, <3>2 DEF Bytes, Fragments
    <2>3. LenAfterRetrieve(q, len) \in Int
      BY <2>2 DEF LenAfterRetrieve, Queues
    <2>4. r = [frags |-> r.frags, curr |-> 1, total_len |-> LenAfterRetrieve(q, len)]
      BY <1>2 DEF Retrieve, CursorAtHead
    <2> HIDE DEF r
    <2>5. r \in Queues
      BY <2>1, <2>3, <2>4 DEF Queues
    <2> QED
      BY <2>5 DEF r
  <1> QED
    BY <1>1, <1>2

(* a batch begins with the first byte of the buffer and ends within it *)
LEMMA BatchBytes ==
  ASSUME NEW q \in Queues, NEW lo \in Nat, NEW hi \in Nat, Contiguous(q.frags, lo, hi),
         NEW t, Front(t, q), t # <<>>
  PROVE  t[1].pos = lo /\ Bytes(t) \in Int /\ Bytes(t) <= hi - lo
  <1> DEFINE frags == q.frags
             m == Len(t)
             n == Len(frags)
  <1>1. frags \in Seq(Fragments) /\ t \in Seq(Fragments) /\ n \in Nat /\ m \in 1 .. n
    BY EmptySeq DEF Queues, Front
  <1>2. \A i \in 1 .. m : t[i] = frags[i]
    <2>1. t = SubSeq(frags, 1, m)
      BY DEF Front
    <2> HIDE DEF m
    <2>2. \A i \in 1 .. m : SubSeq(frags, 1, m)[i] = frags[i]
      BY <1>1
    <2> QED
      BY <2>1, <2>2
  <1>3. \A i \in 1 .. n : frags[i].pos \in Nat /\ frags[i].end \in Nat
    <2>1. \A i \in 1 .. n : frags[i] \in Fragments
      BY <1>1, ElementOfSeq
    <2> QED
      BY <2>1 DEF Fragments
  <1>4. Bytes(t) = t[m].end - t[1].pos
    BY DEF Bytes
  <1> HIDE DEF m, n
  <1>5. n \in 1 .. n /\ 1 \in 1 .. m /\ m \in 1 .. m
    BY <1>1
  <1>6. frags[1].pos = lo /\ frags[n].end = hi
    BY <1>1, <1>5 DEF Contiguous, n
  <1>7. frags[m].end <= hi
    <2>1. CASE m = n
      BY <1>3, <1>5, <1>6, <2>1
    <2>2. CASE m < n
      <3>1. frags[m].end <= frags[n].pos /\ frags[n].pos <= frags[n].end
        BY <1>1, <1>5, <2>2 DEF Contiguous, n
      <3> QED
        BY <1>1, <1>3, <1>5, <1>6, <3>1
    <2> QED
      BY <1>1, <2>1, <2>2
  <1>8. t[1] = frags[1] /\ t[m] = frags[m] /\ frags[m].end \in Nat
    BY <1>1, <1>2, <1>3, <1>5
  <1>9. t[1].pos = lo /\ Bytes(t) = frags[m].end - lo
    BY <1>4, <1>6, <1>8
  <1> QED
    BY <1>7, <1>8, <1>9

(* The bytes that writev puts on the wire are the oldest ones that are not   *)
(* there yet.                                                                *)
LEMMA WritesNext ==
  ASSUME ControlInv, DataInv, NEW n \in Nat, KernelWrites(n)
  PROVE  /\ n <= appended - Len(wire)
         /\ wire' = wire \o [i \in 1 .. n |-> Len(wire) + i]
  <1>1. sqe = "inflight" /\ ~is_error
    BY DEF KernelWrites, ControlInv
  <1>2. /\ Contiguous(output_buffer.frags, Len(wire) + 1, appended + 1)
        /\ Front(temp_data, output_buffer) /\ Len(wire) \in Nat
    BY <1>1 DEF DataInv, FirstKept
  <1>3. CASE n = 0
    <2>1. wire' = wire \o [i \in 1 .. 0 |-> temp_data[1].pos + i - 1]
      BY <1>3 DEF KernelWrites
    <2>2. [i \in 1 .. 0 |-> temp_data[1].pos + i - 1] = [i \in 1 .. 0 |-> Len(wire) + i]
      OBVIOUS
    <2> QED
      BY <1>2, <1>3, <2>1, <2>2 DEF DataInv
  <1>4. CASE n > 0
    <2>1. n <= Bytes(temp_data) /\ temp_data # <<>>
      BY <1>4 DEF KernelWrites, Bytes
    <2>2. /\ temp_data[1].pos = Len(wire) + 1 /\ Bytes(temp_data) \in Int
          /\ Bytes(temp_data) <= (appended + 1) - (Len(wire) + 1)
      BY <1>2, <2>1, BatchBytes DEF DataInv
    <2>3. wire' = wire \o [i \in 1 .. n |-> temp_data[1].pos + i - 1]
      BY DEF KernelWrites
    <2>4. [i \in 1 .. n |-> temp_data[1].pos + i - 1] = [i \in 1 .. n |-> Len(wire) + i]
      BY <1>2, <2>2
    <2> QED
      BY <1>2, <2>1, <2>2, <2>3, <2>4 DEF DataInv
  <1>5. n = 0 \/ n > 0
    OBVIOUS
  <1> QED
    BY <1>3, <1>4, <1>5, Zenon

(* sendInLoop() keeps the buffer contiguous, whether it flushes or not. *)
LEMMA SendKeepsData ==
  ASSUME ControlInv, DataInv, NEW n \in SendLens, Sends(n), ~is_error,
         UNCHANGED <<is_error, res, wire>>
  PROVE  DataInv'
  <1> DEFINE q == AppendData(output_buffer, appended + 1, n)
  <1>1. ~is_error /\ n \in Nat
    BY SendLensAssumption
  <1>2. /\ output_buffer \in Queues /\ appended \in Nat /\ FirstKept \in Nat
        /\ Contiguous(output_buffer.frags, FirstKept, appended + 1)
        /\ sqe = "none" => output_buffer.curr = 1
        /\ sqe # "none" => Front(temp_data, output_buffer)
    BY <1>1 DEF DataInv, FirstKept
  <1>3. /\ q \in Queues /\ q.curr = output_buffer.curr
        /\ q.frags = Append(output_buffer.frags, [pos |-> appended + 1, end |-> (appended + 1) + n])
        /\ \A t : Front(t, output_buffer) => Front(t, q)
    BY <1>1, <1>2, AppendedQueue
  <1>4. Contiguous(q.frags, FirstKept, (appended + 1) + n)
    <2> DEFINE hi == appended + 1
    <2>1. hi \in Nat /\ Contiguous(output_buffer.frags, FirstKept, hi)
      BY <1>2
    <2> HIDE DEF hi
    <2>2. Contiguous(Append(output_buffer.frags, [pos |-> hi, end |-> hi + n]), FirstKept, hi + n)
      BY <1>1, <1>2, <2>1, AppendContiguous
    <2> QED
      BY <1>3, <2>2 DEF hi
  <1>5. appended' = appended + n /\ (appended + 1) + n = appended' + 1
    BY <1>1, <1>2 DEF Sends, SendInLoop
  <1>6. appended' \in Nat /\ Len(wire') <= appended' /\ wire' \in Seq(Nat)
    BY <1>1, <1>2, <1>5 DEF DataInv
  <1>7. CASE ~is_sending
    <2>1. /\ temp_data' = Batch(q, MaxSlices) /\ output_buffer' = AfterBatch(q, MaxSlices)
          /\ sqe = "none" /\ sqe' = "prepared"
      BY <1>7 DEF Sends, SendInLoop, MayFlush, Flush, ControlInv, SqeHeld
    <2> HIDE DEF q
    <2>2. output_buffer' \in Queues /\ output_buffer'.frags = q.frags
          /\ Front(temp_data', output_buffer')
      BY <1>2, <1>3, <2>1, Flushed
    <2>3. FirstKept' = FirstKept
      BY <2>1 DEF FirstKept
    <2>4. Contiguous(output_buffer'.frags, FirstKept', appended' + 1)
      BY <1>4, <1>5, <2>2, <2>3
    <2> QED
      BY <1>6, <2>1, <2>2, <2>4 DEF DataInv, Front
  <1>8. CASE is_sending
    <2>1. /\ output_buffer' = q /\ temp_data' = temp_data /\ sqe' = sqe /\ sqe # "none"
      BY <1>8 DEF Sends, SendInLoop, MayFlush, ControlInv, SqeHeld
    <2> HIDE DEF q
    <2>2. FirstKept' = FirstKept
      BY <2>1 DEF FirstKept
    <2>3. Front(temp_data', output_buffer')
      BY <1>2, <1>3, <2>1
    <2>4. Contiguous(output_buffer'.frags, FirstKept', appended' + 1)
      BY <1>4, <1>5, <2>1, <2>2
    <2>5. sqe' = "cqe" => res' = Fatal \/ res' \in 0 .. Len(wire')
      BY <2>1 DEF DataInv
    <2> QED
      BY <1>3, <1>6, <2>1, <2>3, <2>4, <2>5 DEF DataInv
  <1> QED
    BY <1>7, <1>8

(* on_completion() removes what was written and may flush again. *)
LEMMA CompletionKeepsData ==
  ASSUME ControlInv, DataInv, OnCompletion
  PROVE  DataInv'
  <1> DEFINE q == Retrieve(output_buffer, res)
  <1>1. sqe = "cqe" /\ res # Fatal /\ ~is_error
    BY DEF OnCompletion, ControlInv
  <1>2. /\ output_buffer \in Queues /\ appended \in Nat /\ wire \in Seq(Nat) /\ Len(wire) \in Nat
        /\ Len(wire) <= appended /\ res \in Nat /\ res <= Len(wire)
        /\ Contiguous(output_buffer.frags, Len(wire) + 1 - res, appended + 1)
        /\ Front(temp_data, output_buffer)
    BY <1>1 DEF DataInv, FirstKept
  <1>3. res # Retry
    BY <1>2 DEF Retry
  <1> DEFINE lo == Len(wire) + 1 - res
  <1>4. lo \in Nat /\ lo + res = Len(wire) + 1 /\ lo + res <= appended + 1 /\ appended + 1 \in Nat
    BY <1>2
  <1>5. q \in Queues /\ Contiguous(q.frags, Len(wire) + 1, appended + 1)
        /\ (output_buffer.frags # <<>> => q.curr = 1)
    <2>1. Contiguous(output_buffer.frags, lo, appended + 1)
      BY <1>2
    <2> HIDE DEF lo
    <2> QED
      BY <1>2, <1>4, <2>1, RetrievedQueue, RetrieveContiguous
  <1>6. q.curr = 1
    <2>1. CASE output_buffer.frags = <<>>
      <3>1. q = output_buffer
        BY <2>1 DEF Retrieve
      <3>2. Len(temp_data) = 0 /\ output_buffer.curr = Len(temp_data) + 1
        BY <1>2, <2>1 DEF Front
      <3> QED
        BY <3>1, <3>2
    <2> QED
      BY <1>5, <2>1
  <1> HIDE DEF q
  <1>7. /\ UNCHANGED <<is_error, res, wire, appended>>
        /\ IF q.total_len > 0
           THEN /\ temp_data' = Batch(q, MaxSlices) /\ output_buffer' = AfterBatch(q, MaxSlices)
                /\ sqe' = "prepared"
           ELSE sqe' = "none" /\ output_buffer' = q
    BY <1>3 DEF OnCompletion, Flush, GoesIdle, client, q
  <1>8. FirstKept' = Len(wire) + 1
    BY <1>2, <1>7 DEF FirstKept
  <1>9. CASE q.total_len > 0
    <2>1. output_buffer' \in Queues /\ output_buffer'.frags = q.frags
          /\ Front(temp_data', output_buffer') /\ sqe' = "prepared"
      BY <1>5, <1>6, <1>7, <1>9, Flushed
    <2>2. Contiguous(output_buffer'.frags, FirstKept', appended' + 1)
      BY <1>5, <1>7, <1>8, <2>1
    <2> QED
      BY <1>1, <1>2, <1>7, <2>1, <2>2 DEF DataInv
  <1>10. CASE ~(q.total_len > 0)
    <2>1. Contiguous(output_buffer'.frags, FirstKept', appended' + 1)
      BY <1>5, <1>7, <1>8, <1>10
    <2> QED
      BY <1>1, <1>2, <1>5, <1>6, <1>7, <1>10, <2>1 DEF DataInv
  <1> QED
    BY <1>9, <1>10

(* writev *)
LEMMA KernelKeepsData ==
  ASSUME ~RetryErrors, ControlInv, DataInv, Kernel
  PROVE  DataInv'
  <1>1. CASE KernelFails
    <2>1. /\ sqe = "inflight" /\ sqe' = "cqe" /\ res' = Fatal
          /\ UNCHANGED <<output_buffer, temp_data, is_error, appended, wire>>
      BY <1>1 DEF KernelFails, ctx, client
    <2>2. FirstKept' = FirstKept
      BY <2>1 DEF FirstKept
    <2> QED
      BY <2>1, <2>2 DEF DataInv
  <1>2. ASSUME NEW n \in 0 .. MaxBytes, KernelWrites(n) PROVE DataInv'
    <2>1. /\ sqe = "inflight" /\ sqe' = "cqe" /\ res' = n /\ ~is_error
          /\ UNCHANGED <<output_buffer, temp_data, is_error, appended>>
      BY <1>2 DEF KernelWrites, ctx, client, ControlInv
    <2>2. n \in Nat /\ Len(wire) \in Nat /\ wire \in Seq(Nat)
      BY <1>2, BoundsAssumption DEF DataInv
    <2>3. n <= appended - Len(wire) /\ wire' = wire \o [i \in 1 .. n |-> Len(wire) + i]
      BY <1>2, <2>2, WritesNext
    <2>4. wire' \in Seq(Nat) /\ Len(wire') = Len(wire) + n
      <3> DEFINE new == [i \in 1 .. n |-> Len(wire) + i]
      <3>1. new \in Seq(Nat) /\ Len(new) = n
        BY <2>2
      <3> HIDE DEF new
      <3>2. wire \o new \in Seq(Nat) /\ Len(wire \o new) = Len(wire) + Len(new)
        BY <2>2, <3>1, ConcatProperties
      <3> QED
        BY <2>3, <3>1, <3>2 DEF new
    <2>5. FirstKept' = FirstKept
      <3>1. FirstKept = Len(wire) + 1
        BY <2>1, <2>2 DEF FirstKept
      <3>2. res' # Fatal
        BY <2>1, <2>2 DEF Fatal
      <3>3. FirstKept' = Len(wire') + 1 - n
        BY <2>1, <3>2 DEF FirstKept, Fatal
      <3> QED
        BY <2>2, <2>4, <3>1, <3>3
    <2>6. Len(wire') <= appended' /\ res' \in 0 .. Len(wire')
      BY <2>1, <2>2, <2>3, <2>4 DEF DataInv
    <2> QED
      BY <2>1, <2>4, <2>5, <2>6 DEF DataInv
  <1> QED
    BY <1>1, <1>2 DEF Kernel

(* The data part of the invariant, step by step. *)
LEMMA DataInvariant == ASSUME ~RetryErrors PROVE Spec => []DataInv
  <1>1. Init => DataInv
    <2> SUFFICES ASSUME Init PROVE DataInv
      OBVIOUS
    <2>1. FirstKept = 1
      BY DEF Init, FirstKept
    <2>2. output_buffer \in Queues /\ output_buffer.frags = <<>> /\ output_buffer.curr = 1
      BY DEF Init, EmptyQueue, Queues
    <2>3. Contiguous(<<>>, 1, 0 + 1)
      BY DEF Contiguous
    <2> QED
      BY <2>1, <2>2, <2>3 DEF Init, DataInv
  <1>2. ControlInv /\ DataInv /\ [Next]_vars => DataInv'
    <2> SUFFICES ASSUME ControlInv, DataInv, [Next]_vars PROVE DataInv'
      OBVIOUS
    <2>1. ASSUME NEW n \in SendLens, SendReady(n) \/ SendSuspends(n) PROVE DataInv'
      <3>1. Sends(n) /\ UNCHANGED <<is_error, res, wire>>
        BY <2>1 DEF SendReady, SendSuspends
      <3>2. CASE is_error
        <4>1. /\ output_buffer' \in Queues /\ appended' \in Nat /\ appended <= appended'
              /\ output_buffer'.curr <= Len(output_buffer'.frags) + 1
              /\ sqe' = "prepared" \/ UNCHANGED sqe
          BY <3>1, <3>2, SendsLate
        <4>2. Len(wire') <= appended' /\ wire' \in Seq(Nat)
          BY <3>1, <4>1 DEF DataInv
        <4> QED
          BY <3>1, <3>2, <4>1, <4>2 DEF DataInv
      <3> QED
        BY <3>1, <3>2, SendKeepsData
    <2>2. CASE Kernel
      BY <2>2, KernelKeepsData
    <2>3. CASE OnCompletion
      BY <2>3, CompletionKeepsData
    <2>4. CASE Submit
      <3>1. /\ sqe = "prepared" /\ sqe' = "inflight"
            /\ UNCHANGED <<output_buffer, temp_data, is_error, appended, wire, res>>
        BY <2>4 DEF Submit, ctx, client
      <3>2. FirstKept' = FirstKept
        BY <3>1 DEF FirstKept
      <3> QED
        BY <3>1, <3>2 DEF DataInv
    <2>5. CASE OnFatal
      <3>1. sqe = "cqe" /\ ~is_error
        BY <2>5 DEF OnFatal, ControlInv
      <3>2. output_buffer.curr <= Len(output_buffer.frags) + 1
        BY <3>1 DEF DataInv, Front, Queues
      <3> QED
        BY <2>5, <3>2 DEF OnFatal, DataInv, client
    <2>6. ASSUME UNCHANGED <<output_buffer, temp_data, is_error, appended, wire, res, sqe>>
          PROVE  DataInv'
      <3>1. FirstKept' = FirstKept
        BY <2>6 DEF FirstKept
      <3> QED
        BY <2>6, <3>1 DEF DataInv
    <2>7. CASE AwaitRead \/ Finish \/ ReadCompletes \/ ReadFails
      BY <2>6, <2>7 DEF AwaitRead, Finish, ReadCompletes, ReadFails, ctx, kernel, client
    <2>8. CASE OnFatalCloses \/ ReadFailsCloses
      BY <2>6, <2>8 DEF OnFatalCloses, ReadFailsCloses, kernel, client
    <2>9. CASE UNCHANGED vars
      BY <2>6, <2>9 DEF vars, ctx, kernel, client
    <2> QED
      BY <2>1, <2>2, <2>3, <2>4, <2>5, <2>7, <2>8, <2>9 DEF Next
  <1> QED
    BY <1>1, <1>2, ControlInvariant, PTL DEF Spec

-----------------------------------------------------------------------------
(* is_sending_ says whether a request is outstanding, and holder_ keeps the  *)
(* connection alive under it (the assertion of WriteContext.cc:97, the test  *)
(* of sendInLoop), whatever the coroutine sends and when: the one exception  *)
(* is a request made while a fatal write error closes the connection.        *)
THEOREM AlwaysSqeHeld == Spec => []SqeHeld
  <1>1. ControlInv => SqeHeld
    BY DEF ControlInv
  <1> QED
    BY <1>1, ControlInvariant, PTL

(* While a request is outstanding its iovecs are the oldest fragments of the *)
(* output buffer, whatever the coroutine appends meanwhile and however short *)
(* the writes are (sendInLoop, flush, retrieve).                             *)
THEOREM AlwaysBatchIsFront ==
  ASSUME ~RetryErrors PROVE Spec => []BatchIsFront
  <1>1. ControlInv /\ DataInv => BatchIsFront
    BY DEF ControlInv, DataInv, Front, BatchIsFront
  <1> QED
    BY <1>1, ControlInvariant, DataInvariant, PTL

(* The connection is a byte stream: the kernel is handed every byte of every *)
(* send() once and in order; every step of the sending half is a step of     *)
(* ByteStream or changes nothing it knows of.                                *)
THEOREM WriteRefinesByteStream ==
  ASSUME ~RetryErrors PROVE Spec => Stream!Spec
  <1>1. Init => Stream!Init
    BY DEF Init, Stream!Init
  <1>2. ControlInv /\ DataInv /\ [Next]_vars => [Stream!Next]_(Stream!vars)
    <2> SUFFICES ASSUME ControlInv, DataInv, [Next]_vars
                 PROVE  Stream!Next \/ UNCHANGED <<appended, wire, closing>>
      BY DEF Stream!vars
    <2>1. ASSUME NEW n \in SendLens, SendReady(n) \/ SendSuspends(n)
          PROVE  Stream!Send \/ UNCHANGED <<appended, wire, closing>>
      <3>1. appended' = appended + n /\ UNCHANGED <<wire, closing>>
        BY <2>1 DEF SendReady, SendSuspends, Sends, SendInLoop
      <3>2. n \in Nat /\ appended \in Nat
        BY SendLensAssumption DEF DataInv
      <3> QED
        BY <3>1, <3>2 DEF Stream!Send
    <2>2. ASSUME NEW n \in 0 .. MaxBytes, KernelWrites(n)
          PROVE  Stream!Deliver \/ UNCHANGED <<appended, wire, closing>>
      <3>1. n \in Nat /\ wire \in Seq(Nat) /\ UNCHANGED <<appended, closing>>
        BY <2>2, BoundsAssumption DEF KernelWrites, client, DataInv
      <3>2. n <= appended - Len(wire) /\ wire' = wire \o [i \in 1 .. n |-> Len(wire) + i]
        BY <2>2, <3>1, WritesNext
      <3>3. CASE n = 0
        <4>1. [i \in 1 .. n |-> Len(wire) + i] = <<>>
          BY <3>3
        <4> QED
          BY <3>1, <3>2, <4>1, ConcatEmptySeq
      <3>4. CASE n > 0
        <4>1. n \in 1 .. appended - Len(wire)
          BY <3>1, <3>2, <3>4 DEF DataInv
        <4> QED
          BY <3>1, <3>2, <4>1 DEF Stream!Deliver
      <3>5. n = 0 \/ n > 0
        BY <3>1
      <3> QED
        BY <3>3, <3>4, <3>5, Zenon
    <2>3. CASE KernelFails \/ Submit \/ OnCompletion \/ OnFatal
      BY <2>3 DEF KernelFails, Submit, OnCompletion, OnFatal, client
    <2>4. CASE AwaitRead \/ Finish \/ ReadCompletes \/ ReadFails \/ UNCHANGED vars
      BY <2>4 DEF AwaitRead, Finish, ReadCompletes, ReadFails, vars, kernel, client
    <2>5. CASE OnFatalCloses \/ ReadFailsCloses
      BY <2>5 DEF OnFatalCloses, ReadFailsCloses, HandleClose, kernel, client, Stream!Next,
                  Stream!Close
    <2> QED
      BY <2>1, <2>2, <2>3, <2>4, <2>5 DEF Next, Kernel, Stream!Next
  <1> QED
    BY <1>1, <1>2, ControlInvariant, DataInvariant, PTL DEF Spec, Stream!Spec

-----------------------------------------------------------------------------
(* The strengthening of NonEmptyBatch: total_len_ counts exactly the bytes   *)
(* that are in the buffer, so that a buffer with something to send has a     *)
(* fragment.                                                                 *)
LenInv ==
    /\ ~is_error => output_buffer.total_len = appended + 1 - FirstKept
    /\ sqe # "none" => temp_data # <<>>

(* getBatchFragment() from the head of a queue that has a fragment *)
LEMMA BatchHasFragment ==
  ASSUME NEW q \in Queues, q.curr = 1, q.frags # <<>>
  PROVE  /\ Batch(q, MaxSlices) # <<>>
         /\ AfterBatch(q, MaxSlices).total_len = q.total_len
  <1> DEFINE b == Batch(q, MaxSlices)
             e == BatchEnd(q, MaxSlices)
  <1>1. q.frags \in Seq(Fragments) /\ Len(q.frags) \in Nat /\ Len(q.frags) # 0
    BY EmptySeq DEF Queues
  <1>2. b \in Seq(Fragments) /\ e = Len(b)
    BY <1>1, SlicesAssumption, BatchFromHead
  <1>3. e # 0
    BY <1>1, SlicesAssumption DEF BatchEnd
  <1>4. AfterBatch(q, MaxSlices).total_len = q.total_len
    BY DEF AfterBatch, Queues
  <1> HIDE DEF b, e
  <1>5. b # <<>>
    BY <1>2, <1>3
  <1> QED
    BY <1>4, <1>5 DEF b

(* retrieve() subtracts what it removes *)
LEMMA RetrievedLen ==
  ASSUME NEW q \in Queues, NEW lo \in Nat, NEW hi \in Nat, Contiguous(q.frags, lo, hi),
         NEW len \in Nat, lo + len <= hi, q.total_len = hi - lo
  PROVE  Retrieve(q, len).total_len = hi - (lo + len)
  <1>1. CASE q.frags = <<>>
    <2>1. lo = hi /\ len = 0
      BY <1>1 DEF Contiguous
    <2> QED
      BY <1>1, <2>1 DEF Retrieve
  <1>2. CASE q.frags # <<>>
    <2>1. Len(q.frags) > 0
      BY <1>2, EmptySeq DEF Contiguous
    <2>2. Bytes(q.frags) = hi - lo
      BY <1>2, <2>1 DEF Bytes, Contiguous
    <2>3. Retrieve(q, len).total_len = LenAfterRetrieve(q, len)
      BY <1>2 DEF Retrieve
    <2> QED
      BY <2>2, <2>3 DEF LenAfterRetrieve
  <1> QED
    BY <1>1, <1>2

LEMMA SendKeepsLen ==
  ASSUME ControlInv, DataInv, LenInv, NEW n \in SendLens, Sends(n), ~is_error,
         UNCHANGED <<is_error, res, wire>>
  PROVE  LenInv'
  <1> DEFINE q == AppendData(output_buffer, appended + 1, n)
  <1>1. ~is_error /\ n \in Nat
    BY SendLensAssumption
  <1>2. /\ output_buffer \in Queues /\ appended \in Nat /\ FirstKept \in Nat
        /\ sqe = "none" => output_buffer.curr = 1
        /\ output_buffer.total_len = appended + 1 - FirstKept
        /\ sqe # "none" => temp_data # <<>>
    BY <1>1 DEF DataInv, FirstKept, LenInv
  <1>8. q.total_len = output_buffer.total_len + n
    BY DEF AppendData
  <1>3. /\ q \in Queues /\ q.curr = output_buffer.curr
        /\ q.frags = Append(output_buffer.frags, [pos |-> appended + 1, end |-> (appended + 1) + n])
    BY <1>1, <1>2, AppendedQueue
  <1>4. q.frags # <<>>
    <2>1. /\ output_buffer.frags \in Seq(Fragments)
          /\ [pos |-> appended + 1, end |-> (appended + 1) + n] \in Fragments
      BY <1>1, <1>2 DEF Queues, Fragments
    <2> QED
      BY <1>3, <2>1, AppendProperties
  <1>5. appended' = appended + n
    BY DEF Sends, SendInLoop
  <1>6. CASE ~is_sending
    <2>1. /\ temp_data' = Batch(q, MaxSlices) /\ output_buffer' = AfterBatch(q, MaxSlices)
          /\ sqe = "none" /\ sqe' = "prepared"
      BY <1>6 DEF Sends, SendInLoop, MayFlush, Flush, ControlInv, SqeHeld
    <2> HIDE DEF q
    <2>2. temp_data' # <<>> /\ output_buffer'.total_len = q.total_len
      BY <1>2, <1>3, <1>4, <2>1, BatchHasFragment
    <2>3. FirstKept' = FirstKept
      BY <2>1 DEF FirstKept
    <2> QED
      BY <1>1, <1>2, <1>5, <1>8, <2>2, <2>3 DEF LenInv
  <1>7. CASE is_sending
    <2>1. /\ output_buffer' = q /\ temp_data' = temp_data /\ sqe' = sqe /\ sqe # "none"
      BY <1>7 DEF Sends, SendInLoop, MayFlush, ControlInv, SqeHeld
    <2> HIDE DEF q
    <2>2. FirstKept' = FirstKept
      BY <2>1 DEF FirstKept
    <2> QED
      BY <1>1, <1>2, <1>5, <1>8, <2>1, <2>2 DEF LenInv
  <1> QED
    BY <1>6, <1>7

LEMMA CompletionKeepsLen ==
  ASSUME ControlInv, DataInv, LenInv, OnCompletion
  PROVE  LenInv'
  <1> DEFINE q == Retrieve(output_buffer, res)
             lo == Len(wire) + 1 - res
  <1>1. sqe = "cqe" /\ res # Fatal /\ ~is_error
    BY DEF OnCompletion, ControlInv
  <1>2. /\ output_buffer \in Queues /\ appended \in Nat /\ Len(wire) \in Nat
        /\ Len(wire) <= appended /\ res \in Nat /\ res <= Len(wire)
        /\ Contiguous(output_buffer.frags, lo, appended + 1)
        /\ Front(temp_data, output_buffer) /\ temp_data # <<>>
        /\ output_buffer.total_len = appended + 1 - lo
    BY <1>1 DEF DataInv, FirstKept, LenInv
  <1>3. res # Retry
    BY <1>2 DEF Retry
  <1>4. lo \in Nat /\ lo + res = Len(wire) + 1 /\ lo + res <= appended + 1 /\ appended + 1 \in Nat
    BY <1>2
  <1>5. output_buffer.frags # <<>>
    BY <1>2, EmptySeq DEF Front, Queues
  <1>6. /\ q \in Queues /\ Contiguous(q.frags, Len(wire) + 1, appended + 1) /\ q.curr = 1
        /\ q.total_len = (appended + 1) - (Len(wire) + 1)
    <2>1. /\ Contiguous(output_buffer.frags, lo, appended + 1) /\ lo + res <= appended + 1
          /\ res \in Nat /\ output_buffer.total_len = (appended + 1) - lo
      BY <1>2, <1>4
    <2> HIDE DEF lo
    <2>2. q \in Queues
      BY <1>2, <1>4, <2>1, RetrievedQueue, Zenon
    <2>3. Contiguous(q.frags, lo + res, appended + 1) /\ q.curr = 1
      BY <1>4, <1>5, <2>1, RetrieveContiguous, Zenon
    <2>4. q.total_len = (appended + 1) - (lo + res)
      BY <1>2, <1>4, <2>1, RetrievedLen, Zenon
    <2> QED
      BY <1>4, <2>2, <2>3, <2>4, Zenon
  <1> HIDE DEF q
  <1>7. /\ UNCHANGED <<is_error, res, wire, appended>>
        /\ IF q.total_len > 0
           THEN /\ temp_data' = Batch(q, MaxSlices) /\ output_buffer' = AfterBatch(q, MaxSlices)
                /\ sqe' = "prepared"
           ELSE sqe' = "none" /\ output_buffer' = q
    BY <1>3 DEF OnCompletion, Flush, GoesIdle, client, q
  <1>8. FirstKept' = Len(wire) + 1
    BY <1>2, <1>7 DEF FirstKept
  <1>11. q.total_len = (appended + 1) - (Len(wire) + 1) /\ appended' = appended
    BY <1>6, <1>7
  <1>9. CASE q.total_len > 0
    <2>1. ASSUME q.frags = <<>> PROVE FALSE
      <3>1. Len(wire) + 1 = appended + 1
        BY <1>6, <2>1 DEF Contiguous
      <3> QED
        BY <1>2, <1>6, <1>9, <3>1
    <2>2. temp_data' # <<>> /\ output_buffer'.total_len = q.total_len
      BY <1>6, <1>7, <1>9, <2>1, BatchHasFragment
    <2>3. output_buffer'.total_len = appended' + 1 - FirstKept'
      BY <1>2, <1>8, <1>11, <2>2
    <2> QED
      BY <2>2, <2>3 DEF LenInv
  <1>10. CASE ~(q.total_len > 0)
    <2>1. output_buffer' = q /\ sqe' = "none"
      BY <1>7, <1>10
    <2>2. output_buffer'.total_len = appended' + 1 - FirstKept'
      BY <1>2, <1>8, <1>11, <2>1
    <2> QED
      BY <2>1, <2>2 DEF LenInv
  <1> QED
    BY <1>9, <1>10

(* flush() always has something to hand over, the assertion of               *)
(* WriteContext.cc:30, unless writev is repeated after an error: empty       *)
(* strings are sent as empty fragments, and total_len_ never says that there *)
(* is something to send when there is not.                                   *)
THEOREM AlwaysNonEmptyBatch ==
  ASSUME ~RetryErrors PROVE Spec => []NonEmptyBatch
  <1>1. ASSUME Init PROVE LenInv
    <2>1. FirstKept = 1 /\ output_buffer.total_len = 0 /\ appended = 0 /\ sqe = "none"
      BY <1>1 DEF Init, FirstKept, EmptyQueue
    <2> QED
      BY <2>1 DEF LenInv
  <1>2. ASSUME ControlInv, DataInv, LenInv, [Next]_vars PROVE LenInv'
    <2>1. ASSUME NEW n \in SendLens, SendReady(n) \/ SendSuspends(n) PROVE LenInv'
      <3>1. Sends(n) /\ UNCHANGED <<is_error, res, wire>>
        BY <2>1 DEF SendReady, SendSuspends
      <3> QED
        BY <1>2, <3>1, SendsLate, SendKeepsLen DEF LenInv
    <2>2. ASSUME sqe # "none", FirstKept' = FirstKept,
                 UNCHANGED <<output_buffer, temp_data, is_error, appended>>
          PROVE  LenInv'
      BY <1>2, <2>2 DEF LenInv
    <2>3. CASE KernelFails
      <3>1. /\ sqe = "inflight" /\ sqe' = "cqe" /\ res' = Fatal
            /\ UNCHANGED <<output_buffer, temp_data, is_error, appended, wire>>
        BY <2>3 DEF KernelFails, ctx, client
      <3>2. FirstKept' = FirstKept
        BY <3>1 DEF FirstKept
      <3> QED
        BY <2>2, <3>1, <3>2
    <2>4. ASSUME NEW n \in 0 .. MaxBytes, KernelWrites(n) PROVE LenInv'
      <3>1. /\ sqe = "inflight" /\ sqe' = "cqe" /\ res' = n
            /\ UNCHANGED <<output_buffer, temp_data, is_error, appended>>
        BY <2>4 DEF KernelWrites, ctx, client
      <3>2. n \in Nat /\ Len(wire) \in Nat /\ wire \in Seq(Nat)
        BY <1>2, <2>4, BoundsAssumption DEF DataInv
      <3>3. wire' = wire \o [i \in 1 .. n |-> Len(wire) + i]
        BY <1>2, <2>4, <3>2, WritesNext
      <3>4. Len(wire') = Len(wire) + n
        <4> DEFINE new == [i \in 1 .. n |-> Len(wire) + i]
        <4>1. new \in Seq(Nat) /\ Len(new) = n
          BY <3>2
        <4> HIDE DEF new
        <4>2. Len(wire \o new) = Len(wire) + Len(new)
          BY <3>2, <4>1, ConcatProperties
        <4> QED
          BY <3>3, <4>1, <4>2 DEF new
      <3>5. FirstKept = Len(wire) + 1 /\ FirstKept' = Len(wire') + 1 - n
        BY <3>1, <3>2 DEF FirstKept, Fatal
      <3> QED
        BY <2>2, <3>1, <3>2, <3>4, <3>5
    <2>5. CASE OnCompletion
      BY <1>2, <2>5, CompletionKeepsLen
    <2>6. CASE Submit
      <3>1. /\ sqe = "prepared" /\ sqe' = "inflight"
            /\ UNCHANGED <<output_buffer, temp_data, is_error, appended, wire, res>>
        BY <2>6 DEF Submit, ctx, client
      <3>2. FirstKept' = FirstKept
        BY <3>1 DEF FirstKept
      <3> QED
        BY <2>2, <3>1, <3>2
    <2>7. CASE OnFatal
      BY <2>7 DEF OnFatal, LenInv
    <2>8. ASSUME UNCHANGED <<output_buffer, temp_data, is_error, appended, wire, res, sqe>>
          PROVE  LenInv'
      <3>1. FirstKept' = FirstKept
        BY <2>8 DEF FirstKept
      <3> QED
        BY <1>2, <2>8, <3>1 DEF LenInv
    <2>9. CASE AwaitRead \/ Finish \/ ReadCompletes \/ ReadFails \/ UNCHANGED vars
      BY <2>8, <2>9 DEF AwaitRead, Finish, ReadCompletes, ReadFails, vars, ctx, kernel, client
    <2>10. CASE OnFatalCloses \/ ReadFailsCloses
      BY <2>8, <2>10 DEF OnFatalCloses, ReadFailsCloses, kernel, client
    <2> QED
      BY <1>2, <2>1, <2>3, <2>4, <2>5, <2>6, <2>7, <2>9, <2>10 DEF Next, Kernel
  <1>3. ControlInv /\ DataInv /\ LenInv /\ [Next]_vars => LenInv'
    BY <1>2
  <1>4. ControlInv /\ LenInv => NonEmptyBatch
    BY DEF LenInv, NonEmptyBatch
  <1> QED
    BY <1>1, <1>3, <1>4, ControlInvariant, DataInvariant, PTL DEF Spec

-----------------------------------------------------------------------------
(* what the fragments of a buffer are *)
LEMMA FragmentFacts ==
  ASSUME NEW frags, NEW lo \in Nat, NEW hi \in Nat, Contiguous(frags, lo, hi)
  PROVE  /\ frags \in Seq(Fragments) /\ Len(frags) \in Nat
         /\ \A i \in 1 .. Len(frags) : /\ frags[i] \in Fragments
                                       /\ frags[i].pos \in Nat /\ frags[i].end \in Nat
                                       /\ frags[i].pos <= frags[i].end /\ frags[i].end <= hi
         /\ frags # <<>> => /\ Len(frags) \in 1 .. Len(frags) /\ 1 \in 1 .. Len(frags)
                            /\ frags[1].pos = lo /\ frags[Len(frags)].end = hi
                            /\ Bytes(frags) = hi - lo
  <1>1. frags \in Seq(Fragments) /\ Len(frags) \in Nat
    BY DEF Contiguous
  <1>2. \A i \in 1 .. Len(frags) : frags[i] \in Fragments
    BY <1>1, ElementOfSeq
  <1>3. \A i \in 1 .. Len(frags) : frags[i].pos \in Nat /\ frags[i].end \in Nat
    BY <1>2 DEF Fragments
  <1>4. ASSUME frags # <<>>
        PROVE  /\ Len(frags) \in 1 .. Len(frags) /\ 1 \in 1 .. Len(frags)
               /\ frags[1].pos = lo /\ frags[Len(frags)].end = hi
    <2>1. Len(frags) > 0
      BY <1>1, <1>4, EmptySeq
    <2> QED
      BY <1>1, <2>1 DEF Contiguous
  <1>5. frags # <<>> => Bytes(frags) = hi - lo
    BY <1>4 DEF Bytes
  <1>6. ASSUME NEW i \in 1 .. Len(frags) PROVE frags[i].pos <= frags[i].end /\ frags[i].end <= hi
    <2> DEFINE last == Len(frags)
    <2>1. frags[i].pos <= frags[i].end
      BY DEF Contiguous
    <2>2. last \in 1 .. Len(frags) /\ frags[last].end = hi /\ frags[last].pos <= frags[last].end
      <3>1. frags # <<>>
        BY <1>1
      <3> QED
        BY <1>4, <3>1 DEF Contiguous
    <2> HIDE DEF last
    <2>3. CASE i = last
      BY <1>3, <2>1, <2>2, <2>3
    <2>4. CASE i < last
      <3>1. frags[i].end <= frags[last].pos
        BY <2>2, <2>4 DEF Contiguous
      <3> QED
        BY <1>3, <2>1, <2>2, <3>1
    <2> QED
      BY <1>1, <2>1, <2>3, <2>4 DEF last
  <1> QED
    BY <1>1, <1>2, <1>3, <1>4, <1>5, <1>6

(* The iteration of retrieve's loop that is the i-th: it pops a fragment as  *)
(* long as one is popped; the one after that advances the first fragment,    *)
(* and the loop has ended.                                                   *)
Removed(frags, i) == IF i = 0 THEN 0 ELSE frags[i].end - frags[1].pos

Popping(q, i) == [frags |-> SubSeq(q.frags, i + 1, Len(q.frags)), written |-> Removed(q.frags, i)]

Ended(q, len) ==
    [frags |-> Advanced(q, len, SubSeq(q.frags, Popped(q, len) + 1, Len(q.frags))),
     written |-> IF len <= Bytes(q.frags) THEN len ELSE Bytes(q.frags)]

Iterate(q, len, i) == IF i <= Popped(q, len) THEN Popping(q, i) ELSE Ended(q, len)

(* the fragment after the first i ones begins where they end *)
LEMMA NextFragment ==
  ASSUME NEW frags, NEW lo \in Nat, NEW hi \in Nat, Contiguous(frags, lo, hi),
         NEW i \in Nat, i < Len(frags)
  PROVE  LET f == frags[i + 1] IN
         /\ i + 1 \in 1 .. Len(frags) /\ frags # <<>> /\ f \in Fragments
         /\ f.pos \in Nat /\ f.end \in Nat /\ f.pos <= f.end /\ f.end <= hi
         /\ frags[1].pos = lo /\ Bytes(frags) = hi - lo
         /\ Removed(frags, i) = f.pos - lo
  <1> DEFINE n == Len(frags)
             f == frags[i + 1]
             g == frags[i]
  <1>1. frags \in Seq(Fragments) /\ n \in Nat
    BY DEF Contiguous
  <1>2. i + 1 \in 1 .. n /\ frags # <<>>
    BY <1>1
  <1>3. \A j \in 1 .. n : /\ frags[j] \in Fragments
                          /\ frags[j].pos \in Nat /\ frags[j].end \in Nat
                          /\ frags[j].pos <= frags[j].end /\ frags[j].end <= hi
    BY FragmentFacts, Zenon
  <1>4. f \in Fragments /\ f.pos \in Nat /\ f.end \in Nat /\ f.pos <= f.end /\ f.end <= hi
    BY <1>2, <1>3, Zenon
  <1>5. frags[1].pos = lo /\ Bytes(frags) = hi - lo
    BY <1>2, FragmentFacts
  <1>6. \A j, m \in 1 .. n : m = j + 1 => frags[j].end = frags[m].pos
    BY Zenon DEF Contiguous
  <1>7. CASE i = 0
    <2>1. f.pos = lo /\ Removed(frags, i) = 0
      BY <1>5, <1>7 DEF Removed
    <2> HIDE DEF f
    <2>2. Removed(frags, i) = f.pos - lo
      BY <2>1
    <2> QED
      BY <1>2, <1>4, <1>5, <2>2, Zenon DEF f
  <1>8. CASE i # 0
    <2>1. i \in 1 .. n
      BY <1>1, <1>8
    <2>2. g.end = f.pos
      BY <1>2, <1>6, <2>1, Zenon
    <2>3. Removed(frags, i) = g.end - frags[1].pos
      BY <1>8, Zenon DEF Removed
    <2> HIDE DEF f
    <2>4. Removed(frags, i) = f.pos - lo
      BY <1>5, <2>2, <2>3, Zenon
    <2> QED
      BY <1>2, <1>4, <1>5, <2>4, Zenon DEF f
  <1> QED
    BY <1>7, <1>8

(* an iteration that pops *)
LEMMA PoppingStep ==
  ASSUME NEW q, NEW lo \in Nat, NEW hi \in Nat, Contiguous(q.frags, lo, hi), NEW len \in Nat,
         NEW i \in Nat, i < Len(q.frags), Pops(q, len, i + 1)
  PROVE  RetrieveStep(Popping(q, i), len) = Popping(q, i + 1)
  <1> DEFINE frags == q.frags
             n == Len(frags)
             f == frags[i + 1]
             r == SubSeq(frags, i + 1, n)
             w == Removed(frags, i)
  <1>1. frags \in Seq(Fragments) /\ n \in Nat /\ i \in 0 .. n /\ i + 1 \in 0 .. n
    BY DEF Contiguous
  <1>2. f.pos \in Nat /\ f.end \in Nat /\ f.pos <= f.end /\ frags[1].pos = lo
    BY NextFragment, Zenon
  <1>3. w = f.pos - lo /\ f.pos - lo < len /\ f.end - lo <= len
    <2>1. w = f.pos - lo
      BY NextFragment, Zenon
    <2>2. f.pos - frags[1].pos < len /\ f.end - frags[1].pos <= len
      BY Zenon DEF Pops
    <2> QED
      BY <1>2, <2>1, <2>2, Zenon
  <1>4. /\ r \in Seq(Fragments) /\ Len(r) = n - i
        /\ \A j \in 1 .. n - i : r[j] = frags[i + j]
    BY <1>1, SuffixProperties
  <1>5. r # <<>> /\ r[1] = f
    <2> HIDE DEF r
    <2>1. 1 \in 1 .. n - i /\ Len(r) # 0
      BY <1>1, <1>4
    <2> QED
      BY <1>4, <2>1
  <1>6. Tail(r) = SubSeq(frags, i + 2, n)
    <2> DEFINE t == SubSeq(frags, (i + 1) + 1, n)
    <2>1. /\ t \in Seq(Fragments) /\ Len(t) = n - (i + 1)
          /\ \A j \in 1 .. n - (i + 1) : t[j] = frags[(i + 1) + j]
      BY <1>1, SuffixProperties
    <2>2. /\ Tail(r) \in Seq(Fragments) /\ Len(Tail(r)) = (n - i) - 1
          /\ \A j \in 1 .. (n - i) - 1 : Tail(r)[j] = r[j + 1]
      <3> HIDE DEF r
      <3> QED
        BY <1>4, <1>5, HeadTailProperties
    <2> HIDE DEF t, r
    <2>3. ASSUME NEW j \in 1 .. n - (i + 1) PROVE Tail(r)[j] = t[j]
      <3>1. j \in 1 .. (n - i) - 1 /\ j + 1 \in 1 .. n - i /\ i + (j + 1) = (i + 1) + j
        BY <1>1
      <3> QED
        BY <1>4, <2>1, <2>2, <3>1
    <2>4. Len(Tail(r)) = Len(t) /\ Len(t) = n - (i + 1)
      BY <1>1, <2>1, <2>2
    <2>5. Tail(r) = t
      BY <2>1, <2>2, <2>3, <2>4, SeqEqual
    <2>6. (i + 1) + 1 = i + 2
      OBVIOUS
    <2> QED
      BY <2>5, <2>6 DEF t
  <1>7. Popping(q, i) = [frags |-> r, written |-> w]
    BY DEF Popping
  <1>8. Popping(q, i + 1) = [frags |-> SubSeq(frags, i + 2, n), written |-> f.end - lo]
    <2>1. (i + 1) + 1 = i + 2 /\ Removed(frags, i + 1) = f.end - lo
      <3>1. i + 1 # 0 /\ (i + 1) + 1 = i + 2
        OBVIOUS
      <3> QED
        BY <1>2, <3>1, Zenon DEF Removed
    <2> QED
      BY <2>1 DEF Popping
  <1> HIDE DEF r, w, f, n, frags
  <1>9. ~(w >= len) /\ f.end - f.pos <= len - w /\ w + (f.end - f.pos) = f.end - lo
    <2> DEFINE a == f.pos
               b == f.end
    <2>1. a \in Nat /\ b \in Nat /\ w = a - lo /\ a - lo < len /\ b - lo <= len
      BY <1>2, <1>3, Zenon
    <2> HIDE DEF a, b
    <2>2. ~(w >= len) /\ b - a <= len - w /\ w + (b - a) = b - lo
      BY <2>1
    <2> QED
      BY <2>2, Zenon DEF a, b
  <1> DEFINE p == Popping(q, i)
  <1>10. p.frags = r /\ p.written = w
    BY <1>7
  <1> HIDE DEF p
  <1>11. /\ ~(p.written >= len) /\ p.frags # <<>>
         /\ p.frags[1].end - p.frags[1].pos <= len - p.written
    BY <1>5, <1>9, <1>10
  <1>12. RetrieveStep(p, len) = [frags |-> Tail(p.frags),
                                 written |-> p.written + (p.frags[1].end - p.frags[1].pos)]
    BY <1>11, Zenon DEF RetrieveStep
  <1>13. RetrieveStep(p, len) = [frags |-> SubSeq(frags, i + 2, n), written |-> f.end - lo]
    BY <1>5, <1>6, <1>9, <1>10, <1>12
  <1> QED
    BY <1>8, <1>13 DEF p

(* the iteration after the last one that pops, and the ones after that *)
LEMMA EndedStep ==
  ASSUME NEW q, NEW lo \in Nat, NEW hi \in Nat, Contiguous(q.frags, lo, hi), NEW len \in Nat
  PROVE  /\ RetrieveStep(Popping(q, Popped(q, len)), len) = Ended(q, len)
         /\ RetrieveStep(Ended(q, len), len) = Ended(q, len)
         /\ Popped(q, len) = Len(q.frags) => Popping(q, Popped(q, len)) = Ended(q, len)
  <1> DEFINE frags == q.frags
             n == Len(frags)
             k == Popped(q, len)
             rest == SubSeq(frags, k + 1, n)
             w == Removed(frags, k)
             last == IF len <= Bytes(frags) THEN len ELSE Bytes(frags)
             p == Popping(q, k)
             e == Ended(q, len)
  <1>1. frags \in Seq(Fragments) /\ n \in Nat
    BY DEF Contiguous
  <1>2. /\ k \in 0 .. n
        /\ \A i \in 1 .. k : Pops(q, len, i)
        /\ k < n => ~Pops(q, len, k + 1)
    BY <1>1, PoppedProperty
  <1>3. p.frags = rest /\ p.written = w /\ p = [frags |-> rest, written |-> w]
    BY DEF Popping
  <1>4. /\ e.frags = Advanced(q, len, rest) /\ e.written = last
        /\ e = [frags |-> Advanced(q, len, rest), written |-> last]
    BY DEF Ended
  <1> HIDE DEF p, e
  <1>5. /\ rest \in Seq(Fragments) /\ Len(rest) = n - k
        /\ \A i \in 1 .. n - k : rest[i] = frags[k + i]
    <2> HIDE DEF k, frags
    <2> QED
      BY <1>1, <1>2, SuffixProperties, Zenon
  <1>6. ASSUME w >= len \/ rest = <<>>, Advanced(q, len, rest) = rest, w = last
        PROVE  p = e /\ RetrieveStep(p, len) = p
    <2>1. p = e
      BY <1>3, <1>4, <1>6
    <2>2. RetrieveStep(p, len) = p
      BY <1>3, <1>6 DEF RetrieveStep
    <2> QED
      BY <2>1, <2>2
  <1>7. CASE k = n
    <2>1. rest = <<>>
      <3> HIDE DEF rest
      <3> QED
        BY <1>1, <1>5, <1>7, EmptySeq
    <2>2. Advanced(q, len, rest) = rest
      BY <2>1 DEF Advanced
    <2>3. w = last
      <3>1. CASE frags = <<>>
        <4>1. n = 0
          BY <3>1
        <4>2. w = 0 /\ Bytes(frags) = 0
          BY <1>7, <3>1, <4>1, Zenon DEF Removed, Bytes
        <4> HIDE DEF w
        <4> QED
          BY <4>2
      <3>2. CASE frags # <<>>
        <4>1. n \in 1 .. n /\ frags[1].pos = lo /\ frags[n].end = hi /\ Bytes(frags) = hi - lo
          BY <3>2, FragmentFacts, Zenon
        <4>2. frags[n].end - frags[1].pos <= len
          BY <1>2, <1>7, <4>1, Zenon DEF Pops
        <4>3. n # 0
          BY <4>1
        <4>4. w = hi - lo
          BY <1>7, <4>1, <4>3, Zenon DEF Removed
        <4>5. hi - lo <= len
          BY <4>1, <4>2, Zenon
        <4> HIDE DEF w
        <4> QED
          BY <4>1, <4>4, <4>5
      <3> QED
        BY <3>1, <3>2
    <2>4. p = e /\ RetrieveStep(p, len) = p
      BY <1>6, <2>1, <2>2, <2>3
    <2> QED
      BY <2>4 DEF p, e
  <1>8. CASE k < n
    <2> DEFINE f == frags[k + 1]
    <2>a. k \in Nat
      BY <1>1, <1>2
    <2>1. /\ k + 1 \in 1 .. n /\ frags # <<>> /\ ~Pops(q, len, k + 1)
          /\ f \in Fragments /\ f.pos \in Nat /\ f.end \in Nat /\ f.pos <= f.end /\ f.end <= hi
          /\ frags[1].pos = lo /\ Bytes(frags) = hi - lo
      BY <1>2, <1>8, <2>a, NextFragment, Zenon
    <2>2. rest # <<>> /\ rest[1] = f /\ 1 \in 1 .. Len(rest)
      <3>1. 1 \in 1 .. n - k /\ k + 1 \in 1 .. n
        BY <1>1, <1>2, <1>8
      <3> HIDE DEF rest
      <3> QED
        BY <1>5, <3>1
    <2>3. w = f.pos - lo /\ w <= len
      <3>1. w = f.pos - lo
        BY <1>8, <2>a, NextFragment, Zenon
      <3>2. CASE k = 0
        <4>1. w = 0
          BY <3>2, Zenon DEF Removed
        <4> HIDE DEF w
        <4> QED
          BY <3>1, <4>1
      <3>3. CASE k # 0
        <4>1. k \in 1 .. k
          BY <2>a, <3>3
        <4>2. frags[k].end - frags[1].pos <= len
          BY <1>2, <4>1, Zenon DEF Pops
        <4>3. w = frags[k].end - frags[1].pos
          BY <3>3, Zenon DEF Removed
        <4> QED
          BY <3>1, <4>2, <4>3, Zenon
      <3> QED
        BY <3>2, <3>3
    <2>4. f.pos - lo < len => f.end - lo > len
      <3>1. ~(f.pos - lo < len /\ f.end - lo <= len)
        BY <2>1, Zenon DEF Pops
      <3> HIDE DEF f
      <3> QED
        BY <2>1, <3>1
    <2> HIDE DEF w, rest, f, k, n
    <2>5. len <= hi - lo /\ last = len
      <3>1. len <= hi - lo
        BY <2>1, <2>3, <2>4
      <3> QED
        BY <2>1, <3>1
    <2>6. CASE w >= len
      <3>1. Advanced(q, len, rest) = rest
        <4>1. rest[1].pos - q.frags[1].pos >= len
          BY <2>1, <2>2, <2>3, <2>6, Zenon
        <4> QED
          BY <4>1, Zenon DEF Advanced
      <3>2. w = last
        BY <2>1, <2>3, <2>5, <2>6
      <3>3. p = e /\ RetrieveStep(p, len) = p
        BY <1>6, <2>6, <3>1, <3>2
      <3> QED
        BY <1>8, <3>3 DEF p, e, k, n
    <2>7. CASE ~(w >= len)
      <3>1. /\ ~(p.written >= len) /\ p.frags # <<>>
            /\ ~(p.frags[1].end - p.frags[1].pos <= len - p.written)
            /\ len - p.written # p.frags[1].end - p.frags[1].pos
        <4>1. f.pos \in Nat /\ f.end \in Nat
          BY <2>1, Zenon
        <4>2. ~(f.end - f.pos <= len - w) /\ len - w # f.end - f.pos
          BY <2>3, <2>4, <2>7, <4>1
        <4> QED
          BY <1>3, <2>2, <2>7, <4>2, Zenon
      <3>2. RetrieveStep(p, len) =
              [frags |-> [p.frags EXCEPT ![1].pos = @ + (len - p.written)],
               written |-> p.written + (len - p.written)]
        BY <3>1, Zenon DEF RetrieveStep
      <3>3. w + (len - w) = len /\ f.pos + (len - w) = lo + len
        BY <2>1, <2>3
      <3>4. [rest EXCEPT ![1].pos = @ + (len - w)] = [rest EXCEPT ![1].pos = lo + len]
        BY <2>2, <3>3
      <3>5. Advanced(q, len, rest) = [rest EXCEPT ![1].pos = lo + len]
        <4>1. ~(rest[1].pos - q.frags[1].pos >= len) /\ q.frags[1].pos = lo
          BY <2>1, <2>2, <2>3, <2>7, Zenon
        <4> QED
          BY <2>2, <4>1, Zenon DEF Advanced
      <3>6. RetrieveStep(p, len) = e
        BY <1>3, <1>4, <2>5, <3>2, <3>3, <3>4, <3>5
      <3>7. RetrieveStep(e, len) = e
        BY <1>4, <2>5 DEF RetrieveStep
      <3> QED
        BY <1>8, <3>6, <3>7 DEF p, e, k, n
    <2> QED
      BY <2>6, <2>7
  <1> QED
    BY <1>1, <1>2, <1>7, <1>8

LEMMA IterateStep ==
  ASSUME NEW q, NEW lo \in Nat, NEW hi \in Nat, Contiguous(q.frags, lo, hi), NEW len \in Nat
  PROVE  /\ Iterate(q, len, 0) = [frags |-> q.frags, written |-> 0]
         /\ \A i \in Nat : Iterate(q, len, i + 1) = RetrieveStep(Iterate(q, len, i), len)
         /\ Iterate(q, len, Len(q.frags)) = Ended(q, len)
  <1> DEFINE n == Len(q.frags)
             k == Popped(q, len)
  <1>1. q.frags \in Seq(Fragments) /\ n \in Nat
    BY FragmentFacts
  <1>2. /\ k \in 0 .. n
        /\ \A i \in 1 .. k : Pops(q, len, i)
    BY <1>1, PoppedProperty
  <1>3. /\ RetrieveStep(Popping(q, k), len) = Ended(q, len)
        /\ RetrieveStep(Ended(q, len), len) = Ended(q, len)
        /\ k = n => Popping(q, k) = Ended(q, len)
    BY EndedStep
  <1>4. \A i \in Nat : Iterate(q, len, i) = IF i <= k THEN Popping(q, i) ELSE Ended(q, len)
    BY DEF Iterate
  <1> HIDE DEF k
  <1>5. Iterate(q, len, 0) = [frags |-> q.frags, written |-> 0]
    <2>1. Iterate(q, len, 0) = Popping(q, 0)
      BY <1>2, <1>4
    <2>2. SubSeq(q.frags, 0 + 1, n) = q.frags /\ Removed(q.frags, 0) = 0
      BY <1>1 DEF Removed
    <2> QED
      BY <2>1, <2>2 DEF Popping
  <1>6. ASSUME NEW i \in Nat PROVE Iterate(q, len, i + 1) = RetrieveStep(Iterate(q, len, i), len)
    <2>1. CASE i < k
      <3>1. i + 1 \in 1 .. k /\ i <= k /\ i + 1 <= k /\ i < n
        BY <1>1, <1>2, <2>1
      <3>2. RetrieveStep(Popping(q, i), len) = Popping(q, i + 1)
        BY <1>2, <3>1, PoppingStep
      <3> QED
        BY <1>4, <3>1, <3>2
    <2>2. CASE i = k
      <3>1. i <= k /\ ~(i + 1 <= k)
        BY <1>2, <2>2
      <3> QED
        BY <1>3, <1>4, <2>2, <3>1
    <2>3. CASE i > k
      <3>1. ~(i <= k) /\ ~(i + 1 <= k)
        BY <1>2, <2>3
      <3> QED
        BY <1>3, <1>4, <3>1
    <2> QED
      BY <1>2, <2>1, <2>2, <2>3
  <1>7. Iterate(q, len, n) = Ended(q, len)
    BY <1>1, <1>2, <1>3, <1>4
  <1> QED
    BY <1>5, <1>6, <1>7

(* the function that RetrieveLoop defines by recursion *)
LEMMA LoopIsIterate ==
  ASSUME NEW q, NEW lo \in Nat, NEW hi \in Nat, Contiguous(q.frags, lo, hi), NEW len \in Nat
  PROVE  \A i \in Nat : RetrieveLoop(q.frags, len)[i] = Iterate(q, len, i)
  <1> DEFINE start == [frags |-> q.frags, written |-> 0]
             Recurs(f) == f = [i \in Nat |-> IF i = 0 THEN start ELSE RetrieveStep(f[i - 1], len)]
             g == [i \in Nat |-> Iterate(q, len, i)]
             loop == RetrieveLoop(q.frags, len)
  <1>1. /\ Iterate(q, len, 0) = start
        /\ \A i \in Nat : Iterate(q, len, i + 1) = RetrieveStep(Iterate(q, len, i), len)
    BY IterateStep
  <1>2. Recurs(g)
    <2> HIDE DEF start
    <2>1. ASSUME NEW i \in Nat, i # 0 PROVE Iterate(q, len, i) = RetrieveStep(g[i - 1], len)
      <3>1. i - 1 \in Nat /\ (i - 1) + 1 = i
        BY <2>1
      <3>2. g[i - 1] = Iterate(q, len, i - 1)
        BY <3>1
      <3> QED
        BY <1>1, <3>1, <3>2
    <2>2. \A i \in Nat : Iterate(q, len, i) = IF i = 0 THEN start ELSE RetrieveStep(g[i - 1], len)
      BY <1>1, <2>1
    <2> QED
      BY <2>2
  <1>3. loop = CHOOSE f : Recurs(f)
    BY DEF RetrieveLoop
  <1> HIDE DEF loop, g
  <1>4. Recurs(loop)
    <2> HIDE DEF Recurs
    <2> QED
      BY <1>2, <1>3
  <1> HIDE DEF start
  <1>5. loop[0] = start /\ \A i \in Nat : loop[i + 1] = RetrieveStep(loop[i], len)
    <2>1. \A i \in Nat : loop[i] = IF i = 0 THEN start ELSE RetrieveStep(loop[i - 1], len)
      BY <1>4
    <2>2. ASSUME NEW i \in Nat PROVE loop[i + 1] = RetrieveStep(loop[i], len)
      <3>1. i + 1 \in Nat /\ i + 1 # 0 /\ (i + 1) - 1 = i
        OBVIOUS
      <3> QED
        BY <2>1, <3>1
    <2> QED
      BY <2>1, <2>2
  <1> DEFINE Wrong == {i \in Nat : loop[i] # Iterate(q, len, i)}
  <1>6. ASSUME Wrong # {} PROVE FALSE
    <2>1. PICK m \in Wrong : \A j \in Wrong : ~(j < m)
      <3>1. Wrong \subseteq Nat
        OBVIOUS
      <3> QED
        BY <1>6, <3>1, LeastElement
    <2>2. m \in Nat /\ loop[m] # Iterate(q, len, m) /\ m # 0
      BY <1>1, <1>5, <2>1
    <2>3. m - 1 \in Nat /\ m - 1 < m /\ (m - 1) + 1 = m
      BY <2>2
    <2>4. loop[m - 1] = Iterate(q, len, m - 1)
      BY <2>1, <2>3
    <2>5. loop[m] = RetrieveStep(loop[m - 1], len) /\ Iterate(q, len, m) = RetrieveStep(Iterate(q, len, m - 1), len)
      BY <1>1, <1>5, <2>3
    <2> QED
      BY <2>2, <2>4, <2>5
  <1> QED
    BY <1>6 DEF loop

(* The loop of SendQueue::retrieve ends after at most one iteration per      *)
(* fragment, and what it leaves is what the model's Retrieve says, for any   *)
(* buffer of adjacent fragments, empty ones included, and any length, even   *)
(* one beyond the end of the buffer (SendQueue.hpp:147-163).                 *)
THEOREM RetrieveLoopIsClosedForm ==
  ASSUME NEW q \in Queues, NEW lo \in Nat, NEW hi \in Nat, Contiguous(q.frags, lo, hi),
         NEW len \in Nat
  PROVE  LET r == RetrieveLoop(q.frags, len)[Len(q.frags)]
         IN  /\ RetrieveStep(r, len) = r
             /\ Retrieve(q, len) = [frags |-> r.frags,
                                    curr |-> IF q.frags = <<>> THEN q.curr ELSE 1,
                                    total_len |-> q.total_len - r.written]
  <1> DEFINE r == RetrieveLoop(q.frags, len)[Len(q.frags)]
             e == Ended(q, len)
             rest == SubSeq(q.frags, Popped(q, len) + 1, Len(q.frags))
             last == IF len <= Bytes(q.frags) THEN len ELSE Bytes(q.frags)
  <1>1. r = e /\ RetrieveStep(e, len) = e
    <2>1. Len(q.frags) \in Nat
      BY FragmentFacts
    <2>2. Iterate(q, len, Len(q.frags)) = e
      BY IterateStep
    <2>3. \A i \in Nat : RetrieveLoop(q.frags, len)[i] = Iterate(q, len, i)
      BY LoopIsIterate
    <2>4. RetrieveStep(e, len) = e
      BY EndedStep
    <2> QED
      BY <2>1, <2>2, <2>3, <2>4
  <1>2. e.frags = Advanced(q, len, rest) /\ e.written = last
    BY DEF Ended
  <1> HIDE DEF r, e
  <1>3. Retrieve(q, len) = [frags |-> e.frags,
                            curr |-> IF q.frags = <<>> THEN q.curr ELSE 1,
                            total_len |-> q.total_len - e.written]
    <2>1. CASE q.frags # <<>>
      BY <1>2, <2>1 DEF Retrieve, CursorAtHead, LenAfterRetrieve
    <2>2. CASE q.frags = <<>>
      <3>1. q = [frags |-> q.frags, curr |-> q.curr, total_len |-> q.total_len] /\ q.total_len \in Int
        BY DEF Queues
      <3>2. last = 0
        BY <2>2 DEF Bytes
      <3>3. e.frags = <<>>
        <4>1. Popped(q, len) \in 0 .. Len(q.frags) /\ Len(q.frags) = 0
          BY <2>2, FragmentFacts, PoppedProperty
        <4>2. rest = <<>>
          BY <2>2, <4>1
        <4> QED
          BY <1>2, <4>2 DEF Advanced
      <3>4. q.total_len - e.written = q.total_len
        BY <1>2, <3>1, <3>2
      <3> QED
        BY <2>2, <3>1, <3>3, <3>4 DEF Retrieve
    <2> QED
      BY <2>1, <2>2
  <1> QED
    BY <1>1, <1>3 DEF r

-----------------------------------------------------------------------------
(* What RetrieveIsLoop needs of a reachable buffer, whatever the kernel and  *)
(* the coroutine do: its fragments are adjacent and end with the last byte   *)
(* that was appended.                                                        *)
KeptInv ==
    /\ output_buffer \in Queues
    /\ appended \in Nat
    /\ sqe = "cqe" => res \in Nat \cup {Fatal, Retry}
    /\ \E lo \in Nat : Contiguous(output_buffer.frags, lo, appended + 1)

(* no fragment is adjacent fragments without positions *)
LEMMA NoFragments ==
  ASSUME NEW hi \in Nat
  PROVE  Contiguous(<<>>, hi, hi)
  BY DEF Contiguous

(* retrieve() of more than there is leaves an empty buffer *)
LEMMA RetrieveKeeps ==
  ASSUME NEW q \in Queues, NEW lo \in Nat, NEW hi \in Nat, Contiguous(q.frags, lo, hi),
         NEW len \in Nat
  PROVE  /\ Retrieve(q, len) \in Queues
         /\ \E m \in Nat : Contiguous(Retrieve(q, len).frags, m, hi)
  <1>1. CASE lo + len <= hi
    <2>1. lo + len \in Nat
      OBVIOUS
    <2> QED
      BY <1>1, <2>1, RetrieveContiguous, RetrievedQueue
  <1>2. CASE q.frags = <<>>
    BY <1>2 DEF Retrieve
  <1>3. CASE q.frags # <<>> /\ ~(lo + len <= hi)
    <2> DEFINE n == Len(q.frags)
               k == Popped(q, len)
               r == Retrieve(q, len)
    <2>a. q.frags # <<>>
      BY <1>3
    <2>b. n \in Nat
      <3>1. q.frags \in Seq(Fragments)
        BY DEF Queues
      <3> QED
        BY <3>1
    <2>1. /\ q.frags[1].pos = lo /\ Bytes(q.frags) = hi - lo
          /\ \A i \in 1 .. n : /\ q.frags[i].pos \in Nat /\ q.frags[i].end \in Nat
                               /\ q.frags[i].pos <= q.frags[i].end /\ q.frags[i].end <= hi
      BY <2>a, FragmentFacts, Zenon
    <2>2. k \in 0 .. n /\ (k < n => ~Pops(q, len, k + 1))
      BY PoppedProperty DEF Queues
    <2> HIDE DEF k
    <2>3. k = n
      <3> SUFFICES ASSUME k < n PROVE FALSE
        BY <2>2, <2>b
      <3>1. k + 1 \in 1 .. n
        BY <2>2, <2>b
      <3> DEFINE f == q.frags[k + 1]
      <3>2. f.pos \in Nat /\ f.end \in Nat /\ f.pos <= f.end /\ f.end <= hi
        BY <2>1, <3>1, Zenon
      <3> HIDE DEF f
      <3>3. f.pos - lo < len /\ f.end - lo <= len
        BY <1>3, <3>2
      <3>4. Pops(q, len, k + 1)
        BY <2>1, <3>3, Zenon DEF Pops, f
      <3> QED
        BY <2>2, <3>4
    <2>4. SubSeq(q.frags, k + 1, n) = <<>>
      <3>1. q.frags \in Seq(Fragments)
        BY DEF Queues
      <3> QED
        BY <2>3, <2>b, <3>1
    <2>5. r = [frags |-> <<>>, curr |-> 1, total_len |-> LenAfterRetrieve(q, len)]
      BY <1>3, <2>4 DEF Retrieve, Advanced, CursorAtHead, k
    <2>6. LenAfterRetrieve(q, len) \in Int
      BY <2>1 DEF LenAfterRetrieve, Queues
    <2> HIDE DEF r
    <2>7. r \in Queues
      BY <2>5, <2>6 DEF Queues
    <2>8. Contiguous(r.frags, hi, hi)
      <3>1. r.frags = <<>>
        BY <2>5
      <3> QED
        BY <3>1, NoFragments
    <2> QED
      BY <2>7, <2>8 DEF r
  <1> QED
    BY <1>1, <1>2, <1>3

(* flush() leaves the fragments alone, wherever curr_ is *)
LEMMA AfterBatchKeeps ==
  ASSUME NEW q \in Queues
  PROVE  AfterBatch(q, MaxSlices) \in Queues /\ AfterBatch(q, MaxSlices).frags = q.frags
  <1> DEFINE e == BatchEnd(q, MaxSlices)
  <1>1. q.frags \in Seq(Fragments) /\ q.curr \in Nat \ {0} /\ q.total_len \in Int
    BY DEF Queues
  <1>2. Len(q.frags) \in Nat
    BY <1>1
  <1>3. e \in Nat
    BY <1>1, <1>2, SlicesAssumption DEF BatchEnd
  <1>4. AfterBatch(q, MaxSlices) = [frags |-> q.frags, curr |-> e + 1, total_len |-> q.total_len]
    BY DEF AfterBatch, Queues
  <1> HIDE DEF e
  <1> QED
    BY <1>1, <1>3, <1>4 DEF Queues

LEMMA SendKeepsKept ==
  ASSUME KeptInv, NEW n \in SendLens, SendInLoop(n), UNCHANGED res
  PROVE  KeptInv'
  <1> DEFINE q == AppendData(output_buffer, appended + 1, n)
  <1>1. n \in Nat /\ appended \in Nat /\ output_buffer \in Queues /\ appended' = appended + n
    BY SendLensAssumption DEF KeptInv, SendInLoop
  <1>2. PICK lo \in Nat : Contiguous(output_buffer.frags, lo, appended + 1)
    BY DEF KeptInv
  <1>3. appended + 1 \in Nat /\ appended' \in Nat /\ appended + 1 + n = appended' + 1
    BY <1>1
  <1>4. q \in Queues /\ q.frags = Append(output_buffer.frags, [pos |-> appended + 1, end |-> appended + 1 + n])
    BY <1>1, <1>3, AppendedQueue
  <1>5. Contiguous(Append(output_buffer.frags, [pos |-> appended + 1, end |-> appended + 1 + n]),
                   lo, appended + 1 + n)
    BY <1>1, <1>2, <1>3, AppendContiguous
  <1>6. /\ output_buffer' = q \/ output_buffer' = AfterBatch(q, MaxSlices)
        /\ sqe' = "prepared" \/ sqe' = sqe
    BY DEF SendInLoop, Flush
  <1> HIDE DEF q
  <1>7. output_buffer' \in Queues /\ output_buffer'.frags = q.frags
    BY <1>4, <1>6, AfterBatchKeeps
  <1>8. Contiguous(output_buffer'.frags, lo, appended' + 1)
    BY <1>3, <1>4, <1>5, <1>7
  <1>9. sqe' = "cqe" => res' \in Nat \cup {Fatal, Retry}
    BY <1>6 DEF KeptInv, Fatal, Retry
  <1> QED
    BY <1>3, <1>7, <1>8, <1>9 DEF KeptInv, Fatal, Retry

LEMMA CompletionKeepsKept ==
  ASSUME KeptInv, OnCompletion
  PROVE  KeptInv'
  <1> DEFINE q == IF res = Retry THEN output_buffer ELSE Retrieve(output_buffer, res)
  <1>1. /\ output_buffer \in Queues /\ appended \in Nat /\ appended' = appended
        /\ appended + 1 \in Nat /\ sqe = "cqe" /\ (res = Retry \/ res \in Nat)
    BY DEF KeptInv, OnCompletion, client
  <1>2. PICK lo \in Nat : Contiguous(output_buffer.frags, lo, appended + 1)
    BY DEF KeptInv
  <1>3. q \in Queues /\ \E m \in Nat : Contiguous(q.frags, m, appended + 1)
    <2>1. CASE res = Retry
      BY <1>1, <1>2, <2>1
    <2>2. CASE res # Retry
      <3>1. q = Retrieve(output_buffer, res) /\ res \in Nat
        BY <1>1, <2>2
      <3> QED
        BY <1>1, <1>2, <3>1, RetrieveKeeps
    <2> QED
      BY <2>1, <2>2
  <1>4. /\ output_buffer' = q \/ output_buffer' = AfterBatch(q, MaxSlices)
        /\ sqe' # "cqe"
    BY DEF OnCompletion, Flush, GoesIdle
  <1> HIDE DEF q
  <1>5. output_buffer' \in Queues /\ output_buffer'.frags = q.frags
    BY <1>3, <1>4, AfterBatchKeeps
  <1> QED
    BY <1>1, <1>3, <1>4, <1>5 DEF KeptInv

LEMMA KeptInvariant == Spec => []KeptInv
  <1>1. Init => KeptInv
    <2> SUFFICES ASSUME Init PROVE KeptInv
      OBVIOUS
    <2>1. output_buffer = [frags |-> <<>>, curr |-> 1, total_len |-> 0] /\ appended = 0 /\ sqe = "none"
      BY DEF Init, EmptyQueue
    <2>2. output_buffer \in Queues
      BY <2>1 DEF Queues
    <2>3. Contiguous(output_buffer.frags, 1, appended + 1)
      BY <2>1 DEF Contiguous
    <2> QED
      BY <2>1, <2>2, <2>3 DEF KeptInv
  <1>2. KeptInv /\ [Next]_vars => KeptInv'
    <2> SUFFICES ASSUME KeptInv, [Next]_vars PROVE KeptInv'
      OBVIOUS
    <2>1. CASE \E n \in SendLens : SendReady(n) \/ SendSuspends(n)
      <3>1. PICK n \in SendLens : SendInLoop(n) /\ UNCHANGED res
        BY <2>1 DEF SendReady, SendSuspends, Sends
      <3> QED
        BY <3>1, SendKeepsKept
    <2>2. CASE OnCompletion
      BY <2>2, CompletionKeepsKept
    <2>3. CASE KernelFails
      <3>1. UNCHANGED <<output_buffer, appended>> /\ res' \in {Fatal, Retry}
        BY <2>3 DEF KernelFails, ctx, client
      <3> QED
        BY <3>1 DEF KeptInv
    <2>4. ASSUME NEW n \in 0 .. MaxBytes, KernelWrites(n) PROVE KeptInv'
      <3>1. UNCHANGED <<output_buffer, appended>> /\ res' = n /\ n \in Nat
        BY <2>4, BoundsAssumption DEF KernelWrites, ctx, client
      <3> QED
        BY <3>1 DEF KeptInv
    <2>5. CASE UNCHANGED <<output_buffer, appended, res>> /\ (sqe' = sqe \/ sqe' # "cqe")
      BY <2>5 DEF KeptInv, Fatal, Retry
    <2>6. CASE AwaitRead \/ Finish \/ ReadCompletes \/ ReadFails \/ ReadFailsCloses
      BY <2>5, <2>6 DEF AwaitRead, Finish, ReadCompletes, ReadFails, ReadFailsCloses, ctx, kernel, client
    <2>7. CASE Submit \/ OnFatal \/ OnFatalCloses
      BY <2>5, <2>7 DEF Submit, OnFatal, OnFatalCloses, ctx, kernel, client
    <2>8. CASE UNCHANGED vars
      BY <2>5, <2>8 DEF vars, ctx, kernel, client
    <2> QED
      BY <2>1, <2>2, <2>3, <2>4, <2>6, <2>7, <2>8 DEF Next, Kernel
  <1> QED
    BY <1>1, <1>2, PTL DEF Spec

(* On every reachable output buffer the loop of retrieve                     *)
(* (SendQueue.hpp:148-163) ends and computes what the model's Retrieve says, *)
(* even after a failed write that is repeated.                               *)
THEOREM AlwaysRetrieveIsLoop == Spec => []RetrieveIsLoop
  <1>1. KeptInv => RetrieveIsLoop
    <2> SUFFICES ASSUME KeptInv, NEW len \in 0 .. MaxBytes + 1
                 PROVE  LET q == output_buffer
                            r == RetrieveLoop(q.frags, len)[Len(q.frags)]
                        IN  /\ RetrieveStep(r, len) = r
                            /\ Retrieve(q, len) = [frags |-> r.frags,
                                                   curr |-> IF q.frags = <<>> THEN q.curr ELSE 1,
                                                   total_len |-> q.total_len - r.written]
      BY DEF RetrieveIsLoop
    <2>1. len \in Nat /\ output_buffer \in Queues /\ appended + 1 \in Nat
      BY BoundsAssumption DEF KeptInv
    <2>2. PICK lo \in Nat : Contiguous(output_buffer.frags, lo, appended + 1)
      BY DEF KeptInv
    <2> QED
      BY <2>1, <2>2, RetrieveLoopIsClosedForm
  <1> QED
    BY <1>1, KeptInvariant, PTL

=============================================================================
