------------------------------ MODULE SendQueue ------------------------------
(***************************************************************************)
(* The output buffer (src/include/SendQueue.hpp): a list of fragments and  *)
(* the cursor curr_ up to which they were handed to the kernel.            *)
(*                                                                         *)
(* The bytes of the output stream are identified by their position 1, 2,   *)
(* ..., so a fragment is the interval of positions it still has to send:   *)
(* pos is ptr_ + written_ and end is ptr_ + len_.  Consecutive fragments   *)
(* are adjacent intervals.  curr is the index of the fragment curr_ points *)
(* to; the index after the last fragment stands for the null pointer.      *)
(***************************************************************************)
EXTENDS Integers, Sequences

Fragments == [pos : Nat, end : Nat]

(* the number of bytes in a list of adjacent fragments *)
Bytes(frags) == IF frags = <<>> THEN 0 ELSE frags[Len(frags)].end - frags[1].pos

EmptyQueue == [frags |-> <<>>, curr |-> 1, total_len |-> 0]

(* append(data): positions pos .. pos + n - 1 in a new fragment; push_back  *)
(* makes a null curr_ point to it, which leaves the index unchanged.        *)
AppendData(q, pos, n) ==
    [frags |-> Append(q.frags, [pos |-> pos, end |-> pos + n]),
     curr |-> q.curr,
     total_len |-> q.total_len + n]

BatchEnd(q, max) == IF q.curr + max - 1 <= Len(q.frags) THEN q.curr + max - 1 ELSE Len(q.frags)

(* getBatchFragment(iovecs, max_count): the iovecs, and the queue after it *)
Batch(q, max) == SubSeq(q.frags, q.curr, BatchEnd(q, max))
AfterBatch(q, max) == [q EXCEPT !.curr = BatchEnd(q, max) + 1]

PopsNextEmpty(q, len, i) ==
    /\ q.frags[i].pos - q.frags[1].pos <= len
    /\ q.frags[i].end - q.frags[1].pos <= len

(* retrieve(len) pops the fragments that begin before the end of the len    *)
(* oldest bytes and do not reach beyond it ...                              *)
Pops(q, len, i) ==
    /\ q.frags[i].pos - q.frags[1].pos < len
    /\ q.frags[i].end - q.frags[1].pos <= len

Popped(q, len) ==
    CHOOSE k \in 0 .. Len(q.frags) :
        /\ \A i \in 1 .. k : Pops(q, len, i)
        /\ k < Len(q.frags) => ~Pops(q, len, k + 1)

(* ... advances written_ in the one that does ... *)
Advanced(q, len, rest) ==
    IF rest = <<>> \/ rest[1].pos - q.frags[1].pos >= len
    THEN rest
    ELSE [rest EXCEPT ![1].pos = q.frags[1].pos + len]

(* ... moves curr_ back to head_ ... *)
CursorAtHead(q, k) == 1

(* ... and subtracts what it went over from total_len_. *)
LenAfterRetrieve(q, len) ==
    q.total_len - (IF len <= Bytes(q.frags) THEN len ELSE Bytes(q.frags))

Retrieve(q, len) ==
    IF q.frags = <<>> THEN q
    ELSE LET k == Popped(q, len)
         IN  [frags |-> Advanced(q, len, SubSeq(q.frags, k + 1, Len(q.frags))),
              curr |-> CursorAtHead(q, k),
              total_len |-> LenAfterRetrieve(q, len)]

(* retrieve(len) as SendQueue.hpp writes it: an iteration of its loop on the *)
(* fragments and the local variable written, which does nothing once the     *)
(* loop has ended ...                                                        *)
RetrieveStep(r, len) ==
    IF r.written >= len \/ r.frags = <<>> THEN r
    ELSE LET remain == r.frags[1].end - r.frags[1].pos
             offset == IF remain <= len - r.written THEN remain ELSE len - r.written
         IN  [frags |-> IF offset = remain THEN Tail(r.frags)
                        ELSE [r.frags EXCEPT ![1].pos = @ + offset],
              written |-> r.written + offset]

(* ... and what its first n iterations compute *)
RetrieveLoop(frags, len) ==
    LET iter[n \in Nat] ==
            IF n = 0 THEN [frags |-> frags, written |-> 0] ELSE RetrieveStep(iter[n - 1], len)
    IN  iter
=============================================================================
