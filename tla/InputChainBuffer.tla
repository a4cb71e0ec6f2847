-------------------------- MODULE InputChainBuffer --------------------------
(***************************************************************************)
(* The input buffer of a connection (src/src/InputChainBuffer.cc): a list  *)
(* of chunks of the loop's buffer ring.  Bytes are identified by their     *)
(* position 1, 2, ... in the input stream; a chunk in the list is the      *)
(* interval of positions it still has to give up: pos is data_ptr_ +       *)
(* head_, end is data_ptr_ + tail_.                                        *)
(***************************************************************************)
EXTENDS Integers, Sequences

EmptyBuffer == [chain |-> <<>>, total_len |-> 0]

(* append(index, len): push_back takes the chunk with that number *)
AppendChunk(b, id, pos, len) ==
    [chain |-> Append(b.chain, [id |-> id, pos |-> pos, end |-> pos + len]),
     total_len |-> b.total_len + len]

(* remove(target, len) and retrieve(len) empty the chunks that end within   *)
(* the len oldest bytes ...                                                 *)
Empties(b, len, i) == b.chain[i].end - b.chain[1].pos <= len

Emptied(b, len) ==
    CHOOSE k \in 0 .. Len(b.chain) :
        /\ \A i \in 1 .. k : Empties(b, len, i)
        /\ k < Len(b.chain) => ~Empties(b, len, k + 1)

RestNotAdvanced(b, len) == SubSeq(b.chain, Emptied(b, len) + 1, Len(b.chain))

(* ... advance head_ in the next one, ... *)
Rest(b, len) ==
    LET k == Emptied(b, len)
        rest == SubSeq(b.chain, k + 1, Len(b.chain))
    IN  IF rest = <<>> THEN rest
        ELSE [rest EXCEPT ![1].pos = b.chain[1].pos + len]

LenLeft(b, len) == b.total_len - (IF len <= b.total_len THEN len ELSE b.total_len)

Remove(b, len) == [chain |-> Rest(b, len), total_len |-> LenLeft(b, len)]

ReturnsNone(b, len) == {}

(* ... and pop_front() returns the emptied ones to the buffer ring. *)
ReturnedChunks(b, len) == {b.chain[i].id : i \in 1 .. Emptied(b, len)}

(* the destructor returns all of them *)
AllChunks(b) == {b.chain[i].id : i \in 1 .. Len(b.chain)}
=============================================================================
