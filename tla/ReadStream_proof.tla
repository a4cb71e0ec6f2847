-------------------------- MODULE ReadStream_proof --------------------------
(***************************************************************************)
(* Proofs about the data that the receive requests deliver, from the       *)
(* facts of ReadContext_proof: each connection's bytes stay in order and   *)
(* each chunk has one owner (DataInv), and a connection above the mark     *)
(* does not receive (LoadInv).                                             *)
(***************************************************************************)
EXTENDS ReadContext_proof

-----------------------------------------------------------------------------
(* The input of one connection: its buffer has the oldest bytes it has not   *)
(* consumed, the completions the others; a destroyed one's buffer is empty.  *)
StreamInv(c) ==
    LET next == taken[c] + 1 + input_buffer[c].total_len IN
    IF freed[c] THEN input_buffer[c] = EmptyBuffer
    ELSE /\ InSequence(input_buffer[c].chain, taken[c] + 1, next)
         /\ InSequence(Data(cqes[c]), next, arrived[c] + 1)

StreamTypes ==
    /\ input_buffer \in [Conns -> [chain : Seq(Items), total_len : Nat]]
    /\ taken \in [Conns -> Nat]

(* The chunks of one connection: s in its buffer, d in its completions, none *)
(* twice and none of them in the ring.                                       *)
Apart(s, d, free) ==
    /\ Distinct(s) /\ Distinct(d)
    /\ Ids(s) \cap Ids(d) = {}
    /\ (Ids(s) \cup Ids(d)) \cap free = {}

DataInv == StreamTypes /\ (\A c \in Conns : StreamInv(c)) /\ ChunksConserved

(* A step that touches the chunks of one connection only, and neither loses  *)
(* one nor takes one from elsewhere than the ring, conserves the chunks.     *)
LEMMA OneStreamSteps ==
  ASSUME DataInv, NEW c \in Conns, StreamTypes', StreamInv(c)',
         \A d \in Conns : d # c => /\ input_buffer'[d] = input_buffer[d] /\ taken'[d] = taken[d]
                                   /\ cqes'[d] = cqes[d] /\ arrived'[d] = arrived[d]
                                   /\ freed'[d] = freed[d],
         ring' \cup Owned(c)' = ring \cup Owned(c),
         Apart(input_buffer'[c].chain, Data(cqes'[c]), ring')
  PROVE  DataInv'
  <1>1. ASSUME NEW d \in Conns, d # c PROVE StreamInv(d)' /\ Owned(d)' = Owned(d)
    BY <1>1 DEF DataInv, StreamInv, Owned
  <1>2. /\ Owned(c)' = Ids(input_buffer'[c].chain) \cup Ids(Data(cqes'[c]))
        /\ Owned(c)' \cap ring' = {}
    BY DEF Owned, Apart
  <1>3. ring \cup UNION {Owned(d) : d \in Conns} = Chunks
    BY DEF DataInv, ChunksConserved
  <1>4. ASSUME NEW d \in Conns
        PROVE  /\ Owned(d) \cap ring = {}
               /\ \A e \in Conns : e # d => Owned(d) \cap Owned(e) = {}
               /\ Distinct(input_buffer[d].chain) /\ Distinct(Data(cqes[d]))
               /\ Ids(input_buffer[d].chain) \cap Ids(Data(cqes[d])) = {}
    BY DEF DataInv, ChunksConserved
  <1>5. ring' \cup UNION {Owned(d)' : d \in Conns} = Chunks
    <2>1. ASSUME NEW x \in Chunks PROVE x \in ring' \cup UNION {Owned(d)' : d \in Conns}
      <3>1. CASE x \in ring \cup Owned(c)
        <4>1. x \in ring' \/ x \in Owned(c)'
          BY <3>1
        <4> QED
          BY <4>1
      <3>2. CASE \E d \in Conns : d # c /\ x \in Owned(d)
        BY <1>1, <3>2
      <3> QED
        BY <1>3, <3>1, <3>2
    <2>2. ASSUME NEW x \in ring' \cup UNION {Owned(d)' : d \in Conns} PROVE x \in Chunks
      <3>1. CASE x \in ring' \/ x \in Owned(c)'
        <4>1. x \in ring \/ x \in Owned(c)
          BY <3>1
        <4> QED
          BY <1>3, <4>1
      <3>2. CASE \E d \in Conns : d # c /\ x \in Owned(d)'
        BY <1>1, <1>3, <3>2
      <3> QED
        BY <2>2, <3>1, <3>2
    <2> QED
      BY <2>1, <2>2
  <1>6. ASSUME NEW d \in Conns
        PROVE  /\ Owned(d)' \cap ring' = {}
               /\ \A e \in Conns : e # d => Owned(d)' \cap Owned(e)' = {}
    <2>1. ASSUME NEW e \in Conns, e # c PROVE Owned(e)' \cap ring' = {} /\ Owned(e)' \cap Owned(c)' = {}
      <3>1. Owned(e) \cap (ring \cup Owned(c)) = {}
        BY <1>4, <2>1
      <3> QED
        BY <1>1, <2>1, <3>1
    <2>2. CASE d = c
      BY <1>2, <2>1, <2>2
    <2>3. CASE d # c
      <3>1. ASSUME NEW e \in Conns, e # d PROVE Owned(d)' \cap Owned(e)' = {}
        <4>1. CASE e = c
          BY <2>1, <2>3, <4>1
        <4>2. CASE e # c
          BY <1>1, <1>4, <2>3, <3>1, <4>2
        <4> QED
          BY <4>1, <4>2
      <3> QED
        BY <2>1, <2>3, <3>1
    <2> QED
      BY <2>2, <2>3
  <1>7. ASSUME NEW d \in Conns
        PROVE  /\ Distinct(input_buffer'[d].chain) /\ Distinct(Data(cqes'[d]))
               /\ Ids(input_buffer'[d].chain) \cap Ids(Data(cqes'[d])) = {}
    <2>1. CASE d = c
      BY <2>1 DEF Apart
    <2>2. CASE d # c
      BY <1>4, <2>2
    <2> QED
      BY <2>1, <2>2
  <1>8. ChunksConserved'
    BY <1>5, <1>6, <1>7 DEF ChunksConserved
  <1> QED
    BY <1>1, <1>8 DEF DataInv

(* What the invariants say of one connection that is alive. *)
LEMMA LiveStream ==
  ASSUME ReadInv, DataInv, NEW c \in Conns, ~freed[c]
  PROVE  LET b == input_buffer[c]
             d == Data(cqes[c])
             next == taken[c] + 1 + b.total_len IN
         /\ b.chain \in Seq(Items) /\ b.total_len \in Nat /\ taken[c] \in Nat /\ arrived[c] \in Nat
         /\ b = [chain |-> b.chain, total_len |-> b.total_len]
         /\ cqes[c] \in Seq(Entry) /\ OnlyLastEnds(cqes[c], sqe[c] = "armed")
         /\ d \in Seq(Items)
         /\ InSequence(b.chain, taken[c] + 1, next) /\ InSequence(d, next, arrived[c] + 1)
         /\ Apart(b.chain, d, ring)
         /\ Owned(c) = Ids(b.chain) \cup Ids(d)
  <1>1. input_buffer[c] \in [chain : Seq(Items), total_len : Nat] /\ taken[c] \in Nat
    BY DEF DataInv, StreamTypes
  <1>2. /\ arrived[c] \in Nat /\ cqes[c] \in Seq(Entry)
        /\ OnlyLastEnds(cqes[c], sqe[c] = "armed") /\ (sqe[c] = "armed") \in BOOLEAN
    BY DEF ReadInv, FunctionsOfConns, ReaderInv
  <1>3. Data(cqes[c]) \in Seq(Items)
    BY <1>2, DataProperties
  <1>4. StreamInv(c)
    BY DEF DataInv
  <1>5. Owned(c) = Ids(input_buffer[c].chain) \cup Ids(Data(cqes[c]))
    BY DEF Owned
  <1>6. Apart(input_buffer[c].chain, Data(cqes[c]), ring)
    BY <1>5 DEF DataInv, ChunksConserved, Apart
  <1> QED
    BY <1>1, <1>2, <1>3, <1>4, <1>5, <1>6 DEF StreamInv

(* read(len) and retrieve(len) *)
LEMMA ReadStep ==
  ASSUME ReadInv, DataInv, NEW c \in Conns, NEW len \in Nat, Read(c, len)
  PROVE  DataInv'
  <1> DEFINE b == input_buffer[c]
             d == Data(cqes[c])
             lo == taken[c] + 1
             next == lo + b.total_len
             r == Rest(b, len)
             ret == ReturnedChunks(b, len)
  <1>1. ~freed[c]
    BY DEF Read, Runs, ReadInv, ReaderInv
  <1>2. /\ b.chain \in Seq(Items) /\ b.total_len \in Nat /\ taken[c] \in Nat /\ arrived[c] \in Nat
        /\ InSequence(b.chain, lo, next) /\ InSequence(d, next, arrived[c] + 1)
        /\ Apart(b.chain, d, ring)
        /\ Owned(c) = Ids(b.chain) \cup Ids(d)
    BY <1>1, LiveStream
  <1>3. len <= b.total_len
    BY DEF Read
  <1>13. b.total_len \in Nat /\ taken[c] \in Nat /\ arrived[c] \in Nat
    BY <1>2, Zenon
  <1>4. lo \in Nat /\ next \in Nat /\ lo + len <= next /\ lo + len \in Nat
    <2> HIDE DEF b
    <2> QED
      BY <1>3, <1>13
  <1> HIDE DEF lo, next
  <1>5. /\ r \in Seq(Items) /\ InSequence(r, lo + len, next)
    BY <1>2, <1>4, RemoveInSequence
  <1>6. /\ Ids(b.chain) = Ids(r) \cup ret
        /\ Distinct(b.chain) => Distinct(r) /\ Ids(r) \cap ret = {}
    BY <1>2, <1>4, RemoveIds
  <1>7. LenLeft(b, len) = b.total_len - len /\ b.total_len - len \in Nat
    <2> HIDE DEF b
    <2> QED
      BY <1>3, <1>13 DEF LenLeft
  <1>8. /\ input_buffer'[c] = [chain |-> r, total_len |-> b.total_len - len]
        /\ taken'[c] = taken[c] + len /\ ring' = ring \cup ret
        /\ cqes' = cqes /\ arrived' = arrived /\ freed' = freed
        /\ \A e \in Conns : e # c => input_buffer'[e] = input_buffer[e] /\ taken'[e] = taken[e]
    BY <1>7 DEF Read, Remove, DataInv, StreamTypes, request
  <1>9. StreamTypes'
    <2>1. /\ input_buffer \in [Conns -> [chain : Seq(Items), total_len : Nat]]
          /\ taken \in [Conns -> Nat]
      BY DEF DataInv, StreamTypes
    <2> DEFINE v == [chain |-> r, total_len |-> b.total_len - len]
    <2>2. input_buffer' = [input_buffer EXCEPT ![c] = v] /\ taken' = [taken EXCEPT ![c] = @ + len]
      BY <1>7 DEF Read, Remove
    <2>3. v \in [chain : Seq(Items), total_len : Nat]
      <3> HIDE DEF r, b
      <3> QED
        BY <1>5, <1>7
    <2> HIDE DEF v
    <2>4. input_buffer' \in [Conns -> [chain : Seq(Items), total_len : Nat]]
      BY <2>1, <2>2, <2>3
    <2>5. taken' \in [Conns -> Nat]
      BY <2>1, <2>2
    <2> QED
      BY <2>4, <2>5 DEF StreamTypes
  <1>10. StreamInv(c)'
    <2>2. taken'[c] = taken[c] + len /\ input_buffer'[c].total_len = b.total_len - len
      BY <1>8
    <2>1. taken'[c] + 1 = lo + len /\ taken'[c] + 1 + input_buffer'[c].total_len = next
      <3> HIDE DEF b
      <3> QED
        BY <1>13, <2>2 DEF lo, next
    <2>3. InSequence(d, next, arrived[c] + 1) /\ InSequence(r, lo + len, next)
      BY <1>2, <1>5
    <2>4. input_buffer'[c].chain = r /\ cqes' = cqes /\ arrived' = arrived /\ ~freed'[c]
      BY <1>1, <1>8
    <2> HIDE DEF r
    <2> QED
      BY <2>1, <2>3, <2>4 DEF StreamInv
  <1>11. input_buffer'[c].chain = r /\ Owned(c)' = Ids(r) \cup Ids(d)
    BY <1>8 DEF Owned
  <1> HIDE DEF b, r, d, ret
  <1>12. Apart(r, d, ring') /\ ring' \cup Owned(c)' = ring \cup Owned(c)
    <2>1. /\ Distinct(b.chain) /\ Distinct(d) /\ Ids(b.chain) \cap Ids(d) = {}
          /\ (Ids(b.chain) \cup Ids(d)) \cap ring = {}
      BY <1>2 DEF Apart
    <2>2. Distinct(r) /\ Ids(r) \cap ret = {} /\ ring' = ring \cup ret
      BY <1>6, <1>8, <2>1
    <2>3. Ids(r) \cap Ids(d) = {} /\ (Ids(r) \cup Ids(d)) \cap ring' = {}
      BY <1>6, <2>1, <2>2
    <2>4. ring' \cup Owned(c)' = ring \cup Owned(c)
      BY <1>2, <1>6, <1>11, <2>2
    <2> QED
      BY <2>1, <2>2, <2>3, <2>4 DEF Apart
  <1> QED
    BY <1>8, <1>9, <1>10, <1>11, <1>12, OneStreamSteps DEF d

(* the kernel receives into a chunk of the ring *)
LEMMA ReceiveStep ==
  ASSUME ReadInv, DataInv, NEW c \in Conns, NEW id \in Chunks, NEW len \in 1 .. ChunkSize,
         NEW more \in BOOLEAN, KernelReceives(c, id, len, more)
  PROVE  DataInv'
  <1> DEFINE b == input_buffer[c]
             d == Data(cqes[c])
             next == taken[c] + 1 + b.total_len
             e == [res |-> len, id |-> id, pos |-> arrived[c] + 1, more |-> more]
             x == Item(e)
  <1>1. ~freed[c] /\ sqe[c] = "armed"
    BY DEF KernelReceives, ReadInv, ReaderInv, Outstanding
  <1>2. /\ b.chain \in Seq(Items) /\ b.total_len \in Nat /\ taken[c] \in Nat /\ arrived[c] \in Nat
        /\ cqes[c] \in Seq(Entry) /\ OnlyLastEnds(cqes[c], sqe[c] = "armed")
        /\ d \in Seq(Items)
        /\ InSequence(b.chain, taken[c] + 1, next) /\ InSequence(d, next, arrived[c] + 1)
        /\ Apart(b.chain, d, ring)
        /\ Owned(c) = Ids(b.chain) \cup Ids(d)
    BY <1>1, LiveStream
  <1>3. len \in Nat /\ len > 0
    BY ChunkSizeAssumption
  <1>15. b.total_len \in Nat /\ taken[c] \in Nat /\ arrived[c] \in Nat
    BY <1>2, Zenon
  <1>4. e \in Entry /\ e.res > 0
    BY <1>3, <1>15 DEF Entry, Completion
  <1>5. x.id = id /\ x.pos = arrived[c] + 1 /\ x.end = arrived[c] + 1 + len
    BY DEF Item
  <1>6. /\ cqes'[c] = Append(cqes[c], e) /\ arrived'[c] = arrived[c] + len
        /\ ring' = ring \ {id} /\ id \in ring
        /\ input_buffer' = input_buffer /\ taken' = taken /\ freed' = freed
        /\ \A f \in Conns : f # c => cqes'[f] = cqes[f] /\ arrived'[f] = arrived[f]
    BY DEF KernelReceives, Post, ReadInv, FunctionsOfConns, ctx
  <1>7. OnlyLastEnds(cqes[c], TRUE)
    BY <1>1, <1>2 DEF OnlyLastEnds
  <1> HIDE DEF e
  <1>8. Data(cqes'[c]) = Append(d, x) /\ x \in Items
    BY <1>2, <1>4, <1>6, <1>7, DataOfAppend
  <1> HIDE DEF x, d, b
  <1>9. InSequence(Append(d, x), next, arrived[c] + 1 + len)
    <2>1. next \in Nat /\ arrived[c] + 1 \in Nat /\ x.pos = arrived[c] + 1 /\ x.pos < x.end
      BY <1>3, <1>5, <1>15
    <2> HIDE DEF next
    <2>2. InSequence(Append(d, x), next, x.end)
      BY <1>2, <1>8, <2>1, AppendInSequence
    <2> QED
      BY <1>5, <2>2
  <1>10. StreamTypes'
    BY <1>6 DEF DataInv, StreamTypes
  <1>11. StreamInv(c)'
    <2>1. arrived'[c] + 1 = arrived[c] + 1 + len
      BY <1>3, <1>6, <1>15
    <2> QED
      BY <1>1, <1>2, <1>6, <1>8, <1>9, <2>1 DEF StreamInv, b
  <1>12. Ids(Append(d, x)) = Ids(d) \cup {id} /\ (Distinct(d) /\ id \notin Ids(d) => Distinct(Append(d, x)))
    BY <1>2, <1>5, <1>8, AppendIds
  <1>13. Owned(c)' = Ids(b.chain) \cup Ids(d) \cup {id}
    BY <1>6, <1>8, <1>12 DEF Owned, b
  <1>14. Apart(b.chain, Append(d, x), ring') /\ ring' \cup Owned(c)' = ring \cup Owned(c)
    <2>1. /\ Distinct(b.chain) /\ Distinct(d) /\ Ids(b.chain) \cap Ids(d) = {}
          /\ (Ids(b.chain) \cup Ids(d)) \cap ring = {}
      BY <1>2 DEF Apart
    <2>2. id \notin Ids(b.chain) /\ id \notin Ids(d) /\ id \notin ring'
      BY <1>6, <2>1
    <2>3. Distinct(Append(d, x)) /\ Ids(b.chain) \cap Ids(Append(d, x)) = {}
      BY <1>12, <2>1, <2>2
    <2>4. (Ids(b.chain) \cup Ids(Append(d, x))) \cap ring' = {}
      BY <1>6, <1>12, <2>1, <2>2
    <2>5. ring' \cup Owned(c)' = ring \cup Owned(c)
      BY <1>2, <1>6, <1>13
    <2> QED
      BY <2>1, <2>3, <2>4, <2>5 DEF Apart
  <1> QED
    BY <1>6, <1>8, <1>10, <1>11, <1>14, OneStreamSteps DEF b

(* on_completion() with data, OnData(c) or OnLast(c) *)
LEMMA AppendStep ==
  ASSUME ReadInv, DataInv, NEW c \in Conns, cqes[c] # <<>>, Head(cqes[c]).res > 0,
         cqes' = [cqes EXCEPT ![c] = Tail(@)],
         input_buffer' = [input_buffer EXCEPT ![c] =
             AppendChunk(input_buffer[c], Head(cqes[c]).id, Head(cqes[c]).pos, Head(cqes[c]).res)],
         UNCHANGED <<freed, ring, arrived, taken>>
  PROVE  DataInv'
  <1> DEFINE b == input_buffer[c]
             d == Data(cqes[c])
             e == Head(cqes[c])
             next == taken[c] + 1 + b.total_len
             x == Item(e)
             s == Append(b.chain, x)
  <1>1. ~freed[c]
    BY DEF ReadInv, ReaderInv, Outstanding
  <1>2. /\ b.chain \in Seq(Items) /\ b.total_len \in Nat /\ taken[c] \in Nat /\ arrived[c] \in Nat
        /\ cqes[c] \in Seq(Entry) /\ OnlyLastEnds(cqes[c], sqe[c] = "armed")
        /\ d \in Seq(Items)
        /\ InSequence(b.chain, taken[c] + 1, next) /\ InSequence(d, next, arrived[c] + 1)
        /\ Apart(b.chain, d, ring)
        /\ Owned(c) = Ids(b.chain) \cup Ids(d)
    BY <1>1, LiveStream
  <1>3. e \in Entry /\ e.res \in Nat /\ e.res > 0
    <2>1. e \in Entry
      BY <1>2, HeadTailProperties
    <2> QED
      BY <2>1 DEF Entry, Completion
  <1>4. /\ d # <<>> /\ Head(d) = x /\ x \in Items
        /\ Data(Tail(cqes[c])) = Tail(d)
    <2>1. (sqe[c] = "armed") \in BOOLEAN
      OBVIOUS
    <2> QED
      BY <1>2, <2>1, DataOfTail
  <1>5. x.end = x.pos + e.res
    BY DEF Item
  <1>6. /\ input_buffer'[c] = [chain |-> s, total_len |-> b.total_len + e.res]
        /\ cqes'[c] = Tail(cqes[c])
        /\ \A f \in Conns : f # c => cqes'[f] = cqes[f] /\ input_buffer'[f] = input_buffer[f]
    BY DEF AppendChunk, Item, DataInv, StreamTypes, ReadInv, FunctionsOfConns
  <1>16. b.total_len \in Nat /\ taken[c] \in Nat /\ arrived[c] \in Nat
    BY <1>2, Zenon
  <1>7. s \in Seq(Items)
    <2>1. b.chain \in Seq(Items) /\ x \in Items
      BY <1>2, <1>4, Zenon
    <2> HIDE DEF b, x
    <2> QED
      BY <2>1
  <1>8. StreamTypes'
    <2>1. input_buffer \in [Conns -> [chain : Seq(Items), total_len : Nat]] /\ taken' \in [Conns -> Nat]
      BY DEF DataInv, StreamTypes
    <2> DEFINE v == AppendChunk(b, e.id, e.pos, e.res)
    <2>2. b.total_len + e.res \in Nat
      <3>1. b.total_len \in Nat
        BY <1>16
      <3>2. e.res \in Nat
        BY <1>3
      <3> HIDE DEF b, e
      <3> QED
        BY <3>1, <3>2
    <2>3. v = [chain |-> s, total_len |-> b.total_len + e.res]
      BY DEF AppendChunk, Item
    <2>4. v \in [chain : Seq(Items), total_len : Nat]
      <3> HIDE DEF v, s
      <3> QED
        BY <1>7, <2>2, <2>3
    <2>5. input_buffer' = [input_buffer EXCEPT ![c] = v]
      OBVIOUS
    <2> HIDE DEF v
    <2>6. input_buffer' \in [Conns -> [chain : Seq(Items), total_len : Nat]]
      BY <2>1, <2>4, <2>5
    <2> QED
      BY <2>1, <2>6 DEF StreamTypes
  <1> HIDE DEF b, d, e, x
  <1>9. /\ x.pos = next /\ next < x.end /\ Tail(d) \in Seq(Items)
        /\ InSequence(Tail(d), x.end, arrived[c] + 1)
    <2>1. next \in Nat /\ arrived[c] + 1 \in Nat
      BY <1>16
    <2> HIDE DEF next
    <2> QED
      BY <1>2, <1>4, <2>1, TailInSequence
  <1>10. InSequence(s, taken[c] + 1, x.end)
    <2>1. next \in Nat /\ taken[c] + 1 \in Nat
      BY <1>16
    <2> HIDE DEF next
    <2> QED
      BY <1>2, <1>4, <1>9, <2>1, AppendInSequence
  <1>11. StreamInv(c)'
    <2>1. input_buffer'[c].chain = s /\ input_buffer'[c].total_len = b.total_len + e.res
      BY <1>6
    <2>2. b.total_len \in Nat /\ e.res \in Nat /\ taken[c] \in Nat
      BY <1>3, <1>16
    <2>3. taken[c] + 1 + (b.total_len + e.res) = x.end
      BY <1>5, <1>9, <2>2
    <2>4. Data(cqes'[c]) = Tail(d)
      BY <1>4, <1>6
    <2> HIDE DEF s
    <2> QED
      BY <1>1, <1>9, <1>10, <2>1, <2>3, <2>4 DEF StreamInv
  <1>12. /\ Ids(s) = Ids(b.chain) \cup {x.id} /\ Ids(d) = Ids(Tail(d)) \cup {x.id}
         /\ Distinct(b.chain) /\ x.id \notin Ids(b.chain) => Distinct(s)
         /\ Distinct(d) => Distinct(Tail(d)) /\ x.id \notin Ids(Tail(d))
    <2>1. /\ Ids(s) = Ids(b.chain) \cup {x.id}
          /\ Distinct(b.chain) /\ x.id \notin Ids(b.chain) => Distinct(s)
      BY <1>2, <1>4, AppendIds
    <2>2. /\ Ids(d) = Ids(Tail(d)) \cup {x.id}
          /\ Distinct(d) => Distinct(Tail(d)) /\ x.id \notin Ids(Tail(d))
      BY <1>2, <1>4, TailIds
    <2> QED
      BY <2>1, <2>2
  <1>13. input_buffer'[c].chain = s /\ Data(cqes'[c]) = Tail(d)
    BY <1>4, <1>6
  <1> HIDE DEF s
  <1>14. Owned(c)' = Ids(s) \cup Ids(Tail(d))
    BY <1>13 DEF Owned
  <1>15. Apart(s, Tail(d), ring) /\ Owned(c)' = Owned(c)
    <2>1. /\ Distinct(b.chain) /\ Distinct(d) /\ Ids(b.chain) \cap Ids(d) = {}
          /\ (Ids(b.chain) \cup Ids(d)) \cap ring = {}
      BY <1>2 DEF Apart
    <2>2. x.id \notin Ids(b.chain) /\ x.id \notin Ids(Tail(d))
      BY <1>12, <2>1
    <2>3. Distinct(s) /\ Distinct(Tail(d)) /\ Ids(s) \cap Ids(Tail(d)) = {}
      BY <1>12, <2>1, <2>2
    <2>4. Ids(s) \cup Ids(Tail(d)) = Ids(b.chain) \cup Ids(d)
      BY <1>12
    <2> QED
      BY <1>2, <1>14, <2>1, <2>3, <2>4 DEF Apart
  <1> QED
    BY <1>6, <1>8, <1>11, <1>13, <1>15, OneStreamSteps

(* a step after which the completions hold the same chunks *)
LEMMA NoDataStep ==
  ASSUME ReadInv, DataInv, NEW c \in Conns, Data(cqes'[c]) = Data(cqes[c]),
         \A d \in Conns : d # c => cqes'[d] = cqes[d],
         UNCHANGED <<input_buffer, freed, ring, arrived, taken>>
  PROVE  DataInv'
  <1>1. StreamTypes' /\ StreamInv(c)' /\ Owned(c)' = Owned(c)
    BY DEF DataInv, StreamTypes, StreamInv, Owned
  <1>2. Apart(input_buffer[c].chain, Data(cqes[c]), ring)
    BY DEF DataInv, ChunksConserved, Apart, Owned
  <1> QED
    BY <1>1, <1>2, OneStreamSteps

(* on_completion() without data *)
LEMMA EndStep ==
  ASSUME ReadInv, DataInv, NEW c \in Conns, cqes[c] # <<>>, ~(Head(cqes[c]).res > 0),
         cqes' = [cqes EXCEPT ![c] = Tail(@)],
         UNCHANGED <<input_buffer, freed, ring, arrived, taken>>
  PROVE  DataInv'
  <1>1. /\ cqes[c] \in Seq(Entry) /\ OnlyLastEnds(cqes[c], sqe[c] = "armed")
        /\ (sqe[c] = "armed") \in BOOLEAN
    BY DEF ReadInv, FunctionsOfConns, ReaderInv
  <1>2. Data(cqes[c]) = <<>> /\ Data(Tail(cqes[c])) = <<>>
    BY <1>1, DataOfTail
  <1>3. cqes'[c] = Tail(cqes[c]) /\ \A d \in Conns : d # c => cqes'[d] = cqes[d]
    BY DEF ReadInv, FunctionsOfConns
  <1> QED
    BY <1>2, <1>3, NoDataStep

(* ~InputChainBuffer *)
LEMMA FreeStep ==
  ASSUME ReadInv, DataInv, NEW c \in Conns, Free(c)
  PROVE  DataInv'
  <1> DEFINE b == input_buffer[c]
             d == Data(cqes[c])
  <1>1. ~freed[c] /\ cqes[c] = <<>>
    BY DEF Free, ReadInv, ReaderInv, Outstanding
  <1>2. b.chain \in Seq(Items) /\ Apart(b.chain, d, ring) /\ Owned(c) = Ids(b.chain) \cup Ids(d)
    BY <1>1, LiveStream
  <1>3. /\ input_buffer'[c] = EmptyBuffer /\ freed'[c] /\ ring' = ring \cup AllChunks(b)
        /\ cqes' = cqes /\ arrived' = arrived /\ taken' = taken
        /\ \A e \in Conns : e # c => input_buffer'[e] = input_buffer[e] /\ freed'[e] = freed[e]
    BY DEF Free, DataInv, StreamTypes, ReadInv, FunctionsOfConns, request
  <1>4. StreamTypes' /\ StreamInv(c)'
    <2>1. EmptyBuffer \in [chain : Seq(Items), total_len : Nat]
      BY EmptySeq DEF EmptyBuffer
    <2> QED
      BY <1>3, <2>1 DEF Free, DataInv, StreamTypes, StreamInv
  <1>5. AllChunks(b) = Ids(b.chain)
    BY <1>2 DEF AllChunks, Ids
  <1>6. d = <<>> /\ Ids(<<>>) = {} /\ Distinct(<<>>)
    BY <1>1 DEF Data, Received, Ids, Distinct
  <1>7. input_buffer'[c].chain = <<>> /\ Data(cqes'[c]) = <<>> /\ Owned(c)' = {}
    BY <1>3, <1>6 DEF EmptyBuffer, Owned
  <1> HIDE DEF b, d
  <1>8. Apart(<<>>, <<>>, ring') /\ ring' \cup Owned(c)' = ring \cup Owned(c)
    BY <1>2, <1>3, <1>5, <1>6, <1>7 DEF Apart
  <1> QED
    BY <1>3, <1>4, <1>7, <1>8, OneStreamSteps

(* The input streams and the chunks, step by step. *)
LEMMA DataInvariant == Spec => []DataInv
  <1>1. Init => DataInv
    <2> SUFFICES ASSUME Init PROVE DataInv
      OBVIOUS
    <2>1. /\ input_buffer = [c \in Conns |-> EmptyBuffer] /\ cqes = [c \in Conns |-> <<>>]
          /\ taken = [c \in Conns |-> 0] /\ arrived = [c \in Conns |-> 0]
          /\ freed = [c \in Conns |-> FALSE] /\ ring = Chunks
      BY DEF Init, FilledRing
    <2>2. /\ EmptyBuffer \in [chain : Seq(Items), total_len : Nat]
          /\ EmptyBuffer.chain = <<>> /\ EmptyBuffer.total_len = 0
      BY EmptySeq DEF EmptyBuffer
    <2>3. Data(<<>>) = <<>> /\ Ids(<<>>) = {} /\ Distinct(<<>>) /\ InSequence(<<>>, 1, 1)
      BY DEF Data, Received, Ids, Distinct, InSequence
    <2>4. StreamTypes
      BY <2>1, <2>2 DEF StreamTypes
    <2>5. ASSUME NEW c \in Conns PROVE StreamInv(c) /\ Owned(c) = {}
      BY <2>1, <2>2, <2>3 DEF StreamInv, Owned
    <2>6. ASSUME NEW c \in Conns
          PROVE  /\ Distinct(input_buffer[c].chain) /\ Distinct(Data(cqes[c]))
                 /\ Ids(input_buffer[c].chain) \cap Ids(Data(cqes[c])) = {}
      BY <2>1, <2>2, <2>3
    <2>7. ring \cup UNION {Owned(c) : c \in Conns} = Chunks
      BY <2>1, <2>5
    <2>8. ChunksConserved
      BY <2>5, <2>6, <2>7 DEF ChunksConserved
    <2> QED
      BY <2>4, <2>5, <2>8 DEF DataInv
  <1>2. ReadInv /\ DataInv /\ [Next]_vars => DataInv'
    <2> SUFFICES ASSUME ReadInv, DataInv, [Next]_vars PROVE DataInv'
      OBVIOUS
    <2>0. CASE UNCHANGED <<input_buffer, taken, freed, cqes, arrived, ring>>
      BY <2>0 DEF DataInv, StreamTypes, StreamInv, ChunksConserved, Owned
    <2>1. CASE UNCHANGED vars
      BY <2>0, <2>1 DEF vars, ctx, request
    <2>2. ASSUME NEW c \in Conns, NEW len \in 1 .. MaxArrive, Read(c, len) PROVE DataInv'
      BY <2>2, MaxArriveAssumption, ReadStep
    <2>3. ASSUME NEW c \in Conns,
                 \/ PrepareToRead(c) \/ AwaitOther(c) \/ ResumeOther(c) \/ Submit(c)
                 \/ OnFatalCloses(c) \/ CloseElsewhere(c)
          PROVE  DataInv'
      <3>1. UNCHANGED <<input_buffer, taken, freed, cqes, arrived, ring>>
        BY <2>3 DEF PrepareToRead, AwaitOther, ResumeOther, Submit, OnFatalCloses,
                    CloseElsewhere, ctx, request
      <3> QED
        BY <2>0, <3>1
    <2>4. ASSUME NEW c \in Conns, KernelStep(c) PROVE DataInv'
      <3>1. ASSUME NEW why \in {Fatal, NoBufs, Canceled, Again}, KernelEnds(c, why) PROVE DataInv'
        <4> DEFINE e == [res |-> why, id |-> 0, pos |-> 0, more |-> FALSE]
        <4>1. e \in Entry /\ ~(e.res > 0)
          BY DEF Entry, Completion, Fatal, NoBufs, Canceled, Again
        <4>2. sqe[c] = "armed" /\ cqes[c] \in Seq(Entry) /\ OnlyLastEnds(cqes[c], TRUE)
          BY <3>1 DEF KernelEnds, ReadInv, FunctionsOfConns, ReaderInv, OnlyLastEnds
        <4>3. /\ cqes'[c] = Append(cqes[c], e) /\ \A d \in Conns : d # c => cqes'[d] = cqes[d]
              /\ UNCHANGED <<input_buffer, freed, ring, arrived, taken>>
          BY <3>1 DEF KernelEnds, Post, ReadInv, FunctionsOfConns, ctx
        <4> HIDE DEF e
        <4>4. Data(cqes'[c]) = Data(cqes[c])
          BY <4>1, <4>2, <4>3, DataOfAppend
        <4> QED
          BY <4>3, <4>4, NoDataStep
      <3> QED
        BY <2>4, <3>1, ReceiveStep DEF KernelStep
    <2>5. ASSUME NEW c \in Conns, OnData(c) PROVE DataInv'
      BY <2>5, AppendStep DEF OnData
    <2>6. ASSUME NEW c \in Conns, OnLast(c) PROVE DataInv'
      <3>1. /\ cqes[c] # <<>> /\ cqes' = [cqes EXCEPT ![c] = Tail(@)]
            /\ UNCHANGED <<freed, ring, arrived, taken>>
        BY <2>6 DEF OnLast
      <3>2. CASE Head(cqes[c]).res > 0
        BY <2>6, <3>1, <3>2, AppendStep DEF OnLast
      <3>3. CASE ~(Head(cqes[c]).res > 0)
        <4>1. input_buffer' = [input_buffer EXCEPT ![c] = input_buffer[c]]
          BY <2>6, <3>3 DEF OnLast
        <4>2. UNCHANGED input_buffer
          BY <4>1 DEF DataInv, StreamTypes
        <4> QED
          BY <3>1, <3>3, <4>2, EndStep
      <3> QED
        BY <3>2, <3>3
    <2>7. ASSUME NEW c \in Conns, OnFatal(c) PROVE DataInv'
      <3>1. /\ cqes[c] # <<>> /\ cqes' = [cqes EXCEPT ![c] = Tail(@)]
            /\ ~(Head(cqes[c]).res > 0) /\ UNCHANGED <<input_buffer, freed, ring, arrived, taken>>
        BY <2>7 DEF OnFatal, Fatal, ctx
      <3> QED
        BY <3>1, EndStep
    <2>8. ASSUME NEW c \in Conns, Free(c) PROVE DataInv'
      BY <2>8, FreeStep
    <2> QED
      BY <2>1, <2>2, <2>3, <2>4, <2>5, <2>6, <2>7, <2>8 DEF Next, CoStops
  <1> QED
    BY <1>1, <1>2, ReadInvariant, PTL DEF Spec

(* Bytes reach the coroutine in the order of the stream, none twice and none *)
(* lost, whatever it reads, however often the request is cancelled above the *)
(* marks and submitted again, and however the kernel cuts the data into      *)
(* chunks.                                                                   *)
THEOREM AlwaysBytesInOrder == Spec => []BytesInOrder
  <1>1. DataInv => BytesInOrder
    BY DEF DataInv, StreamInv, BytesInOrder
  <1> QED
    BY <1>1, DataInvariant, PTL

(* Every chunk of the loop's buffer ring is in one place: in the ring, in    *)
(* one completion, or in the buffer of one connection, for any number of     *)
(* connections that share the ring.                                          *)
THEOREM AlwaysChunksConserved == Spec => []ChunksConserved
  <1>1. DataInv => ChunksConserved
    BY DEF DataInv
  <1> QED
    BY <1>1, DataInvariant, PTL

(* The last reference to a connection that is closed gives its chunks back:  *)
(* a destroyed connection owns none of the ring's chunks.                    *)
THEOREM FreedOwnsNothing == Spec => [](\A c \in Conns : freed[c] => Owned(c) = {})
  <1>1. ReadInv /\ DataInv => \A c \in Conns : freed[c] => Owned(c) = {}
    <2> SUFFICES ASSUME ReadInv, DataInv, NEW c \in Conns, freed[c] PROVE Owned(c) = {}
      OBVIOUS
    <2>1. input_buffer[c].chain = <<>> /\ cqes[c] = <<>>
      BY DEF ReadInv, ReaderInv, Outstanding, DataInv, StreamInv, EmptyBuffer
    <2>2. Data(<<>>) = <<>> /\ Ids(<<>>) = {}
      BY DEF Data, Received, Ids
    <2> QED
      BY <2>1, <2>2 DEF Owned
  <1> QED
    BY <1>1, ReadInvariant, DataInvariant, PTL

-----------------------------------------------------------------------------
(* Chunks that hold no position: there are none, because each one in the     *)
(* list holds at least one.                                                  *)
LEMMA NothingInSequence ==
  ASSUME NEW s \in Seq(Items), NEW lo \in Nat, InSequence(s, lo, lo)
  PROVE  Len(s) = 0
  <1> SUFFICES ASSUME Len(s) # 0 PROVE FALSE
    OBVIOUS
  <1> DEFINE Low == {i \in 1 .. Len(s) : s[i].end <= lo}
  <1>1. Len(s) \in Nat /\ Len(s) \in 1 .. Len(s) /\ s[Len(s)].end = lo
    BY EmptySeq DEF InSequence
  <1>2. \A i \in 1 .. Len(s) : s[i].pos \in Nat /\ s[i].end \in Nat
    <2>1. \A i \in 1 .. Len(s) : s[i] \in Items
      BY ElementOfSeq
    <2> QED
      BY <2>1 DEF Items
  <1>3. \A i \in 1 .. Len(s) : /\ s[i].pos = (IF i = 1 THEN lo ELSE s[i - 1].end)
                               /\ s[i].pos < s[i].end
    BY DEF InSequence
  <1>4. PICK k \in Low : \A j \in Low : ~(j < k)
    <2>1. Low \subseteq Nat /\ Len(s) \in Low
      BY <1>1
    <2> QED
      BY <2>1, LeastElement
  <1>5. k # 1 => k - 1 \in 1 .. Len(s) /\ k - 1 < k
    BY <1>1, <1>4
  <1>6. k # 1 => ~(s[k - 1].end <= lo)
    BY <1>4, <1>5
  <1> QED
    BY <1>2, <1>3, <1>4, <1>5, <1>6

(* What keeps the marks, for one connection: an overloaded one is not read;  *)
(* a cancel that was submitted has reached the request it is meant for, and  *)
(* none is left over for a later request.                                    *)
MarksInv(c) ==
    /\ OverLoad(input_buffer[c]) => status[c] # "READING"
    /\ sqe[c] = "prepared" => status[c] = "READING"
    /\ status[c] = "CANCELING" /\ sqe[c] = "armed" => cancel[c]
    /\ cancel[c] => sqe[c] = "armed" /\ status[c] = "CANCELING"

LoadInv == DOMAIN cancel = Conns /\ \A c \in Conns : MarksInv(c)

(* The last completion of a request is the only one that lacks F_MORE. *)
LEMMA LastHandled ==
  ASSUME ReadInv, NEW c \in Conns, cqes[c] # <<>>,
         ~Head(cqes[c]).more \/ ~(Head(cqes[c]).res > 0)
  PROVE  sqe[c] = "none"
  <1>1. /\ cqes[c] \in Seq(Entry) /\ OnlyLastEnds(cqes[c], sqe[c] = "armed")
        /\ (sqe[c] = "armed") \in BOOLEAN /\ sqe[c] # "prepared"
        /\ sqe[c] \in {"none", "prepared", "armed"}
    BY DEF ReadInv, FunctionsOfConns, ReaderInv
  <1>2. /\ Head(cqes[c]) \in Entry
        /\ Head(cqes[c]).more <=> (Tail(cqes[c]) # <<>> \/ sqe[c] = "armed")
    BY <1>1, Handled
  <1>3. ~Head(cqes[c]).more
    BY <1>2 DEF Entry
  <1> QED
    BY <1>1, <1>2, <1>3

(* read() and retrieve() never raise the load. *)
LEMMA ReadLowersLoad ==
  ASSUME ReadInv, DataInv, NEW c \in Conns, NEW len \in Nat, Read(c, len),
         OverLoad(input_buffer'[c])
  PROVE  OverLoad(input_buffer[c])
  <1> DEFINE b == input_buffer[c]
             lo == taken[c] + 1
             next == lo + b.total_len
  <1>1. ~freed[c]
    BY DEF Read, Runs, ReadInv, ReaderInv
  <1>2. /\ b.chain \in Seq(Items) /\ b.total_len \in Nat /\ taken[c] \in Nat
        /\ InSequence(b.chain, lo, next)
    BY <1>1, LiveStream
  <1>3. len <= b.total_len
    BY DEF Read
  <1>4. lo \in Nat /\ next \in Nat /\ lo + len <= next
    BY <1>2, <1>3
  <1>5. input_buffer'[c] = [chain |-> Rest(b, len), total_len |-> LenLeft(b, len)]
    BY DEF Read, Remove, DataInv, StreamTypes
  <1> HIDE DEF lo, next, b
  <1>6. Rest(b, len) \in Seq(Items)
    BY <1>2, <1>4, RemoveInSequence
  <1>7. Len(Rest(b, len)) <= Len(b.chain)
    BY <1>2, <1>4, RemoveIds
  <1>8. LenLeft(b, len) <= b.total_len /\ LenLeft(b, len) \in Nat
    BY <1>2, <1>3 DEF LenLeft
  <1>9. LenLeft(b, len) > HighWater \/ Len(Rest(b, len)) > HighWaterChunk
    BY <1>5 DEF OverLoad
  <1>10. Len(Rest(b, len)) \in Nat /\ Len(b.chain) \in Nat
    BY <1>2, <1>6
  <1>11. b.total_len > HighWater \/ Len(b.chain) > HighWaterChunk
    BY <1>2, <1>7, <1>8, <1>9, <1>10, MarksAssumption
  <1> QED
    BY <1>11 DEF OverLoad, b

(* The marks, step by step. *)
LEMMA LoadInvariant == Spec => []LoadInv
  <1>1. Init => LoadInv
    <2> SUFFICES ASSUME Init PROVE LoadInv
      OBVIOUS
    <2>1. ASSUME NEW c \in Conns PROVE MarksInv(c)
      BY <2>1 DEF Init, MarksInv
    <2> QED
      BY <2>1 DEF Init, LoadInv
  <1>2. ReadInv /\ DataInv /\ LoadInv /\ [Next]_vars => LoadInv'
    <2> SUFFICES ASSUME ReadInv, DataInv, LoadInv, [Next]_vars PROVE LoadInv'
      OBVIOUS
    <2>a. /\ status \in [Conns -> {"STOPED", "READING", "CANCELING"}]
          /\ sqe \in [Conns -> {"none", "prepared", "armed"}]
          /\ DOMAIN cancel = Conns /\ DOMAIN input_buffer = Conns
          /\ \A c \in Conns : MarksInv(c)
      BY DEF ReadInv, FunctionsOfConns, LoadInv, DataInv, StreamTypes
    <2>0. CASE UNCHANGED <<input_buffer, status, sqe, cancel>>
      BY <2>0, <2>a DEF LoadInv, MarksInv
    <2>1. CASE UNCHANGED vars
      BY <2>0, <2>1 DEF vars, ctx, request
    <2>2. ASSUME NEW c \in Conns, NEW len \in 1 .. MaxArrive, Read(c, len) PROVE LoadInv'
      <3>1. len \in Nat
        BY MaxArriveAssumption
      <3>2. OverLoad(input_buffer'[c]) => OverLoad(input_buffer[c])
        BY <2>2, <3>1, ReadLowersLoad
      <3>3. /\ UNCHANGED <<status, sqe, cancel>>
            /\ \A d \in Conns : d # c => input_buffer'[d] = input_buffer[d]
        BY <2>2, <2>a DEF Read, request
      <3> QED
        BY <2>a, <3>2, <3>3 DEF LoadInv, MarksInv
    <2>3. ASSUME NEW c \in Conns, PrepareToRead(c) PROVE LoadInv'
      <3>1. CASE status[c] = "STOPED"
        <4>1. ~freed[c] /\ IsEmpty(c)
          BY <2>3 DEF PrepareToRead, Runs, ReadInv, ReaderInv
        <4>2. ~OverLoad(input_buffer[c])
          <5>1. /\ input_buffer[c].chain \in Seq(Items) /\ taken[c] \in Nat
                /\ input_buffer[c].total_len = 0
                /\ InSequence(input_buffer[c].chain, taken[c] + 1,
                              taken[c] + 1 + input_buffer[c].total_len)
            BY <4>1, LiveStream DEF IsEmpty
          <5>2. /\ InSequence(input_buffer[c].chain, taken[c] + 1, taken[c] + 1)
                /\ taken[c] + 1 \in Nat
            BY <5>1
          <5>3. Len(input_buffer[c].chain) = 0
            BY <5>1, <5>2, NothingInSequence
          <5> QED
            BY <5>1, <5>3, MarksAssumption DEF OverLoad
        <4>3. /\ UNCHANGED <<input_buffer, cancel>> /\ sqe'[c] = "prepared" /\ status'[c] = "READING"
              /\ \A d \in Conns : d # c => sqe'[d] = sqe[d] /\ status'[d] = status[d]
          BY <2>3, <2>a, <3>1 DEF PrepareToRead, SubmitsWhenSuspended, SubmitRead
        <4> QED
          BY <2>a, <3>1, <4>2, <4>3 DEF LoadInv, MarksInv
      <3>2. CASE status[c] # "STOPED"
        BY <2>0, <2>3, <3>2 DEF PrepareToRead, SubmitsWhenSuspended
      <3> QED
        BY <3>1, <3>2
    <2>4. ASSUME NEW c \in Conns, AwaitOther(c) \/ ResumeOther(c) \/ CloseElsewhere(c) \/ OnFatal(c)
          PROVE  LoadInv'
      BY <2>0, <2>4 DEF AwaitOther, ResumeOther, CloseElsewhere, OnFatal, ctx, request
    <2>5. ASSUME NEW c \in Conns, Submit(c) PROVE LoadInv'
      BY <2>5, <2>a DEF Submit, ctx, LoadInv, MarksInv
    <2>6. ASSUME NEW c \in Conns, KernelStep(c) PROVE LoadInv'
      <3>1. PICK e : sqe[c] = "armed" /\ Post(c, e) /\ UNCHANGED <<status, input_buffer>>
        BY <2>6 DEF KernelStep, KernelReceives, KernelEnds, ctx
      <3> QED
        BY <2>a, <3>1 DEF Post, LoadInv, MarksInv
    <2>7. ASSUME NEW c \in Conns, OnData(c) PROVE LoadInv'
      <3> DEFINE b == AppendChunk(input_buffer[c], Head(cqes[c]).id, Head(cqes[c]).pos, Head(cqes[c]).res)
      <3>1. /\ input_buffer' = [input_buffer EXCEPT ![c] = b] /\ UNCHANGED sqe
            /\ IF OverLoad(b) /\ status[c] # "CANCELING"
               THEN /\ status' = [status EXCEPT ![c] = "CANCELING"]
                    /\ cancel' = [cancel EXCEPT ![c] = sqe[c] = "armed"]
               ELSE UNCHANGED <<status, cancel>>
        BY <2>7 DEF OnData, CancelsRead
      <3> HIDE DEF b
      <3>2. ASSUME NEW d \in Conns, d # c PROVE MarksInv(d)'
        BY <2>a, <3>1, <3>2 DEF MarksInv
      <3>4. sqe[c] # "prepared"
        BY <2>7 DEF OnData, ReadInv, ReaderInv
      <3>3. MarksInv(c)'
        BY <2>a, <3>1, <3>4 DEF MarksInv
      <3> QED
        BY <2>a, <3>1, <3>2, <3>3 DEF LoadInv
    <2>8. ASSUME NEW c \in Conns, OnLast(c) PROVE LoadInv'
      <3>1. sqe[c] = "none"
        BY <2>8, LastHandled DEF OnLast
      <3>2. PICK b : /\ input_buffer' = [input_buffer EXCEPT ![c] = b] /\ UNCHANGED cancel
                     /\ IF StopsReading(c, b) THEN StopRead(c) ELSE SubmitRead(c)
        BY <2>8 DEF OnLast
      <3>3. ASSUME NEW d \in Conns, d # c PROVE MarksInv(d)'
        BY <2>a, <3>2, <3>3 DEF MarksInv, StopRead, SubmitRead
      <3>4. ~cancel[c]
        BY <2>a, <3>1 DEF MarksInv
      <3>5. MarksInv(c)'
        BY <2>a, <3>1, <3>2, <3>4 DEF MarksInv, StopsReading, CancelsRead, StopRead, SubmitRead
      <3> QED
        BY <2>a, <3>2, <3>3, <3>5 DEF LoadInv
    <2>9. ASSUME NEW c \in Conns, OnFatalCloses(c) PROVE LoadInv'
      <3>1. sqe[c] = "none"
        BY <2>9 DEF OnFatalCloses, ReadInv, ReaderInv, InErrorPath, Outstanding
      <3> QED
        BY <2>9, <2>a, <3>1 DEF OnFatalCloses, request, LoadInv, MarksInv
    <2>10. ASSUME NEW c \in Conns, Free(c) PROVE LoadInv'
      <3>1. ~OverLoad(EmptyBuffer)
        BY MarksAssumption DEF OverLoad, EmptyBuffer
      <3> QED
        BY <2>10, <2>a, <3>1 DEF Free, request, LoadInv, MarksInv
    <2> QED
      BY <2>1, <2>2, <2>3, <2>4, <2>5, <2>6, <2>7, <2>8, <2>9, <2>10 DEF Next, CoStops
  <1> QED
    BY <1>1, <1>2, ReadInvariant, DataInvariant, PTL DEF Spec

(* Backpressure: a connection above a high water mark is never being read    *)
(* without a cancel on its way, for all marks.                               *)
THEOREM AlwaysOverLoadStopsReading == Spec => []OverLoadStopsReading
  <1>1. LoadInv => OverLoadStopsReading
    BY DEF LoadInv, MarksInv, OverLoadStopsReading
  <1> QED
    BY <1>1, LoadInvariant, PTL

(* A cancel submitted by on_completion() concerns the request whose          *)
(* completion it handles: the kernel cancels that one, if it has not ended,  *)
(* and never one that was submitted later.                                   *)
THEOREM CancelHitsItsRequest ==
  Spec => [](\A c \in Conns : sqe[c] = "armed" => (cancel[c] <=> status[c] = "CANCELING"))
  <1>1. LoadInv => \A c \in Conns : sqe[c] = "armed" => (cancel[c] <=> status[c] = "CANCELING")
    BY DEF LoadInv, MarksInv
  <1> QED
    BY <1>1, LoadInvariant, PTL

=============================================================================
