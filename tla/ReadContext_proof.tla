-------------------------- MODULE ReadContext_proof --------------------------
(***************************************************************************)
(* Proofs about the receive requests of the connections of one loop, for   *)
(* any set of connections and of chunks, any chunk size and any marks:     *)
(* the state of a request, and what the operations on the chunks of an     *)
(* input buffer (InputChainBuffer) do.                                     *)
(***************************************************************************)
EXTENDS ReadContext, WellFoundedInduction, TLAPS

(* a completion without data is the last one, the others have a chunk *)
Entry == {e \in Completion : IF e.res > 0 THEN e.id \in Chunks ELSE ~e.more}

(* The completions q of a request, oldest first: all but the last one of a   *)
(* request that has ended have F_MORE.                                       *)
OnlyLastEnds(q, armed) == \A i \in 1 .. Len(q) : q[i].more <=> (i < Len(q) \/ armed)

FunctionsOfConns ==
    /\ status \in [Conns -> {"STOPED", "READING", "CANCELING"}]
    /\ sqe \in [Conns -> {"none", "prepared", "armed"}]
    /\ cqes \in [Conns -> Seq(Entry)]
    /\ arrived \in [Conns -> Nat]
    /\ DOMAIN holder = Conns /\ DOMAIN read_handle = Conns
    /\ DOMAIN closing = Conns /\ DOMAIN freed = Conns
    /\ co \in [Conns -> {"running", "read", "write", "other", "done", "destroyed"}]

(* The strengthening of StatusMatchesRequest, RequestHeld, OneRequest and    *)
(* NoStuckReader, for one connection: a prepared request has no completions  *)
(* yet; inside the error path nothing is outstanding, although status_ says  *)
(* so; the coroutine runs only where the loop's thread says so; a closed     *)
(* connection's coroutine never waits for data again.                        *)
ReaderInv(c) ==
    /\ OnlyLastEnds(cqes[c], sqe[c] = "armed")
    /\ sqe[c] = "prepared" => cqes[c] = <<>>
    /\ ~InErrorPath(c) => (status[c] # "STOPED" <=> Outstanding(c))
    /\ InErrorPath(c) => ~Outstanding(c) /\ status[c] # "STOPED"
    /\ Outstanding(c) => holder[c]
    /\ read_handle[c] => InErrorPath(c) \/ (co[c] = "read" /\ Outstanding(c))
    /\ co[c] = "read" => read_handle[c]
    /\ co[c] = "running" => pc \in {"co", "co_close"} /\ cur = c
    /\ closing[c] => ~read_handle[c]
    /\ freed[c] => closing[c] /\ co[c] = "destroyed" /\ ~Outstanding(c)

ReadInv == FunctionsOfConns /\ \A c \in Conns : ReaderInv(c)

-----------------------------------------------------------------------------
(* an element appended to a sequence *)
LEMMA AppendProperties ==
  ASSUME NEW E, NEW q \in Seq(E), NEW e \in E
  PROVE  LET r == Append(q, e) IN
         /\ r \in Seq(E) /\ r # <<>> /\ Len(r) = Len(q) + 1
         /\ r[Len(q) + 1] = e
         /\ \A k \in 1 .. Len(q) : r[k] = q[k]
  OBVIOUS

(* an element of a sequence *)
LEMMA ElementOfSeq ==
  ASSUME NEW E, NEW q \in Seq(E), NEW k \in 1 .. Len(q)
  PROVE  q[k] \in E
  OBVIOUS

(* the empty sequence is the one without a first element *)
LEMMA EmptySeq ==
  ASSUME NEW E
  PROVE  /\ <<>> \in Seq(E) /\ Len(<<>>) = 0
         /\ \A q \in Seq(E) : q # <<>> => Len(q) \in Nat \ {0}
  OBVIOUS

(* the first element of a sequence, and the rest of it *)
LEMMA HeadTailProperties ==
  ASSUME NEW E, NEW q \in Seq(E), q # <<>>
  PROVE  /\ Head(q) \in E
         /\ Tail(q) \in Seq(E) /\ Len(Tail(q)) = Len(q) - 1
         /\ \A k \in 1 .. Len(Tail(q)) : Tail(q)[k] = q[k + 1]
  OBVIOUS

(* a segment of a sequence *)
LEMMA SubSeqProperties ==
  ASSUME NEW E, NEW q, NEW a \in Int, NEW b \in Int, \A k \in a .. b : q[k] \in E
  PROVE  LET r == SubSeq(q, a, b) IN
         /\ r \in Seq(E) /\ Len(r) = IF a <= b THEN b - a + 1 ELSE 0
         /\ \A k \in 1 .. b - a + 1 : r[k] = q[a + k - 1]
  OBVIOUS

(* two sequences of the same length with the same elements are equal *)
LEMMA SeqEqual ==
  ASSUME NEW E, NEW q \in Seq(E), NEW r \in Seq(E),
         Len(q) = Len(r), \A k \in 1 .. Len(q) : q[k] = r[k]
  PROVE  q = r
  OBVIOUS

(* A completion is added behind those of a request that goes on. *)
LEMMA Posted ==
  ASSUME NEW q \in Seq(Entry), NEW e \in Entry, OnlyLastEnds(q, TRUE)
  PROVE  /\ Append(q, e) \in Seq(Entry) /\ Append(q, e) # <<>>
         /\ OnlyLastEnds(Append(q, e), e.more)
  <1>1. /\ Append(q, e) \in Seq(Entry) /\ Len(Append(q, e)) = Len(q) + 1 /\ Len(q) \in Nat
        /\ Append(q, e)[Len(q) + 1] = e
        /\ \A i \in 1 .. Len(q) : Append(q, e)[i] = q[i]
    OBVIOUS
  <1>2. Append(q, e) # <<>>
    BY <1>1
  <1>3. OnlyLastEnds(Append(q, e), e.more)
    BY <1>1 DEF OnlyLastEnds
  <1> QED
    BY <1>1, <1>2, <1>3

(* The oldest completion is taken; it has F_MORE unless it was the last one. *)
LEMMA Handled ==
  ASSUME NEW q \in Seq(Entry), NEW armed \in BOOLEAN, OnlyLastEnds(q, armed), q # <<>>
  PROVE  /\ Head(q) \in Entry
         /\ Tail(q) \in Seq(Entry)
         /\ OnlyLastEnds(Tail(q), armed)
         /\ Head(q).more <=> (Tail(q) # <<>> \/ armed)
  <1>1. /\ Head(q) = q[1] /\ Head(q) \in Entry /\ Tail(q) \in Seq(Entry)
        /\ Len(q) \in Nat /\ Len(q) >= 1 /\ Len(Tail(q)) = Len(q) - 1
        /\ \A i \in 1 .. Len(Tail(q)) : Tail(q)[i] = q[i + 1] /\ i + 1 \in 1 .. Len(q)
    OBVIOUS
  <1>2. OnlyLastEnds(Tail(q), armed)
    BY <1>1 DEF OnlyLastEnds
  <1>3. Tail(q) # <<>> <=> 1 < Len(q)
    <2>1. Tail(q) = <<>> <=> Len(Tail(q)) = 0
      BY <1>1, EmptySeq
    <2> QED
      BY <1>1, <2>1
  <1>4. Head(q).more <=> (1 < Len(q) \/ armed)
    BY <1>1 DEF OnlyLastEnds
  <1> QED
    BY <1>1, <1>2, <1>3, <1>4

(* The strengthened invariant, step by step. *)
LEMMA ReadInvariant == Spec => []ReadInv
  <1>1. Init => ReadInv
    <2> SUFFICES ASSUME Init PROVE ReadInv
      OBVIOUS
    <2>1. FunctionsOfConns
      BY DEF Init, FunctionsOfConns
    <2>2. ASSUME NEW c \in Conns PROVE ReaderInv(c)
      BY DEF Init, ReaderInv, OnlyLastEnds, Outstanding, InErrorPath
    <2> QED
      BY <2>1, <2>2 DEF ReadInv
  <1>2. ReadInv /\ [Next]_vars => ReadInv'
    <2> SUFFICES ASSUME ReadInv, [Next]_vars PROVE ReadInv'
      OBVIOUS
    <2> USE DEF ReadInv
    <2>0. CASE UNCHANGED vars
      BY <2>0 DEF vars, ctx, request, thread, FunctionsOfConns, ReaderInv, Outstanding,
                  InErrorPath
    <2>1. ASSUME NEW c \in Conns, \E len \in 1 .. MaxArrive : Read(c, len) PROVE ReadInv'
      <3>1. FunctionsOfConns'
        BY <2>1 DEF FunctionsOfConns, Read, Runs, request, thread
      <3>2. ASSUME NEW d \in Conns PROVE ReaderInv(d)'
        BY <2>1 DEF FunctionsOfConns, ReaderInv, Outstanding, InErrorPath, OnlyLastEnds,
                    Read, Runs, request, thread
      <3> QED
        BY <3>1, <3>2
    <2>2. ASSUME NEW c \in Conns, PrepareToRead(c) PROVE ReadInv'
      <3>1. FunctionsOfConns'
        BY <2>2 DEF FunctionsOfConns, PrepareToRead, Runs, SubmitsWhenSuspended,
                    SubmitRead, AfterCo
      <3>2. ASSUME NEW d \in Conns PROVE ReaderInv(d)'
        BY <2>2 DEF FunctionsOfConns, ReaderInv, Outstanding, InErrorPath, OnlyLastEnds,
                    PrepareToRead, Runs, SubmitsWhenSuspended, SubmitRead, AfterCo
      <3> QED
        BY <3>1, <3>2
    <2>3. ASSUME NEW c \in Conns, AwaitOther(c) PROVE ReadInv'
      <3>1. FunctionsOfConns'
        BY <2>3 DEF FunctionsOfConns, AwaitOther, Runs, AfterCo, ctx, request
      <3>2. ASSUME NEW d \in Conns PROVE ReaderInv(d)'
        BY <2>3 DEF FunctionsOfConns, ReaderInv, Outstanding, InErrorPath, OnlyLastEnds,
                    AwaitOther, Runs, AfterCo, ctx, request
      <3> QED
        BY <3>1, <3>2
    <2>4. ASSUME NEW c \in Conns, ResumeOther(c) PROVE ReadInv'
      <3>1. FunctionsOfConns'
        BY <2>4 DEF FunctionsOfConns, ResumeOther, ctx, request
      <3>2. ASSUME NEW d \in Conns PROVE ReaderInv(d)'
        BY <2>4 DEF FunctionsOfConns, ReaderInv, Outstanding, InErrorPath, OnlyLastEnds,
                    ResumeOther, ctx, request
      <3> QED
        BY <3>1, <3>2
    <2>5. ASSUME NEW c \in Conns, Submit(c) PROVE ReadInv'
      <3>1. FunctionsOfConns'
        BY <2>5 DEF FunctionsOfConns, Submit, ctx, thread
      <3>2. ASSUME NEW d \in Conns PROVE ReaderInv(d)'
        BY <2>5 DEF FunctionsOfConns, ReaderInv, Outstanding, InErrorPath, OnlyLastEnds,
                    Submit, ctx, thread
      <3> QED
        BY <3>1, <3>2
    <2>6. ASSUME NEW c \in Conns, OnFatalCloses(c) PROVE ReadInv'
      <3>1. FunctionsOfConns'
        BY <2>6 DEF FunctionsOfConns, OnFatalCloses, HandleClose, request
      <3>2. ASSUME NEW d \in Conns PROVE ReaderInv(d)'
        BY <2>6 DEF FunctionsOfConns, ReaderInv, Outstanding, InErrorPath, OnlyLastEnds,
                    OnFatalCloses, HandleClose, request
      <3> QED
        BY <3>1, <3>2
    <2>7. ASSUME NEW c \in Conns, CloseElsewhere(c) PROVE ReadInv'
      <3>1. FunctionsOfConns'
        BY <2>7 DEF FunctionsOfConns, CloseElsewhere, HandleClose, request
      <3>2. ASSUME NEW d \in Conns PROVE ReaderInv(d)'
        BY <2>7 DEF FunctionsOfConns, ReaderInv, Outstanding, InErrorPath, OnlyLastEnds,
                    CloseElsewhere, HandleClose, request
      <3> QED
        BY <3>1, <3>2
    <2>8. ASSUME NEW c \in Conns, Free(c) PROVE ReadInv'
      <3>1. FunctionsOfConns'
        BY <2>8 DEF FunctionsOfConns, Free, request, thread
      <3>2. ASSUME NEW d \in Conns PROVE ReaderInv(d)'
        BY <2>8 DEF FunctionsOfConns, ReaderInv, Outstanding, InErrorPath, OnlyLastEnds,
                    Free, request, thread
      <3> QED
        BY <3>1, <3>2
    <2>9. ASSUME NEW c \in Conns, NEW e \in Entry, sqe[c] = "armed", Post(c, e),
                 arrived' \in [Conns -> Nat], UNCHANGED <<ctx, closing, freed, thread>>
          PROVE  ReadInv'
      <3>1. OnlyLastEnds(cqes[c], TRUE) /\ cqes[c] \in Seq(Entry)
        BY <2>9 DEF FunctionsOfConns, ReaderInv, OnlyLastEnds
      <3>2. LET q == Append(cqes[c], e) IN
            q \in Seq(Entry) /\ q # <<>> /\ OnlyLastEnds(q, e.more)
        BY <3>1, Posted
      <3>3. FunctionsOfConns'
        BY <2>9, <3>2 DEF FunctionsOfConns, Post, ctx, thread
      <3>4. ASSUME NEW d \in Conns, d # c PROVE ReaderInv(d)'
        BY <2>9, <3>4 DEF FunctionsOfConns, ReaderInv, Outstanding, InErrorPath, Post, ctx, thread
      <3>5. ReaderInv(c)'
        <4>1. cqes'[c] = Append(cqes[c], e) /\ sqe'[c] = IF e.more THEN "armed" ELSE "none"
          BY <2>9 DEF FunctionsOfConns, Post
        <4>2. OnlyLastEnds(cqes'[c], sqe'[c] = "armed")
          BY <3>2, <4>1 DEF OnlyLastEnds
        <4>3. Outstanding(c) /\ Outstanding(c)'
          BY <2>9, <3>2, <4>1 DEF Outstanding
        <4> QED
          BY <2>9, <4>1, <4>2, <4>3 DEF ReaderInv, InErrorPath, ctx, thread
      <3> QED
        BY <3>3, <3>4, <3>5
    <2>10. ASSUME NEW c \in Conns, KernelStep(c) PROVE ReadInv'
      <3>1. ASSUME NEW id \in Chunks, NEW len \in 1 .. ChunkSize, NEW more \in BOOLEAN,
                   KernelReceives(c, id, len, more)
            PROVE  ReadInv'
        <4> DEFINE e == [res |-> len, id |-> id, pos |-> arrived[c] + 1, more |-> more]
        <4>1. e \in Entry
          BY ChunkSizeAssumption DEF Entry, Completion, Fatal, FunctionsOfConns
        <4>2. arrived' \in [Conns -> Nat]
          BY <3>1, ChunkSizeAssumption DEF KernelReceives, FunctionsOfConns
        <4> QED
          BY <2>9, <3>1, <4>1, <4>2 DEF KernelReceives
      <3>2. ASSUME NEW why \in {Fatal, NoBufs, Canceled, Again}, KernelEnds(c, why) PROVE ReadInv'
        <4> DEFINE e == [res |-> why, id |-> 0, pos |-> 0, more |-> FALSE]
        <4>1. e \in Entry
          BY DEF Entry, Completion, Fatal, NoBufs, Canceled, Again
        <4> QED
          BY <2>9, <3>2, <4>1 DEF KernelEnds, FunctionsOfConns
      <3> QED
        BY <2>10, <3>1, <3>2 DEF KernelStep
    <2>11. ASSUME NEW c \in Conns, cqes[c] # <<>>
           PROVE  /\ Head(cqes[c]) \in Entry /\ Tail(cqes[c]) \in Seq(Entry)
                  /\ OnlyLastEnds(Tail(cqes[c]), sqe[c] = "armed")
                  /\ Head(cqes[c]).more <=> (Tail(cqes[c]) # <<>> \/ sqe[c] = "armed")
      <3>1. cqes[c] \in Seq(Entry) /\ (sqe[c] = "armed") \in BOOLEAN
            /\ OnlyLastEnds(cqes[c], sqe[c] = "armed")
        BY DEF FunctionsOfConns, ReaderInv
      <3> QED
        BY <2>11, <3>1, Handled
    <2>15. ASSUME NEW c \in Conns, cqes[c] # <<>>, cqes' = [cqes EXCEPT ![c] = Tail(@)]
           PROVE  cqes' \in [Conns -> Seq(Entry)]
      <3>1. cqes \in [Conns -> Seq(Entry)]
        BY DEF FunctionsOfConns
      <3>2. Tail(cqes[c]) \in Seq(Entry)
        BY <2>11, <2>15
      <3> QED
        BY <2>15, <3>1, <3>2
    <2>16. ASSUME NEW c \in Conns, ResumeReader(c)
           PROVE  /\ DOMAIN read_handle' = Conns
                  /\ co' \in [Conns -> {"running", "read", "write", "other", "done", "destroyed"}]
      BY <2>16 DEF ResumeReader, FunctionsOfConns, thread
    <2>17. ASSUME NEW c \in Conns, NEW d \in Conns, d # c, pc = "loop", ResumeReader(c),
                  sqe'[d] = sqe[d], cqes'[d] = cqes[d], status'[d] = status[d],
                  holder'[d] = holder[d], closing'[d] = closing[d], freed'[d] = freed[d]
           PROVE  ReaderInv(d)'
      <3>1. co[d] # "running" /\ ~InErrorPath(d)
        BY <2>17 DEF ReaderInv, InErrorPath
      <3>2. co'[d] = co[d] /\ read_handle'[d] = read_handle[d] /\ pc' \in {"loop", "co"}
        BY <2>17 DEF ResumeReader, FunctionsOfConns, thread
      <3>3. ~InErrorPath(d)' /\ Outstanding(d)' = Outstanding(d)
        BY <2>17, <3>2 DEF InErrorPath, Outstanding
      <3> QED
        BY <2>17, <3>1, <3>2, <3>3 DEF ReaderInv
    <2>12. ASSUME NEW c \in Conns, OnData(c) PROVE ReadInv'
      <3>1. FunctionsOfConns'
        <4>1. cqes' \in [Conns -> Seq(Entry)]
          BY <2>12, <2>15 DEF OnData
        <4>2. /\ DOMAIN read_handle' = Conns
              /\ co' \in [Conns -> {"running", "read", "write", "other", "done", "destroyed"}]
          BY <2>12, <2>16 DEF OnData
        <4>3. /\ status' \in [Conns -> {"STOPED", "READING", "CANCELING"}]
              /\ UNCHANGED <<holder, closing, freed, sqe, arrived>>
          BY <2>12 DEF OnData, FunctionsOfConns
        <4> QED
          BY <4>1, <4>2, <4>3 DEF FunctionsOfConns
      <3>2. ASSUME NEW d \in Conns, d # c PROVE ReaderInv(d)'
        <4>1. /\ pc = "loop" /\ ResumeReader(c) /\ UNCHANGED <<sqe, holder, closing, freed>>
              /\ cqes'[d] = cqes[d] /\ status'[d] = status[d]
          BY <2>12, <3>2 DEF OnData, FunctionsOfConns
        <4> QED
          BY <2>17, <3>2, <4>1
      <3>3. ReaderInv(c)'
        <4>1. /\ pc = "loop" /\ cqes[c] # <<>> /\ Head(cqes[c]).more
              /\ cqes'[c] = Tail(cqes[c]) /\ ResumeReader(c)
              /\ UNCHANGED <<sqe, holder, closing, freed>>
          BY <2>12 DEF OnData, FunctionsOfConns
        <4>2. status'[c] = status[c] \/ status'[c] = "CANCELING"
          BY <2>12 DEF OnData, FunctionsOfConns
        <4>3. /\ Tail(cqes[c]) # <<>> \/ sqe[c] = "armed"
              /\ OnlyLastEnds(Tail(cqes[c]), sqe[c] = "armed")
          BY <2>11, <4>1
        <4>4. /\ Outstanding(c) /\ ~InErrorPath(c) /\ sqe[c] # "prepared"
              /\ status[c] # "STOPED" /\ holder[c] /\ co[c] # "running" /\ ~freed[c]
              /\ co[c] = "read" <=> read_handle[c]
          BY <4>1 DEF ReaderInv, Outstanding, InErrorPath
        <4>5. /\ Outstanding(c)' /\ ~InErrorPath(c)' /\ sqe'[c] # "prepared"
              /\ status'[c] # "STOPED" /\ holder'[c] /\ ~freed'[c]
              /\ OnlyLastEnds(cqes'[c], sqe'[c] = "armed")
          BY <4>1, <4>2, <4>3, <4>4 DEF Outstanding, InErrorPath, ResumeReader, thread
        <4>6. CASE read_handle[c]
          <5>1. /\ ~read_handle'[c] /\ co'[c] = "running" /\ pc' = "co" /\ cur' = c
                /\ ~closing'[c]
            BY <4>1, <4>6 DEF ResumeReader, FunctionsOfConns, ReaderInv
          <5> QED
            BY <4>5, <5>1 DEF ReaderInv
        <4>7. CASE ~read_handle[c]
          <5>1. UNCHANGED <<read_handle, co>> /\ co[c] # "read" /\ co[c] # "running"
            BY <4>1, <4>4, <4>7 DEF ResumeReader, thread
          <5> QED
            BY <4>1, <4>5, <4>7, <5>1 DEF ReaderInv
        <4> QED
          BY <4>6, <4>7
      <3> QED
        BY <3>1, <3>2, <3>3
    <2>13. ASSUME NEW c \in Conns, OnLast(c) PROVE ReadInv'
      <3>1. FunctionsOfConns'
        <4>1. cqes' \in [Conns -> Seq(Entry)]
          BY <2>13, <2>15 DEF OnLast
        <4>2. /\ DOMAIN read_handle' = Conns
              /\ co' \in [Conns -> {"running", "read", "write", "other", "done", "destroyed"}]
          BY <2>13, <2>16 DEF OnLast
        <4>3. /\ StopRead(c) \/ SubmitRead(c)
              /\ UNCHANGED <<closing, freed, arrived>>
          BY <2>13 DEF OnLast
        <4>5. /\ status \in [Conns -> {"STOPED", "READING", "CANCELING"}]
              /\ sqe \in [Conns -> {"none", "prepared", "armed"}]
              /\ DOMAIN holder = Conns
          BY DEF FunctionsOfConns
        <4>4. /\ status' \in [Conns -> {"STOPED", "READING", "CANCELING"}]
              /\ sqe' \in [Conns -> {"none", "prepared", "armed"}]
              /\ DOMAIN holder' = Conns
          BY <4>3, <4>5 DEF StopRead, SubmitRead
        <4> QED
          BY <4>1, <4>2, <4>3, <4>4 DEF FunctionsOfConns
      <3>2. ASSUME NEW d \in Conns, d # c PROVE ReaderInv(d)'
        <4>1. /\ pc = "loop" /\ ResumeReader(c) /\ UNCHANGED <<closing, freed>>
              /\ cqes'[d] = cqes[d] /\ (StopRead(c) \/ SubmitRead(c))
          BY <2>13, <3>2 DEF OnLast, FunctionsOfConns
        <4>2. sqe'[d] = sqe[d] /\ status'[d] = status[d] /\ holder'[d] = holder[d]
          BY <3>2, <4>1 DEF StopRead, SubmitRead, FunctionsOfConns
        <4> QED
          BY <2>17, <3>2, <4>1, <4>2
      <3>3. ReaderInv(c)'
        <4>1. Tail(cqes[c]) = <<>> /\ sqe[c] = "none"
          BY <2>11, <2>13 DEF OnLast, FunctionsOfConns, ReaderInv
        <4> QED
          BY <2>13, <4>1 DEF OnLast, StopRead, SubmitRead, ResumeReader, FunctionsOfConns,
                             ReaderInv, Outstanding, InErrorPath, OnlyLastEnds, thread
      <3> QED
        BY <3>1, <3>2, <3>3
    <2>14. ASSUME NEW c \in Conns, OnFatal(c) PROVE ReadInv'
      <3>1. FunctionsOfConns'
        BY <2>11, <2>14 DEF OnFatal, FunctionsOfConns, ctx
      <3>2. ASSUME NEW d \in Conns, d # c PROVE ReaderInv(d)'
        BY <2>14, <3>2 DEF OnFatal, FunctionsOfConns, ReaderInv, Outstanding, InErrorPath, ctx
      <3>3. ReaderInv(c)'
        <4>1. Tail(cqes[c]) = <<>> /\ sqe[c] = "none"
          <5>1. cqes[c] # <<>> /\ Head(cqes[c]) \in Entry /\ Head(cqes[c]).res = 0
            BY <2>11, <2>14 DEF OnFatal, Fatal
          <5>2. ~Head(cqes[c]).more
            BY <5>1 DEF Entry
          <5> QED
            BY <2>11, <5>1, <5>2 DEF FunctionsOfConns, ReaderInv
        <4>2. cqes'[c] = <<>> /\ sqe'[c] = "none" /\ ~Outstanding(c)' /\ InErrorPath(c)'
          BY <2>14, <4>1 DEF OnFatal, FunctionsOfConns, Outstanding, InErrorPath
        <4>3. OnlyLastEnds(cqes'[c], sqe'[c] = "armed")
          BY <4>2 DEF OnlyLastEnds
        <4>4. status[c] # "STOPED" /\ ~freed[c] /\ co[c] # "running"
          BY <2>14 DEF OnFatal, ReaderInv, Outstanding, InErrorPath
        <4>5. co'[c] = IF read_handle[c] THEN "running" ELSE co[c]
          BY <2>14 DEF OnFatal, FunctionsOfConns
        <4> QED
          BY <2>14, <4>2, <4>3, <4>4, <4>5 DEF OnFatal, ReaderInv, ctx
      <3> QED
        BY <3>1, <3>2, <3>3
    <2> QED
      BY <2>0, <2>1, <2>2, <2>3, <2>4, <2>5, <2>6, <2>7, <2>8, <2>10, <2>12, <2>13, <2>14
      DEF Next, CoStops
  <1> QED
    BY <1>1, <1>2, PTL DEF Spec

-----------------------------------------------------------------------------
(* status_ of a read context that is not inside its error path says exactly  *)
(* whether a request is outstanding: the assertion of ReadContext.cc:87 and  *)
(* the test of await_suspend are right in every run.                         *)
THEOREM AlwaysStatusMatchesRequest == Spec => []StatusMatchesRequest
  <1>1. ReadInv => StatusMatchesRequest
    BY DEF ReadInv, ReaderInv, StatusMatchesRequest
  <1> QED
    BY <1>1, ReadInvariant, PTL

(* holder_ is set while a receive request or one of its completions exists   *)
(* (the assertion of ReadContext.cc:84), so the connection is alive.         *)
THEOREM AlwaysRequestHeld == Spec => []RequestHeld
  <1>1. ReadInv => RequestHeld
    BY DEF ReadInv, ReaderInv, RequestHeld
  <1> QED
    BY <1>1, ReadInvariant, PTL

(* Only the last completion of a request lacks F_MORE: on_completion and     *)
(* await_suspend never submit a second request beside an old one.            *)
THEOREM AlwaysOneRequest == Spec => []OneRequest
  <1>1. ReadInv => OneRequest
    BY DEF ReadInv, ReaderInv, OnlyLastEnds, OneRequest
  <1> QED
    BY <1>1, ReadInvariant, PTL

(* A coroutine suspended in PrepareToRead() always has a request whose       *)
(* completion will resume it, or is about to be closed.                      *)
THEOREM AlwaysReaderResumable == Spec => []NoStuckReader
  <1>1. ReadInv => NoStuckReader
    BY DEF ReadInv, ReaderInv, NoStuckReader
  <1> QED
    BY <1>1, ReadInvariant, PTL

-----------------------------------------------------------------------------
(* The input stream: what the operators of the buffer do to chunks that hold *)
(* consecutive positions.                                                    *)
Items == [id : Chunks, pos : Nat, end : Nat]

(* append() of the next bytes *)
LEMMA AppendInSequence ==
  ASSUME NEW s \in Seq(Items), NEW lo \in Nat, NEW hi \in Nat, InSequence(s, lo, hi),
         NEW x \in Items, x.pos = hi, x.pos < x.end
  PROVE  InSequence(Append(s, x), lo, x.end)
  <1> DEFINE r == Append(s, x)
  <1>1. /\ r \in Seq(Items) /\ Len(r) = Len(s) + 1 /\ Len(s) \in Nat
        /\ \A i \in 1 .. Len(s) : r[i] = s[i]
        /\ r[Len(s) + 1] = x
    BY AppendProperties
  <1>2. DOMAIN r = 1 .. Len(s) + 1 /\ DOMAIN s = 1 .. Len(s) /\ r # <<>> /\ (s = <<>> <=> Len(s) = 0)
    BY <1>1, EmptySeq
  <1> HIDE DEF r
  <1>3. ASSUME NEW i \in 1 .. Len(s) + 1
        PROVE  r[i].pos = (IF i = 1 THEN lo ELSE r[i - 1].end) /\ r[i].pos < r[i].end
    <2>1. CASE i \in 1 .. Len(s)
      BY <1>1, <1>2, <2>1 DEF InSequence
    <2>2. CASE i = Len(s) + 1 /\ Len(s) = 0
      BY <1>1, <1>2, <2>2 DEF InSequence
    <2>3. CASE i = Len(s) + 1 /\ Len(s) > 0
      BY <1>1, <1>2, <2>3 DEF InSequence
    <2> QED
      BY <1>1, <2>1, <2>2, <2>3
  <1>4. InSequence(r, lo, x.end)
    BY <1>1, <1>2, <1>3 DEF InSequence
  <1> QED
    BY <1>4 DEF r

(* the oldest chunk is taken away *)
LEMMA TailInSequence ==
  ASSUME NEW s \in Seq(Items), s # <<>>, NEW lo \in Nat, NEW hi \in Nat, InSequence(s, lo, hi)
  PROVE  /\ Head(s) \in Items /\ Head(s).pos = lo /\ lo < Head(s).end
         /\ Tail(s) \in Seq(Items)
         /\ InSequence(Tail(s), Head(s).end, hi)
  <1> DEFINE r == Tail(s)
  <1>1. /\ r \in Seq(Items) /\ Len(r) = Len(s) - 1 /\ Len(s) \in Nat /\ Len(s) >= 1
        /\ Head(s) = s[1] /\ Head(s) \in Items
        /\ \A i \in 1 .. Len(r) : r[i] = s[i + 1] /\ i + 1 \in 1 .. Len(s)
    BY EmptySeq
  <1> HIDE DEF r
  <1>2. DOMAIN r = 1 .. Len(r) /\ DOMAIN s = 1 .. Len(s) /\ (r = <<>> <=> Len(r) = 0)
    BY <1>1, EmptySeq
  <1>3. s[1].pos = lo /\ s[1].pos < s[1].end /\ hi = s[Len(s)].end
    BY <1>1, <1>2 DEF InSequence
  <1>4. ASSUME NEW i \in 1 .. Len(r)
        PROVE  r[i].pos = (IF i = 1 THEN s[1].end ELSE r[i - 1].end) /\ r[i].pos < r[i].end
    <2>1. s[i + 1].pos = s[i].end /\ s[i + 1].pos < s[i + 1].end
      <3>1. i + 1 \in DOMAIN s /\ i + 1 # 1 /\ (i + 1) - 1 = i
        BY <1>1, <1>2
      <3>2. \A j \in DOMAIN s : j # 1 => s[j].pos = s[j - 1].end /\ s[j].pos < s[j].end
        BY DEF InSequence
      <3> QED
        BY <3>1, <3>2
    <2>2. CASE i = 1
      BY <1>1, <2>1, <2>2
    <2>3. CASE i > 1
      <3>1. i - 1 \in 1 .. Len(r) /\ (i - 1) + 1 = i
        BY <1>1, <2>3
      <3> QED
        BY <1>1, <2>1, <2>3, <3>1
    <2>4. i = 1 \/ i > 1
      OBVIOUS
    <2> QED
      BY <2>2, <2>3, <2>4, Zenon
  <1>5. hi = IF r = <<>> THEN s[1].end ELSE r[Len(r)].end
    BY <1>1, <1>2, <1>3
  <1>6. InSequence(r, s[1].end, hi)
    BY <1>2, <1>4, <1>5 DEF InSequence
  <1> QED
    BY <1>1, <1>3, <1>6 DEF r

(* a nonempty set of natural numbers has a least element *)
LEMMA LeastElement ==
  ASSUME NEW T, T \subseteq Nat, T # {}
  PROVE  \E k \in T : \A j \in T : ~(j < k)
  <1> DEFINE R == OpToRel(<, Nat)
  <1>1. IsWellFoundedOn(R, Nat)
    BY NatLessThanWellFounded
  <1>2. \A i, j \in Nat : i < j => <<i, j>> \in R
    BY DEF OpToRel
  <1> HIDE DEF R
  <1>3. \E k \in T : \A j \in T : ~(<<j, k>> \in R)
    BY <1>1, WFMin
  <1> QED
    BY <1>2, <1>3

(* the loops of remove() and retrieve() end: some number of chunks is emptied *)
LEMMA EmptiedProperty ==
  ASSUME NEW b, b.chain \in Seq(Items), NEW len \in Nat
  PROVE  LET k == Emptied(b, len) IN
         /\ k \in 0 .. Len(b.chain)
         /\ \A i \in 1 .. k : Empties(b, len, i)
         /\ k < Len(b.chain) => ~Empties(b, len, k + 1)
  <1> DEFINE n == Len(b.chain)
             Stops == {k \in Nat : k = n \/ (k < n /\ ~Empties(b, len, k + 1))}
  <1>1. n \in Nat /\ n \in Stops
    OBVIOUS
  <1>2. PICK k \in Stops : \A j \in Stops : ~(j < k)
    <2>1. Stops \subseteq Nat /\ Stops # {}
      BY <1>1
    <2> QED
      BY <2>1, LeastElement
  <1>3. k \in 0 .. n /\ (k < n => ~Empties(b, len, k + 1))
    BY <1>1, <1>2
  <1>4. ASSUME NEW i \in 1 .. k PROVE Empties(b, len, i)
    <2>1. i - 1 \in Nat /\ i - 1 < k /\ i - 1 < n /\ (i - 1) + 1 = i
      BY <1>1, <1>3, <1>4
    <2>2. i - 1 \notin Stops
      BY <1>2, <2>1
    <2>3. Empties(b, len, (i - 1) + 1)
      BY <2>1, <2>2
    <2> QED
      BY <2>1, <2>3
  <1> QED
    BY <1>3, <1>4 DEF Emptied

(* what is left of a list of chunks without its first k ones *)
LEMMA SuffixProperties ==
  ASSUME NEW s \in Seq(Items), NEW k \in 0 .. Len(s)
  PROVE  LET r == SubSeq(s, k + 1, Len(s)) IN
         /\ r \in Seq(Items) /\ Len(r) = Len(s) - k
         /\ \A i \in 1 .. Len(s) - k : r[i] = s[k + i]
  <1> DEFINE r == SubSeq(s, k + 1, Len(s))
  <1>1. Len(s) \in Nat /\ k \in Nat /\ k + 1 \in Nat
    OBVIOUS
  <1>2. \A i \in k + 1 .. Len(s) : s[i] \in Items
    BY <1>1, ElementOfSeq
  <1>3. /\ r \in Seq(Items)
        /\ Len(r) = IF k + 1 <= Len(s) THEN Len(s) - (k + 1) + 1 ELSE 0
        /\ \A i \in 1 .. Len(s) - (k + 1) + 1 : r[i] = s[(k + 1) + i - 1]
    BY <1>1, <1>2, SubSeqProperties
  <1> HIDE DEF r
  <1>4. Len(r) = Len(s) - k /\ Len(s) - (k + 1) + 1 = Len(s) - k
    BY <1>1, <1>3
  <1>5. \A i \in 1 .. Len(s) - k : r[i] = s[k + i]
    <2> TAKE i \in 1 .. Len(s) - k
    <2>1. (k + 1) + i - 1 = k + i
      BY <1>1
    <2> QED
      BY <1>3, <1>4, <2>1
  <1> QED
    BY <1>3, <1>4, <1>5 DEF r

(* r is left of s, which held the positions from lo up to hi - 1, without    *)
(* its first k chunks and without the first len positions *)
LeftOf(r, s, k, lo, len, hi) ==
    /\ r \in Seq(Items) /\ Len(r) = Len(s) - k
    /\ \A i \in 1 .. Len(r) : r[i].id = s[k + i].id /\ r[i].end = s[k + i].end
    /\ \A i \in 2 .. Len(r) : r[i].pos = s[k + i].pos
    /\ Len(r) > 0 => r[1].pos = lo + len /\ lo + len < r[1].end
    /\ Len(r) = 0 => lo + len = hi

FirstIds(s, k) == {s[i].id : i \in 1 .. k}

(* remove(len) and retrieve(len), element by element: k chunks go back to    *)
(* the ring, the next one begins where the data that was taken ends.         *)
LEMMA RemoveProperties ==
  ASSUME NEW b, b.chain \in Seq(Items), NEW lo \in Nat, NEW hi \in Nat,
         InSequence(b.chain, lo, hi), NEW len \in Nat, lo + len <= hi
  PROVE  \E k \in 0 .. Len(b.chain) :
           /\ LeftOf(Rest(b, len), b.chain, k, lo, len, hi)
           /\ ReturnedChunks(b, len) = FirstIds(b.chain, k)
  <1> DEFINE s == b.chain
             k == Emptied(b, len)
             rest == SubSeq(s, k + 1, Len(s))
             r == Rest(b, len)
  <1>1. /\ k \in 0 .. Len(s) /\ Len(s) \in Nat
        /\ \A i \in 1 .. k : Empties(b, len, i)
        /\ k < Len(s) => ~Empties(b, len, k + 1)
    <2>1. Len(s) \in Nat
      OBVIOUS
    <2> QED
      BY <2>1, EmptiedProperty, Zenon
  <1>2. /\ rest \in Seq(Items) /\ Len(rest) = Len(s) - k
        /\ \A i \in 1 .. Len(s) - k : rest[i] = s[k + i]
    <2> HIDE DEF k, s
    <2> QED
      BY <1>1, SuffixProperties DEF s
  <1>3. \A i \in 1 .. Len(s) : s[i] \in Items /\ s[i].pos \in Nat /\ s[i].end \in Nat
    <2>1. \A i \in 1 .. Len(s) : s[i] \in Items
      BY ElementOfSeq
    <2> QED
      BY <2>1 DEF Items
  <1>4. Len(s) > 0 => s[1].pos = lo /\ hi = s[Len(s)].end
    BY <1>1, EmptySeq DEF InSequence
  <1>5. Len(s) = 0 => lo = hi
    BY <1>1, EmptySeq DEF InSequence
  <1>6. ReturnedChunks(b, len) = FirstIds(s, k)
    BY DEF ReturnedChunks, FirstIds
  <1>7. r = IF rest = <<>> THEN rest ELSE [rest EXCEPT ![1].pos = s[1].pos + len]
    BY DEF Rest
  <1> HIDE DEF s, k, rest, r
  <1>10. k \in 0 .. Len(b.chain)
    BY <1>1 DEF s
  <1>8. CASE k = Len(s)
    <2>1. r = <<>> /\ Len(r) = 0
      BY <1>1, <1>2, <1>7, <1>8, EmptySeq
    <2>2. lo + len = hi
      <3>1. CASE Len(s) = 0
        BY <1>5, <3>1
      <3>2. CASE Len(s) > 0
        <4>1. Empties(b, len, Len(s))
          BY <1>1, <1>8, <3>2
        <4>2. s[Len(s)].end - s[1].pos <= len
          BY <4>1 DEF Empties, s
        <4> QED
          BY <1>1, <1>3, <1>4, <3>2, <4>2
      <3> QED
        BY <1>1, <3>1, <3>2
    <2> USE <1>10
    <2> WITNESS k \in 0 .. Len(b.chain)
    <2> QED
      BY <1>1, <1>6, <1>8, <2>1, <2>2 DEF LeftOf, r, s
  <1>9. CASE k < Len(s)
    <2>1. Len(rest) > 0 /\ rest # <<>> /\ rest[1] = s[k + 1] /\ k + 1 \in 1 .. Len(s)
      BY <1>1, <1>2, <1>9, EmptySeq
    <2>2. s[1].pos = lo /\ s[k + 1].end - lo > len /\ lo + len \in Nat
      <3>1. s[1].pos = lo
        BY <1>1, <1>4, <1>9
      <3>2. ~(s[k + 1].end - s[1].pos <= len)
        BY <1>1, <1>9 DEF Empties, s
      <3> QED
        BY <1>3, <2>1, <3>1, <3>2
    <2>3. r = [rest EXCEPT ![1] = [rest[1] EXCEPT !.pos = lo + len]]
      BY <1>7, <2>1, <2>2
    <2> DEFINE first == [rest[1] EXCEPT !.pos = lo + len]
    <2>4. first \in Items /\ first.id = s[k + 1].id /\ first.end = s[k + 1].end /\ first.pos = lo + len
      BY <1>3, <2>1, <2>2 DEF Items
    <2> HIDE DEF first
    <2>5. /\ r \in Seq(Items) /\ Len(r) = Len(s) - k /\ Len(r) > 0
          /\ r[1] = first
          /\ \A i \in 2 .. Len(r) : r[i] = s[k + i]
      BY <1>1, <1>2, <2>1, <2>3, <2>4 DEF first
    <2>6. ASSUME NEW i \in 1 .. Len(r) PROVE r[i].id = s[k + i].id /\ r[i].end = s[k + i].end
      <3>1. i = 1 \/ i \in 2 .. Len(r)
        BY <2>5
      <3> QED
        BY <2>4, <2>5, <3>1
    <2>7. \A i \in 2 .. Len(r) : r[i].pos = s[k + i].pos
      BY <2>5
    <2>8. lo + len < r[1].end /\ r[1].pos = lo + len
      BY <1>3, <2>1, <2>2, <2>4, <2>5
    <2> USE <1>10
    <2> WITNESS k \in 0 .. Len(b.chain)
    <2> QED
      BY <1>1, <1>6, <2>5, <2>6, <2>7, <2>8 DEF LeftOf, r, s
  <1>11. k = Len(s) \/ k < Len(s)
    BY <1>1
  <1> QED
    BY <1>8, <1>9, <1>11, Zenon

(* the chunks that are left hold the positions after the len ones taken *)
LEMMA RemoveInSequence ==
  ASSUME NEW b, b.chain \in Seq(Items), NEW lo \in Nat, NEW hi \in Nat,
         InSequence(b.chain, lo, hi), NEW len \in Nat, lo + len <= hi
  PROVE  Rest(b, len) \in Seq(Items) /\ InSequence(Rest(b, len), lo + len, hi)
  <1> DEFINE s == b.chain
             r == Rest(b, len)
  <1>0. PICK k \in 0 .. Len(s) : LeftOf(r, s, k, lo, len, hi)
    BY RemoveProperties, Zenon
  <1>2. \A j \in 1 .. Len(s) : j # 1 => s[j].pos = s[j - 1].end /\ s[j].pos < s[j].end
    BY DEF InSequence
  <1>3. Len(s) > 0 => hi = s[Len(s)].end
    BY EmptySeq DEF InSequence
  <1>4. s \in Seq(Items) /\ Len(s) \in Nat
    OBVIOUS
  <1> HIDE DEF s, r
  <1>1. /\ k \in 0 .. Len(s) /\ r \in Seq(Items) /\ Len(r) = Len(s) - k
        /\ \A i \in 1 .. Len(r) : r[i].id = s[k + i].id /\ r[i].end = s[k + i].end
        /\ \A i \in 2 .. Len(r) : r[i].pos = s[k + i].pos
        /\ Len(r) > 0 => r[1].pos = lo + len /\ lo + len < r[1].end
        /\ Len(r) = 0 => lo + len = hi
    BY <1>0, Zenon DEF LeftOf
  <1>5. /\ DOMAIN r = 1 .. Len(r) /\ Len(r) \in Nat
        /\ r = <<>> <=> Len(r) = 0
    BY <1>1, EmptySeq
  <1>6. ASSUME NEW i \in 1 .. Len(r)
        PROVE  r[i].pos = (IF i = 1 THEN lo + len ELSE r[i - 1].end) /\ r[i].pos < r[i].end
    <2>1. CASE i = 1
      BY <1>1, <1>5, <2>1
    <2>2. CASE i # 1
      <3>4. k \in 0 .. Len(s) /\ Len(r) = Len(s) - k
        BY <1>1
      <3>1. /\ i \in 2 .. Len(r) /\ i - 1 \in 1 .. Len(r)
            /\ k + i \in 1 .. Len(s) /\ k + i # 1 /\ k + (i - 1) = (k + i) - 1
        BY <1>4, <1>5, <2>2, <3>4
      <3>2. s[k + i].pos = s[(k + i) - 1].end /\ s[k + i].pos < s[k + i].end
        BY <1>2, <3>1
      <3>3. r[i].pos = s[k + i].pos /\ r[i].end = s[k + i].end /\ r[i - 1].end = s[k + (i - 1)].end
        BY <1>1, <3>1
      <3> QED
        BY <2>2, <3>1, <3>2, <3>3
    <2> QED
      BY <2>1, <2>2
  <1>7. hi = (IF r = <<>> THEN lo + len ELSE r[Len(r)].end)
    <2>1. CASE Len(r) = 0
      BY <1>1, <1>5, <2>1
    <2>2. CASE Len(r) > 0
      <3>1. Len(r) \in 1 .. Len(r) /\ k + Len(r) = Len(s) /\ Len(s) > 0
        BY <1>1, <1>4, <1>5, <2>2
      <3>2. r[Len(r)].end = s[k + Len(r)].end
        BY <1>1, <3>1
      <3> QED
        BY <1>3, <1>5, <2>2, <3>1, <3>2
    <2> QED
      BY <1>5, <2>1, <2>2
  <1> QED
    BY <1>1, <1>5, <1>6, <1>7 DEF InSequence, r

(* each chunk of the list is left in it or returned, and not both *)
LEMMA RemoveIds ==
  ASSUME NEW b, b.chain \in Seq(Items), NEW lo \in Nat, NEW hi \in Nat,
         InSequence(b.chain, lo, hi), NEW len \in Nat, lo + len <= hi
  PROVE  /\ Ids(b.chain) = Ids(Rest(b, len)) \cup ReturnedChunks(b, len)
         /\ Distinct(b.chain) => /\ Distinct(Rest(b, len))
                                 /\ Ids(Rest(b, len)) \cap ReturnedChunks(b, len) = {}
         /\ Len(Rest(b, len)) <= Len(b.chain)
  <1> DEFINE s == b.chain
             r == Rest(b, len)
             ret == ReturnedChunks(b, len)
  <1>0. PICK k \in 0 .. Len(s) : LeftOf(r, s, k, lo, len, hi) /\ ret = FirstIds(s, k)
    BY RemoveProperties, Zenon
  <1>2. Len(s) \in Nat /\ DOMAIN s = 1 .. Len(s)
    OBVIOUS
  <1> HIDE DEF s, r, ret
  <1>1. /\ k \in 0 .. Len(s) /\ r \in Seq(Items) /\ Len(r) = Len(s) - k
        /\ \A i \in 1 .. Len(r) : r[i].id = s[k + i].id
        /\ ret = {s[i].id : i \in 1 .. k}
    BY <1>0, Zenon DEF LeftOf, FirstIds
  <1>3. DOMAIN r = 1 .. Len(r) /\ Len(r) \in Nat
    BY <1>1
  <1>4. ASSUME NEW i \in DOMAIN r PROVE k + i \in DOMAIN s /\ k + i > k /\ r[i].id = s[k + i].id
    BY <1>1, <1>2, <1>3
  <1>5. ASSUME NEW j \in DOMAIN s PROVE s[j].id \in Ids(r) \cup ret
    <2>1. CASE j <= k
      <3>1. j \in 1 .. k
        BY <1>2, <2>1
      <3> QED
        BY <1>1, <3>1
    <2>2. CASE j > k
      <3>1. j - k \in DOMAIN r /\ k + (j - k) = j
        BY <1>1, <1>2, <1>3, <2>2
      <3>2. r[j - k].id = s[j].id
        BY <1>4, <3>1
      <3> QED
        BY <3>1, <3>2 DEF Ids
    <2> QED
      BY <1>2, <2>1, <2>2
  <1>6. Ids(r) \subseteq Ids(s)
    BY <1>4 DEF Ids
  <1>7. ASSUME NEW i \in 1 .. k PROVE i \in DOMAIN s
    BY <1>1, <1>2
  <1>8. ret \subseteq Ids(s)
    BY <1>1, <1>7 DEF Ids
  <1>9. Ids(s) = Ids(r) \cup ret
    BY <1>5, <1>6, <1>8 DEF Ids
  <1>10. ASSUME Distinct(s) PROVE Distinct(r)
    <2> SUFFICES ASSUME NEW i \in DOMAIN r, NEW j \in DOMAIN r, r[i].id = r[j].id PROVE i = j
      BY DEF Distinct
    <2>1. k + i = k + j
      BY <1>4, <1>10 DEF Distinct
    <2> QED
      BY <1>1, <1>2, <1>3, <2>1
  <1>11. ASSUME Distinct(s), NEW x \in Ids(r), x \in ret PROVE FALSE
    <2>1. PICK i \in DOMAIN r : x = r[i].id
      BY <1>11 DEF Ids
    <2>2. PICK j \in 1 .. k : x = s[j].id
      BY <1>1, <1>11
    <2>3. k + i = j
      BY <1>4, <1>7, <1>11, <2>1, <2>2 DEF Distinct
    <2> QED
      BY <1>1, <1>2, <1>4, <2>3
  <1>12. Len(r) <= Len(s)
    BY <1>1, <1>2
  <1> QED
    BY <1>9, <1>10, <1>11, <1>12 DEF s, r, ret

(* append() of one chunk, as a set *)
LEMMA AppendIds ==
  ASSUME NEW s \in Seq(Items), NEW x \in Items
  PROVE  /\ Ids(Append(s, x)) = Ids(s) \cup {x.id}
         /\ Distinct(s) /\ x.id \notin Ids(s) => Distinct(Append(s, x))
  <1> DEFINE r == Append(s, x)
  <1>1. /\ DOMAIN r = 1 .. Len(s) + 1 /\ DOMAIN s = 1 .. Len(s) /\ Len(s) \in Nat
        /\ \A i \in 1 .. Len(s) : r[i] = s[i]
        /\ r[Len(s) + 1] = x
    BY AppendProperties
  <1> HIDE DEF r
  <1>2. ASSUME NEW i \in DOMAIN r PROVE (i \in DOMAIN s /\ r[i] = s[i]) \/ (i = Len(s) + 1 /\ r[i] = x)
    BY <1>1
  <1>3. ASSUME NEW i \in DOMAIN s PROVE i \in DOMAIN r /\ r[i] = s[i]
    BY <1>1
  <1>4. Len(s) + 1 \in DOMAIN r
    BY <1>1
  <1>5. Ids(r) = Ids(s) \cup {x.id}
    BY <1>1, <1>2, <1>3, <1>4 DEF Ids
  <1>6. ASSUME Distinct(s), x.id \notin Ids(s) PROVE Distinct(r)
    BY <1>2, <1>6 DEF Ids, Distinct
  <1> QED
    BY <1>5, <1>6 DEF r

(* the oldest chunk is taken from a list *)
LEMMA TailIds ==
  ASSUME NEW s \in Seq(Items), s # <<>>
  PROVE  /\ Ids(s) = Ids(Tail(s)) \cup {Head(s).id}
         /\ Distinct(s) => Distinct(Tail(s)) /\ Head(s).id \notin Ids(Tail(s))
  <1> DEFINE r == Tail(s)
  <1>1. /\ Len(s) \in Nat /\ Len(s) >= 1 /\ DOMAIN s = 1 .. Len(s) /\ DOMAIN r = 1 .. Len(s) - 1
        /\ \A i \in 1 .. Len(s) - 1 : r[i] = s[i + 1]
        /\ Head(s) = s[1]
    BY HeadTailProperties, EmptySeq
  <1> HIDE DEF r
  <1>2. ASSUME NEW i \in DOMAIN r PROVE i + 1 \in DOMAIN s /\ i + 1 # 1 /\ r[i] = s[i + 1]
    BY <1>1
  <1>3. ASSUME NEW i \in DOMAIN s, i # 1 PROVE i - 1 \in DOMAIN r /\ r[i - 1] = s[i]
    BY <1>1, <1>3
  <1>4. 1 \in DOMAIN s
    BY <1>1
  <1>5. Ids(s) = Ids(r) \cup {s[1].id}
    BY <1>2, <1>3, <1>4 DEF Ids
  <1>6. ASSUME Distinct(s) PROVE Distinct(r)
    <2> SUFFICES ASSUME NEW i \in DOMAIN r, NEW j \in DOMAIN r, r[i].id = r[j].id PROVE i = j
      BY DEF Distinct
    <2>1. i + 1 = j + 1
      BY <1>2, <1>6 DEF Distinct
    <2> QED
      BY <1>1, <2>1
  <1>7. ASSUME Distinct(s) PROVE s[1].id \notin Ids(r)
    BY <1>2, <1>4, <1>7 DEF Distinct, Ids
  <1> QED
    BY <1>1, <1>5, <1>6, <1>7 DEF r

-----------------------------------------------------------------------------
(* the chunk of a completion, as on_completion() appends it *)
Item(e) == [id |-> e.id, pos |-> e.pos, end |-> e.pos + e.res]

(* The completions with data of a request, one chunk each. *)
LEMMA DataProperties ==
  ASSUME NEW q \in Seq(Entry), NEW armed \in BOOLEAN, OnlyLastEnds(q, armed)
  PROVE  /\ Received(q) \in 0 .. Len(q) /\ Len(q) \in Nat
         /\ \A i \in 1 .. Received(q) : q[i] \in Entry /\ q[i].res > 0 /\ Item(q[i]) \in Items
         /\ Data(q) \in Seq(Items) /\ Len(Data(q)) = Received(q)
         /\ \A i \in 1 .. Received(q) : Data(q)[i] = Item(q[i])
  <1>1. Len(q) \in Nat /\ (q = <<>> <=> Len(q) = 0)
    BY EmptySeq
  <1>2. \A i \in 1 .. Len(q) : q[i] \in Entry /\ q[i].res \in Int
    <2>1. \A i \in 1 .. Len(q) : q[i] \in Entry
      BY ElementOfSeq
    <2> QED
      BY <2>1 DEF Entry, Completion
  <1>3. Received(q) \in 0 .. Len(q)
    BY <1>1 DEF Received
  <1>4. ASSUME NEW i \in 1 .. Received(q) PROVE i \in 1 .. Len(q) /\ q[i].res > 0
    <2>1. i \in 1 .. Len(q)
      BY <1>1, <1>3
    <2>2. CASE i < Len(q)
      <3>1. q[i].more
        BY <2>1, <2>2 DEF OnlyLastEnds
      <3> QED
        BY <1>2, <2>1, <3>1 DEF Entry
    <2>3. CASE i = Len(q)
      BY <1>1, <1>2, <2>1, <2>3 DEF Received
    <2> QED
      BY <1>1, <2>1, <2>2, <2>3
  <1>5. ASSUME NEW i \in 1 .. Received(q) PROVE Item(q[i]) \in Items
    <2>1. q[i] \in Entry /\ q[i].res > 0
      BY <1>2, <1>4
    <2>2. q[i].id \in Chunks /\ q[i].pos \in Nat /\ q[i].res \in Int
      BY <2>1 DEF Entry, Completion
    <2> QED
      BY <2>1, <2>2 DEF Item, Items
  <1>6. Data(q) = [i \in 1 .. Received(q) |-> Item(q[i])]
    BY DEF Data, Item
  <1>7. /\ Data(q) \in Seq(Items) /\ Len(Data(q)) = Received(q)
        /\ \A i \in 1 .. Received(q) : Data(q)[i] = Item(q[i])
    BY <1>1, <1>3, <1>5, <1>6
  <1> QED
    BY <1>1, <1>2, <1>3, <1>4, <1>5, <1>7

(* A completion posted for a request that goes on adds its chunk, if any. *)
LEMMA DataOfAppend ==
  ASSUME NEW q \in Seq(Entry), NEW e \in Entry, OnlyLastEnds(q, TRUE)
  PROVE  /\ Data(q) \in Seq(Items) /\ Data(Append(q, e)) \in Seq(Items)
         /\ e.res > 0 => Item(e) \in Items /\ Data(Append(q, e)) = Append(Data(q), Item(e))
         /\ ~(e.res > 0) => Data(Append(q, e)) = Data(q)
  <1> DEFINE r == Append(q, e)
  <1>1. /\ r \in Seq(Entry) /\ Len(r) = Len(q) + 1 /\ Len(q) \in Nat
        /\ \A i \in 1 .. Len(q) : r[i] = q[i]
        /\ r[Len(q) + 1] = e /\ r # <<>>
    BY AppendProperties, EmptySeq
  <1>2. OnlyLastEnds(r, e.more) /\ e.more \in BOOLEAN /\ e.res \in Int
    BY Posted DEF Entry, Completion
  <1>3. Received(q) = Len(q)
    <2>1. \A i \in 1 .. Len(q) : q[i] \in Entry /\ q[i].more /\ q[i].res \in Int
      <3>1. \A i \in 1 .. Len(q) : q[i] \in Entry
        BY ElementOfSeq
      <3> QED
        BY <3>1 DEF OnlyLastEnds, Entry, Completion
    <2>2. \A i \in 1 .. Len(q) : q[i].res > 0
      BY <2>1 DEF Entry
    <2>3. q # <<>> => Len(q) \in 1 .. Len(q)
      BY <1>1, EmptySeq
    <2> QED
      BY <2>1, <2>2, <2>3 DEF Received
  <1>4. Received(r) = IF e.res > 0 THEN Len(q) + 1 ELSE Len(q)
    BY <1>1, <1>2 DEF Received
  <1> HIDE DEF r
  <1>5. /\ Data(q) \in Seq(Items) /\ Len(Data(q)) = Len(q)
        /\ \A i \in 1 .. Len(q) : Data(q)[i] = Item(q[i])
    BY <1>3, DataProperties
  <1>6. /\ Data(r) \in Seq(Items) /\ Len(Data(r)) = Received(r)
        /\ \A i \in 1 .. Received(r) : Data(r)[i] = Item(r[i]) /\ Item(r[i]) \in Items
    BY <1>1, <1>2, DataProperties
  <1>7. ASSUME e.res > 0 PROVE Item(e) \in Items /\ Data(r) = Append(Data(q), Item(e))
    <2>1. Item(e) \in Items
      BY <1>1, <1>4, <1>6, <1>7
    <2> DEFINE t == Append(Data(q), Item(e))
    <2>2. /\ t \in Seq(Items) /\ Len(t) = Len(q) + 1
          /\ \A i \in 1 .. Len(q) : t[i] = Data(q)[i]
          /\ t[Len(q) + 1] = Item(e)
      BY <1>5, <2>1, AppendProperties
    <2> HIDE DEF t
    <2>3. ASSUME NEW i \in 1 .. Len(q) + 1 PROVE Data(r)[i] = t[i]
      <3>1. CASE i \in 1 .. Len(q)
        BY <1>1, <1>4, <1>5, <1>6, <1>7, <2>2, <3>1
      <3>2. CASE i = Len(q) + 1
        BY <1>1, <1>4, <1>6, <1>7, <2>2, <3>2
      <3> QED
        BY <1>1, <3>1, <3>2
    <2>4. Data(r) = t
      BY <1>4, <1>6, <1>7, <2>2, <2>3, SeqEqual
    <2> QED
      BY <2>1, <2>4 DEF t
  <1>8. ASSUME ~(e.res > 0) PROVE Data(r) = Data(q)
    <2>1. Len(Data(r)) = Len(Data(q)) /\ \A i \in 1 .. Len(Data(r)) : Data(r)[i] = Data(q)[i]
      BY <1>1, <1>4, <1>5, <1>6, <1>8
    <2> QED
      BY <1>5, <1>6, <2>1, SeqEqual
  <1> QED
    BY <1>5, <1>6, <1>7, <1>8 DEF r

(* A completion with data, once handled, takes the oldest chunk with it; one *)
(* without data is the last one, and has none behind it.                     *)
LEMMA DataOfTail ==
  ASSUME NEW q \in Seq(Entry), NEW armed \in BOOLEAN, OnlyLastEnds(q, armed), q # <<>>
  PROVE  /\ Data(q) \in Seq(Items) /\ Data(Tail(q)) \in Seq(Items)
         /\ Head(q).res > 0 => /\ Data(q) # <<>> /\ Head(Data(q)) = Item(Head(q))
                               /\ Item(Head(q)) \in Items
                               /\ Data(Tail(q)) = Tail(Data(q))
         /\ ~(Head(q).res > 0) => Data(q) = <<>> /\ Data(Tail(q)) = <<>>
  <1> DEFINE r == Tail(q)
  <1>1. /\ r \in Seq(Entry) /\ Len(q) \in Nat /\ Len(q) >= 1 /\ Len(r) = Len(q) - 1
        /\ \A i \in 1 .. Len(r) : r[i] = q[i + 1]
        /\ Head(q) = q[1] /\ q[1] \in Entry
        /\ r = <<>> <=> Len(r) = 0
    <2>1. Len(q) \in Nat /\ Len(q) >= 1
      BY EmptySeq
    <2>2. /\ Head(q) = q[1] /\ r \in Seq(Entry) /\ Len(r) = Len(q) - 1
          /\ \A i \in 1 .. Len(r) : r[i] = q[i + 1]
      BY HeadTailProperties
    <2>3. q[1] \in Entry
      BY <2>1, ElementOfSeq
    <2>4. r = <<>> <=> Len(r) = 0
      BY <2>2, EmptySeq
    <2> QED
      BY <2>1, <2>2, <2>3, <2>4
  <1>2. OnlyLastEnds(r, armed)
    BY Handled
  <1>3. q[1].res \in Int
    BY <1>1 DEF Entry, Completion
  <1> HIDE DEF r
  <1>4. /\ Data(q) \in Seq(Items) /\ Len(Data(q)) = Received(q) /\ Received(q) \in 0 .. Len(q)
        /\ \A i \in 1 .. Received(q) : Data(q)[i] = Item(q[i]) /\ Item(q[i]) \in Items /\ q[i].res > 0
    BY DataProperties
  <1>5. /\ Data(r) \in Seq(Items) /\ Len(Data(r)) = Received(r) /\ Received(r) \in 0 .. Len(r)
        /\ \A i \in 1 .. Received(r) : Data(r)[i] = Item(r[i])
    BY <1>1, <1>2, DataProperties
  <1>6. ASSUME q[1].res > 0
        PROVE  /\ Data(q) # <<>> /\ Head(Data(q)) = Item(q[1]) /\ Item(q[1]) \in Items
               /\ Data(r) = Tail(Data(q))
    <2>1. Received(q) = Received(r) + 1 /\ Received(q) >= 1 /\ Received(r) \in Nat
      <3>1. CASE Len(q) = 1
        BY <1>1, <1>3, <1>6, <3>1 DEF Received
      <3>2. CASE Len(q) > 1
        <4>1. r[Len(r)] = q[Len(q)] /\ r # <<>>
          <5>1. Len(r) \in 1 .. Len(r) /\ Len(r) + 1 = Len(q) /\ Len(r) # 0
            BY <1>1, <3>2
          <5> QED
            BY <1>1, <5>1
        <4> QED
          BY <1>1, <3>2, <4>1 DEF Received
      <3> QED
        BY <1>1, <3>1, <3>2
    <2> DEFINE d == Data(q)
               t == Tail(d)
    <2>2. /\ d # <<>> /\ d[1] = Item(q[1]) /\ Item(q[1]) \in Items
      BY <1>4, <2>1, EmptySeq
    <2>3. /\ Head(d) = d[1] /\ t \in Seq(Items) /\ Len(t) = Received(r)
          /\ \A i \in 1 .. Len(t) : t[i] = d[i + 1]
      <3> HIDE DEF d
      <3>1. d \in Seq(Items) /\ d # <<>> /\ Len(d) = Received(r) + 1
        BY <1>4, <2>1, <2>2 DEF d
      <3>2. /\ Head(d) = d[1] /\ t \in Seq(Items) /\ Len(t) = Len(d) - 1
            /\ \A i \in 1 .. Len(t) : t[i] = d[i + 1]
        BY <3>1, HeadTailProperties
      <3> QED
        BY <2>1, <3>1, <3>2
    <2> HIDE DEF d, t
    <2>4. ASSUME NEW i \in 1 .. Len(t) PROVE Data(r)[i] = t[i]
      <3>1. i \in 1 .. Received(r) /\ i \in 1 .. Len(r) /\ i + 1 \in 1 .. Received(q)
        BY <1>1, <1>5, <2>1, <2>3
      <3>2. Data(r)[i] = Item(q[i + 1]) /\ d[i + 1] = Item(q[i + 1])
        BY <1>1, <1>4, <1>5, <3>1 DEF d
      <3> QED
        BY <2>3, <3>2
    <2>5. Data(r) = t
      BY <1>5, <2>3, <2>4, SeqEqual
    <2> QED
      BY <2>2, <2>3, <2>5 DEF d, t
  <1>7. ASSUME ~(q[1].res > 0) PROVE Data(q) = <<>> /\ Data(r) = <<>>
    <2>1. Received(q) = 0
      BY <1>1, <1>4, <1>7
    <2>2. Len(q) = 1
      <3>1. ~q[1].more
        BY <1>1, <1>7 DEF Entry
      <3> QED
        BY <1>1, <3>1 DEF OnlyLastEnds
    <2>3. Received(r) = 0
      BY <1>1, <1>5, <2>2
    <2> QED
      BY <1>4, <1>5, <2>1, <2>3, EmptySeq
  <1> QED
    BY <1>1, <1>4, <1>5, <1>6, <1>7 DEF r

=============================================================================
