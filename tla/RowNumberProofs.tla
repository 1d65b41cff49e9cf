-------------------------- MODULE RowNumberProofs --------------------------
(***************************************************************************)
(* Proofs about RowNumberTransfer: its types, the rows before a checkpoint *)
(* and the rows of a job that has succeeded.                               *)
(***************************************************************************)
EXTENDS RowNumberTransfer, FiniteSetTheorems, SequenceTheorems, TLAPS

-----------------------------------------------------------------------------
(* Channels and workers. *)

LEMMA TailChan ==
  ASSUME NEW S, NEW q \in Seq(S), q # <<>>
  PROVE  /\ Tail(q) \in Seq(S) /\ Head(q) \in S /\ Len(q) \in Nat \ {0} /\ Len(Tail(q)) = Len(q) - 1
         /\ Head(q) = q[1] /\ \A i \in 1 .. Len(Tail(q)) : Tail(q)[i] = q[i + 1]
         /\ InChan(q) = {Head(q)} \cup InChan(Tail(q))
<1>1. /\ Tail(q) \in Seq(S) /\ Len(q) \in Nat \ {0} /\ Len(Tail(q)) = Len(q) - 1 /\ Head(q) = q[1]
      /\ \A i \in 1 .. Len(Tail(q)) : Tail(q)[i] = q[i + 1]
  BY HeadTailProperties, EmptySeq, LenProperties
<1>2. q[1] \in S
  BY <1>1, ElementOfSeq
<1>3. ASSUME NEW i \in 1 .. Len(q) PROVE q[i] \in {q[1]} \cup InChan(Tail(q))
  <2>1. CASE i = 1
    BY <2>1
  <2>2. CASE i # 1
    <3>1. i - 1 \in 1 .. Len(Tail(q)) /\ (i - 1) + 1 = i
      BY <1>1, <2>2
    <3> QED BY <1>1, <3>1 DEF InChan
  <2> QED BY <2>1, <2>2
<1>4. ASSUME NEW i \in 1 .. Len(Tail(q)) PROVE Tail(q)[i] \in InChan(q)
  <2>1. i + 1 \in 1 .. Len(q)
    BY <1>1
  <2> QED BY <1>1, <2>1 DEF InChan
<1>5. 1 \in 1 .. Len(q)
  BY <1>1
<1>6. q[1] \in InChan(q)
  BY <1>5 DEF InChan
<1>7. InChan(q) = {q[1]} \cup InChan(Tail(q))
  BY <1>3, <1>4, <1>6 DEF InChan
<1> QED BY <1>1, <1>2, <1>7

LEMMA AppendChan ==
  ASSUME NEW S, NEW q \in Seq(S), NEW x \in S
  PROVE  /\ Append(q, x) \in Seq(S) /\ Len(Append(q, x)) = Len(q) + 1 /\ Len(q) \in Nat
         /\ \A i \in 1 .. Len(q) : Append(q, x)[i] = q[i]
         /\ Append(q, x)[Len(q) + 1] = x
         /\ InChan(Append(q, x)) = InChan(q) \cup {x}
<1>1. /\ Append(q, x) \in Seq(S) /\ Len(Append(q, x)) = Len(q) + 1 /\ Len(q) \in Nat
      /\ \A i \in 1 .. Len(q) : Append(q, x)[i] = q[i]
      /\ Append(q, x)[Len(q) + 1] = x
  BY AppendProperties, LenProperties
<1>2. \A i \in 1 .. Len(q) : i \in 1 .. Len(Append(q, x))
  BY <1>1
<1>3. Len(q) + 1 \in 1 .. Len(Append(q, x))
  BY <1>1
<1>4. \A i \in 1 .. Len(Append(q, x)) : i \in 1 .. Len(q) \/ i = Len(q) + 1
  BY <1>1
<1>5. InChan(Append(q, x)) = InChan(q) \cup {x}
  BY <1>1, <1>2, <1>3, <1>4 DEF InChan
<1> QED BY <1>1, <1>5

LEMMA EmptyChan ==
  ASSUME NEW S
  PROVE  <<>> \in Seq(S) /\ Len(<<>>) = 0 /\ InChan(<<>>) = {}
<1>1. <<>> \in Seq(S) /\ Len(<<>>) = 0
  BY EmptySeq
<1>2. 1 .. 0 = {}
  OBVIOUS
<1> QED BY <1>1, <1>2 DEF InChan

WorkerState == [st : {"idle", "write", "ack", "gone"}, job : Chunk \cup {NoJob}, cancelled : {FALSE}]

LEMMA ChunkFacts ==
  /\ NoChunk \in Chunk
  /\ ReadError \notin Chunk /\ ReadDone \notin Chunk /\ ReadError # ReadDone
  /\ NoChunk \in ChunkResult /\ ReadError \in ChunkResult /\ ReadDone \in ChunkResult
  /\ \A c \in Chunk : /\ c.rows \subseteq 1 .. SourceRows /\ c.rowNum \in Nat /\ c.seq \in Nat
                      /\ IsFiniteSet(c.rows) /\ Cardinality(c.rows) \in Nat
<1>1. NoChunk \in Chunk
  BY DEF NoChunk, Chunk
<1>2. ReadError.seq = -1 /\ ReadDone.seq = -2
  BY DEF ReadError, ReadDone, NoChunk
<1>3. \A c \in Chunk : c.rows \subseteq 1 .. SourceRows /\ c.rowNum \in Nat /\ c.seq \in Nat
  BY DEF Chunk
<1>4. -1 \notin Nat /\ -2 \notin Nat /\ -1 # -2
  OBVIOUS
<1>5. IsFiniteSet(1 .. SourceRows)
  BY FS_Interval, JobAssumption
<1>6. \A c \in Chunk : IsFiniteSet(c.rows) /\ Cardinality(c.rows) \in Nat
  BY <1>3, <1>5, FS_Subset, FS_CardinalityType
<1> QED BY <1>1, <1>2, <1>3, <1>4, <1>6 DEF ChunkResult

\* Goroutine g has moved on, and the others have not.
LEMMA WorkerMoves ==
  ASSUME worker \in [Goroutines -> WorkerState], NEW g \in Goroutines,
         NEW st \in {"idle", "write", "ack", "gone"}, NEW m \in Chunk \cup {NoJob}, SetWorker(g, st, m)
  PROVE  /\ worker' \in [Goroutines -> WorkerState] /\ Goroutines' = Goroutines
         /\ worker'[g].st = st /\ worker'[g].job = m
         /\ \A h \in Goroutines : h # g => worker'[h] = worker[h]
         /\ \A x : /\ JobsAt(x)' \subseteq JobsAt(x) \cup {m}
                   /\ x # st => JobsAt(x)' \subseteq JobsAt(x)
                   /\ JobsAt(x) \subseteq JobsAt(x)' \cup {worker[g].job}
                   /\ x # worker[g].st => JobsAt(x) \subseteq JobsAt(x)'
         /\ m \in JobsAt(st)'
<1>1. PICK r : r = [worker[g] EXCEPT !.st = st, !.job = m]
  OBVIOUS
<1>2. worker[g] \in WorkerState
  OBVIOUS
<1>3. r \in WorkerState /\ r.st = st /\ r.job = m
  BY <1>1, <1>2 DEF WorkerState
<1>4. worker' = [worker EXCEPT ![g] = r]
  BY <1>1 DEF SetWorker
<1>5. /\ worker' \in [Goroutines -> WorkerState] /\ Goroutines' = Goroutines
      /\ worker'[g] = r /\ \A h \in Goroutines : h # g => worker'[h] = worker[h]
  BY <1>3, <1>4 DEF Goroutines
<1>6. ASSUME NEW x
      PROVE  /\ JobsAt(x)' \subseteq JobsAt(x) \cup {m}
             /\ x # st => JobsAt(x)' \subseteq JobsAt(x)
             /\ JobsAt(x) \subseteq JobsAt(x)' \cup {worker[g].job}
             /\ x # worker[g].st => JobsAt(x) \subseteq JobsAt(x)'
  BY <1>3, <1>5 DEF JobsAt
<1>7. m \in JobsAt(st)'
  BY <1>3, <1>5 DEF JobsAt
<1> QED BY <1>3, <1>5, <1>6, <1>7

LEMMA RangeTypes ==
  /\ FirstRow \in Nat /\ LastRow \in Nat /\ ChunkSize \in Nat \ {0} /\ SourceRows \in Nat
  /\ \A row \in Nat : Clamp(row) \in Nat
BY JobAssumption DEF FirstRow, LastRow, Clamp

\* A page is the rows behind the reader's row number, and one that is not full is the
\* last of the table.
LEMMA PageFacts ==
  ASSUME reader.rowNum \in Nat, reader.rowNum < LastRow
  PROVE  /\ Page \in SUBSET (1 .. SourceRows) /\ Cardinality(Page) \in Nat
         /\ Page = reader.rowNum + 1 .. reader.rowNum + Cardinality(Page)
         /\ reader.rowNum + Cardinality(Page) <= LastRow
         /\ Cardinality(Page) < PageSize => SourceRows <= reader.rowNum + Cardinality(Page)
         /\ Page = {} => Cardinality(Page) < PageSize /\ Cardinality(Page) = 0
         /\ PageSize = ChunkSize \/ reader.rowNum + PageSize = LastRow
<1> DEFINE r == reader.rowNum
           p == PageSize
<1>1. /\ r \in Nat /\ p \in Nat \ {0} /\ r + p <= LastRow /\ SourceRows \in Nat
      /\ p = ChunkSize \/ r + p = LastRow
  BY RangeTypes DEF PageSize
<1>2. Page = {n \in 1 .. SourceRows : r < n /\ n <= r + p}
  BY DEF Page
<1>3. ASSUME NEW m \in Nat, r <= m, Page = r + 1 .. m, m <= r + p, m < r + p => SourceRows <= m
      PROVE  /\ Page \in SUBSET (1 .. SourceRows) /\ Cardinality(Page) = m - r /\ m - r \in Nat
             /\ Page = r + 1 .. r + Cardinality(Page)
             /\ r + Cardinality(Page) <= LastRow
             /\ Cardinality(Page) < p => SourceRows <= r + Cardinality(Page)
             /\ Page = {} => Cardinality(Page) < p /\ Cardinality(Page) = 0
  <2>1. Page \in SUBSET (1 .. SourceRows)
    BY <1>2
  <2>9. r + 1 \in Int /\ m \in Int
    BY <1>1, <1>3
  <2>2. Cardinality(r + 1 .. m) = IF r + 1 <= m THEN m - (r + 1) + 1 ELSE 0
    <3>1. \A a, b \in Int : Cardinality(a .. b) = IF a <= b THEN b - a + 1 ELSE 0
      BY FS_Interval
    <3>2. PICK a \in Int : a = r + 1
      BY <2>9
    <3>3. Cardinality(a .. m) = IF a <= m THEN m - a + 1 ELSE 0
      BY <2>9, <3>1
    <3> QED BY <3>2, <3>3
  <2>3. Cardinality(Page) = m - r /\ m - r \in Nat
    BY <1>1, <1>3, <2>2
  <2>4. Page = {} => m = r
    <3>1. r < m => r + 1 \in r + 1 .. m
      BY <1>1, <1>3
    <3> QED BY <1>1, <1>3, <3>1
  <2> HIDE DEF r, p
  <2>5. r + Cardinality(Page) = m
    BY <1>1, <2>3
  <2>6. Page = r + 1 .. r + Cardinality(Page)
    BY <1>3, <2>5
  <2>7. r + Cardinality(Page) <= LastRow /\ (Cardinality(Page) < p => SourceRows <= r + Cardinality(Page))
    <3>1. LastRow \in Nat
      BY RangeTypes
    <3> QED BY <1>1, <1>3, <2>3, <2>5, <3>1
  <2>8. Page = {} => Cardinality(Page) < p /\ Cardinality(Page) = 0
    BY <1>1, <1>3, <2>3, <2>4
  <2> QED BY <2>1, <2>3, <2>6, <2>7, <2>8
<1> HIDE DEF r, p
<1>4. CASE SourceRows <= r
  <2>1. Page = r + 1 .. r
    BY <1>1, <1>2, <1>4
  <2> QED BY <1>1, <1>3, <1>4, <2>1 DEF r, p
<1>5. CASE r < SourceRows /\ SourceRows <= r + p
  <2>1. Page = r + 1 .. SourceRows
    BY <1>1, <1>2, <1>5
  <2> QED BY <1>1, <1>3, <1>5, <2>1 DEF r, p
<1>6. CASE r + p < SourceRows
  <2>1. Page = r + 1 .. r + p
    BY <1>1, <1>2, <1>6
  <2> QED BY <1>1, <1>3, <1>6, <2>1 DEF r, p
<1> QED BY <1>1, <1>4, <1>5, <1>6

-----------------------------------------------------------------------------
(* The types. *)

ReaderState == [st : {"read", "send", "closed"}, rowNum : Nat, seq : Nat, msg : ChunkResult]
AckState == [expected : Nat, pending : SUBSET Chunk, rowNum : Nat, completed : Nat, draining : BOOLEAN]
JobsHeld == \A g \in Goroutines : worker[g].st \in {"write", "ack"} => worker[g].job \in Chunk

LEMMA TypeFacts ==
  ASSUME TypeOK
  PROVE  /\ target \subseteq 1 .. SourceRows /\ saved \in Nat \cup {NoProgress} /\ attempt \in Nat
         /\ pc \in Running \cup Stopped /\ reader \in ReaderState /\ reader.msg \in ChunkResult
         /\ reader.rowNum \in Nat /\ reader.seq \in Nat /\ reader.st \in {"read", "send", "closed"}
         /\ chunkChan \in Seq(ChunkResult) /\ inHand \in Chunk /\ loopErr \in BOOLEAN
         /\ ack \in AckState /\ ack.expected \in Nat /\ ack.pending \in SUBSET Chunk /\ ack.rowNum \in Nat
         /\ ack.completed \in Nat /\ ack.draining \in BOOLEAN /\ ctxDone \in BOOLEAN
         /\ jobChan \in Seq(Chunk) /\ jobsClosed \in BOOLEAN /\ ackChan \in Seq(Chunk)
         /\ worker \in [Goroutines -> WorkerState] /\ JobsHeld
         /\ poolDone \in BOOLEAN /\ writeErr \in BOOLEAN /\ totalWritten \in Nat
BY DEF TypeOK, ReaderState, AckState, JobsHeld, WorkerState

LEMMA TypeParts ==
  ASSUME /\ target \subseteq 1 .. SourceRows /\ saved \in Nat \cup {NoProgress} /\ attempt \in Nat
         /\ pc \in Running \cup Stopped /\ reader \in ReaderState
         /\ chunkChan \in Seq(ChunkResult) /\ inHand \in Chunk /\ loopErr \in BOOLEAN
         /\ ack \in AckState /\ ctxDone \in BOOLEAN
         /\ jobChan \in Seq(Chunk) /\ jobsClosed \in BOOLEAN /\ ackChan \in Seq(Chunk)
         /\ worker \in [Goroutines -> WorkerState] /\ JobsHeld
         /\ poolDone \in BOOLEAN /\ writeErr \in BOOLEAN /\ totalWritten \in Nat
  PROVE  TypeOK
BY DEF TypeOK, ReaderState, AckState, JobsHeld, WorkerState

LEMMA TypeNext ==
  ASSUME /\ target' \subseteq 1 .. SourceRows /\ saved' \in Nat \cup {NoProgress} /\ attempt' \in Nat
         /\ pc' \in Running \cup Stopped /\ reader' \in ReaderState
         /\ chunkChan' \in Seq(ChunkResult) /\ inHand' \in Chunk /\ loopErr' \in BOOLEAN
         /\ ack' \in AckState /\ ctxDone' \in BOOLEAN
         /\ jobChan' \in Seq(Chunk) /\ jobsClosed' \in BOOLEAN /\ ackChan' \in Seq(Chunk)
         /\ worker' \in [Goroutines -> WorkerState]' /\ JobsHeld'
         /\ poolDone' \in BOOLEAN /\ writeErr' \in BOOLEAN /\ totalWritten' \in Nat
  PROVE  TypeOK'
BY DEF TypeOK, ReaderState, AckState, JobsHeld, WorkerState

\* What Sending does, whichever reader it is given.
LEMMA SendingTypes ==
  ASSUME NEW msg \in ChunkResult, NEW next \in ReaderState, Sending(msg, next)
  PROVE  /\ reader' \in ReaderState /\ reader'.st = "send" /\ reader'.msg = msg
         /\ reader'.rowNum = next.rowNum /\ reader'.seq = next.seq
BY DEF Sending, ReaderState

\* What a step of the reader does.
LEMMA ReadPageDoes ==
  ASSUME TypeOK, ReadPage, Page # {}
  PROVE  LET rowNum == reader.rowNum + Cardinality(Page)
         IN /\ reader' \in ReaderState /\ reader'.st = "send" /\ reader'.rowNum = rowNum
            /\ reader'.seq = reader.seq + 1 /\ rowNum \in Nat
            /\ reader'.msg = [rows |-> Page, rowNum |-> rowNum, seq |-> reader.seq]
            /\ reader'.msg \in Chunk
<1>1. reader \in ReaderState /\ reader.rowNum \in Nat /\ reader.seq \in Nat /\ reader.rowNum < LastRow
  BY TypeFacts DEF ReadPage
<1>2. Page \in SUBSET (1 .. SourceRows) /\ Cardinality(Page) \in Nat
  BY <1>1, PageFacts
<1>3. PICK rowNum \in Nat : rowNum = reader.rowNum + Cardinality(Page)
  BY <1>1, <1>2
<1>4. PICK next : next = [reader EXCEPT !.rowNum = rowNum, !.seq = @ + 1]
  OBVIOUS
<1>5. next \in ReaderState /\ next.rowNum = rowNum /\ next.seq = reader.seq + 1
  <2>1. PICK seq \in Nat : seq = reader.seq + 1
    BY <1>1
  <2>2. next = [reader EXCEPT !.rowNum = rowNum, !.seq = seq]
    BY <1>4, <2>1
  <2> QED BY <1>1, <2>1, <2>2 DEF ReaderState
<1>6. PICK msg : msg = [rows |-> Page, rowNum |-> rowNum, seq |-> reader.seq]
  OBVIOUS
<1>7. msg \in Chunk /\ msg \in ChunkResult
  BY <1>1, <1>2, <1>6 DEF Chunk, ChunkResult
<1>8. Sending(msg, next)
  BY <1>3, <1>4, <1>6 DEF ReadPage
<1>9. /\ reader' \in ReaderState /\ reader'.st = "send" /\ reader'.msg = msg
      /\ reader'.rowNum = next.rowNum /\ reader'.seq = next.seq
  BY <1>5, <1>7, <1>8, SendingTypes
<1> QED BY <1>3, <1>5, <1>6, <1>7, <1>9

\* A reader that has read its last page, or failed.
EndsReading(msg) ==
  /\ reader' \in ReaderState /\ reader'.st = "send" /\ reader'.msg = msg
  /\ reader'.rowNum = reader.rowNum /\ reader'.seq = reader.seq

LEMMA ReadEndDoes ==
  ASSUME TypeOK
  PROVE  /\ ReadPage /\ Page = {} => EndsReading(ReadDone)
         /\ ReadFails => EndsReading(ReadError)
         /\ ReadEnds => EndsReading(ReadDone)
<1>1. reader \in ReaderState /\ ReadDone \in ChunkResult /\ ReadError \in ChunkResult
  BY TypeFacts, ChunkFacts
<1>2. \A msg \in {ReadDone, ReadError} : Sending(msg, reader) => EndsReading(msg)
  BY <1>1, SendingTypes DEF EndsReading
<1> QED BY <1>2 DEF ReadPage, ReadFails, ReadEnds

IsEnd(m) == m \in {ReadError, ReadDone}
LastPage(m) == Cardinality(m.rows) < ChunkSize /\ reader.rowNum < LastRow

LEMMA SendDoes ==
  ASSUME TypeOK, Send
  PROVE  /\ chunkChan' = Append(chunkChan, reader.msg) /\ chunkChan' \in Seq(ChunkResult)
         /\ InChan(chunkChan)' = InChan(chunkChan) \cup {reader.msg}
         /\ IsEnd(reader.msg) => reader'.st = "closed"
         /\ ~IsEnd(reader.msg) /\ LastPage(reader.msg) => EndsReading(ReadDone)
         /\ ~IsEnd(reader.msg) /\ ~LastPage(reader.msg) => reader'.st = "read"
         /\ reader' \in ReaderState /\ reader'.rowNum = reader.rowNum /\ reader'.seq = reader.seq
<1>1. reader \in ReaderState /\ reader.msg \in ChunkResult /\ chunkChan \in Seq(ChunkResult) /\ ReadDone \in ChunkResult
  BY TypeFacts, ChunkFacts
<1>2. chunkChan' = Append(chunkChan, reader.msg)
  BY DEF Send
<1>3. /\ Append(chunkChan, reader.msg) \in Seq(ChunkResult)
      /\ InChan(Append(chunkChan, reader.msg)) = InChan(chunkChan) \cup {reader.msg}
  BY <1>1, AppendChan
<1>4. InChan(chunkChan)' = InChan(Append(chunkChan, reader.msg))
  BY <1>2 DEF InChan
<1>5. ASSUME IsEnd(reader.msg) \/ ~LastPage(reader.msg), NEW st \in {"closed", "read"},
             st = IF IsEnd(reader.msg) THEN "closed" ELSE "read"
      PROVE  /\ reader'.st = st /\ reader' \in ReaderState
             /\ reader'.rowNum = reader.rowNum /\ reader'.seq = reader.seq
  <2>1. reader' = [reader EXCEPT !.st = st]
    BY <1>5 DEF Send, IsEnd, LastPage
  <2> QED BY <1>1, <2>1 DEF ReaderState
<1>6. CASE ~IsEnd(reader.msg) /\ LastPage(reader.msg)
  <2>1. Sending(ReadDone, reader)
    BY <1>6 DEF Send, IsEnd, LastPage
  <2> QED BY <1>1, <1>2, <1>3, <1>4, <1>6, <2>1, SendingTypes DEF EndsReading
<1>7. CASE IsEnd(reader.msg)
  BY <1>2, <1>3, <1>4, <1>5, <1>7
<1>8. CASE ~IsEnd(reader.msg) /\ ~LastPage(reader.msg)
  BY <1>2, <1>3, <1>4, <1>5, <1>8
<1> QED BY <1>6, <1>7, <1>8

\* What the consumer does.
LEMMA ReceiveDoes ==
  ASSUME TypeOK, Receive
  PROVE  /\ chunkChan' = Tail(chunkChan) /\ chunkChan' \in Seq(ChunkResult) /\ Head(chunkChan) \in ChunkResult
         /\ InChan(chunkChan) = {Head(chunkChan)} \cup InChan(chunkChan)'
         /\ \/ /\ Head(chunkChan) = ReadError /\ pc' = "wait" /\ loopErr' /\ loopErr' \in BOOLEAN /\ poolDone'
               /\ poolDone' \in BOOLEAN /\ inHand' = inHand /\ UNCHANGED writeErr
            \/ /\ Head(chunkChan) = ReadDone /\ pc' = "wait" /\ UNCHANGED <<inHand, loopErr, poolDone, writeErr>>
            \/ /\ ~IsEnd(Head(chunkChan)) /\ Head(chunkChan) \in Chunk /\ pc' = "submit"
               /\ inHand' = Head(chunkChan) /\ UNCHANGED <<loopErr, poolDone, writeErr>>
         /\ UNCHANGED <<target, saved, attempt, reader, ack, ctxDone, jobChan, jobsClosed, ackChan, worker,
                        workers, totalWritten>>
<1>1. /\ chunkChan # <<>> /\ chunkChan' = Tail(chunkChan)
      /\ UNCHANGED <<target, saved, attempt, reader, ack, ctxDone>>
      /\ UNCHANGED <<jobChan, jobsClosed, ackChan, worker, workers, totalWritten>>
  BY DEF Receive, CancelPool, poolVars
<1>2. chunkChan \in Seq(ChunkResult)
  BY TypeFacts
<1>3. /\ Tail(chunkChan) \in Seq(ChunkResult) /\ Head(chunkChan) \in ChunkResult
      /\ InChan(chunkChan) = {Head(chunkChan)} \cup InChan(Tail(chunkChan))
  BY <1>1, <1>2, TailChan
<1>4. InChan(chunkChan)' = InChan(Tail(chunkChan))
  BY <1>1 DEF InChan
<1>5. CASE Head(chunkChan) = ReadError
  <2>1. Head(chunkChan) # ReadDone
    BY <1>5, ChunkFacts
  <2>2. pc' = "wait" /\ loopErr' = TRUE /\ UNCHANGED inHand /\ CancelPool
    BY <1>5, <2>1 DEF Receive
  <2> QED BY <1>1, <1>3, <1>4, <1>5, <2>2 DEF CancelPool
<1>6. CASE Head(chunkChan) = ReadDone
  <2>1. Head(chunkChan) # ReadError
    BY <1>6, ChunkFacts
  <2> QED BY <1>1, <1>3, <1>4, <1>6, <2>1 DEF Receive, poolVars
<1>7. CASE ~IsEnd(Head(chunkChan))
  <2>1. Head(chunkChan) # ReadError /\ Head(chunkChan) # ReadDone
    BY <1>7 DEF IsEnd
  <2>2. Head(chunkChan) \in Chunk
    BY <1>3, <2>1 DEF ChunkResult
  <2> QED BY <1>1, <1>3, <1>4, <1>7, <2>1, <2>2 DEF Receive, poolVars
<1> QED BY <1>1, <1>3, <1>5, <1>6, <1>7 DEF IsEnd

LEMMA SubmitDoes ==
  ASSUME TypeOK, Submit
  PROVE  /\ jobChan' \in Seq(Chunk) /\ inHand' \in Chunk /\ loopErr' \in BOOLEAN
         /\ \/ /\ jobChan' = Append(jobChan, inHand) /\ InChan(jobChan)' = InChan(jobChan) \cup {inHand}
               /\ pc' = "loop" /\ UNCHANGED loopErr
            \/ /\ poolDone /\ pc' = "wait" /\ loopErr' = (writeErr \/ ctxDone) /\ UNCHANGED jobChan
               /\ InChan(jobChan)' = InChan(jobChan)
         /\ UNCHANGED <<target, saved, attempt, reader, chunkChan, ack, ctxDone, jobsClosed, ackChan, worker,
                        workers, poolDone, writeErr, totalWritten>>
<1>1. jobChan \in Seq(Chunk) /\ inHand \in Chunk /\ loopErr \in BOOLEAN /\ writeErr \in BOOLEAN /\ ctxDone \in BOOLEAN
  BY TypeFacts
<1>2. inHand' \in Chunk /\ UNCHANGED <<target, saved, attempt, reader, chunkChan, ack, ctxDone>>
  BY ChunkFacts DEF Submit
<1>3. CASE SubmitTaken(inHand) /\ pc' = "loop" /\ UNCHANGED loopErr
  <2>1. jobChan' = Append(jobChan, inHand)
    BY <1>3 DEF SubmitTaken
  <2>2. InChan(jobChan)' = InChan(Append(jobChan, inHand))
    BY <2>1 DEF InChan
  <2>3. Append(jobChan, inHand) \in Seq(Chunk) /\ InChan(Append(jobChan, inHand)) = InChan(jobChan) \cup {inHand}
    BY <1>1, AppendChan
  <2> QED BY <1>1, <1>2, <1>3, <2>1, <2>2, <2>3 DEF SubmitTaken
<1>4. CASE SubmitRefused /\ pc' = "wait" /\ loopErr' = (writeErr \/ ctxDone)
  BY <1>1, <1>2, <1>4 DEF SubmitRefused, poolVars, InChan
<1> QED BY <1>3, <1>4 DEF Submit

\* What a worker does with a job.
LEMMA TakeJobDoes ==
  ASSUME TypeOK, NEW g \in Goroutines, TakeJob(g)
  PROVE  /\ jobChan' \in Seq(Chunk) /\ Head(jobChan) \in Chunk /\ jobChan # <<>>
         /\ InChan(jobChan) = {Head(jobChan)} \cup InChan(jobChan)'
         /\ \/ poolDone /\ SetWorker(g, "gone", NoJob)
            \/ ~poolDone /\ SetWorker(g, "write", Head(jobChan))
         /\ worker[g].st = "idle"
         /\ UNCHANGED <<jobsClosed, ackChan, workers, poolDone, writeErr, totalWritten>>
<1>1. jobChan \in Seq(Chunk) /\ jobChan # <<>> /\ jobChan' = Tail(jobChan) /\ worker[g] \in WorkerState
  BY TypeFacts DEF TakeJob
<1>2. /\ Tail(jobChan) \in Seq(Chunk) /\ Head(jobChan) \in Chunk
      /\ InChan(jobChan) = {Head(jobChan)} \cup InChan(Tail(jobChan))
  BY <1>1, TailChan
<1>3. InChan(jobChan)' = InChan(Tail(jobChan))
  BY <1>1 DEF InChan
<1>4. worker[g].cancelled = FALSE
  BY <1>1 DEF WorkerState
<1> QED BY <1>1, <1>2, <1>3, <1>4 DEF TakeJob

LEMMA SendAckDoes ==
  ASSUME TypeOK, NEW g \in Goroutines, SendAck(g)
  PROVE  /\ ackChan' \in Seq(Chunk) /\ worker[g].st = "ack" /\ worker[g].job \in Chunk
         /\ InChan(ackChan)' \subseteq InChan(ackChan) \cup {worker[g].job}
         /\ \/ SetWorker(g, "idle", NoJob)
            \/ poolDone /\ SetWorker(g, "gone", NoJob)
         /\ UNCHANGED <<jobChan, jobsClosed, workers, poolDone, writeErr, totalWritten>>
<1>1. ackChan \in Seq(Chunk) /\ worker[g].st = "ack" /\ worker[g].job \in Chunk
  BY TypeFacts DEF SendAck, JobsHeld
<1>2. UNCHANGED <<jobChan, jobsClosed, workers, poolDone, writeErr, totalWritten>>
  BY DEF SendAck
<1>3. CASE ackChan' = Append(ackChan, worker[g].job) /\ SetWorker(g, "idle", NoJob)
  <2>1. InChan(ackChan)' = InChan(Append(ackChan, worker[g].job))
    BY <1>3 DEF InChan
  <2>2. /\ Append(ackChan, worker[g].job) \in Seq(Chunk)
        /\ InChan(Append(ackChan, worker[g].job)) = InChan(ackChan) \cup {worker[g].job}
    BY <1>1, AppendChan
  <2> QED BY <1>1, <1>2, <1>3, <2>1, <2>2
<1>4. CASE UNCHANGED ackChan /\ (SetWorker(g, "idle", NoJob) \/ (poolDone /\ SetWorker(g, "gone", NoJob)))
  <2>1. InChan(ackChan)' = InChan(ackChan)
    BY <1>4 DEF InChan
  <2> QED BY <1>1, <1>2, <1>4, <2>1
<1> QED BY <1>1, <1>2, <1>3, <1>4 DEF SendAck

\* What the ack processor does with the acknowledgement that is due.
LEMMA AckRoundDoes ==
  ASSUME TypeOK, NEW a \in Chunk, AckRound(a)
  PROVE  /\ ack' \in AckState /\ ack'.expected = ack.expected + 1 /\ ack'.rowNum = a.rowNum
         /\ ack'.pending \subseteq ack.pending
         /\ saved' \in {saved, a.rowNum} /\ saved' \in Nat \cup {NoProgress}
<1>1. /\ ack \in AckState /\ ack.expected \in Nat /\ ack.pending \in SUBSET Chunk /\ ack.completed \in Nat
      /\ saved \in Nat \cup {NoProgress}
  BY TypeFacts
<1>2. a.rowNum \in Nat
  BY ChunkFacts
<1>3. saved' \in {saved, a.rowNum}
  BY DEF AckRound, SaveProgress
<1>4. PICK d \in BOOLEAN : d = \E b \in ack.pending : b.seq = ack.expected + 1
  OBVIOUS
<1>5. ack' = [expected |-> ack.expected + 1, pending |-> ack.pending \ {a}, rowNum |-> a.rowNum,
              completed |-> ack.completed + 1, draining |-> d]
  BY <1>4 DEF AckRound
<1>6. ack' \in AckState
  BY <1>1, <1>2, <1>5 DEF AckState
<1> QED BY <1>1, <1>2, <1>3, <1>5, <1>6

\* Where the goroutines and their jobs are after a worker's step.
LEMMA JobsStayHeld ==
  ASSUME TypeOK, NEW g \in Goroutines, NEW st \in {"idle", "write", "ack", "gone"},
         NEW m \in Chunk \cup {NoJob}, SetWorker(g, st, m), st \in {"write", "ack"} => m \in Chunk
  PROVE  worker' \in [Goroutines -> WorkerState]' /\ JobsHeld'
<1>1. worker \in [Goroutines -> WorkerState] /\ JobsHeld
  BY TypeFacts
<1>2. /\ worker' \in [Goroutines -> WorkerState] /\ Goroutines' = Goroutines
      /\ worker'[g].st = st /\ worker'[g].job = m
      /\ \A h \in Goroutines : h # g => worker'[h] = worker[h]
  BY <1>1, WorkerMoves
<1>3. worker' \in [Goroutines -> WorkerState]'
  BY <1>2 DEF WorkerState
<1> QED BY <1>1, <1>2, <1>3 DEF JobsHeld

LEMMA TypesInit == Init => TypeOK
<1> SUFFICES ASSUME Init PROVE TypeOK
  OBVIOUS
<1>1. reader \in ReaderState /\ ack \in AckState /\ inHand \in Chunk
  BY ChunkFacts DEF Init, ReaderState, AckState
<1>2. chunkChan \in Seq(ChunkResult) /\ jobChan \in Seq(Chunk) /\ ackChan \in Seq(Chunk)
  BY EmptyChan DEF Init, PoolInit
<1>3. Goroutines = {} /\ worker \in [Goroutines -> WorkerState]
  BY DEF Init, PoolInit, Goroutines
<1>4. JobsHeld
  BY <1>3 DEF JobsHeld
<1> QED BY <1>1, <1>2, <1>3, <1>4, TypeParts DEF Init, PoolInit, NoProgress, Stopped

LEMMA ReaderTypes == TypeOK /\ ReaderStep => TypeOK'
<1> SUFFICES ASSUME TypeOK, ReaderStep PROVE TypeOK'
  OBVIOUS
<1>1. reader' \in ReaderState /\ chunkChan' \in Seq(ChunkResult)
  <2>1. chunkChan \in Seq(ChunkResult)
    BY TypeFacts
  <2>2. CASE ReadPage
    BY <2>1, <2>2, ReadPageDoes, ReadEndDoes DEF EndsReading, ReadPage
  <2>3. CASE ReadFails
    BY <2>1, <2>3, ReadEndDoes DEF EndsReading, ReadFails
  <2>4. CASE ReadEnds
    BY <2>1, <2>4, ReadEndDoes DEF EndsReading, ReadEnds
  <2>5. CASE Send
    BY <2>5, SendDoes
  <2> QED BY <2>2, <2>3, <2>4, <2>5 DEF ReaderStep
<1>2. UNCHANGED <<target, saved, attempt, pc, inHand, loopErr, ack, ctxDone, poolVars>>
  BY DEF ReaderStep, ReadPage, ReadFails, ReadEnds, Send
<1>3. ReaderState' = ReaderState /\ Goroutines' = Goroutines
  BY <1>2 DEF poolVars, Goroutines, ReaderState
<1>4. JobsHeld'
  BY <1>2, TypeFacts DEF JobsHeld, Goroutines, poolVars
<1> QED BY <1>1, <1>2, <1>3, <1>4, TypeFacts, TypeNext DEF poolVars, Goroutines

LEMMA ConsumerTypes == TypeOK /\ ConsumerStep => TypeOK'
<1> SUFFICES ASSUME TypeOK, ConsumerStep PROVE TypeOK'
  OBVIOUS
<1>1. /\ target' = target /\ attempt' = attempt /\ reader' = reader /\ ack' = ack /\ ctxDone' = ctxDone
      /\ ackChan' = ackChan /\ worker' = worker /\ totalWritten' = totalWritten /\ writeErr' = writeErr
  BY ReceiveDoes, SubmitDoes DEF ConsumerStep, Wait, CloseJobs, Return, jobVars, poolVars
<1>2. JobsHeld' /\ Goroutines' = Goroutines
  BY <1>1, TypeFacts DEF JobsHeld, Goroutines
<1>3. CASE Receive
  <2>1. /\ chunkChan' \in Seq(ChunkResult) /\ inHand' \in Chunk /\ pc' \in Running /\ loopErr' \in BOOLEAN
        /\ poolDone' \in BOOLEAN /\ saved' = saved /\ jobChan' = jobChan /\ jobsClosed' = jobsClosed
    BY <1>3, ReceiveDoes, TypeFacts DEF Running
  <2> QED BY <1>1, <1>2, <2>1, TypeFacts, TypeNext
<1>4. CASE Submit
  <2>1. /\ chunkChan' = chunkChan /\ inHand' \in Chunk /\ pc' \in Running /\ loopErr' \in BOOLEAN
        /\ poolDone' = poolDone /\ saved' = saved /\ jobChan' \in Seq(Chunk) /\ jobsClosed' = jobsClosed
    BY <1>4, SubmitDoes, TypeFacts DEF Running
  <2> QED BY <1>1, <1>2, <2>1, TypeFacts, TypeNext
<1>5. CASE Wait
  BY <1>1, <1>2, <1>5, TypeFacts, TypeNext DEF Wait, CloseJobs, jobVars
<1>6. CASE Return
  <2>1. saved' \in Nat \cup {NoProgress} /\ pc' \in Stopped
    BY <1>6, TypeFacts DEF Return, SaveProgress, Stopped
  <2> QED BY <1>1, <1>2, <1>6, <2>1, TypeFacts, TypeNext DEF Return, poolVars
<1> QED BY <1>3, <1>4, <1>5, <1>6 DEF ConsumerStep

LEMMA WorkerTypes == \A g \in Goroutines : TypeOK /\ WorkerStep(g) => TypeOK'
<1> SUFFICES ASSUME NEW g \in Goroutines, TypeOK, WorkerStep(g) PROVE TypeOK'
  OBVIOUS
<1> DEFINE Same == UNCHANGED <<saved, attempt, pc, reader, chunkChan, inHand, loopErr, ack, ctxDone>>
<1>1. NoJob \in Chunk \cup {NoJob} /\ worker[g] \in WorkerState
  BY TypeFacts
<1>2. CASE TakeJob(g) /\ UNCHANGED jobVars
  <2>1. worker' \in [Goroutines -> WorkerState]' /\ JobsHeld'
    BY <1>2, TakeJobDoes, JobsStayHeld
  <2>2. /\ jobChan' \in Seq(Chunk) /\ UNCHANGED <<jobsClosed, ackChan, poolDone, writeErr, totalWritten>>
        /\ UNCHANGED target /\ Same
    BY <1>2, TakeJobDoes DEF jobVars
  <2> QED BY <2>1, <2>2, TypeFacts, TypeNext
<1>3. CASE JobsEnd(g) /\ UNCHANGED jobVars
  <2>1. worker' \in [Goroutines -> WorkerState]' /\ JobsHeld'
    BY <1>3, JobsStayHeld DEF JobsEnd
  <2>2. UNCHANGED <<jobChan, jobsClosed, ackChan, poolDone, writeErr, totalWritten>> /\ UNCHANGED target /\ Same
    BY <1>3 DEF JobsEnd, jobVars
  <2> QED BY <2>1, <2>2, TypeFacts, TypeNext
<1>4. CASE SendAck(g) /\ UNCHANGED jobVars
  <2>1. worker' \in [Goroutines -> WorkerState]' /\ JobsHeld'
    BY <1>4, SendAckDoes, JobsStayHeld
  <2>2. /\ ackChan' \in Seq(Chunk) /\ UNCHANGED <<jobsClosed, jobChan, poolDone, writeErr, totalWritten>>
        /\ UNCHANGED target /\ Same
    BY <1>4, SendAckDoes DEF jobVars
  <2> QED BY <2>1, <2>2, TypeFacts, TypeNext
<1>5. CASE Write(g) \/ WriteFails(g)
  <2>1. worker[g].st = "write" /\ worker[g].job \in Chunk
    BY <1>5, TypeFacts DEF Write, WriteFails, JobsHeld
  <2>2. worker[g].job.rows \subseteq 1 .. SourceRows
    BY <2>1, ChunkFacts
  <2>3. target' \subseteq 1 .. SourceRows
    BY <1>5, <2>2, TypeFacts DEF Write, WriteFails, Prefixes
  <2>4. UNCHANGED <<jobChan, jobsClosed, ackChan>> /\ Same
    BY <1>5 DEF Write, WriteFails, WriteReturns, WriteReturnsError
  <2>5. CASE Write(g)
    <3>1. Cardinality(worker[g].job.rows) \in Nat
      BY <2>1, ChunkFacts
    <3>2. totalWritten' \in Nat /\ poolDone' = poolDone /\ writeErr' = writeErr
      BY <2>5, <3>1, TypeFacts DEF Write, WriteReturns
    <3>3. SetWorker(g, "ack", worker[g].job) \/ SetWorker(g, "idle", NoJob)
      BY <2>5 DEF Write, WriteReturns
    <3>4. worker' \in [Goroutines -> WorkerState]' /\ JobsHeld'
      BY <2>1, <3>3, JobsStayHeld
    <3> QED BY <2>3, <2>4, <3>2, <3>4, TypeFacts, TypeNext
  <2>6. CASE WriteFails(g)
    <3>1. worker' \in [Goroutines -> WorkerState]' /\ JobsHeld'
      BY <2>6, JobsStayHeld DEF WriteFails, WriteReturnsError
    <3>2. totalWritten' = totalWritten /\ poolDone' \in BOOLEAN /\ writeErr' \in BOOLEAN
      BY <2>6 DEF WriteFails, WriteReturnsError
    <3> QED BY <2>3, <2>4, <3>1, <3>2, TypeFacts, TypeNext
  <2> QED BY <1>5, <2>5, <2>6
<1> QED BY <1>2, <1>3, <1>4, <1>5 DEF WorkerStep

LEMMA AckTypes == TypeOK /\ AckStep => TypeOK'
<1> SUFFICES ASSUME TypeOK, AckStep PROVE TypeOK'
  OBVIOUS
<1>1. /\ UNCHANGED <<target, attempt, pc, reader, chunkChan, inHand, loopErr, ctxDone>>
      /\ UNCHANGED <<jobChan, jobsClosed, worker, workers, poolDone, writeErr, totalWritten>>
  BY DEF AckStep, ReceiveAck, DrainPending, TakeAck, poolVars
<1>2. JobsHeld' /\ Goroutines' = Goroutines
  BY <1>1, TypeFacts DEF JobsHeld, Goroutines
<1>3. CASE ReceiveAck
  <2>1. ackChan \in Seq(Chunk) /\ ackChan # <<>> /\ ackChan' = Tail(ackChan)
    BY <1>3, TypeFacts DEF ReceiveAck, TakeAck
  <2>2. PICK a \in Chunk : a = Head(ackChan) /\ Tail(ackChan) \in Seq(Chunk)
    BY <2>1, TailChan
  <2>3. CASE AckRound(a)
    BY <1>1, <1>2, <2>1, <2>2, <2>3, AckRoundDoes, TypeFacts, TypeNext
  <2>4. CASE ack' = [ack EXCEPT !.pending = @ \cup {a}] /\ UNCHANGED saved
    <3>1. ack' \in AckState
      BY <2>2, <2>4, TypeFacts DEF AckState
    <3> QED BY <1>1, <1>2, <2>1, <2>2, <2>4, <3>1, TypeFacts, TypeNext
  <2> QED BY <1>3, <2>2, <2>3, <2>4 DEF ReceiveAck
<1>4. CASE DrainPending
  <2>1. PICK a \in Chunk : AckRound(a)
    BY <1>4, TypeFacts DEF DrainPending
  <2>2. ackChan' = ackChan
    BY <1>4 DEF DrainPending, poolVars
  <2> QED BY <1>1, <1>2, <2>1, <2>2, AckRoundDoes, TypeFacts, TypeNext
<1> QED BY <1>3, <1>4 DEF AckStep

\* What StartJob leaves behind.
LEMMA StartJobDoes ==
  ASSUME NEW row \in Nat, NEW st \in {"read", "closed"}, NEW p \in {NewPool, NoPool}, StartJob(row, st, p)
  PROVE  /\ reader' \in ReaderState /\ reader'.st = st /\ reader'.rowNum = row /\ reader'.seq = 0
         /\ chunkChan' = <<>> /\ chunkChan' \in Seq(ChunkResult) /\ inHand' \in Chunk /\ loopErr' = FALSE
         /\ ctxDone' = FALSE /\ ack' \in AckState /\ ack'.expected = 0 /\ ack'.pending = {} /\ ack'.rowNum = row
         /\ jobChan' = <<>> /\ jobChan' \in Seq(Chunk) /\ ackChan' = <<>> /\ ackChan' \in Seq(Chunk)
         /\ jobsClosed' = FALSE /\ poolDone' = FALSE /\ writeErr' = FALSE /\ totalWritten' = 0
         /\ worker' \in [Goroutines -> WorkerState]' /\ JobsHeld'
         /\ \A g \in Goroutines' : worker'[g].st = "idle"
         /\ p = NewPool => Goroutines' # {}
         /\ InChan(chunkChan)' = {} /\ InChan(jobChan)' = {} /\ InChan(ackChan)' = {}
         /\ \A x \in {"write", "ack"} : JobsAt(x)' = {}
<1>1. /\ reader' = [st |-> st, rowNum |-> row, seq |-> 0, msg |-> NoChunk]
      /\ ack' = [expected |-> 0, pending |-> {}, rowNum |-> row, completed |-> 0, draining |-> FALSE]
      /\ chunkChan' = <<>> /\ inHand' = NoChunk /\ loopErr' = FALSE /\ ctxDone' = FALSE
      /\ jobChan' = <<>> /\ ackChan' = <<>> /\ jobsClosed' = FALSE /\ poolDone' = FALSE /\ writeErr' = FALSE
      /\ totalWritten' = 0 /\ worker' = p.worker
  BY DEF StartJob, StartPool
<1>2. reader' \in ReaderState /\ reader'.st = st /\ reader'.rowNum = row /\ reader'.seq = 0
  BY <1>1, ChunkFacts DEF ReaderState
<1>3. ack' \in AckState /\ ack'.expected = 0 /\ ack'.pending = {} /\ ack'.rowNum = row
  BY <1>1 DEF AckState
<1>4. /\ chunkChan' \in Seq(ChunkResult) /\ jobChan' \in Seq(Chunk) /\ ackChan' \in Seq(Chunk) /\ inHand' \in Chunk
      /\ InChan(chunkChan)' = {} /\ InChan(jobChan)' = {} /\ InChan(ackChan)' = {}
  BY <1>1, EmptyChan, ChunkFacts DEF InChan
<1>5. /\ worker' \in [Goroutines -> WorkerState]' /\ \A g \in Goroutines' : worker'[g].st = "idle"
      /\ p = NewPool => Goroutines' # {}
  <2>1. CASE p = NewPool
    <3>1. worker' = [g \in 1 .. NumWriters |-> Idle]
      BY <1>1, <2>1 DEF NewPool
    <3>2. Goroutines' = 1 .. NumWriters /\ 1 \in 1 .. NumWriters
      BY <3>1, PoolAssumption DEF Goroutines
    <3>3. Idle \in WorkerState /\ Idle.st = "idle"
      BY DEF Idle, WorkerState
    <3> QED BY <3>1, <3>2, <3>3 DEF WorkerState
  <2>2. CASE p = NoPool /\ p # NewPool
    <3>1. worker' = <<>>
      BY <1>1, <2>2 DEF NoPool
    <3> QED BY <2>2, <3>1 DEF Goroutines
  <2> QED BY <2>1, <2>2
<1>6. JobsHeld' /\ \A x \in {"write", "ack"} : JobsAt(x)' = {}
  BY <1>5 DEF JobsHeld, JobsAt
<1> QED BY <1>1, <1>2, <1>3, <1>4, <1>5, <1>6

LEMMA ExecuteDoes ==
  ASSUME TypeOK, Execute
  PROVE  /\ \E loaded \in Loaded :
              /\ InitialRowNum(loaded) \in Nat /\ StartJob(InitialRowNum(loaded), "read", NewPool)
              /\ target' = CleanTarget(loaded) \/ target' = target
         /\ target' \subseteq target /\ saved' = saved /\ pc' = "loop"
<1>1. PICK loaded \in Loaded : /\ target' = CleanTarget(loaded) \/ target' = target
                              /\ StartJob(InitialRowNum(loaded), "read", NewPool)
  BY DEF Execute
<1>2. InitialRowNum(loaded) \in Nat
  BY TypeFacts, RangeTypes DEF Loaded, InitialRowNum
<1>3. target' \subseteq target
  BY <1>1 DEF CleanTarget
<1> QED BY <1>1, <1>2, <1>3 DEF Execute

LEMMA CrashDoes ==
  ASSUME TypeOK, Crash
  PROVE  /\ FirstRow \in Nat /\ StartJob(FirstRow, "closed", NoPool)
         /\ target \subseteq target' /\ target' \subseteq 1 .. SourceRows /\ saved' = saved /\ pc' = "crashed"
<1>1. PICK torn \in [{g \in Goroutines : worker[g].st = "write"} -> SUBSET JobRows] :
        target' = target \cup UNION {torn[g] : g \in DOMAIN torn}
  BY DEF Crash
<1>2. JobRows \subseteq 1 .. SourceRows
  BY DEF JobRows
<1>3. target \subseteq 1 .. SourceRows
  BY TypeFacts
<1>4. \A g \in DOMAIN torn : torn[g] \subseteq 1 .. SourceRows
  BY <1>2
<1> QED BY <1>1, <1>3, <1>4, RangeTypes DEF Crash

LEMMA RestartTypes == TypeOK /\ (Execute \/ Crash) => TypeOK'
<1> SUFFICES ASSUME TypeOK, Execute \/ Crash PROVE TypeOK'
  OBVIOUS
<1>1. target' \subseteq 1 .. SourceRows /\ saved' \in Nat \cup {NoProgress} /\ pc' \in Running \cup Stopped
  BY TypeFacts, ExecuteDoes, CrashDoes DEF Running, Stopped
<1>2. attempt' \in Nat
  BY TypeFacts DEF Execute, Crash
<1>3. PICK row \in Nat, st \in {"read", "closed"}, p \in {NewPool, NoPool} : StartJob(row, st, p)
  BY ExecuteDoes, CrashDoes
<1>4. /\ reader' \in ReaderState /\ chunkChan' \in Seq(ChunkResult) /\ inHand' \in Chunk /\ loopErr' = FALSE
      /\ ctxDone' = FALSE /\ ack' \in AckState /\ jobChan' \in Seq(Chunk) /\ ackChan' \in Seq(Chunk)
      /\ jobsClosed' = FALSE /\ poolDone' = FALSE /\ writeErr' = FALSE /\ totalWritten' = 0
      /\ worker' \in [Goroutines -> WorkerState]' /\ JobsHeld'
  BY <1>3, StartJobDoes
<1> QED BY <1>1, <1>2, <1>4, TypeNext

LEMMA TypeStep == TypeOK /\ [Next]_vars => TypeOK'
<1> SUFFICES ASSUME TypeOK, [Next]_vars PROVE TypeOK'
  OBVIOUS
<1>1. CASE Cancel
  <2>1. JobsHeld' /\ Goroutines' = Goroutines
    BY <1>1, TypeFacts DEF JobsHeld, Goroutines, Cancel, CancelPool
  <2> QED BY <1>1, <2>1, TypeFacts, TypeNext DEF Cancel, CancelPool
<1>2. CASE UNCHANGED vars
  <2>1. JobsHeld' /\ Goroutines' = Goroutines
    BY <1>2, TypeFacts DEF JobsHeld, Goroutines, vars, poolVars
  <2> QED BY <1>2, <2>1, TypeFacts, TypeNext DEF vars, jobVars, poolVars
<1> QED BY <1>1, <1>2, RestartTypes, ReaderTypes, ConsumerTypes, WorkerTypes, AckTypes DEF Next, Terminated

\* The fields of the job's state keep their types: the channels hold chunks and ends of
\* chunks, and a worker that writes or acknowledges has a chunk in hand.
THEOREM RowNumberTypes == Spec => []TypeOK
<1>1. Init => TypeOK
  BY TypesInit
<1>2. TypeOK /\ [Next]_vars => TypeOK'
  BY TypeStep
<1> QED BY <1>1, <1>2, PTL DEF Spec

-----------------------------------------------------------------------------
(* Where the chunks go. *)

Ends == {ReadError, ReadDone}
Flowing == (Unwritten \cup Written) \ Ends

\* A chunk that a step takes from one place to the next is no new one, and what becomes
\* written was on its way.
ChunksFlow ==
  /\ Flowing' \subseteq Flowing
  /\ \A c \in Written' : c \in Written \/ c.rows \subseteq target'
\* None is lost.
ChunksKept == Unwritten \ Ends \subseteq Unwritten'

LEMMA Places ==
  /\ \A m : m \in Unwritten <=> \/ reader.st = "send" /\ m = reader.msg
                                \/ m \in InChan(chunkChan)
                                \/ pc = "submit" /\ m = inHand
                                \/ m \in InChan(jobChan)
                                \/ m \in JobsAt("write")
  /\ \A m : m \in Unwritten' <=> \/ reader'.st = "send" /\ m = reader'.msg
                                 \/ m \in InChan(chunkChan)'
                                 \/ pc' = "submit" /\ m = inHand'
                                 \/ m \in InChan(jobChan)'
                                 \/ m \in JobsAt("write")'
  /\ \A m : m \in Written <=> m \in JobsAt("ack") \/ m \in InChan(ackChan) \/ m \in ack.pending
  /\ \A m : m \in Written' <=> m \in JobsAt("ack")' \/ m \in InChan(ackChan)' \/ m \in ack'.pending
<1>1. \A m : m \in Unwritten <=> \/ reader.st = "send" /\ m = reader.msg
                                 \/ m \in InChan(chunkChan)
                                 \/ pc = "submit" /\ m = inHand
                                 \/ m \in InChan(jobChan)
                                 \/ m \in JobsAt("write")
  BY DEF Unwritten
<1>2. \A m : m \in Unwritten' <=> \/ reader'.st = "send" /\ m = reader'.msg
                                  \/ m \in InChan(chunkChan)'
                                  \/ pc' = "submit" /\ m = inHand'
                                  \/ m \in InChan(jobChan)'
                                  \/ m \in JobsAt("write")'
  BY DEF Unwritten
<1> QED BY <1>1, <1>2 DEF Written

LEMMA FlowingIn == \A m : /\ m \in Flowing <=> (m \in Unwritten \/ m \in Written) /\ m \notin Ends
                          /\ m \in Flowing' <=> (m \in Unwritten' \/ m \in Written') /\ m \notin Ends
<1>1. Ends' = Ends
  BY DEF Ends, ReadError, ReadDone, NoChunk
<1> QED BY <1>1 DEF Flowing

\* The places that a step of the reader or of the consumer leaves alone.
LEMMA PoolStays ==
  ASSUME UNCHANGED poolVars
  PROVE  /\ InChan(jobChan)' = InChan(jobChan) /\ InChan(ackChan)' = InChan(ackChan)
         /\ \A x : JobsAt(x)' = JobsAt(x)
BY DEF poolVars, InChan, JobsAt, Goroutines

LEMMA ReaderFlow ==
  ASSUME TypeOK, ReaderStep, ~(ReadPage /\ Page # {})
  PROVE  /\ ChunksFlow /\ ChunksKept /\ Written' = Written
         /\ reader'.rowNum = reader.rowNum /\ reader'.seq = reader.seq
<1>1. UNCHANGED <<pc, inHand, ack, poolVars>>
  BY DEF ReaderStep, ReadPage, ReadFails, ReadEnds, Send
<1>2. /\ InChan(jobChan)' = InChan(jobChan) /\ InChan(ackChan)' = InChan(ackChan)
      /\ \A x : JobsAt(x)' = JobsAt(x)
  BY <1>1, PoolStays
<1>3. Written' = Written
  BY <1>1, <1>2, Places
<1>4. CASE ReadPage \/ ReadFails \/ ReadEnds
  <2>1. reader.st = "read" /\ UNCHANGED chunkChan
    BY <1>4 DEF ReadPage, ReadFails, ReadEnds
  <2>2. PICK m \in Ends : EndsReading(m)
    BY <1>4, ReadEndDoes DEF Ends
  <2>3. InChan(chunkChan)' = InChan(chunkChan)
    BY <2>1 DEF InChan
  <2>4. \A c : c \in Unwritten' <=> c = m \/ c \in Unwritten
    BY <1>1, <1>2, <2>1, <2>2, <2>3, Places DEF EndsReading
  <2>5. Flowing' \subseteq Flowing
    BY <1>3, <2>4, FlowingIn
  <2> QED BY <1>3, <2>2, <2>4, <2>5 DEF ChunksFlow, ChunksKept, EndsReading
<1>5. CASE Send
  <2>1. reader.st = "send"
    BY <1>5 DEF Send
  <2>2. /\ InChan(chunkChan)' = InChan(chunkChan) \cup {reader.msg}
        /\ reader'.st = "send" => reader'.msg = ReadDone
        /\ reader'.rowNum = reader.rowNum /\ reader'.seq = reader.seq
    BY <1>5, SendDoes DEF EndsReading
  <2>3. \A c : c \in Unwritten' => c = ReadDone \/ c \in Unwritten
    BY <1>1, <1>2, <2>1, <2>2, Places
  <2>4. \A c : c \in Unwritten => c \in Unwritten'
    BY <1>1, <1>2, <2>1, <2>2, Places
  <2>5. Flowing' \subseteq Flowing
    BY <1>3, <2>3, FlowingIn DEF Ends
  <2> QED BY <1>3, <2>2, <2>4, <2>5 DEF ChunksFlow, ChunksKept
<1> QED BY <1>4, <1>5 DEF ReaderStep

LEMMA ConsumerFlow ==
  ASSUME TypeOK, ConsumerStep
  PROVE  /\ ChunksFlow /\ Written' = Written
         /\ \/ ChunksKept
            \/ Submit /\ poolDone /\ pc' = "wait"
            \/ Return
<1>1. CASE Receive
  <2>1. /\ InChan(chunkChan) = {Head(chunkChan)} \cup InChan(chunkChan)'
        /\ \/ IsEnd(Head(chunkChan)) /\ pc' = "wait"
           \/ pc' = "submit" /\ inHand' = Head(chunkChan)
        /\ UNCHANGED <<reader, ack, jobChan, ackChan, worker>>
    BY <1>1, ReceiveDoes DEF IsEnd
  <2>2. /\ InChan(jobChan)' = InChan(jobChan) /\ InChan(ackChan)' = InChan(ackChan)
        /\ \A x : JobsAt(x)' = JobsAt(x)
    BY <2>1 DEF InChan, JobsAt, Goroutines
  <2>3. pc = "loop"
    BY <1>1 DEF Receive
  <2>4. Written' = Written
    BY <2>1, <2>2, Places
  <2>5. \A c : c \in Unwritten' => c \in Unwritten
    BY <2>1, <2>2, Places
  <2>6. \A c : c \in Unwritten => c \in Unwritten' \/ IsEnd(c)
    BY <2>1, <2>2, <2>3, Places
  <2>7. Flowing' \subseteq Flowing
    BY <2>4, <2>5, FlowingIn
  <2> QED BY <2>4, <2>6, <2>7 DEF ChunksFlow, ChunksKept, Ends, IsEnd
<1>2. CASE Submit
  <2>1. /\ \/ /\ InChan(jobChan)' = InChan(jobChan) \cup {inHand} /\ pc' = "loop"
           \/ /\ poolDone /\ pc' = "wait" /\ InChan(jobChan)' = InChan(jobChan)
        /\ UNCHANGED <<reader, chunkChan, ack, ackChan, worker>>
    BY <1>2, SubmitDoes
  <2>2. /\ InChan(chunkChan)' = InChan(chunkChan) /\ InChan(ackChan)' = InChan(ackChan)
        /\ \A x : JobsAt(x)' = JobsAt(x)
    BY <2>1 DEF InChan, JobsAt, Goroutines
  <2>3. pc = "submit"
    BY <1>2 DEF Submit
  <2>4. Written' = Written
    BY <2>1, <2>2, Places
  <2>5. \A c : c \in Unwritten' => c \in Unwritten
    BY <2>1, <2>2, <2>3, Places
  <2>6. pc' = "loop" => \A c : c \in Unwritten => c \in Unwritten'
    BY <2>1, <2>2, Places
  <2>7. Flowing' \subseteq Flowing
    BY <2>4, <2>5, FlowingIn
  <2> QED BY <1>2, <2>1, <2>4, <2>6, <2>7 DEF ChunksFlow, ChunksKept
<1>3. CASE Wait \/ Return
  <2>1. UNCHANGED <<reader, chunkChan, inHand, ack, jobChan, ackChan, worker>> /\ pc = "wait" /\ pc' # "submit"
    BY <1>3 DEF Wait, CloseJobs, Return, jobVars, poolVars
  <2>2. /\ InChan(chunkChan)' = InChan(chunkChan) /\ InChan(ackChan)' = InChan(ackChan)
        /\ InChan(jobChan)' = InChan(jobChan) /\ \A x : JobsAt(x)' = JobsAt(x)
    BY <2>1 DEF InChan, JobsAt, Goroutines
  <2>3. Written' = Written
    BY <2>1, <2>2, Places
  <2>4. \A c : c \in Unwritten' <=> c \in Unwritten
    BY <2>1, <2>2, Places
  <2>5. Flowing' \subseteq Flowing
    BY <2>3, <2>4, FlowingIn
  <2> QED BY <2>3, <2>4, <2>5 DEF ChunksFlow, ChunksKept
<1> QED BY <1>1, <1>2, <1>3 DEF ConsumerStep

\* The places that a worker's step leaves alone.
LEMMA JobStays ==
  ASSUME UNCHANGED <<pc, reader, chunkChan, inHand, ack>>
  PROVE  InChan(chunkChan)' = InChan(chunkChan)
BY DEF InChan

LEMMA WorkerFlow ==
  ASSUME TypeOK, NEW g \in Goroutines, WorkerStep(g)
  PROVE  /\ ChunksFlow /\ target \subseteq target'
         /\ UNCHANGED <<saved, attempt, pc, reader, chunkChan, inHand, loopErr, ack, ctxDone>>
         /\ \/ \A c \in Unwritten : c \in Unwritten' \/ c.rows \subseteq target'
            \/ TakeJob(g) /\ poolDone
            \/ WriteFails(g)
<1>1. /\ UNCHANGED <<saved, attempt, pc, reader, chunkChan, inHand, loopErr, ack, ctxDone>>
      /\ target \subseteq target'
  BY DEF WorkerStep, Write, WriteFails, jobVars
<1>2. InChan(chunkChan)' = InChan(chunkChan) /\ worker \in [Goroutines -> WorkerState]
  BY <1>1, JobStays, TypeFacts
<1>3. ASSUME NEW S, Flowing' \subseteq Flowing, Written' \subseteq Written \cup S,
             \A c \in S : c \in Written \/ c.rows \subseteq target'
      PROVE  ChunksFlow
  BY <1>3 DEF ChunksFlow
<1>4. CASE TakeJob(g) /\ UNCHANGED jobVars
  <2>1. /\ Head(jobChan) \in Chunk /\ InChan(jobChan) = {Head(jobChan)} \cup InChan(jobChan)'
        /\ UNCHANGED ackChan
        /\ \/ poolDone /\ SetWorker(g, "gone", NoJob)
           \/ ~poolDone /\ SetWorker(g, "write", Head(jobChan))
        /\ worker[g].st = "idle"
    BY <1>4, TakeJobDoes
  <2>2. InChan(ackChan)' = InChan(ackChan)
    BY <2>1 DEF InChan
  <2>3. /\ JobsAt("ack")' \subseteq JobsAt("ack") /\ JobsAt("write") \subseteq JobsAt("write")'
        /\ JobsAt("write")' \subseteq JobsAt("write") \cup {Head(jobChan)}
        /\ ~poolDone => Head(jobChan) \in JobsAt("write")'
    <3>1. CASE poolDone /\ SetWorker(g, "gone", NoJob)
      BY <1>2, <2>1, <3>1, WorkerMoves
    <3>2. CASE ~poolDone /\ SetWorker(g, "write", Head(jobChan))
      BY <1>2, <2>1, <3>2, WorkerMoves
    <3> QED BY <2>1, <3>1, <3>2
  <2>4. \A c : c \in Unwritten' => c \in Unwritten
    BY <1>1, <1>2, <2>1, <2>3, Places
  <2>5. \A c : c \in Written' => c \in Written
    BY <1>1, <2>2, <2>3, Places
  <2>6. ~poolDone => \A c : c \in Unwritten => c \in Unwritten'
    BY <1>1, <1>2, <2>1, <2>3, Places
  <2>7. Flowing' \subseteq Flowing
    BY <2>4, <2>5, FlowingIn
  <2>8. ChunksFlow
    BY <2>5, <2>7, <1>3
  <2> QED BY <1>1, <1>4, <2>6, <2>8
<1>5. CASE JobsEnd(g) /\ UNCHANGED jobVars
  <2>1. UNCHANGED <<jobChan, ackChan>> /\ SetWorker(g, "gone", NoJob) /\ worker[g].st = "idle"
    BY <1>5 DEF JobsEnd
  <2>2. InChan(ackChan)' = InChan(ackChan) /\ InChan(jobChan)' = InChan(jobChan)
    BY <2>1 DEF InChan
  <2>3. /\ JobsAt("ack")' \subseteq JobsAt("ack") /\ JobsAt("write") \subseteq JobsAt("write")'
        /\ JobsAt("write")' \subseteq JobsAt("write")
    BY <1>2, <2>1, WorkerMoves
  <2>4. \A c : c \in Unwritten' <=> c \in Unwritten
    BY <1>1, <1>2, <2>2, <2>3, Places
  <2>5. \A c : c \in Written' => c \in Written
    BY <1>1, <2>2, <2>3, Places
  <2>7. Flowing' \subseteq Flowing
    BY <2>4, <2>5, FlowingIn
  <2>8. ChunksFlow
    BY <2>5, <2>7, <1>3
  <2> QED BY <1>1, <2>4, <2>8
<1>6. CASE SendAck(g) /\ UNCHANGED jobVars
  <2>1. /\ UNCHANGED jobChan /\ worker[g].st = "ack"
        /\ InChan(ackChan)' \subseteq InChan(ackChan) \cup {worker[g].job}
        /\ SetWorker(g, "idle", NoJob) \/ SetWorker(g, "gone", NoJob)
    BY <1>6, SendAckDoes
  <2>2. InChan(jobChan)' = InChan(jobChan) /\ worker[g].job \in JobsAt("ack")
    BY <2>1 DEF InChan, JobsAt
  <2>3. /\ JobsAt("ack")' \subseteq JobsAt("ack") /\ JobsAt("write") \subseteq JobsAt("write")'
        /\ JobsAt("write")' \subseteq JobsAt("write")
    BY <1>2, <2>1, WorkerMoves
  <2>4. \A c : c \in Unwritten' <=> c \in Unwritten
    BY <1>1, <1>2, <2>2, <2>3, Places
  <2>5. \A c : c \in Written' => c \in Written
    BY <1>1, <2>1, <2>2, <2>3, Places
  <2>7. Flowing' \subseteq Flowing
    BY <2>4, <2>5, FlowingIn
  <2>8. ChunksFlow
    BY <2>5, <2>7, <1>3
  <2> QED BY <1>1, <2>4, <2>8
<1>7. CASE Write(g)
  <2>1. /\ UNCHANGED <<jobChan, ackChan>> /\ worker[g].st = "write" /\ worker[g].job.rows \subseteq target'
        /\ SetWorker(g, "ack", worker[g].job) \/ SetWorker(g, "idle", NoJob)
    BY <1>7 DEF Write, WriteReturns
  <2>2. worker[g].job \in Chunk
    BY <2>1, TypeFacts DEF JobsHeld
  <2>3. /\ InChan(ackChan)' = InChan(ackChan) /\ InChan(jobChan)' = InChan(jobChan)
        /\ worker[g].job \in JobsAt("write")
    BY <2>1 DEF InChan, JobsAt
  <2>4. /\ JobsAt("ack")' \subseteq JobsAt("ack") \cup {worker[g].job}
        /\ JobsAt("write") \subseteq JobsAt("write")' \cup {worker[g].job}
        /\ JobsAt("write")' \subseteq JobsAt("write")
    BY <1>2, <2>1, <2>2, WorkerMoves
  <2>5. \A c : c \in Unwritten' => c \in Unwritten
    BY <1>1, <1>2, <2>3, <2>4, Places
  <2>6. \A c : c \in Written' => c \in Written \/ c = worker[g].job
    BY <1>1, <2>3, <2>4, Places
  <2>7. \A c : c \in Unwritten => c \in Unwritten' \/ c = worker[g].job
    BY <1>1, <1>2, <2>3, <2>4, Places
  <2>8. worker[g].job \in Unwritten
    BY <2>3, Places
  <2>9. Flowing' \subseteq Flowing
    BY <2>5, <2>6, <2>8, FlowingIn
  <2>10. ChunksFlow
    BY <2>1, <2>6, <2>9, <1>3
  <2> QED BY <1>1, <2>1, <2>7, <2>10
<1>8. CASE WriteFails(g)
  <2>1. UNCHANGED <<jobChan, ackChan>> /\ worker[g].st = "write" /\ SetWorker(g, "gone", NoJob)
    BY <1>8 DEF WriteFails, WriteReturnsError
  <2>2. InChan(ackChan)' = InChan(ackChan) /\ InChan(jobChan)' = InChan(jobChan)
    BY <2>1 DEF InChan
  <2>3. JobsAt("ack")' \subseteq JobsAt("ack") /\ JobsAt("write")' \subseteq JobsAt("write")
    BY <1>2, <2>1, WorkerMoves
  <2>4. \A c : c \in Unwritten' => c \in Unwritten
    BY <1>1, <1>2, <2>2, <2>3, Places
  <2>5. \A c : c \in Written' => c \in Written
    BY <1>1, <2>2, <2>3, Places
  <2>7. Flowing' \subseteq Flowing
    BY <2>4, <2>5, FlowingIn
  <2>8. ChunksFlow
    BY <2>5, <2>7, <1>3
  <2> QED BY <1>1, <1>8, <2>8
<1> QED BY <1>4, <1>5, <1>6, <1>7, <1>8 DEF WorkerStep

LEMMA AckFlow ==
  ASSUME TypeOK, AckStep
  PROVE  /\ ChunksFlow /\ Written' \subseteq Written /\ Unwritten' = Unwritten
         /\ UNCHANGED <<target, attempt, pc, reader, chunkChan, inHand, loopErr, ctxDone>>
         /\ UNCHANGED <<jobChan, jobsClosed, worker, workers, poolDone, writeErr, totalWritten>>
         /\ \/ UNCHANGED saved /\ ack'.expected = ack.expected /\ ack'.rowNum = ack.rowNum
            \/ \E a \in Written \cap Chunk : a.seq = ack.expected /\ AckRound(a)
<1>1. /\ UNCHANGED <<target, attempt, pc, reader, chunkChan, inHand, loopErr, ctxDone>>
      /\ UNCHANGED <<jobChan, jobsClosed, worker, workers, poolDone, writeErr, totalWritten>>
  BY DEF AckStep, ReceiveAck, DrainPending, TakeAck, poolVars
<1>2. /\ InChan(chunkChan)' = InChan(chunkChan) /\ InChan(jobChan)' = InChan(jobChan)
      /\ \A x : JobsAt(x)' = JobsAt(x)
  BY <1>1 DEF InChan, JobsAt, Goroutines
<1>3. Unwritten' = Unwritten
  BY <1>1, <1>2, Places
<1>4. ack \in AckState /\ ack.pending \in SUBSET Chunk
  BY TypeFacts
<1>5. CASE ReceiveAck
  <2>1. ackChan \in Seq(Chunk) /\ ackChan # <<>> /\ ackChan' = Tail(ackChan)
    BY <1>5, TypeFacts DEF ReceiveAck, TakeAck
  <2>2. /\ Head(ackChan) \in Chunk /\ InChan(ackChan) = {Head(ackChan)} \cup InChan(Tail(ackChan))
    BY <2>1, TailChan
  <2>3. InChan(ackChan) = {Head(ackChan)} \cup InChan(ackChan)'
    BY <2>1, <2>2 DEF InChan
  <2>4. Head(ackChan) \in Written
    BY <2>2, Places
  <2>5. CASE Head(ackChan).seq = ack.expected
    <3>1. AckRound(Head(ackChan))
      BY <1>5, <2>5 DEF ReceiveAck
    <3>2. ack'.pending \subseteq ack.pending
      BY <2>2, <3>1, AckRoundDoes
    <3>3. Written' \subseteq Written
      BY <1>2, <2>3, <3>2, Places
    <3>4. Flowing' \subseteq Flowing
      BY <1>3, <3>3, FlowingIn
    <3> QED BY <1>1, <1>3, <2>2, <2>4, <2>5, <3>1, <3>3, <3>4 DEF ChunksFlow
  <2>6. CASE Head(ackChan).seq # ack.expected
    <3>1. ack' = [ack EXCEPT !.pending = @ \cup {Head(ackChan)}] /\ UNCHANGED saved
      BY <1>5, <2>6 DEF ReceiveAck
    <3>2. /\ ack'.pending = ack.pending \cup {Head(ackChan)}
          /\ ack'.expected = ack.expected /\ ack'.rowNum = ack.rowNum
      BY <1>4, <3>1 DEF AckState
    <3>3. Written' \subseteq Written
      BY <1>2, <2>3, <3>2, Places
    <3>4. Flowing' \subseteq Flowing
      BY <1>3, <3>3, FlowingIn
    <3> QED BY <1>1, <1>3, <3>1, <3>2, <3>3, <3>4 DEF ChunksFlow
  <2> QED BY <2>5, <2>6
<1>6. CASE DrainPending
  <2>1. PICK a \in ack.pending : a.seq = ack.expected /\ AckRound(a)
    BY <1>6 DEF DrainPending
  <2>2. a \in Chunk /\ a \in Written
    BY <1>4, <2>1, Places
  <2>3. ack'.pending \subseteq ack.pending
    BY <2>1, <2>2, AckRoundDoes
  <2>4. InChan(ackChan)' = InChan(ackChan)
    BY <1>6 DEF DrainPending, poolVars, InChan
  <2>5. Written' \subseteq Written
    BY <1>2, <2>3, <2>4, Places
  <2>6. Flowing' \subseteq Flowing
    BY <1>3, <2>5, FlowingIn
  <2> QED BY <1>1, <1>3, <2>1, <2>2, <2>5, <2>6 DEF ChunksFlow
<1> QED BY <1>5, <1>6 DEF AckStep

-----------------------------------------------------------------------------
(* What is before the checkpoint. *)

\* The chunk of an acknowledgement, and of every other message, in the order of the cuts.
InOrder(cut, c) ==
  /\ c.seq < reader.seq /\ c.rowNum = cut[c.seq + 1]
  /\ \A n \in JobRows : cut[c.seq] < n /\ n <= c.rowNum => n \in c.rows

LEMMA ConsecutiveIs ==
  /\ \A cut : Consecutive(cut) <=>
       /\ cut[reader.seq] = reader.rowNum
       /\ ack.expected \in 0 .. reader.seq /\ ack.rowNum = cut[ack.expected]
       /\ \A c \in Flowing : InOrder(cut, c)
  /\ \A cut : Consecutive(cut)' <=>
       /\ cut[reader'.seq] = reader'.rowNum
       /\ ack'.expected \in 0 .. reader'.seq /\ ack'.rowNum = cut[ack'.expected]
       /\ \A c \in Flowing' : InOrder(cut, c)'
<1>1. Ends' = Ends
  BY DEF Ends, ReadError, ReadDone, NoChunk
<1> QED BY <1>1 DEF Consecutive, Flowing, InOrder, Ends

\* A step that leaves the numbers of the reader and of the ack processor alone.
LEMMA SafeStay ==
  ASSUME SafeInv, TypeOK', ChunksFlow, target \subseteq target',
         reader'.rowNum = reader.rowNum, reader'.seq = reader.seq,
         ack'.expected = ack.expected, ack'.rowNum = ack.rowNum,
         saved' \in {saved, ack.rowNum}
  PROVE  SafeInv'
<1>1. AcksWritten'
  BY DEF SafeInv, AcksWritten, ChunksFlow
<1>2. PrefixWritten'
  BY DEF SafeInv, PrefixWritten
<1>3. CheckpointSafe'
  BY DEF SafeInv, CheckpointSafe, PrefixWritten
<1>4. ChunksConsecutive'
  <2>1. PICK cut \in [0 .. reader.seq -> 0 .. reader.rowNum] : Consecutive(cut)
    BY DEF SafeInv, ChunksConsecutive
  <2>2. \A c \in Flowing' : InOrder(cut, c)'
    BY <2>1, ConsecutiveIs DEF ChunksFlow, InOrder
  <2>3. Consecutive(cut)'
    BY <2>1, <2>2, ConsecutiveIs
  <2> QED BY <2>1, <2>3 DEF ChunksConsecutive
<1> QED BY <1>1, <1>2, <1>3, <1>4 DEF SafeInv

LEMMA SafeAck ==
  ASSUME SafeInv, TypeOK', AckStep
  PROVE  SafeInv'
<1>1. /\ ChunksFlow /\ Written' \subseteq Written
      /\ UNCHANGED <<target, reader>>
      /\ \/ UNCHANGED saved /\ ack'.expected = ack.expected /\ ack'.rowNum = ack.rowNum
         \/ \E a \in Written \cap Chunk : a.seq = ack.expected /\ AckRound(a)
  BY AckFlow DEF SafeInv
<1>2. CASE UNCHANGED saved /\ ack'.expected = ack.expected /\ ack'.rowNum = ack.rowNum
  BY <1>1, <1>2, SafeStay
<1>3. ASSUME NEW a \in Written \cap Chunk, a.seq = ack.expected, AckRound(a)
      PROVE  SafeInv'
  <2>1. /\ ack'.expected = ack.expected + 1 /\ ack'.rowNum = a.rowNum /\ saved' \in {saved, a.rowNum}
    BY <1>3, AckRoundDoes DEF SafeInv
  <2>2. PICK cut \in [0 .. reader.seq -> 0 .. reader.rowNum] : Consecutive(cut)
    BY DEF SafeInv, ChunksConsecutive
  <2>3. a \in Flowing
    BY <1>3, ChunkFacts, FlowingIn DEF Ends
  <2>4. InOrder(cut, a) /\ ack.expected \in 0 .. reader.seq /\ ack.rowNum = cut[ack.expected]
    BY <2>2, <2>3, ConsecutiveIs
  <2>5. reader.seq \in Nat /\ ack.expected \in Nat /\ ack.rowNum \in Nat /\ a.rowNum \in Nat
    BY TypeFacts, ChunkFacts, <1>3 DEF SafeInv
  <2>6. a.rows \subseteq target
    BY <1>3 DEF SafeInv, AcksWritten
  <2>7. JobRows \subseteq Nat
    BY DEF JobRows
  <2>8. \A n \in JobRows : n <= a.rowNum => n \in target
    <3> SUFFICES ASSUME NEW n \in JobRows, n <= a.rowNum PROVE n \in target
      OBVIOUS
    <3>1. CASE n <= ack.rowNum
      BY <3>1 DEF SafeInv, PrefixWritten
    <3>2. CASE ack.rowNum < n
      BY <1>3, <2>4, <2>6, <3>2 DEF InOrder
    <3> QED BY <2>5, <2>7, <3>1, <3>2
  <2>9. PrefixWritten'
    BY <1>1, <2>1, <2>8 DEF PrefixWritten
  <2>10. CheckpointSafe'
    BY <1>1, <2>1, <2>8 DEF SafeInv, CheckpointSafe
  <2>11. AcksWritten'
    BY <1>1 DEF SafeInv, AcksWritten
  <2>12. Consecutive(cut)'
    <3>1. ack.expected + 1 \in 0 .. reader.seq
      BY <1>3, <2>4, <2>5 DEF InOrder
    <3>2. a.rowNum = cut[ack.expected + 1]
      BY <1>3, <2>4 DEF InOrder
    <3>3. \A c \in Flowing' : InOrder(cut, c)'
      BY <1>1, <2>2, ConsecutiveIs DEF ChunksFlow, InOrder
    <3> QED BY <1>1, <2>1, <2>2, <3>1, <3>2, <3>3, ConsecutiveIs
  <2>13. ChunksConsecutive'
    BY <1>1, <2>2, <2>12 DEF ChunksConsecutive
  <2> QED BY <2>9, <2>10, <2>11, <2>13 DEF SafeInv
<1> QED BY <1>1, <1>2, <1>3

\* What is on its way is a chunk, or an end of chunks.
LEMMA FlowingTyped ==
  ASSUME TypeOK
  PROVE  /\ Unwritten \subseteq ChunkResult
         /\ Flowing \ Written \subseteq Chunk
         /\ Written \subseteq Chunk
<1>1. /\ reader.msg \in ChunkResult /\ inHand \in Chunk /\ JobsHeld /\ ack.pending \subseteq Chunk
      /\ chunkChan \in Seq(ChunkResult) /\ jobChan \in Seq(Chunk) /\ ackChan \in Seq(Chunk)
  BY TypeFacts
<1>2. InChan(chunkChan) \subseteq ChunkResult
  BY <1>1, ElementOfSeq DEF InChan
<1>3. InChan(jobChan) \subseteq Chunk /\ InChan(ackChan) \subseteq Chunk
  BY <1>1, ElementOfSeq DEF InChan
<1>4. JobsAt("write") \subseteq Chunk /\ JobsAt("ack") \subseteq Chunk
  BY <1>1 DEF JobsAt, JobsHeld
<1>5. Chunk \subseteq ChunkResult
  BY DEF ChunkResult
<1>6. Unwritten \subseteq ChunkResult
  BY <1>1, <1>2, <1>3, <1>4, <1>5, Places
<1>7. Written \subseteq Chunk
  BY <1>1, <1>3, <1>4, Places
<1> QED BY <1>6, <1>7, FlowingIn DEF ChunkResult, Ends

\* A page is the next chunk: it has every row of the job between the reader's row number
\* and its own.
LEMMA PageFlow ==
  ASSUME TypeOK, ReadPage, Page # {}
  PROVE  /\ reader.st = "read"
         /\ \A c : c \in Unwritten' <=> c = reader'.msg \/ c \in Unwritten
         /\ Written' = Written /\ target' = target /\ ack' = ack /\ saved' = saved
         /\ reader'.msg.seq = reader.seq /\ reader'.msg.rowNum = reader'.rowNum /\ reader'.seq = reader.seq + 1
         /\ reader.rowNum <= reader'.rowNum /\ reader'.rowNum \in Nat /\ reader'.rowNum <= LastRow
         /\ \A n \in 1 .. SourceRows : reader.rowNum < n /\ n <= reader'.rowNum => n \in reader'.msg.rows
<1>1. UNCHANGED <<target, saved, pc, chunkChan, inHand, ack, poolVars>> /\ reader.st = "read"
      /\ reader.rowNum < LastRow /\ reader.rowNum \in Nat
  BY TypeFacts DEF ReadPage
<1>2. /\ InChan(jobChan)' = InChan(jobChan) /\ InChan(ackChan)' = InChan(ackChan)
      /\ InChan(chunkChan)' = InChan(chunkChan) /\ \A x : JobsAt(x)' = JobsAt(x)
  BY <1>1, PoolStays DEF InChan
<1>3. PICK rowNum \in Nat :
        /\ rowNum = reader.rowNum + Cardinality(Page)
        /\ reader'.st = "send" /\ reader'.rowNum = rowNum /\ reader'.seq = reader.seq + 1
        /\ reader'.msg = [rows |-> Page, rowNum |-> rowNum, seq |-> reader.seq]
  BY ReadPageDoes
<1>4. /\ Cardinality(Page) \in Nat /\ rowNum <= LastRow
      /\ Page = reader.rowNum + 1 .. rowNum
  BY <1>1, <1>3, PageFacts
<1>5. reader'.msg.rows = Page /\ reader'.msg.rowNum = rowNum /\ reader'.msg.seq = reader.seq
  BY <1>3
<1>6. \A c : c \in Unwritten' <=> c = reader'.msg \/ c \in Unwritten
  BY <1>1, <1>2, <1>3, Places
<1>7. Written' = Written
  BY <1>1, <1>2, Places
<1>8. \A n \in 1 .. SourceRows : reader.rowNum < n /\ n <= rowNum => n \in Page
  BY <1>1, <1>4
<1>9. reader.rowNum <= rowNum
  BY <1>1, <1>3, <1>4
<1> QED BY <1>1, <1>3, <1>4, <1>5, <1>6, <1>7, <1>8, <1>9

LEMMA SafePage ==
  ASSUME SafeInv, TypeOK', ReadPage, Page # {}
  PROVE  SafeInv'
<1>1. /\ \A c : c \in Unwritten' <=> c = reader'.msg \/ c \in Unwritten
      /\ Written' = Written /\ target' = target /\ ack' = ack /\ saved' = saved
      /\ reader'.msg.seq = reader.seq /\ reader'.msg.rowNum = reader'.rowNum /\ reader'.seq = reader.seq + 1
      /\ reader.rowNum <= reader'.rowNum /\ reader'.rowNum \in Nat
      /\ \A n \in 1 .. SourceRows : reader.rowNum < n /\ n <= reader'.rowNum => n \in reader'.msg.rows
  BY PageFlow DEF SafeInv
<1>2. AcksWritten' /\ PrefixWritten' /\ CheckpointSafe'
  BY <1>1 DEF SafeInv, AcksWritten, PrefixWritten, CheckpointSafe
<1>3. PICK cut \in [0 .. reader.seq -> 0 .. reader.rowNum] : Consecutive(cut)
  BY DEF SafeInv, ChunksConsecutive
<1>4. reader.seq \in Nat /\ reader.rowNum \in Nat /\ ack.expected \in Nat
  BY TypeFacts DEF SafeInv
<1>10. PICK next : next = [s \in 0 .. reader'.seq |-> IF s <= reader.seq THEN cut[s] ELSE reader'.rowNum]
  OBVIOUS
<1>5. next \in [0 .. reader'.seq -> 0 .. reader'.rowNum]
  BY <1>1, <1>3, <1>4, <1>10
<1>6. /\ \A s \in 0 .. reader.seq : next[s] = cut[s]
      /\ next[reader.seq + 1] = reader'.rowNum
  <2>1. reader.seq + 1 \in 0 .. reader'.seq /\ ~(reader.seq + 1 <= reader.seq)
    BY <1>1, <1>4
  <2>2. \A s \in 0 .. reader.seq : s \in 0 .. reader'.seq /\ s <= reader.seq
    BY <1>1, <1>4
  <2> QED BY <1>10, <2>1, <2>2
<1>7. ASSUME NEW c \in Flowing' PROVE InOrder(next, c)'
  <2>1. CASE c = reader'.msg
    <3>1. reader.seq \in 0 .. reader.seq /\ JobRows \subseteq 1 .. SourceRows
      BY <1>4 DEF JobRows
    <3>2. next[reader.seq] = reader.rowNum
      BY <1>3, <1>6, <3>1 DEF Consecutive
    <3> QED BY <1>1, <1>4, <1>6, <2>1, <3>1, <3>2 DEF InOrder
  <2>2. CASE c \in Flowing
    <3>1. InOrder(cut, c)
      BY <1>3, <2>2, ConsecutiveIs
    <3>2. c \in Chunk
      <4>1. TypeOK
        BY DEF SafeInv
      <4> QED BY <2>2, <4>1, FlowingTyped
    <3>3. c.seq \in 0 .. reader.seq /\ c.seq + 1 \in 0 .. reader.seq
      BY <1>4, <3>1, <3>2, ChunkFacts DEF InOrder
    <3>4. next[c.seq] = cut[c.seq] /\ next[c.seq + 1] = cut[c.seq + 1]
      BY <1>6, <3>3
    <3>5. c.seq < reader'.seq
      BY <1>1, <1>4, <3>3
    <3> QED BY <3>1, <3>4, <3>5 DEF InOrder
  <2> QED BY <1>1, <2>1, <2>2, FlowingIn
<1>8. /\ next[reader'.seq] = reader'.rowNum /\ ack'.expected \in 0 .. reader'.seq
      /\ ack'.rowNum = next[ack'.expected]
  BY <1>1, <1>3, <1>4, <1>6 DEF Consecutive
<1>9. ChunksConsecutive'
  BY <1>5, <1>7, <1>8, ConsecutiveIs DEF ChunksConsecutive
<1> QED BY <1>2, <1>9 DEF SafeInv

\* An attempt that starts: nothing is on its way.
LEMMA StartFlow ==
  ASSUME NEW row \in Nat, NEW st \in {"read", "closed"}, NEW p \in {NewPool, NoPool}, StartJob(row, st, p),
         pc' # "submit"
  PROVE  Unwritten' = {} /\ Written' = {}
<1>1. /\ reader'.st = st /\ ack'.pending = {}
      /\ InChan(chunkChan)' = {} /\ InChan(jobChan)' = {} /\ InChan(ackChan)' = {}
      /\ \A x \in {"write", "ack"} : JobsAt(x)' = {}
  BY StartJobDoes
<1>2. \A c : c \notin Unwritten' /\ c \notin Written'
  BY <1>1, Places
<1> QED BY <1>2

LEMMA SafeStart ==
  ASSUME TypeOK', CheckpointSafe', NEW row \in Nat, NEW st \in {"read", "closed"}, NEW p \in {NewPool, NoPool},
         StartJob(row, st, p), pc' # "submit", \A n \in JobRows : n <= row => n \in target'
  PROVE  SafeInv'
<1>1. Unwritten' = {} /\ Written' = {}
  BY StartFlow
<1>2. reader'.rowNum = row /\ reader'.seq = 0 /\ ack'.expected = 0 /\ ack'.rowNum = row
  BY StartJobDoes
<1>3. AcksWritten' /\ PrefixWritten'
  BY <1>1, <1>2 DEF AcksWritten, PrefixWritten
<1> DEFINE cut == [s \in 0 .. 0 |-> row]
<1>4. cut \in [0 .. reader'.seq -> 0 .. reader'.rowNum] /\ cut[0] = row /\ 0 \in 0 .. 0
  BY <1>2
<1>5. \A c : c \notin Flowing'
  BY <1>1, FlowingIn
<1> HIDE DEF cut
<1>6. Consecutive(cut)'
  BY <1>2, <1>4, <1>5, ConsecutiveIs
<1>7. ChunksConsecutive'
  BY <1>4, <1>6 DEF ChunksConsecutive
<1> QED BY <1>3, <1>7 DEF SafeInv

LEMMA SafeRestart ==
  ASSUME NoBlindTruncation, SafeInv, TypeOK', Execute \/ Crash
  PROVE  SafeInv'
<1>1. JobRows \subseteq 1 .. SourceRows /\ FirstRow \in Nat /\ LastRow \in Nat /\ SourceRows \in Nat
      /\ saved \in Nat \cup {NoProgress} /\ TypeOK
  BY TypeFacts, RangeTypes DEF JobRows, SafeInv
<1>2. \A n \in JobRows : FirstRow < n /\ n <= LastRow /\ n \in Nat /\ n # 0
  BY <1>1 DEF JobRows
<1>3. CASE Execute
  <2>1. PICK loaded \in Loaded :
          /\ InitialRowNum(loaded) \in Nat /\ StartJob(InitialRowNum(loaded), "read", NewPool)
          /\ target' = CleanTarget(loaded) \/ target' = target
    BY <1>1, <1>3, ExecuteDoes
  <2>2. saved' = saved /\ pc' = "loop"
    BY <1>1, <1>3, ExecuteDoes
  <2>3. saved # NoProgress => target' = target
    BY <2>1 DEF NoBlindTruncation, Loaded, CleanTarget
  <2>4. \A n \in JobRows : n <= InitialRowNum(loaded) => n \in target'
    <3>1. CASE loaded = NoProgress
      BY <1>1, <1>2, <3>1 DEF InitialRowNum
    <3>2. CASE loaded # NoProgress
      <4>1. loaded = saved
        BY <2>1, <3>2 DEF Loaded
      <4> QED BY <1>1, <1>2, <2>3, <3>2, <4>1 DEF InitialRowNum, Clamp, SafeInv, CheckpointSafe
    <3> QED BY <3>1, <3>2
  <2>5. CheckpointSafe'
    <3>1. CASE saved = NoProgress
      BY <1>2, <2>2, <3>1 DEF CheckpointSafe, NoProgress
    <3>2. CASE saved # NoProgress
      BY <2>2, <2>3, <3>2 DEF CheckpointSafe, SafeInv
    <3> QED BY <3>1, <3>2
  <2> QED BY <2>1, <2>2, <2>4, <2>5, SafeStart
<1>4. CASE Crash
  <2>1. /\ StartJob(FirstRow, "closed", NoPool) /\ target \subseteq target' /\ saved' = saved /\ pc' = "crashed"
    BY <1>1, <1>4, CrashDoes
  <2>2. CheckpointSafe'
    BY <2>1 DEF CheckpointSafe, SafeInv
  <2>3. \A n \in JobRows : n <= FirstRow => n \in target'
    BY <1>1, <1>2
  <2> QED BY <1>1, <2>1, <2>2, <2>3, SafeStart
<1> QED BY <1>3, <1>4

LEMMA SafeInit == Init => SafeInv
<1> SUFFICES ASSUME Init PROVE SafeInv
  OBVIOUS
<1>1. TypeOK /\ CheckpointSafe
  <2>1. \A n \in JobRows : ~(n <= NoProgress)
    BY DEF JobRows, NoProgress
  <2> QED BY <2>1, TypesInit DEF Init, CheckpointSafe
<1>2. /\ reader.st = "closed" /\ reader.rowNum = 0 /\ reader.seq = 0 /\ pc = "idle"
      /\ ack.expected = 0 /\ ack.rowNum = 0 /\ ack.pending = {}
  BY DEF Init
<1>3. InChan(chunkChan) = {} /\ InChan(jobChan) = {} /\ InChan(ackChan) = {} /\ \A x : JobsAt(x) = {}
  BY EmptyChan DEF Init, PoolInit, JobsAt, Goroutines
<1>4. \A c : c \notin Unwritten /\ c \notin Written /\ c \notin Flowing
  BY <1>2, <1>3, Places, FlowingIn
<1>5. AcksWritten /\ PrefixWritten
  BY <1>2, <1>4 DEF AcksWritten, PrefixWritten, JobRows
<1> DEFINE cut == [s \in 0 .. 0 |-> 0]
<1>6. cut \in [0 .. reader.seq -> 0 .. reader.rowNum] /\ cut[0] = 0 /\ 0 \in 0 .. 0
  BY <1>2
<1> HIDE DEF cut
<1>7. Consecutive(cut)
  BY <1>2, <1>4, <1>6, ConsecutiveIs
<1> QED BY <1>1, <1>5, <1>6, <1>7 DEF SafeInv, ChunksConsecutive

LEMMA SafeStep ==
  ASSUME NoBlindTruncation, SafeInv, [Next]_vars
  PROVE  SafeInv'
<1>1. TypeOK /\ TypeOK'
  BY TypeStep DEF SafeInv
<1>2. CASE ReaderStep
  <2>1. UNCHANGED <<target, saved, ack>>
    BY <1>2 DEF ReaderStep, ReadPage, ReadFails, ReadEnds, Send
  <2>2. CASE ReadPage /\ Page # {}
    BY <1>1, <2>2, SafePage
  <2>3. CASE ~(ReadPage /\ Page # {})
    BY <1>1, <1>2, <2>1, <2>3, ReaderFlow, SafeStay
  <2> QED BY <2>2, <2>3
<1>3. CASE ConsumerStep
  <2>1. UNCHANGED <<target, reader, ack>> /\ saved' \in {saved, ack.rowNum}
    BY <1>1, <1>3, ReceiveDoes, SubmitDoes DEF ConsumerStep, Wait, Return, SaveProgress, jobVars
  <2> QED BY <1>1, <1>3, <2>1, ConsumerFlow, SafeStay
<1>4. ASSUME NEW g \in Goroutines, WorkerStep(g) PROVE SafeInv'
  <2>1. ChunksFlow /\ target \subseteq target' /\ UNCHANGED <<saved, reader, ack>>
    BY <1>1, <1>4, WorkerFlow
  <2> QED BY <1>1, <2>1, SafeStay
<1>5. CASE AckStep
  BY <1>1, <1>5, SafeAck
<1>6. CASE Execute \/ Crash
  BY <1>1, <1>6, SafeRestart
<1>7. CASE Cancel \/ UNCHANGED vars
  <2>1. UNCHANGED <<target, saved, pc, reader, chunkChan, inHand, ack, jobChan, ackChan, worker>>
    BY <1>7 DEF Cancel, CancelPool, vars, jobVars, poolVars
  <2>2. /\ InChan(chunkChan)' = InChan(chunkChan) /\ InChan(ackChan)' = InChan(ackChan)
        /\ InChan(jobChan)' = InChan(jobChan) /\ \A x : JobsAt(x)' = JobsAt(x)
    BY <2>1 DEF InChan, JobsAt, Goroutines
  <2>3. \A c : (c \in Unwritten' <=> c \in Unwritten) /\ (c \in Written' <=> c \in Written)
    BY <2>1, <2>2, Places
  <2>4. ChunksFlow
    BY <2>3, FlowingIn DEF ChunksFlow
  <2> QED BY <1>1, <2>1, <2>4, SafeStay
<1> QED BY <1>2, <1>3, <1>4, <1>5, <1>6, <1>7 DEF Next, Terminated

\* Whatever else fails (reads, writes, saves, the truncation), is cancelled, crashes or is
\* acknowledged out of order: if no table is truncated whose checkpoint could not be
\* loaded, every row of the job up to the row number that is saved for it is in the
\* target, so that a resume, which starts there, skips none.
THEOREM RowNumberCheckpointSafe ==
  ASSUME NoBlindTruncation
  PROVE  Spec => []CheckpointSafe
<1>1. Init => SafeInv
  BY SafeInit
<1>2. SafeInv /\ [Next]_vars => SafeInv'
  BY SafeStep
<1>3. SafeInv => CheckpointSafe
  BY DEF SafeInv
<1> QED BY <1>1, <1>2, <1>3, PTL DEF Spec

-----------------------------------------------------------------------------
(* What a success leaves. *)

\* Every row up to the reader's row number is in the target or on its way.
Covered == \A n \in JobRows : n <= reader.rowNum => n \in target \/ \E c \in Unwritten : n \in c.rows
AllRead == \A n \in JobRows : n <= reader.rowNum
GoneMeansEnd == \A g \in Goroutines : Gone(g) => jobsClosed /\ jobChan = <<>>
ShortIsLast ==
  reader.st = "send" /\ reader.msg \in Chunk /\ Cardinality(reader.msg.rows) < ChunkSize
  /\ reader.rowNum < LastRow => AllRead

LEMMA NothingLostIs ==
  /\ NothingLost <=> (pc \in Running /\ Healthy => ~poolDone /\ Covered /\ GoneMeansEnd)
  /\ NothingLost' <=> (pc' \in Running /\ Healthy' => ~poolDone' /\ Covered' /\ GoneMeansEnd')
  /\ EndIsEnd <=> /\ pc \in Running /\ ReadDone \in Unwritten => AllRead
                  /\ pc = "wait" /\ Healthy => reader.st = "closed" /\ chunkChan = <<>> /\ AllRead
                  /\ ShortIsLast
  /\ EndIsEnd' <=> /\ pc' \in Running /\ ReadDone \in Unwritten' => AllRead'
                   /\ pc' = "wait" /\ Healthy' => reader'.st = "closed" /\ chunkChan' = <<>> /\ AllRead'
                   /\ ShortIsLast'
<1>1. Running' = Running /\ ReadDone' = ReadDone
  BY DEF Running, ReadDone, NoChunk
<1> QED BY <1>1 DEF NothingLost, EndIsEnd, Covered, AllRead, GoneMeansEnd, ShortIsLast, Running, ReadDone, NoChunk

\* Chunks and the ends of chunks have no rows of the job, or are where they were, or are
\* in the target.
LEMMA CoveredStays ==
  ASSUME Covered, target \subseteq target', reader'.rowNum = reader.rowNum,
         \A c \in Unwritten \ Ends : c \in Unwritten' \/ c.rows \subseteq target'
  PROVE  Covered'
<1>1. \A c \in Ends : c.rows = {}
  BY DEF Ends, ReadError, ReadDone, NoChunk
<1> QED BY <1>1 DEF Covered

LEMMA ReaderSuccess ==
  ASSUME TypeOK, SuccessInv, ReaderStep
  PROVE  SuccessInv'
<1>1. UNCHANGED <<target, saved, attempt, pc, inHand, loopErr, ack, ctxDone, poolVars>>
  BY DEF ReaderStep, ReadPage, ReadFails, ReadEnds, Send
<1>2. /\ UNCHANGED <<jobChan, jobsClosed, worker, poolDone, writeErr>> /\ Goroutines' = Goroutines
      /\ Healthy' = Healthy
  BY <1>1 DEF poolVars, Goroutines, Healthy
<1>3. SuccessMeansAllWritten' /\ JobsOpen'
  BY <1>1, <1>2 DEF SuccessInv, SuccessMeansAllWritten, JobsOpen
<1>4. GoneMeansEnd => GoneMeansEnd'
  BY <1>1, <1>2 DEF GoneMeansEnd, Gone
<1>5. JobRows \subseteq 1 .. SourceRows /\ SourceRows \in Nat /\ LastRow \in Nat /\ ChunkSize \in Nat
      /\ reader.rowNum \in Nat /\ chunkChan \in Seq(ChunkResult) /\ reader.msg \in ChunkResult
  BY RangeTypes, TypeFacts DEF JobRows
<1>6. \A n \in JobRows : n <= LastRow /\ n <= SourceRows /\ n \in Nat
  BY <1>5 DEF JobRows
<1>7. CASE ReadPage /\ Page # {}
  <2>1. /\ reader.st = "read"
        /\ \A c : c \in Unwritten' <=> c = reader'.msg \/ c \in Unwritten
        /\ reader.rowNum <= reader'.rowNum /\ reader'.rowNum \in Nat
        /\ \A n \in 1 .. SourceRows : reader.rowNum < n /\ n <= reader'.rowNum => n \in reader'.msg.rows
    BY <1>7, PageFlow
  <2>2. Covered => Covered'
    <3> SUFFICES ASSUME Covered, NEW n \in JobRows, n <= reader'.rowNum
                 PROVE  n \in target' \/ \E c \in Unwritten' : n \in c.rows
      BY DEF Covered
    <3>1. CASE n <= reader.rowNum
      BY <1>1, <2>1, <3>1 DEF Covered
    <3>2. CASE reader.rowNum < n
      BY <1>5, <2>1, <3>2
    <3> QED BY <1>5, <1>6, <3>1, <3>2
  <2>3. NothingLost'
    BY <1>1, <1>2, <1>4, <2>2, NothingLostIs DEF SuccessInv
  <2>4. chunkChan' = chunkChan /\ reader'.msg \in Chunk /\ reader'.st = "send"
    BY <1>7, ReadPageDoes DEF ReadPage
  <2>5. EndIsLast'
    BY <2>1, <2>4 DEF EndIsLast, SuccessInv
  <2>6. AllRead => AllRead'
    BY <1>5, <1>6, <2>1 DEF AllRead
  <2>7. ReadDone \in Unwritten' => ReadDone \in Unwritten
    BY <2>1, <2>4, ChunkFacts
  <2>8. ShortIsLast'
    <3> SUFFICES ASSUME Cardinality(reader'.msg.rows) < ChunkSize, reader'.rowNum < LastRow
                 PROVE  AllRead'
      BY DEF ShortIsLast
    <3>1. /\ reader'.msg.rows = Page /\ reader'.rowNum = reader.rowNum + Cardinality(Page)
      BY <1>7, ReadPageDoes
    <3>2. /\ Cardinality(Page) \in Nat
          /\ Cardinality(Page) < PageSize => SourceRows <= reader.rowNum + Cardinality(Page)
          /\ PageSize = ChunkSize \/ reader.rowNum + PageSize = LastRow
          /\ Cardinality(Page) < PageSize \/ Cardinality(Page) >= PageSize
      <4>1. reader.rowNum < LastRow
        BY <1>7 DEF ReadPage
      <4>2. PageSize \in Nat
        BY <1>5, <4>1 DEF PageSize
      <4>3. Cardinality(Page) \in Nat
        BY <1>5, <4>1, PageFacts
      <4> QED BY <1>5, <4>1, <4>2, <4>3, PageFacts
    <3>3. SourceRows <= reader'.rowNum
      <4>1. PageSize \in Int
        BY <1>5 DEF PageSize
      <4> QED BY <1>5, <3>1, <3>2, <4>1
    <3> QED BY <1>5, <1>6, <2>1, <3>3 DEF AllRead
  <2>9. EndIsEnd'
    BY <1>1, <1>2, <2>1, <2>6, <2>7, <2>8, NothingLostIs DEF SuccessInv
  <2> QED BY <1>3, <2>3, <2>5, <2>9 DEF SuccessInv
<1>8. CASE ~(ReadPage /\ Page # {})
  <2>1. /\ reader'.rowNum = reader.rowNum
        /\ Unwritten \ Ends \subseteq Unwritten'
    BY <1>8, ReaderFlow DEF ChunksKept
  <2>2. Covered => Covered'
    BY <1>1, <2>1, CoveredStays
  <2>3. NothingLost'
    BY <1>1, <1>2, <1>4, <2>2, NothingLostIs DEF SuccessInv
  <2>4. AllRead' <=> AllRead
    BY <2>1 DEF AllRead
  <2>5. CASE ReadPage \/ ReadFails \/ ReadEnds
    <3>1. reader.st = "read" /\ chunkChan' = chunkChan
      BY <2>5 DEF ReadPage, ReadFails, ReadEnds
    <3>2. InChan(chunkChan)' = InChan(chunkChan) /\ InChan(jobChan)' = InChan(jobChan)
          /\ \A x : JobsAt(x)' = JobsAt(x)
      BY <1>1, <3>1, PoolStays DEF InChan
    <3>3. \/ EndsReading(ReadError)
          \/ EndsReading(ReadDone) /\ AllRead
      <4>1. CASE ReadPage
        <5>1. reader.rowNum < LastRow /\ Page = {}
          BY <1>8, <4>1 DEF ReadPage
        <5>2. SourceRows <= reader.rowNum + 0
          BY <1>5, <5>1, PageFacts
        <5>3. AllRead
          BY <1>5, <1>6, <5>2 DEF AllRead
        <5> QED BY <4>1, <5>1, <5>3, ReadEndDoes
      <4>2. CASE ReadFails
        BY <4>2, ReadEndDoes
      <4>3. CASE ReadEnds
        <5>1. reader.rowNum >= LastRow
          BY <4>3 DEF ReadEnds
        <5>2. AllRead
          BY <1>5, <1>6, <5>1 DEF AllRead
        <5> QED BY <4>3, <5>2, ReadEndDoes
      <4> QED BY <2>5, <4>1, <4>2, <4>3
    <3>4. EndIsLast'
      BY <3>1 DEF EndIsLast, SuccessInv
    <3>5. ReadDone \in Unwritten' => ReadDone \in Unwritten \/ AllRead
      <4>1. ReadError # ReadDone
        BY ChunkFacts
      <4> QED BY <1>1, <3>2, <3>3, <4>1, Places DEF EndsReading
    <3>6. ShortIsLast'
      BY <3>3, ChunkFacts DEF ShortIsLast, EndsReading
    <3>7. EndIsEnd'
      BY <1>1, <1>2, <2>4, <3>1, <3>5, <3>6, NothingLostIs DEF SuccessInv
    <3> QED BY <1>3, <2>3, <3>4, <3>7 DEF SuccessInv
  <2>6. CASE Send
    <3>1. reader.st = "send"
      BY <2>6 DEF Send
    <3>2. /\ chunkChan' = Append(chunkChan, reader.msg)
          /\ InChan(chunkChan)' = InChan(chunkChan) \cup {reader.msg}
          /\ IsEnd(reader.msg) => reader'.st = "closed"
          /\ ~IsEnd(reader.msg) /\ LastPage(reader.msg) => EndsReading(ReadDone)
          /\ ~IsEnd(reader.msg) /\ ~LastPage(reader.msg) => reader'.st = "read"
      BY <2>6, SendDoes
    <3>3. EndIsLast'
      <4>1. /\ Len(chunkChan') = Len(chunkChan) + 1 /\ Len(chunkChan) \in Nat
            /\ \A i \in 1 .. Len(chunkChan) : chunkChan'[i] = chunkChan[i]
            /\ chunkChan'[Len(chunkChan) + 1] = reader.msg
        BY <1>5, <3>2, AppendChan
      <4>2. \A i \in 1 .. Len(chunkChan) : chunkChan[i] \notin {ReadError, ReadDone}
        BY <3>1 DEF EndIsLast, SuccessInv
      <4>3. \A i \in 1 .. Len(chunkChan') : i \in 1 .. Len(chunkChan) \/ i = Len(chunkChan')
        BY <4>1
      <4>4. ASSUME NEW i \in 1 .. Len(chunkChan'), chunkChan'[i] \in {ReadError, ReadDone}
            PROVE  i = Len(chunkChan') /\ reader'.st = "closed"
        BY <3>2, <4>1, <4>2, <4>3, <4>4 DEF IsEnd
      <4>5. {ReadError, ReadDone}' = {ReadError, ReadDone}
        BY DEF ReadError, ReadDone, NoChunk
      <4> QED BY <4>4, <4>5 DEF EndIsLast
    <3>4. ~IsEnd(reader.msg) /\ LastPage(reader.msg) => AllRead
      <4>1. ~IsEnd(reader.msg) => reader.msg \in Chunk
        BY <1>5 DEF IsEnd, ChunkResult
      <4> QED BY <3>1, <4>1, NothingLostIs DEF LastPage, ShortIsLast, SuccessInv
    <3>5. InChan(jobChan)' = InChan(jobChan) /\ \A x : JobsAt(x)' = JobsAt(x)
      BY <1>1, PoolStays
    <3>6. ReadDone \in Unwritten' => ReadDone \in Unwritten \/ AllRead
      BY <1>1, <3>1, <3>2, <3>4, <3>5, Places DEF EndsReading
    <3>7. ShortIsLast'
      BY <3>2, ChunkFacts DEF ShortIsLast, EndsReading
    <3>8. ~(pc = "wait" /\ Healthy)
      BY <3>1, NothingLostIs DEF SuccessInv
    <3>9. EndIsEnd'
      BY <1>1, <1>2, <2>4, <3>6, <3>7, <3>8, NothingLostIs DEF SuccessInv
    <3> QED BY <1>3, <2>3, <3>3, <3>9 DEF SuccessInv
  <2> QED BY <2>5, <2>6 DEF ReaderStep
<1> QED BY <1>7, <1>8

\* When the workers are gone, nothing is left in the pool.
LEMMA PoolEmpty ==
  ASSUME TypeOK, GoneMeansEnd, Drained, Goroutines # {}
  PROVE  InChan(jobChan) = {} /\ JobsAt("write") = {}
<1>1. PICK g \in Goroutines : Gone(g)
  BY DEF Drained
<1>2. jobChan = <<>>
  BY <1>1 DEF GoneMeansEnd
<1>3. InChan(jobChan) = {}
  BY <1>2, EmptyChan
<1>4. JobsAt("write") = {}
  BY DEF JobsAt, Drained, Gone
<1> QED BY <1>3, <1>4

LEMMA ReceiveSuccess ==
  ASSUME TypeOK, SuccessInv, Receive
  PROVE  SuccessInv'
<1>1. /\ chunkChan' = Tail(chunkChan)
      /\ \/ /\ Head(chunkChan) = ReadError /\ pc' = "wait" /\ loopErr' /\ UNCHANGED writeErr
         \/ /\ Head(chunkChan) = ReadDone /\ pc' = "wait" /\ UNCHANGED <<inHand, loopErr, poolDone, writeErr>>
         \/ /\ ~IsEnd(Head(chunkChan)) /\ pc' = "submit" /\ UNCHANGED <<loopErr, poolDone, writeErr>>
      /\ UNCHANGED <<target, saved, attempt, reader, ack, ctxDone, jobChan, jobsClosed, ackChan, worker,
                     workers, totalWritten>>
  BY ReceiveDoes
<1>2. /\ chunkChan \in Seq(ChunkResult) /\ chunkChan # <<>> /\ pc = "loop" /\ pc \in Running /\ pc' # "ok"
  BY <1>1, TypeFacts DEF Receive, Running
<1>3. /\ Len(chunkChan) \in Nat \ {0} /\ Len(Tail(chunkChan)) = Len(chunkChan) - 1 /\ Head(chunkChan) = chunkChan[1]
      /\ \A i \in 1 .. Len(Tail(chunkChan)) : Tail(chunkChan)[i] = chunkChan[i + 1]
      /\ InChan(chunkChan) = {Head(chunkChan)} \cup InChan(Tail(chunkChan)) /\ Tail(chunkChan) \in Seq(ChunkResult)
  BY <1>2, TailChan
<1>4. Unwritten \ Ends \subseteq Unwritten' /\ Flowing' \subseteq Flowing /\ Written' = Written
  <2>1. ~Submit /\ ~Return /\ ConsumerStep
    BY <1>2 DEF Submit, Return, ConsumerStep
  <2> QED BY <2>1, ConsumerFlow DEF ChunksKept, ChunksFlow
<1>5. (Covered => Covered') /\ (AllRead' <=> AllRead) /\ (GoneMeansEnd => GoneMeansEnd')
      /\ (ShortIsLast => ShortIsLast') /\ Goroutines' = Goroutines
  <2>1. Covered => Covered'
    BY <1>1, <1>4, CoveredStays
  <2> QED BY <1>1, <2>1 DEF AllRead, GoneMeansEnd, Gone, Goroutines, ShortIsLast
<1>6. Healthy' => Healthy /\ Head(chunkChan) # ReadError
  BY <1>1, ChunkFacts DEF Healthy, IsEnd
<1>7. NothingLost'
  BY <1>1, <1>2, <1>5, <1>6, NothingLostIs, ChunkFacts DEF SuccessInv, Healthy, IsEnd
<1>8. EndIsLast'
  <2>1. {ReadError, ReadDone}' = {ReadError, ReadDone}
    BY DEF ReadError, ReadDone, NoChunk
  <2>2. ASSUME NEW i \in 1 .. Len(chunkChan'), chunkChan'[i] \in {ReadError, ReadDone}
        PROVE  i = Len(chunkChan') /\ reader'.st = "closed"
    <3>1. i + 1 \in 1 .. Len(chunkChan) /\ chunkChan[i + 1] = chunkChan'[i]
      BY <1>1, <1>3
    <3>2. i + 1 = Len(chunkChan) /\ reader.st = "closed"
      BY <2>2, <3>1 DEF EndIsLast, SuccessInv
    <3>3. Len(chunkChan') = Len(chunkChan) - 1 /\ i \in Nat /\ Len(chunkChan) \in Nat
      BY <1>1, <1>3
    <3>4. i = Len(chunkChan')
      BY <3>2, <3>3
    <3> QED BY <1>1, <3>2, <3>4
  <2> QED BY <2>1, <2>2 DEF EndIsLast
<1>9. ReadDone \in Unwritten' => ReadDone \in Unwritten
  <2>1. InChan(chunkChan)' = InChan(Tail(chunkChan))
    BY <1>1 DEF InChan
  <2>2. InChan(jobChan)' = InChan(jobChan) /\ \A x : JobsAt(x)' = JobsAt(x)
    BY <1>1 DEF InChan, JobsAt, Goroutines
  <2>3. pc' = "submit" => inHand' # ReadDone
    BY <1>1, ReceiveDoes, ChunkFacts DEF IsEnd
  <2> QED BY <1>1, <1>3, <2>1, <2>2, <2>3, Places
<1>10. pc' = "wait" /\ Healthy' => reader'.st = "closed" /\ chunkChan' = <<>> /\ AllRead'
  <2> SUFFICES ASSUME pc' = "wait", Healthy' PROVE reader'.st = "closed" /\ chunkChan' = <<>> /\ AllRead'
    OBVIOUS
  <2>1. Head(chunkChan) = ReadDone
    BY <1>1, <1>6
  <2>2. 1 \in 1 .. Len(chunkChan) /\ chunkChan[1] = ReadDone
    BY <1>3, <2>1
  <2>3. Len(chunkChan) = 1 /\ reader.st = "closed"
    BY <2>2 DEF EndIsLast, SuccessInv
  <2>4. Tail(chunkChan) = <<>>
    <3>1. Tail(chunkChan) \in Seq(ChunkResult) /\ Len(Tail(chunkChan)) = 0
      BY <1>3, <2>3
    <3> QED BY <3>1, EmptySeq
  <2>5. ReadDone \in Unwritten
    BY <1>3, <2>1, Places
  <2>6. AllRead
    BY <1>2, <2>5, NothingLostIs DEF SuccessInv
  <2> QED BY <1>1, <1>5, <2>3, <2>4, <2>6
<1>11. EndIsEnd'
  BY <1>2, <1>5, <1>9, <1>10, NothingLostIs DEF SuccessInv
<1>12. JobsOpen' /\ SuccessMeansAllWritten'
  <2>1. pc' # "loop" /\ (pc' = "submit" => UNCHANGED loopErr)
    BY <1>1, ChunkFacts
  <2>2. Running' = Running
    BY DEF Running
  <2> QED BY <1>1, <1>2, <1>5, <2>1, <2>2 DEF SuccessInv, JobsOpen, SuccessMeansAllWritten
<1> QED BY <1>7, <1>8, <1>11, <1>12 DEF SuccessInv

LEMMA SubmitSuccess ==
  ASSUME TypeOK, SuccessInv, Submit
  PROVE  SuccessInv'
<1>1. /\ \/ pc' = "loop" /\ UNCHANGED loopErr
         \/ poolDone /\ pc' = "wait" /\ loopErr' = (writeErr \/ ctxDone)
      /\ UNCHANGED <<target, saved, attempt, reader, chunkChan, ack, ctxDone, jobsClosed, ackChan, worker,
                     workers, poolDone, writeErr, totalWritten>>
  BY SubmitDoes
<1>2. pc = "submit" /\ pc \in Running /\ ~jobsClosed /\ ~loopErr /\ Goroutines # {} /\ Goroutines' = Goroutines
  BY <1>1 DEF Submit, Running, SuccessInv, JobsOpen, Goroutines
<1>3. Healthy' => Healthy
  BY <1>1, <1>2 DEF Healthy
<1>4. pc' = "wait" => ~Healthy'
  <2>1. pc' = "wait" => poolDone
    BY <1>1
  <2> QED BY <1>2, <1>3, <2>1, NothingLostIs DEF SuccessInv
<1>5. pc' = "loop" => Unwritten \ Ends \subseteq Unwritten'
  <2>1. ~Return /\ ConsumerStep
    BY <1>2 DEF Return, ConsumerStep
  <2> QED BY <2>1, ConsumerFlow DEF ChunksKept
<1>6. pc' = "loop" /\ Covered => Covered'
  BY <1>1, <1>5, CoveredStays
<1>7. (AllRead' <=> AllRead) /\ (ShortIsLast => ShortIsLast')
  BY <1>1 DEF AllRead, ShortIsLast
<1>8. pc \in Running /\ Healthy => \A g \in Goroutines : ~Gone(g)
  BY <1>2, NothingLostIs DEF SuccessInv, GoneMeansEnd
<1>9. Healthy' => GoneMeansEnd'
  BY <1>1, <1>2, <1>3, <1>8 DEF GoneMeansEnd, Gone
<1>10. NothingLost'
  BY <1>1, <1>2, <1>3, <1>4, <1>6, <1>9, NothingLostIs DEF SuccessInv
<1>11. EndIsLast'
  BY <1>1 DEF EndIsLast, SuccessInv
<1>12. ReadDone \in Unwritten' => ReadDone \in Unwritten
  <2>1. \A x : JobsAt(x)' = JobsAt(x)
    BY <1>1 DEF JobsAt, Goroutines
  <2>2. InChan(chunkChan)' = InChan(chunkChan)
    BY <1>1 DEF InChan
  <2>3. InChan(jobChan)' \subseteq InChan(jobChan) \cup {inHand}
    BY SubmitDoes
  <2> QED BY <1>1, <1>2, <2>1, <2>2, <2>3, Places
<1>13. EndIsEnd'
  BY <1>2, <1>4, <1>7, <1>12, NothingLostIs DEF SuccessInv
<1>14. JobsOpen' /\ SuccessMeansAllWritten'
  <2>1. Running' = Running
    BY DEF Running
  <2> QED BY <1>1, <1>2, <2>1 DEF JobsOpen, SuccessMeansAllWritten
<1> QED BY <1>10, <1>11, <1>13, <1>14 DEF SuccessInv

LEMMA WaitSuccess ==
  ASSUME TypeOK, SuccessInv, Wait \/ Return
  PROVE  SuccessInv'
<1>1. /\ UNCHANGED <<target, attempt, reader, chunkChan, inHand, loopErr, ack, ctxDone>> /\ pc = "wait"
      /\ UNCHANGED <<jobChan, ackChan, worker, workers, poolDone, writeErr, totalWritten>>
      /\ jobsClosed' = jobsClosed \/ jobsClosed'
  BY DEF Wait, CloseJobs, Return, jobVars, poolVars
<1>2. Healthy' = Healthy /\ pc \in Running /\ Goroutines' = Goroutines
  BY <1>1 DEF Healthy, Running, Goroutines
<1>3. \A c : c \in Unwritten' <=> c \in Unwritten
  <2>1. /\ InChan(chunkChan)' = InChan(chunkChan)
        /\ InChan(jobChan)' = InChan(jobChan) /\ \A x : JobsAt(x)' = JobsAt(x)
    BY <1>1 DEF InChan, JobsAt, Goroutines
  <2>2. pc' # "submit"
    BY <1>1 DEF Wait, Return, jobVars
  <2> QED BY <1>1, <2>1, <2>2, Places
<1>4. (Covered => Covered') /\ (AllRead' <=> AllRead) /\ (ShortIsLast => ShortIsLast')
  BY <1>1, <1>3, CoveredStays DEF AllRead, ShortIsLast
<1>5. EndIsLast'
  BY <1>1 DEF EndIsLast, SuccessInv
<1>6. CASE Wait
  <2>1. pc' = pc /\ jobsClosed'
    BY <1>6 DEF Wait, CloseJobs, jobVars
  <2>2. GoneMeansEnd => GoneMeansEnd'
    BY <1>1, <1>2, <2>1 DEF GoneMeansEnd, Gone
  <2>3. NothingLost'
    BY <1>1, <1>2, <1>4, <2>1, <2>2, NothingLostIs DEF SuccessInv
  <2>4. EndIsEnd'
    BY <1>1, <1>2, <1>3, <1>4, <2>1, NothingLostIs DEF SuccessInv
  <2>5. JobsOpen' /\ SuccessMeansAllWritten'
    BY <1>1, <1>2, <2>1 DEF SuccessInv, JobsOpen, SuccessMeansAllWritten
  <2> QED BY <1>5, <2>3, <2>4, <2>5 DEF SuccessInv
<1>7. CASE Return
  <2>1. Drained /\ pc' \in {"ok", "failed"} /\ (pc' = "ok" => ~loopErr /\ ~writeErr)
    BY <1>7 DEF Return
  <2>2. pc' \notin Running
    BY <2>1 DEF Running
  <2>3. NothingLost' /\ EndIsEnd'
    BY <1>4, <2>1, <2>2, NothingLostIs DEF SuccessInv
  <2>4. JobsOpen'
    BY <2>1 DEF JobsOpen, Running
  <2>5. SuccessMeansAllWritten'
    <3> SUFFICES ASSUME pc' = "ok", ~ctxDone, NEW n \in JobRows PROVE n \in target
      BY <1>1 DEF SuccessMeansAllWritten
    <3>1. Healthy
      BY <2>1 DEF Healthy
    <3>2. Covered /\ GoneMeansEnd /\ reader.st = "closed" /\ chunkChan = <<>> /\ AllRead
      BY <1>1, <1>2, <3>1, NothingLostIs DEF SuccessInv
    <3>3. InChan(jobChan) = {} /\ JobsAt("write") = {}
      BY <1>2, <2>1, <3>2, PoolEmpty DEF SuccessInv, JobsOpen
    <3>4. InChan(chunkChan) = {}
      BY <3>2, EmptyChan
    <3>5. \A c : c \notin Unwritten
      BY <1>1, <3>2, <3>3, <3>4, Places
    <3> QED BY <3>2, <3>5 DEF Covered, AllRead
  <2> QED BY <1>5, <2>3, <2>4, <2>5 DEF SuccessInv
<1> QED BY <1>6, <1>7

\* Where a worker's step leaves the workers and the channel that they read.
LEMMA WorkerPool ==
  ASSUME TypeOK, NEW g \in Goroutines, WorkerStep(g)
  PROVE  /\ Goroutines' = Goroutines /\ UNCHANGED jobsClosed /\ (writeErr => writeErr')
         /\ \A h \in Goroutines : h # g => worker'[h] = worker[h]
         /\ \/ TakeJob(g) /\ jobChan # <<>> /\ UNCHANGED <<poolDone, writeErr>> /\ (~poolDone => ~Gone(g)')
            \/ JobsEnd(g) /\ UNCHANGED <<poolDone, writeErr, jobChan>> /\ jobsClosed /\ jobChan = <<>>
            \/ SendAck(g) /\ UNCHANGED <<poolDone, writeErr, jobChan>> /\ (~poolDone => ~Gone(g)')
            \/ Write(g) /\ UNCHANGED <<poolDone, writeErr, jobChan>> /\ ~Gone(g)'
            \/ WriteFails(g) /\ writeErr'
<1>1. worker \in [Goroutines -> WorkerState] /\ JobsHeld /\ NoJob \in Chunk \cup {NoJob}
  BY TypeFacts
<1>2. ASSUME NEW st \in {"idle", "write", "ack", "gone"}, NEW m \in Chunk \cup {NoJob}, SetWorker(g, st, m)
      PROVE  /\ Goroutines' = Goroutines /\ (Gone(g)' <=> st = "gone")
             /\ \A h \in Goroutines : h # g => worker'[h] = worker[h]
  BY <1>1, <1>2, WorkerMoves DEF Gone
<1>3. CASE TakeJob(g)
  <2>1. /\ UNCHANGED <<jobsClosed, poolDone, writeErr>> /\ jobChan # <<>> /\ Head(jobChan) \in Chunk
        /\ \/ poolDone /\ SetWorker(g, "gone", NoJob)
           \/ ~poolDone /\ SetWorker(g, "write", Head(jobChan))
    BY <1>3, TakeJobDoes
  <2> QED BY <1>1, <1>2, <1>3, <2>1
<1>4. CASE JobsEnd(g)
  <2>1. /\ UNCHANGED <<jobsClosed, poolDone, writeErr, jobChan>> /\ jobChan = <<>> /\ jobsClosed
        /\ SetWorker(g, "gone", NoJob)
    BY <1>4 DEF JobsEnd
  <2> QED BY <1>1, <1>2, <1>4, <2>1
<1>5. CASE SendAck(g)
  <2>1. /\ UNCHANGED <<jobsClosed, poolDone, writeErr, jobChan>>
        /\ \/ SetWorker(g, "idle", NoJob)
           \/ poolDone /\ SetWorker(g, "gone", NoJob)
    BY <1>5, SendAckDoes
  <2> QED BY <1>1, <1>2, <1>5, <2>1
<1>6. CASE Write(g)
  <2>1. /\ UNCHANGED <<jobsClosed, poolDone, writeErr, jobChan>> /\ worker[g].st = "write"
        /\ SetWorker(g, "ack", worker[g].job) \/ SetWorker(g, "idle", NoJob)
    BY <1>6 DEF Write, WriteReturns
  <2>2. worker[g].job \in Chunk
    BY <1>1, <2>1 DEF JobsHeld
  <2> QED BY <1>1, <1>2, <1>6, <2>1, <2>2
<1>7. CASE WriteFails(g)
  <2>1. UNCHANGED <<jobsClosed, jobChan>> /\ writeErr' /\ SetWorker(g, "gone", NoJob)
    BY <1>7 DEF WriteFails, WriteReturnsError
  <2> QED BY <1>1, <1>2, <1>7, <2>1
<1> QED BY <1>3, <1>4, <1>5, <1>6, <1>7 DEF WorkerStep

LEMMA WorkerSuccess ==
  ASSUME TypeOK, SuccessInv, NEW g \in Goroutines, WorkerStep(g)
  PROVE  SuccessInv'
<1>1. /\ target \subseteq target' /\ Flowing' \subseteq Flowing
      /\ UNCHANGED <<saved, attempt, pc, reader, chunkChan, inHand, loopErr, ack, ctxDone>>
      /\ \/ \A c \in Unwritten : c \in Unwritten' \/ c.rows \subseteq target'
         \/ TakeJob(g) /\ poolDone
         \/ WriteFails(g)
  BY WorkerFlow DEF ChunksFlow
<1>2. /\ Goroutines' = Goroutines /\ UNCHANGED jobsClosed /\ (writeErr => writeErr')
      /\ \A h \in Goroutines : h # g => worker'[h] = worker[h]
      /\ \/ TakeJob(g) /\ jobChan # <<>> /\ UNCHANGED <<poolDone, writeErr>> /\ (~poolDone => ~Gone(g)')
         \/ JobsEnd(g) /\ UNCHANGED <<poolDone, writeErr, jobChan>> /\ jobsClosed /\ jobChan = <<>>
         \/ SendAck(g) /\ UNCHANGED <<poolDone, writeErr, jobChan>> /\ (~poolDone => ~Gone(g)')
         \/ Write(g) /\ UNCHANGED <<poolDone, writeErr, jobChan>> /\ ~Gone(g)'
         \/ WriteFails(g) /\ writeErr'
  BY WorkerPool
<1>3. Healthy' => Healthy
  BY <1>1, <1>2 DEF Healthy
<1>4. WriteFails(g) => ~Healthy'
  <2>1. WriteFails(g) => writeErr'
    BY DEF WriteFails, WriteReturnsError
  <2> QED BY <2>1 DEF Healthy
<1>5. (AllRead' <=> AllRead) /\ (ShortIsLast => ShortIsLast')
  BY <1>1 DEF AllRead, ShortIsLast
<1>6. ASSUME pc \in Running, Healthy' PROVE ~poolDone' /\ Covered' /\ GoneMeansEnd'
  <2>1. Healthy /\ ~poolDone /\ Covered /\ GoneMeansEnd /\ ~WriteFails(g)
    BY <1>3, <1>4, <1>6, NothingLostIs DEF SuccessInv
  <2>2. ~poolDone'
    BY <1>2, <2>1
  <2>3. Covered'
    <3>1. \A c \in Unwritten \ Ends : c \in Unwritten' \/ c.rows \subseteq target'
      BY <1>1, <2>1
    <3> QED BY <1>1, <2>1, <3>1, CoveredStays
  <2>4. GoneMeansEnd'
    <3> SUFFICES ASSUME NEW h \in Goroutines, Gone(h)' PROVE jobsClosed' /\ jobChan' = <<>>
      BY <1>2 DEF GoneMeansEnd
    <3>1. h # g => Gone(h)
      BY <1>2 DEF Gone
    <3>2. h # g => jobsClosed /\ jobChan = <<>>
      BY <2>1, <3>1 DEF GoneMeansEnd
    <3> QED BY <1>2, <2>1, <3>2
  <2> QED BY <2>2, <2>3, <2>4
<1>7. NothingLost'
  BY <1>1, <1>6, NothingLostIs
<1>8. ReadDone \in Unwritten' => ReadDone \in Unwritten
  <2>1. InChan(chunkChan)' = InChan(chunkChan)
    BY <1>1, JobStays
  <2>2. TypeOK'
    BY WorkerTypes
  <2>3. JobsAt("write")' \subseteq Chunk /\ InChan(jobChan)' \subseteq Chunk
    <3>1. jobChan' \in Seq(Chunk) /\ JobsHeld'
      BY <2>2 DEF TypeOK, JobsHeld
    <3>2. Len(jobChan') \in Nat /\ \A i \in 1 .. Len(jobChan') : jobChan'[i] \in Chunk
      BY <3>1, ElementOfSeq, LenProperties
    <3> QED BY <3>1, <3>2 DEF JobsAt, JobsHeld, InChan
  <2>4. ReadDone \notin Chunk
    BY ChunkFacts
  <2> QED BY <1>1, <2>1, <2>3, <2>4, Places
<1>9. EndIsEnd'
  BY <1>1, <1>3, <1>5, <1>8, NothingLostIs DEF SuccessInv
<1>10. EndIsLast'
  BY <1>1 DEF EndIsLast, SuccessInv
<1>11. JobsOpen' /\ SuccessMeansAllWritten'
  <2>1. Running' = Running
    BY DEF Running
  <2> QED BY <1>1, <1>2, <2>1 DEF SuccessInv, JobsOpen, SuccessMeansAllWritten
<1> QED BY <1>7, <1>9, <1>10, <1>11 DEF SuccessInv

\* A step that leaves alone all that a success depends on, or cancels the attempt.
LEMMA QuietSuccess ==
  ASSUME SuccessInv, Unwritten' = Unwritten,
         UNCHANGED <<target, pc, reader, chunkChan, loopErr, jobChan, jobsClosed, worker, writeErr>>,
         ctxDone' = ctxDone \/ (ctxDone' /\ pc # "ok"), poolDone' = poolDone \/ ctxDone'
  PROVE  SuccessInv'
<1>1. (Healthy' => Healthy) /\ Goroutines' = Goroutines
  BY DEF Healthy, Goroutines
<1>2. /\ Covered => Covered'
      /\ AllRead' <=> AllRead
      /\ GoneMeansEnd => GoneMeansEnd'
      /\ ShortIsLast => ShortIsLast'
  BY <1>1 DEF Covered, AllRead, GoneMeansEnd, Gone, ShortIsLast
<1>3. NothingLost' /\ EndIsEnd'
  BY <1>1, <1>2, NothingLostIs DEF SuccessInv, Healthy
<1>4. EndIsLast'
  BY DEF EndIsLast, SuccessInv
<1>5. JobsOpen' /\ SuccessMeansAllWritten'
  <2>1. Running' = Running
    BY DEF Running
  <2> QED BY <1>1, <2>1 DEF SuccessInv, JobsOpen, SuccessMeansAllWritten
<1> QED BY <1>3, <1>4, <1>5 DEF SuccessInv

LEMMA RestartSuccess ==
  ASSUME TypeOK, SafeInv', Execute \/ Crash
  PROVE  SuccessInv'
<1>1. PICK row \in Nat, st \in {"read", "closed"}, p \in {NewPool, NoPool} :
        /\ StartJob(row, st, p) /\ pc' \in {"loop", "crashed"} /\ (pc' = "loop" => p = NewPool)
  BY ExecuteDoes, CrashDoes
<1>2. /\ reader'.st = st /\ reader'.rowNum = row /\ chunkChan' = <<>> /\ loopErr' = FALSE /\ ack'.rowNum = row
      /\ jobChan' = <<>> /\ jobsClosed' = FALSE /\ poolDone' = FALSE
      /\ \A g \in Goroutines' : worker'[g].st = "idle"
      /\ p = NewPool => Goroutines' # {}
  BY <1>1, StartJobDoes
<1>3. \A c : c \notin Unwritten'
  BY <1>1, StartFlow
<1>4. Covered' /\ GoneMeansEnd' /\ ShortIsLast'
  <2>1. Covered'
    BY <1>2 DEF SafeInv, PrefixWritten, Covered
  <2> QED BY <1>1, <1>2, <2>1 DEF GoneMeansEnd, Gone, ShortIsLast
<1>5. NothingLost' /\ EndIsEnd'
  BY <1>1, <1>2, <1>3, <1>4, NothingLostIs
<1>6. EndIsLast'
  <2>1. Len(chunkChan') = 0
    BY <1>2, EmptyChan
  <2> QED BY <2>1 DEF EndIsLast
<1>7. JobsOpen' /\ SuccessMeansAllWritten'
  BY <1>1, <1>2 DEF JobsOpen, SuccessMeansAllWritten, Running
<1> QED BY <1>5, <1>6, <1>7 DEF SuccessInv

LEMMA SuccessStep ==
  ASSUME NoBlindTruncation, SafeInv, SuccessInv, [Next]_vars
  PROVE  SuccessInv'
<1>1. TypeOK /\ SafeInv'
  BY SafeStep DEF SafeInv
<1>2. CASE ConsumerStep
  BY <1>1, <1>2, ReceiveSuccess, SubmitSuccess, WaitSuccess DEF ConsumerStep
<1>3. CASE AckStep
  <2>1. /\ Unwritten' = Unwritten
        /\ UNCHANGED <<target, pc, reader, chunkChan, loopErr, ctxDone, jobChan, jobsClosed, worker, poolDone, writeErr>>
    BY <1>1, <1>3, AckFlow
  <2> QED BY <2>1, QuietSuccess
<1>4. CASE Cancel \/ UNCHANGED vars
  <2>1. /\ UNCHANGED <<target, pc, reader, chunkChan, inHand, loopErr, ack, jobChan, jobsClosed, worker, writeErr>>
        /\ ctxDone' = ctxDone \/ (ctxDone' /\ pc # "ok")
        /\ poolDone' = poolDone \/ ctxDone'
    BY <1>4 DEF Cancel, CancelPool, Running, vars, jobVars, poolVars
  <2>2. InChan(chunkChan)' = InChan(chunkChan) /\ InChan(jobChan)' = InChan(jobChan) /\ \A x : JobsAt(x)' = JobsAt(x)
    BY <2>1 DEF InChan, JobsAt, Goroutines
  <2>3. \A c : c \in Unwritten' <=> c \in Unwritten
    BY <2>1, <2>2, Places
  <2> QED BY <2>1, <2>3, QuietSuccess
<1>5. CASE ReaderStep
  BY <1>1, <1>5, ReaderSuccess
<1>6. ASSUME NEW g \in Goroutines, WorkerStep(g) PROVE SuccessInv'
  BY <1>1, <1>6, WorkerSuccess
<1>7. CASE Execute \/ Crash
  BY <1>1, <1>7, RestartSuccess
<1> QED BY <1>2, <1>3, <1>4, <1>5, <1>6, <1>7 DEF Next, Terminated

LEMMA SuccessInit == Init => SuccessInv
<1> SUFFICES ASSUME Init PROVE SuccessInv
  OBVIOUS
<1>1. pc = "idle" /\ reader.st = "closed" /\ chunkChan = <<>>
  BY DEF Init
<1>2. Len(chunkChan) = 0
  BY <1>1, EmptyChan
<1>3. ShortIsLast /\ EndIsLast
  BY <1>1, <1>2 DEF ShortIsLast, EndIsLast
<1> QED BY <1>1, <1>3, NothingLostIs DEF SuccessInv, JobsOpen, SuccessMeansAllWritten, Running

\* Under the same hypothesis, when Execute returns no error, and its context has not been
\* cancelled, every row of the job is in the target, whatever earlier attempts wrote, lost
\* or left unfinished.
THEOREM RowNumberSuccess ==
  ASSUME NoBlindTruncation
  PROVE  Spec => []SuccessMeansAllWritten
<1>1. Init => SafeInv /\ SuccessInv
  BY SafeInit, SuccessInit
<1>2. SafeInv /\ SuccessInv /\ [Next]_vars => (SafeInv /\ SuccessInv)'
  BY SafeStep, SuccessStep
<1>3. SuccessInv => SuccessMeansAllWritten
  BY DEF SuccessInv
<1> QED BY <1>1, <1>2, <1>3, PTL DEF Spec
=============================================================================
