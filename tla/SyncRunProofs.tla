--------------------------- MODULE SyncRunProofs ---------------------------
(***************************************************************************)
(* Theorems about SyncRun, for every table, every number of runs and every *)
(* history of clients; nothing is assumed about the configurations.        *)
(***************************************************************************)
EXTENDS SyncRun, FiniteSetTheorems, WellFoundedInduction, TLAPS

Dates == {d \in Int : NoDate <= d /\ d <= clock}
Moments == {d \in Int : NoSync <= d /\ d <= clock}

JobTypes ==
  /\ job.start \in Moments
  /\ job.from \in Moments
  /\ job.from = NoSync \/ pc = "validate" \/ job.from = lastSync
  /\ job.last \in Nat /\ job.upTo \in Nat /\ job.rows \in Nat
  /\ job.chunk.key \in Rows \cup {NoKey} /\ job.chunk.version \in Nat
  /\ job = [start |-> job.start, from |-> job.from, last |-> job.last, upTo |-> job.upTo,
            chunk |-> [key |-> job.chunk.key, version |-> job.chunk.version], rows |-> job.rows]

SyncTypes ==
  /\ source \in [Rows -> [version : Nat, date : Dates]]
  /\ target \in [Rows -> Nat]
  /\ clock \in Nat /\ lastSync \in Moments
  /\ run.last \in Nat /\ run.rows \in Nat
  /\ run = [status |-> run.status, hash |-> run.hash, task |-> run.task,
            last |-> run.last, rows |-> run.rows]
  /\ pc \in {"down", "clean", "copy", "complete", "sync", "validate"}
  /\ JobTypes

\* A row of the target is one of the source.
NothingInvented == \A r \in Rows : target[r] # Missing => source[r].version # Missing

\* The target has nothing of a row, or what the source has now.
Fresh(r) == target[r] = Missing \/ target[r] = source[r].version

SyncedRowsFresh ==
  \A r \in Rows : source[r].version # Missing /\ source[r].date < lastSync => Fresh(r)

\* What the writer has is what the source had; and still has, unless the row has
\* changed since the job was built.
ChunkFresh ==
  job.chunk # NoRow =>
    /\ pc = "copy" /\ job.chunk.key \in Rows
    /\ job.chunk.version # Missing
    /\ source[job.chunk.key].version # Missing
    /\ source[job.chunk.key].date < job.start \/ source[job.chunk.key].date < lastSync
         => job.chunk.version = source[job.chunk.key].version

\* The reader is beyond row r, or does not want it.
Passed(r) == r <= job.last \/ r > job.upTo \/ source[r].date < job.from

Old(r) == source[r].version # Missing /\ source[r].date < job.start

PassedRowsFresh ==
  pc = "copy" => \A r \in Rows : Old(r) /\ Passed(r) => Fresh(r) \/ job.chunk.key = r

LoadedRowsFresh ==
  pc \in {"complete", "sync"} => \A r \in Rows : Old(r) => Fresh(r)

\* A load that does not go on from another's progress starts before the first row.
StartsBefore == pc = "clean" => job.last = NoKey

FreshInv ==
  /\ NothingInvented
  /\ ChunkFresh
  /\ ~continued => SyncedRowsFresh /\ PassedRowsFresh /\ LoadedRowsFresh /\ StartsBefore

SyncInv == SyncTypes /\ FreshInv

-----------------------------------------------------------------------------
(* The sets of rows. *)

LEMMA RowsFacts ==
  /\ Cardinality(Rows) \in Nat
  /\ \A r \in Rows : r \in Nat \ {0} /\ r <= Cardinality(Rows)
<1>1. Cardinality(Rows) \in Nat
  BY SyncAssumption, FS_CardinalityType
<1>2. Rows = 1 .. Cardinality(Rows)
  BY SyncAssumption
<1>3. \A k \in Nat : \A r \in 1 .. k : r \in Nat \ {0} /\ r <= k
  OBVIOUS
<1> QED BY <1>1, <1>2, <1>3

\* A non-empty set of rows has a first row.
LEMMA FirstRow ==
  ASSUME NEW T \in SUBSET Rows, T # {}
  PROVE  \E r \in T : \A x \in T : r <= x
<1>1. T \subseteq Nat
  BY RowsFacts
<1>2. IsWellFoundedOn({p \in Nat \X Nat : p[1] < p[2]}, Nat)
  BY NatLessThanWellFounded DEF OpToRel
<1>3. PICK m \in T : \A x \in T : ~(<<x, m>> \in {p \in Nat \X Nat : p[1] < p[2]})
  BY <1>1, <1>2, WFMin
<1>4. \A x \in T : ~(x < m)
  BY <1>1, <1>3
<1> QED BY <1>1, <1>4

\* And a last row: counted from the end of the table, it is the first.
LEMMA LastRow ==
  ASSUME NEW T \in SUBSET Rows, T # {}
  PROVE  \E r \in T : \A x \in T : x <= r
<1> DEFINE n == Cardinality(Rows)
           U == {n + 1 - r : r \in T}
<1>1. n \in Nat /\ Rows = 1 .. n
  BY RowsFacts, SyncAssumption
<1>2. U \in SUBSET Rows /\ U # {}
  BY <1>1
<1>3. PICK m \in U : \A x \in U : m <= x
  BY <1>2, FirstRow
<1>4. PICK r \in T : m = n + 1 - r
  BY <1>3
<1>5. \A x \in T : n + 1 - r <= n + 1 - x
  BY <1>3, <1>4
<1>6. \A x \in T : x \in Nat /\ r \in Nat
  BY <1>1
<1>7. \A x \in T : x <= r
  BY <1>1, <1>5, <1>6
<1> QED BY <1>7

LEMMA RowSets ==
  /\ InSource \in SUBSET Rows
  /\ RowsLeft \in SUBSET InSource
  /\ \A versions : Present(versions) \in SUBSET Rows
BY DEF InSource, RowsLeft, Present

\* The largest key that Execute asks for.
LEMMA UpToFacts ==
  ASSUME NEW upTo,
         upTo = IF InSource = {} THEN NoKey
                ELSE CHOOSE r \in InSource : \A x \in InSource : x <= r
  PROVE  /\ upTo \in Nat
         /\ \A r \in InSource : r <= upTo
<1>1. CASE InSource = {}
  BY <1>1 DEF NoKey
<1>2. CASE InSource # {}
  <2>1. \E r \in InSource : \A x \in InSource : x <= r
    BY <1>2, LastRow, RowSets
  <2>2. upTo \in InSource /\ \A x \in InSource : x <= upTo
    BY <1>2, <2>1
  <2> QED BY <2>2, RowSets, RowsFacts
<1> QED BY <1>1, <1>2

\* The row that ReadChunk reads.
LEMMA ReadFacts ==
  ASSUME RowsLeft # {}, NEW r, r = CHOOSE x \in RowsLeft : \A y \in RowsLeft : x <= y
  PROVE  r \in RowsLeft /\ r \in Rows /\ \A y \in RowsLeft : r <= y
<1>1. \E x \in RowsLeft : \A y \in RowsLeft : x <= y
  BY FirstRow, RowSets
<1>2. r \in RowsLeft /\ \A y \in RowsLeft : r <= y
  BY <1>1
<1> QED BY <1>2, RowSets

\* Where the target has as many rows as the source, and none that the source has not, it
\* has them all.
LEMMA SameCountSameRows ==
  ASSUME NothingInvented, SameCount
  PROVE  Present(target) = InSource
<1>1. Present(target) \in SUBSET InSource
  BY DEF NothingInvented, Present, InSource
<1>2. IsFiniteSet(InSource)
  BY SyncAssumption, RowSets, FS_Subset
<1> QED BY <1>1, <1>2, FS_Subset DEF SameCount


-----------------------------------------------------------------------------
(* The types. *)

LEMMA NewJobFacts ==
  ASSUME NEW config, NEW last, NEW rows, NEW j, j = NewJob(config, last, rows)
  PROVE  /\ j.start \in {clock, NoSync} /\ j.from \in {lastSync, NoSync}
         /\ j.last = last /\ j.rows = rows /\ j.upTo = NoKey /\ j.chunk = NoRow
         /\ j = [start |-> j.start, from |-> j.from, last |-> j.last, upTo |-> j.upTo,
                 chunk |-> NoRow, rows |-> j.rows]
BY DEF NewJob, NoJob

\* The same, for a job in the state after a step that keeps the clock and the sync time.
LEMMA NewJobTypes ==
  ASSUME SyncTypes, NEW config, NEW last \in Nat, NEW rows \in Nat,
         job' = NewJob(config, last, rows), UNCHANGED <<clock, lastSync>>
  PROVE  JobTypes'
<1>1. /\ job'.start \in {clock, NoSync} /\ job'.from \in {lastSync, NoSync}
      /\ job'.last = last /\ job'.rows = rows /\ job'.upTo = NoKey /\ job'.chunk = NoRow
      /\ job' = [start |-> job'.start, from |-> job'.from, last |-> job'.last,
                 upTo |-> job'.upTo, chunk |-> NoRow, rows |-> job'.rows]
  BY NewJobFacts
<1>2. /\ NoRow.key = NoKey /\ NoRow.version = Missing
      /\ NoRow = [key |-> NoRow.key, version |-> NoRow.version]
  BY DEF NoRow
<1>3. clock \in Nat /\ lastSync \in Moments /\ NoSync \in Moments /\ clock \in Moments
  BY DEF SyncTypes, Moments, NoSync
<1>4. Moments' = Moments
  BY DEF Moments
<1> QED BY <1>1, <1>2, <1>3, <1>4 DEF JobTypes, NoKey, Missing

\* The job that there is when there is none.
LEMMA NoJobTypes ==
  ASSUME clock \in Nat, job = NoJob
  PROVE  JobTypes
BY DEF JobTypes, NoJob, NoRow, NoKey, NoSync, Missing, Moments

LEMMA TypesInit == Init => SyncTypes
<1> SUFFICES ASSUME Init PROVE SyncTypes
  OBVIOUS
<1>1. JobTypes
  BY NoJobTypes DEF Init
<1>2. source \in [Rows -> [version : Nat, date : Dates]]
  BY DEF Init, Dates, NoDate, Missing
<1> QED BY <1>1, <1>2 DEF Init, SyncTypes, NoRun, NoRows, Moments, NoSync, NoKey, Missing

\* A step that keeps the job.
LEMMA JobKept ==
  ASSUME SyncTypes, job' = job, clock' \in Nat, clock <= clock',
         (lastSync' = lastSync /\ pc' # "validate" /\ pc # "validate") \/ pc' = "validate"
  PROVE  JobTypes'
<1>1. \A d \in Moments : d \in Moments'
  BY DEF SyncTypes, Moments
<1> QED BY <1>1 DEF SyncTypes, JobTypes

\* A step after which there is no process.
LEMMA ProcessEndsTypes ==
  ASSUME SyncTypes, ProcessEnds, UNCHANGED <<source, target, clock, lastSync>>,
         run'.last \in Nat, run'.rows \in Nat,
         run' = [status |-> run'.status, hash |-> run'.hash, task |-> run'.task,
                 last |-> run'.last, rows |-> run'.rows]
  PROVE  SyncTypes'
<1>1. JobTypes'
  BY DEF SyncTypes, ProcessEnds, JobTypes, NoJob, NoRow, NoKey, NoSync, Missing, Moments
<1>2. Dates' = Dates /\ Moments' = Moments
  BY DEF Dates, Moments
<1> QED BY <1>1, <1>2 DEF SyncTypes, ProcessEnds

LEMMA ClientSource ==
  ASSUME NEW D, source \in [Rows -> [version : Nat, date : D]], clock \in D, NoDate \in D,
         Client
  PROVE  source' \in [Rows -> [version : Nat, date : D]]
<1>1. CASE \E r \in Rows : ClientUpdate(r)
  BY <1>1 DEF ClientUpdate
<1>2. CASE \E r \in Rows : ClientInsert(r, clock) \/ ClientInsert(r, NoDate)
  BY <1>2 DEF ClientInsert
<1>3. CASE Tick
  BY <1>3 DEF Tick
<1> QED BY <1>1, <1>2, <1>3 DEF Client

LEMMA ClientTypes ==
  ASSUME SyncTypes, Client
  PROVE  SyncTypes'
<1>1. clock' \in Nat /\ clock <= clock'
  BY DEF Client, SyncTypes, ClientUpdate, ClientInsert, Tick
<1>2. UNCHANGED <<target, lastSync, run, pc, cfg, job, continued>>
  BY DEF Client, ClientUpdate, ClientInsert, Tick
<1>3. JobTypes'
  <2>1. \A d \in Moments : d \in Moments'
    BY <1>1 DEF SyncTypes, Moments
  <2> QED BY <1>2, <2>1 DEF SyncTypes, JobTypes
<1>4. lastSync \in Moments'
  BY <1>1 DEF SyncTypes, Moments
<1>5. \A d \in Dates : d \in Dates'
  BY <1>1 DEF SyncTypes, Dates
<1>6. clock \in Dates' /\ NoDate \in Dates'
  BY <1>1 DEF SyncTypes, Dates, NoDate
<1>7. source' \in [Rows -> [version : Nat, date : Dates']]
  <2>1. source \in [Rows -> [version : Nat, date : Dates']]
    BY <1>5 DEF SyncTypes
  <2> QED BY <1>6, <2>1, ClientSource
<1> QED BY <1>1, <1>2, <1>3, <1>4, <1>7 DEF SyncTypes

LEMMA StartTypes ==
  ASSUME SyncTypes, Start
  PROVE  SyncTypes'
<1>1. UNCHANGED <<source, clock, lastSync>> /\ Dates' = Dates /\ Moments' = Moments
  BY DEF Start, Run, Resume, database, Dates, Moments
<1>2. ASSUME NEW file, NEW machine, NEW flags, Run(file, machine, flags)
      PROVE  SyncTypes'
  <2>1. JobTypes'
    BY <1>1, <1>2, NewJobTypes DEF Run, NoKey
  <2>2. /\ run'.last = NoKey /\ run'.rows = 0
        /\ run' = [status |-> run'.status, hash |-> run'.hash, task |-> run'.task,
                   last |-> run'.last, rows |-> run'.rows]
    BY <1>2 DEF Run, NoRun
  <2>3. target' \in [Rows -> Nat]
    BY <1>2 DEF Run, NoRows, Missing, SyncTypes
  <2> QED BY <1>1, <1>2, <2>1, <2>2, <2>3 DEF SyncTypes, Run, NoKey
<1>3. ASSUME NEW file, NEW machine, NEW force \in BOOLEAN, Resume(file, machine, force)
      PROVE  SyncTypes'
  <2> DEFINE config == ApplyDefaults(file, machine)
  <2>1. CASE run.task = "success" /\ SameCount
    <3>1. UNCHANGED <<target, run, job>> /\ pc' = "validate"
      BY <1>3, <2>1 DEF Resume
    <3>2. JobTypes'
      BY <1>1, <3>1, JobKept DEF SyncTypes
    <3> QED BY <1>1, <3>1, <3>2 DEF SyncTypes
  <2>2. CASE ~(run.task = "success" /\ SameCount) /\ StartsOver
    <3>1. /\ target' = NoRows /\ pc' = "clean" /\ job' = NewJob(config, NoKey, 0)
          /\ run' = [run EXCEPT !.last = NoKey, !.rows = 0]
      BY <1>3, <2>2 DEF Resume
    <3>2. JobTypes'
      BY <1>1, <3>1, NewJobTypes DEF NoKey
    <3>3. target' \in [Rows -> Nat]
      BY <3>1 DEF NoRows, Missing
    <3> QED BY <1>1, <3>1, <3>2, <3>3 DEF SyncTypes, NoKey
  <2>3. CASE ~(run.task = "success" /\ SameCount) /\ ~StartsOver
    <3>1. /\ UNCHANGED <<target, run>> /\ pc' = "clean"
          /\ job' = NewJob(config, run.last, run.rows)
      BY <1>3, <2>3 DEF Resume
    <3>2. JobTypes'
      BY <1>1, <3>1, NewJobTypes DEF SyncTypes
    <3> QED BY <1>1, <3>1, <3>2 DEF SyncTypes
  <2> QED BY <2>1, <2>2, <2>3
<1> QED BY <1>2, <1>3 DEF Start

LEMMA ProcessTypes ==
  ASSUME SyncTypes, Process
  PROVE  SyncTypes'
<1>1. UNCHANGED <<source, clock>> /\ Dates' = Dates /\ Moments' = Moments
  BY DEF Process, database, Dates, Moments, Execute, ReadChunk, WriteChunk, SaveProgress,
         JobSucceeds, MarkTaskComplete, UpdateSyncTimestamp, CompleteRun, Interrupt
<1>2. CASE Execute
  <2>1. target' \in [Rows -> Nat]
    BY <1>2 DEF Execute, SyncTypes, Missing
  <2>2. /\ job'.upTo = IF InSource = {} THEN NoKey
                       ELSE CHOOSE r \in InSource : \A x \in InSource : x <= r
        /\ job' = [job EXCEPT !.upTo = job'.upTo]
    BY <1>2 DEF Execute, SyncTypes, JobTypes
  <2>3. job'.upTo \in Nat
    BY <2>2, UpToFacts
  <2>4. UNCHANGED lastSync /\ pc = "clean" /\ pc' = "copy" /\ UNCHANGED run
    BY <1>2 DEF Execute
  <2>5. JobTypes'
    BY <1>1, <2>2, <2>3, <2>4 DEF SyncTypes, JobTypes
  <2> QED BY <1>1, <2>1, <2>4, <2>5 DEF SyncTypes
<1>3. CASE ReadChunk
  <2> DEFINE r == CHOOSE x \in RowsLeft : \A y \in RowsLeft : x <= y
  <2>1. /\ job' = [job EXCEPT !.last = r, !.chunk = [key |-> r, version |-> source[r].version]]
        /\ UNCHANGED <<target, lastSync, run, pc>> /\ pc = "copy"
    BY <1>3 DEF ReadChunk
  <2>2. r \in Rows
    BY <1>3, ReadFacts DEF ReadChunk
  <2>3. r \in Nat /\ source[r].version \in Nat
    BY <2>2, RowsFacts DEF SyncTypes
  <2> HIDE DEF r
  <2>4. JobTypes'
    BY <1>1, <2>1, <2>2, <2>3 DEF SyncTypes, JobTypes
  <2> QED BY <1>1, <2>1, <2>4 DEF SyncTypes
<1>4. CASE WriteChunk
  <2>1. target' \in [Rows -> Nat]
    BY <1>4 DEF WriteChunk, SyncTypes, JobTypes
  <2>2. /\ job' = [start |-> job.start, from |-> job.from, last |-> job.last,
                   upTo |-> job.upTo, chunk |-> NoRow, rows |-> job.rows + 1]
        /\ UNCHANGED <<lastSync, pc>>
    BY <1>4 DEF WriteChunk, SyncTypes, JobTypes
  <2>3. /\ NoRow.key = NoKey /\ NoRow.version \in Nat
        /\ NoRow = [key |-> NoRow.key, version |-> NoRow.version]
    BY DEF NoRow, Missing
  <2>4. JobTypes'
    BY <1>1, <2>2, <2>3 DEF SyncTypes, JobTypes
  <2> QED BY <1>1, <1>4, <2>1, <2>4 DEF WriteChunk, SyncTypes
<1>5. CASE SaveProgress
  <2>1. JobTypes'
    BY <1>1, <1>5 DEF SaveProgress, SyncTypes, JobTypes
  <2>2. /\ run'.last \in Nat /\ run'.rows \in Nat
        /\ run' = [status |-> run'.status, hash |-> run'.hash, task |-> run'.task,
                   last |-> run'.last, rows |-> run'.rows]
    BY <1>5 DEF SaveProgress, SyncTypes, JobTypes
  <2> QED BY <1>1, <1>5, <2>1, <2>2 DEF SaveProgress, SyncTypes
<1>6. CASE JobSucceeds
  <2>1. JobTypes'
    BY <1>1, <1>6 DEF JobSucceeds, SyncTypes, JobTypes
  <2>2. /\ run'.last \in Nat /\ run'.rows \in Nat
        /\ run' = [status |-> run'.status, hash |-> run'.hash, task |-> run'.task,
                   last |-> run'.last, rows |-> run'.rows]
    BY <1>6 DEF JobSucceeds, SyncTypes, JobTypes
  <2> QED BY <1>1, <1>6, <2>1, <2>2 DEF JobSucceeds, SyncTypes
<1>7. CASE MarkTaskComplete
  <2>1. JobTypes'
    BY <1>1, <1>7 DEF MarkTaskComplete, SyncTypes, JobTypes
  <2>2. /\ run'.last \in Nat /\ run'.rows \in Nat
        /\ run' = [status |-> run'.status, hash |-> run'.hash, task |-> run'.task,
                   last |-> run'.last, rows |-> run'.rows]
    BY <1>7 DEF MarkTaskComplete, SyncTypes
  <2> QED BY <1>1, <1>7, <2>1, <2>2 DEF MarkTaskComplete, SyncTypes
<1>8. CASE UpdateSyncTimestamp
  <2>1. JobTypes'
    BY <1>1, <1>8 DEF UpdateSyncTimestamp, SyncTypes, JobTypes
  <2>2. lastSync' \in Moments
    BY <1>8 DEF UpdateSyncTimestamp, SyncTypes, JobTypes
  <2> QED BY <1>1, <1>8, <2>1, <2>2 DEF UpdateSyncTimestamp, SyncTypes
<1>9. CASE CompleteRun
  <2>1. /\ run'.last = NoKey /\ run'.rows = 0
        /\ run' = [status |-> run'.status, hash |-> run'.hash, task |-> run'.task,
                   last |-> run'.last, rows |-> run'.rows]
    BY <1>9 DEF CompleteRun, NoRun
  <2> QED BY <1>1, <1>9, <2>1, ProcessEndsTypes DEF CompleteRun, NoKey
<1>10. CASE Interrupt
  BY <1>1, <1>10, ProcessEndsTypes DEF Interrupt, SyncTypes
<1> QED BY <1>2, <1>3, <1>4, <1>5, <1>6, <1>7, <1>8, <1>9, <1>10 DEF Process

LEMMA TypesStep == SyncTypes /\ [Next]_vars => SyncTypes'
<1> SUFFICES ASSUME SyncTypes, [Next]_vars PROVE SyncTypes'
  OBVIOUS
<1>1. CASE Quiet \/ UNCHANGED vars
  <2>1. UNCHANGED vars
    BY <1>1 DEF Quiet
  <2> QED BY <2>1 DEF vars, SyncTypes, JobTypes, Dates, Moments
<1> QED BY <1>1, ClientTypes, StartTypes, ProcessTypes DEF Next

-----------------------------------------------------------------------------
(* What the target has. *)

LEMMA FreshInit == Init => FreshInv
BY DEF Init, FreshInv, NothingInvented, ChunkFresh, SyncedRowsFresh, PassedRowsFresh,
       LoadedRowsFresh, StartsBefore, NoRows, NoJob, Missing, Fresh

\* A client makes a row newer than every sync time; the target has no row that the source
\* has not.
LEMMA ClientRows ==
  ASSUME SyncTypes, FreshInv, Client
  PROVE  /\ UNCHANGED <<target, lastSync, run, pc, job, continued>>
         /\ \A r \in Rows : source[r].version # Missing => source'[r].version # Missing
         /\ \A r \in Rows :
              \/ source'[r] = source[r]
              \/ /\ source'[r].date >= lastSync /\ source'[r].date >= job.start
                 /\ source'[r].version # Missing
              \/ target[r] = Missing /\ source[r].version = Missing
<1>1. /\ clock >= lastSync /\ clock >= job.start
      /\ clock \in Int /\ lastSync \in Int /\ job.start \in Int
  BY DEF SyncTypes, JobTypes, Moments
<1>2. \A x \in Rows : source[x].version \in Nat
  BY DEF SyncTypes
<1>3. ASSUME NEW r \in Rows, ClientUpdate(r)
      PROVE  /\ \A x \in Rows : x # r => source'[x] = source[x]
             /\ source'[r].date = clock /\ source'[r].version # Missing
             /\ UNCHANGED <<target, lastSync, run, pc, job, continued>>
  BY <1>2, <1>3 DEF ClientUpdate, SyncTypes, Missing
<1>4. ASSUME NEW r \in Rows, NEW date, ClientInsert(r, date)
      PROVE  /\ \A x \in Rows : x # r => source'[x] = source[x]
             /\ source[r].version = Missing /\ source'[r].version # Missing
             /\ UNCHANGED <<target, lastSync, run, pc, job, continued>>
  BY <1>4 DEF ClientInsert, SyncTypes, Missing
<1>5. CASE \E r \in Rows : ClientUpdate(r)
  BY <1>1, <1>3, <1>5
<1>6. CASE \E r \in Rows : ClientInsert(r, clock) \/ ClientInsert(r, NoDate)
  BY <1>4, <1>6 DEF FreshInv, NothingInvented
<1>7. CASE Tick
  BY <1>7 DEF Tick
<1> QED BY <1>5, <1>6, <1>7 DEF Client

LEMMA ClientFresh ==
  ASSUME SyncTypes, FreshInv, Client
  PROVE  FreshInv'
<1>1. /\ UNCHANGED <<target, lastSync, run, pc, job, continued>>
      /\ \A r \in Rows : source[r].version # Missing => source'[r].version # Missing
      /\ \A r \in Rows :
           \/ source'[r] = source[r]
           \/ /\ source'[r].date >= lastSync /\ source'[r].date >= job.start
              /\ source'[r].version # Missing
           \/ target[r] = Missing /\ source[r].version = Missing
  BY ClientRows
<1>2. SyncTypes'
  BY ClientTypes
<1>3. /\ \A r \in Rows : source'[r].date \in Int /\ source[r].date \in Int
      /\ lastSync \in Int /\ job.start \in Int /\ job.from \in Int
  BY <1>2 DEF SyncTypes, JobTypes, Dates, Moments
<1>4. \A r \in Rows :
        /\ source'[r].date < lastSync \/ source'[r].date < job.start
        /\ ~(target[r] = Missing /\ source[r].version = Missing)
        => source'[r] = source[r]
  BY <1>1, <1>3
<1>5. NothingInvented'
  BY <1>1 DEF FreshInv, NothingInvented
<1>6. ChunkFresh'
  <2> SUFFICES ASSUME job.chunk # NoRow PROVE ChunkFresh'
    BY <1>1 DEF ChunkFresh
  <2> DEFINE k == job.chunk.key
  <2>1. /\ pc = "copy" /\ k \in Rows /\ job.chunk.version # Missing
        /\ source[k].version # Missing
        /\ source[k].date < job.start \/ source[k].date < lastSync
             => job.chunk.version = source[k].version
    BY DEF FreshInv, ChunkFresh
  <2>2. source'[k].version # Missing
    BY <1>1, <2>1
  <2>3. source'[k].date < job.start \/ source'[k].date < lastSync
          => job.chunk.version = source'[k].version
    BY <1>4, <2>1
  <2> QED BY <1>1, <2>1, <2>2, <2>3 DEF ChunkFresh
<1>7. ASSUME ~continued
      PROVE  (SyncedRowsFresh /\ PassedRowsFresh /\ LoadedRowsFresh /\ StartsBefore)'
  <2>1. SyncedRowsFresh'
    BY <1>1, <1>4, <1>7 DEF FreshInv, SyncedRowsFresh, Fresh
  <2>2. PassedRowsFresh'
    BY <1>1, <1>4, <1>7 DEF FreshInv, PassedRowsFresh, Old, Passed, Fresh
  <2>3. LoadedRowsFresh'
    BY <1>1, <1>4, <1>7 DEF FreshInv, LoadedRowsFresh, Old, Fresh
  <2>4. StartsBefore'
    BY <1>1, <1>7 DEF FreshInv, StartsBefore
  <2> QED BY <2>1, <2>2, <2>3, <2>4
<1> QED BY <1>1, <1>5, <1>6, <1>7 DEF FreshInv

\* A process starts over with an empty table, or with the table as it is.
LEMMA StartFresh ==
  ASSUME SyncTypes, FreshInv, Start
  PROVE  FreshInv'
<1>1. UNCHANGED <<source, clock, lastSync>>
  BY DEF Start, Run, Resume, database
<1>2. target' = NoRows \/ target' = target
  BY DEF Start, Run, Resume
<1>3. pc = "down" /\ (pc' = "clean" \/ pc' = "validate")
  BY DEF Start, Run, Resume
<1>4. /\ job'.chunk = NoRow \/ job' = job
      /\ ~continued' /\ pc' = "clean" => job'.last = NoKey
  <2>1. \/ job' = job /\ pc' = "validate"
        \/ \E config, last, rows :
             job' = NewJob(config, last, rows) /\ (last = NoKey \/ continued')
    BY DEF Start, Run, Resume
  <2>2. ASSUME NEW config, NEW last, NEW rows, job' = NewJob(config, last, rows)
        PROVE  job'.chunk = NoRow /\ job'.last = last
    BY <2>2, NewJobFacts
  <2> QED BY <2>1, <2>2
<1>5. continued' = TRUE \/ continued' = continued
  BY DEF Start, Run, Resume
<1>7. NothingInvented'
  BY <1>1, <1>2 DEF FreshInv, NothingInvented, NoRows
<1>8. ChunkFresh'
  BY <1>3, <1>4 DEF FreshInv, ChunkFresh
<1>9. ASSUME ~continued'
      PROVE  (SyncedRowsFresh /\ PassedRowsFresh /\ LoadedRowsFresh /\ StartsBefore)'
  <2>1. SyncedRowsFresh'
    BY <1>1, <1>2, <1>5, <1>9 DEF FreshInv, SyncedRowsFresh, Fresh, NoRows
  <2>2. PassedRowsFresh' /\ LoadedRowsFresh'
    BY <1>3 DEF PassedRowsFresh, LoadedRowsFresh
  <2>3. StartsBefore'
    BY <1>4, <1>9 DEF StartsBefore
  <2> QED BY <2>1, <2>2, <2>3
<1> QED BY <1>7, <1>8, <1>9 DEF FreshInv

\* Where the reader starts, the target has nothing of the rows beyond the largest key.
LEMMA ExecuteFresh ==
  ASSUME SyncTypes, FreshInv, Execute
  PROVE  FreshInv'
<1>1. /\ UNCHANGED <<source, clock, lastSync, run, continued>>
      /\ pc = "clean" /\ pc' = "copy"
  BY DEF Execute, database
<1>2. \A r \in Rows : target'[r] = target[r] \/ target'[r] = Missing
  BY DEF Execute, SyncTypes
<1>3. /\ job'.upTo = IF InSource = {} THEN NoKey
                     ELSE CHOOSE r \in InSource : \A x \in InSource : x <= r
      /\ job'.start = job.start /\ job'.from = job.from /\ job'.last = job.last
      /\ job'.chunk = job.chunk
  BY DEF Execute, SyncTypes, JobTypes
<1>4. job'.upTo \in Nat /\ \A r \in InSource : r <= job'.upTo
  BY <1>3, UpToFacts
<1>5. job.chunk = NoRow
  BY <1>1 DEF FreshInv, ChunkFresh
<1>6. NothingInvented'
  BY <1>1, <1>2 DEF FreshInv, NothingInvented
<1>7. ChunkFresh'
  BY <1>3, <1>5 DEF ChunkFresh
<1>8. ASSUME ~continued
      PROVE  (SyncedRowsFresh /\ PassedRowsFresh /\ LoadedRowsFresh /\ StartsBefore)'
  <2>1. /\ SyncedRowsFresh
        /\ job.last = NoKey
    BY <1>1, <1>8 DEF FreshInv, StartsBefore
  <2>2. SyncedRowsFresh'
    BY <1>1, <1>2, <2>1 DEF SyncedRowsFresh, Fresh
  <2>3. ASSUME NEW r \in Rows, Old(r)', Passed(r)'
        PROVE  Fresh(r)'
    <3>1. r \in InSource /\ r <= job'.upTo
      BY <1>1, <1>4, <2>3 DEF Old, InSource
    <3>2. r \in Nat \ {0} /\ ~(r <= NoKey)
      BY RowsFacts DEF NoKey
    <3>3. source[r].date < job.from
      BY <1>1, <1>3, <1>4, <2>1, <2>3, <3>1, <3>2 DEF Passed
    <3>4. job.from = lastSync
      <4>1. source[r].date \in Int /\ NoDate <= source[r].date
        BY DEF SyncTypes, Dates
      <4>2. job.from # NoSync
        BY <3>3, <4>1 DEF NoSync, NoDate
      <4> QED BY <1>1, <4>2 DEF SyncTypes, JobTypes
    <3>5. Fresh(r)
      BY <1>1, <2>1, <2>3, <3>3, <3>4 DEF SyncedRowsFresh, Old
    <3> QED BY <1>1, <1>2, <3>5 DEF Fresh
  <2>4. PassedRowsFresh'
    BY <2>3 DEF PassedRowsFresh
  <2>5. LoadedRowsFresh' /\ StartsBefore'
    BY <1>1 DEF LoadedRowsFresh, StartsBefore
  <2> QED BY <2>2, <2>4, <2>5
<1> QED BY <1>1, <1>6, <1>7, <1>8 DEF FreshInv

\* A row that the filter leaves out is one of before the sync time.
LEMMA UnfilteredFresh ==
  ASSUME SyncTypes, FreshInv, ~continued, pc = "copy",
         NEW r \in Rows, source[r].version # Missing, source[r].date < job.from \/ ~Filtered(r)
  PROVE  Fresh(r)
<1>1. source[r].date \in Int /\ NoDate <= source[r].date /\ job.from \in Int
  BY DEF SyncTypes, JobTypes, Dates, Moments
<1>2. source[r].date < job.from
  BY <1>1 DEF Filtered
<1>3. job.from = lastSync
  BY <1>1, <1>2 DEF SyncTypes, JobTypes, NoSync, NoDate
<1> QED BY <1>2, <1>3 DEF FreshInv, SyncedRowsFresh

\* Between the last row and the next one to read, there is nothing to read.
LEMMA ReadFresh ==
  ASSUME SyncTypes, FreshInv, ReadChunk
  PROVE  FreshInv'
<1> DEFINE r == CHOOSE x \in RowsLeft : \A y \in RowsLeft : x <= y
<1>1. /\ UNCHANGED <<source, clock, lastSync, run, continued, target, pc>>
      /\ pc = "copy" /\ job.chunk = NoRow
  BY DEF ReadChunk, database
<1>2. /\ job'.chunk = [key |-> r, version |-> source[r].version]
      /\ job'.last = r
      /\ job'.start = job.start /\ job'.from = job.from /\ job'.upTo = job.upTo
  BY DEF ReadChunk, SyncTypes, JobTypes
<1>3. r \in RowsLeft /\ r \in Rows /\ \A y \in RowsLeft : r <= y
  BY ReadFacts DEF ReadChunk
<1> HIDE DEF r
<1>4. source[r].version # Missing /\ job'.chunk.key = r /\ job'.chunk.version = source[r].version
  BY <1>2, <1>3 DEF RowsLeft, InSource
<1>5. NothingInvented'
  BY <1>1 DEF FreshInv, NothingInvented
<1>6. ChunkFresh'
  BY <1>1, <1>3, <1>4 DEF ChunkFresh
<1>7. ASSUME ~continued
      PROVE  (SyncedRowsFresh /\ PassedRowsFresh /\ LoadedRowsFresh /\ StartsBefore)'
  <2>1. SyncedRowsFresh'
    BY <1>1, <1>7 DEF FreshInv, SyncedRowsFresh, Fresh
  <2>2. ASSUME NEW x \in Rows, Old(x)', Passed(x)', x # r
        PROVE  Fresh(x)
    <3>1. Old(x)
      BY <1>1, <1>2, <2>2 DEF Old
    <3>2. CASE Passed(x)
      <4>1. job.chunk.key # x
        BY <1>1, RowsFacts DEF NoRow, NoKey
      <4> QED BY <1>1, <1>7, <3>1, <3>2, <4>1 DEF FreshInv, PassedRowsFresh
    <3>3. CASE ~Passed(x)
      <4>1. x \in Nat /\ r \in Nat /\ job.last \in Nat /\ job.upTo \in Nat
        BY <1>3, RowsFacts DEF SyncTypes, JobTypes
      <4>2. /\ job.last < x /\ x <= job.upTo /\ ~(source[x].date < job.from)
            /\ x <= r \/ x > job.upTo \/ source[x].date < job.from
        BY <1>1, <1>2, <2>2, <3>3, <4>1 DEF Passed
      <4>3. x < r
        BY <2>2, <4>1, <4>2
      <4>4. x \notin RowsLeft
        BY <1>3, <4>1, <4>3
      <4>5. ~Filtered(x)
        BY <3>1, <4>2, <4>4 DEF RowsLeft, InSource, Old
      <4> QED BY <1>1, <1>7, <3>1, <4>5, UnfilteredFresh DEF Old
    <3> QED BY <3>2, <3>3
  <2>3. PassedRowsFresh'
    BY <1>1, <1>4, <2>2 DEF PassedRowsFresh, Fresh
  <2>4. LoadedRowsFresh' /\ StartsBefore'
    BY <1>1 DEF LoadedRowsFresh, StartsBefore
  <2> QED BY <2>1, <2>3, <2>4
<1> QED BY <1>1, <1>5, <1>6, <1>7 DEF FreshInv

\* The written row is the source's, or one that has changed since.
LEMMA WriteFresh ==
  ASSUME SyncTypes, FreshInv, WriteChunk
  PROVE  FreshInv'
<1> DEFINE k == job.chunk.key
<1>1. /\ UNCHANGED <<source, clock, lastSync, run, continued, pc>>
      /\ pc = "copy" /\ job.chunk # NoRow
  BY DEF WriteChunk, database
<1>2. /\ k \in Rows /\ source[k].version # Missing
      /\ source[k].date < job.start \/ source[k].date < lastSync
           => job.chunk.version = source[k].version
  BY <1>1 DEF FreshInv, ChunkFresh
<1>3. /\ target'[k] = job.chunk.version
      /\ \A x \in Rows : x # k => target'[x] = target[x]
  BY <1>2 DEF WriteChunk, SyncTypes
<1>4. /\ job'.chunk = NoRow /\ job'.last = job.last
      /\ job'.start = job.start /\ job'.from = job.from /\ job'.upTo = job.upTo
  BY DEF WriteChunk, SyncTypes, JobTypes
<1> HIDE DEF k
<1>5. NothingInvented'
  BY <1>1, <1>2, <1>3 DEF FreshInv, NothingInvented
<1>6. ChunkFresh'
  BY <1>4 DEF ChunkFresh
<1>7. ASSUME ~continued
      PROVE  (SyncedRowsFresh /\ PassedRowsFresh /\ LoadedRowsFresh /\ StartsBefore)'
  <2>1. SyncedRowsFresh'
    BY <1>1, <1>2, <1>3, <1>7 DEF FreshInv, SyncedRowsFresh, Fresh
  <2>2. PassedRowsFresh'
    <3>1. ASSUME NEW x \in Rows, Old(x), Passed(x)
          PROVE  Fresh(x)'
      <4>1. CASE x = k
        BY <1>1, <1>2, <1>3, <3>1, <4>1 DEF Old, Fresh
      <4>2. CASE x # k
        <5>1. Fresh(x)
          BY <1>1, <1>7, <3>1, <4>2 DEF FreshInv, PassedRowsFresh, k
        <5> QED BY <1>1, <1>3, <4>2, <5>1 DEF Fresh
      <4> QED BY <4>1, <4>2
    <3> QED BY <1>1, <1>4, <3>1 DEF PassedRowsFresh, Old, Passed
  <2>3. LoadedRowsFresh' /\ StartsBefore'
    BY <1>1 DEF LoadedRowsFresh, StartsBefore
  <2> QED BY <2>1, <2>2, <2>3
<1> QED BY <1>1, <1>5, <1>6, <1>7 DEF FreshInv

\* A reader that has nothing left has passed every row.
LEMMA SucceedsFresh ==
  ASSUME SyncTypes, FreshInv, JobSucceeds
  PROVE  FreshInv'
<1>1. /\ UNCHANGED <<source, clock, lastSync, continued, target, job>>
      /\ pc = "copy" /\ pc' = "complete" /\ job.chunk = NoRow /\ RowsLeft = {}
  BY DEF JobSucceeds, database
<1>2. NothingInvented' /\ ChunkFresh'
  BY <1>1 DEF FreshInv, NothingInvented, ChunkFresh
<1>3. ASSUME ~continued
      PROVE  (SyncedRowsFresh /\ PassedRowsFresh /\ LoadedRowsFresh /\ StartsBefore)'
  <2>1. SyncedRowsFresh'
    BY <1>1, <1>3 DEF FreshInv, SyncedRowsFresh, Fresh
  <2>2. ASSUME NEW x \in Rows, Old(x)
        PROVE  Fresh(x)
    <3>1. CASE Passed(x)
      <4>1. job.chunk.key # x
        BY <1>1, RowsFacts DEF NoRow, NoKey
      <4> QED BY <1>1, <1>3, <2>2, <3>1, <4>1 DEF FreshInv, PassedRowsFresh
    <3>2. CASE ~Passed(x)
      <4>1. x \in Nat /\ job.last \in Nat /\ job.upTo \in Nat
        BY RowsFacts DEF SyncTypes, JobTypes
      <4>2. job.last < x /\ x <= job.upTo
        BY <3>2, <4>1 DEF Passed
      <4>3. ~Filtered(x)
        BY <1>1, <2>2, <4>2 DEF RowsLeft, InSource, Old
      <4> QED BY <1>1, <1>3, <2>2, <4>3, UnfilteredFresh DEF Old
    <3> QED BY <3>1, <3>2
  <2>3. LoadedRowsFresh'
    BY <1>1, <2>2 DEF LoadedRowsFresh, Old, Fresh
  <2>4. PassedRowsFresh' /\ StartsBefore'
    BY <1>1 DEF PassedRowsFresh, StartsBefore
  <2> QED BY <2>1, <2>3, <2>4
<1> QED BY <1>1, <1>2, <1>3 DEF FreshInv

\* The new sync time is that of the job.
LEMMA SyncFresh ==
  ASSUME SyncTypes, FreshInv, UpdateSyncTimestamp
  PROVE  FreshInv'
<1>1. /\ UNCHANGED <<source, clock, run, continued, target, job>>
      /\ pc = "sync" /\ pc' = "validate"
      /\ lastSync' = IF job.start = NoSync THEN lastSync ELSE job.start
  BY DEF UpdateSyncTimestamp, database
<1>2. job.chunk = NoRow
  BY <1>1 DEF FreshInv, ChunkFresh
<1>3. NothingInvented' /\ ChunkFresh'
  BY <1>1, <1>2 DEF FreshInv, NothingInvented, ChunkFresh
<1>4. ASSUME ~continued
      PROVE  (SyncedRowsFresh /\ PassedRowsFresh /\ LoadedRowsFresh /\ StartsBefore)'
  <2>1. CASE job.start = NoSync
    BY <1>1, <1>4, <2>1 DEF FreshInv, SyncedRowsFresh, Fresh, PassedRowsFresh,
       LoadedRowsFresh, StartsBefore
  <2>2. CASE job.start # NoSync
    BY <1>1, <1>4, <2>2 DEF FreshInv, LoadedRowsFresh, Old, SyncedRowsFresh, Fresh,
       PassedRowsFresh, StartsBefore
  <2> QED BY <2>1, <2>2
<1> QED BY <1>1, <1>3, <1>4 DEF FreshInv

LEMMA ProcessFresh ==
  ASSUME SyncTypes, FreshInv, Process
  PROVE  FreshInv'
<1>1. CASE SaveProgress
  <2>1. UNCHANGED <<source, clock, lastSync, continued, target, job, pc>>
    BY <1>1 DEF SaveProgress, database
  <2> QED BY <2>1 DEF FreshInv, NothingInvented, ChunkFresh, SyncedRowsFresh, PassedRowsFresh,
       LoadedRowsFresh, StartsBefore, Fresh, Old, Passed
<1>2. CASE MarkTaskComplete
  <2>1. /\ UNCHANGED <<source, clock, lastSync, continued, target, job>>
        /\ pc = "complete" /\ pc' = "sync"
    BY <1>2 DEF MarkTaskComplete, database
  <2> QED BY <2>1 DEF FreshInv, NothingInvented, ChunkFresh, SyncedRowsFresh, PassedRowsFresh,
       LoadedRowsFresh, StartsBefore, Fresh, Old
<1>3. CASE CompleteRun \/ Interrupt
  <2>1. /\ UNCHANGED <<source, clock, lastSync, continued, target>>
        /\ pc' = "down" /\ job' = NoJob
    BY <1>3 DEF CompleteRun, Interrupt, ProcessEnds, database
  <2>2. job'.chunk = NoRow
    BY <2>1 DEF NoJob
  <2> QED BY <2>1, <2>2 DEF FreshInv, NothingInvented, ChunkFresh, SyncedRowsFresh,
       PassedRowsFresh, LoadedRowsFresh, StartsBefore, Fresh
<1> QED BY <1>1, <1>2, <1>3, ExecuteFresh, ReadFresh, WriteFresh, SucceedsFresh, SyncFresh
        DEF Process

LEMMA SyncInvariant == Spec => []SyncInv
<1>1. Init => SyncInv
  BY TypesInit, FreshInit DEF SyncInv
<1>2. SyncInv /\ [Next]_vars => SyncInv'
  <2> SUFFICES ASSUME SyncInv, [Next]_vars PROVE FreshInv'
    BY TypesStep DEF SyncInv
  <2>1. CASE Quiet \/ UNCHANGED vars
    <3>1. UNCHANGED vars
      BY <2>1 DEF Quiet
    <3> QED BY <3>1 DEF vars, SyncInv, FreshInv, NothingInvented, ChunkFresh, SyncedRowsFresh,
         PassedRowsFresh, LoadedRowsFresh, StartsBefore, Fresh, Old, Passed
  <2> QED BY <2>1, ClientFresh, StartFresh, ProcessFresh DEF Next, SyncInv
<1> QED BY <1>1, <1>2, PTL DEF Spec

-----------------------------------------------------------------------------

\* Types of the state of an incremental load, at every step of clients, processes and crashes.
THEOREM SyncTypesHold == Spec => []SyncTypes
BY SyncInvariant, PTL DEF SyncInv

\* What steps other than CompleteRun do to the newest run.
LEMMA OtherRunSteps ==
  ASSUME [Next]_vars, ~CompleteRun
  PROVE  \/ run' = run
         \/ \E t : run' = [run EXCEPT !.task = t]
         \/ \E last, rows : run' = [run EXCEPT !.last = last, !.rows = rows]
         \/ \E hash : run' = [NoRun EXCEPT !.status = "running", !.hash = hash]
<1>1. CASE Client \/ Quiet \/ UNCHANGED vars
  BY <1>1 DEF Client, ClientUpdate, ClientInsert, Tick, Quiet, vars
<1>2. CASE Start
  BY <1>2 DEF Start, Run, Resume
<1>3. CASE SaveProgress \/ JobSucceeds \/ MarkTaskComplete
  BY <1>3 DEF SaveProgress, JobSucceeds, MarkTaskComplete
<1>4. CASE Execute \/ ReadChunk \/ WriteChunk \/ UpdateSyncTimestamp \/ Interrupt
  BY <1>4 DEF Execute, ReadChunk, WriteChunk, UpdateSyncTimestamp, Interrupt
<1> QED BY <1>1, <1>2, <1>3, <1>4 DEF Next, Process

\* A run that Validate (orchestrator/validator.go) lets be recorded as a success, whatever
\* clients change while it reads and however many runs were interrupted before it, leaves
\* the target with every change of before the sync time that the next buildDateFilter
\* (orchestrator/job_builder.go) filters by; as long as no load has continued another's progress.
THEOREM SuccessSynced == Spec => SuccessMeansSynced
<1>1. ASSUME SyncInv, [Next]_vars
      PROVE  [run.status = "running" /\ run'.status = "success" /\ ~continued
                => \A r \in Rows : Synced(r)]_vars
  <2> SUFFICES ASSUME run.status = "running", run'.status = "success", ~continued,
                      NEW r \in Rows
               PROVE  Synced(r)
    OBVIOUS
  <2>1. CompleteRun /\ SameCount
    <3>1. CASE CompleteRun
      BY <3>1 DEF CompleteRun, NoRun
    <3>2. CASE ~CompleteRun
      <4>1. \/ run' = run
            \/ \E t : run' = [run EXCEPT !.task = t]
            \/ \E last, rows : run' = [run EXCEPT !.last = last, !.rows = rows]
            \/ \E hash : run' = [NoRun EXCEPT !.status = "running", !.hash = hash]
        BY <1>1, <3>2, OtherRunSteps
      <4>2. run = [status |-> run.status, hash |-> run.hash, task |-> run.task,
                   last |-> run.last, rows |-> run.rows]
        BY <1>1 DEF SyncInv, SyncTypes
      <4>3. run'.status = "running"
        BY <4>1, <4>2 DEF NoRun
      <4> QED BY <4>3
    <3> QED BY <3>1, <3>2
  <2>2. Present(target) = InSource
    BY <1>1, <2>1, SameCountSameRows DEF SyncInv, FreshInv
  <2>3. source[r].version # Missing => target[r] # Missing
    BY <2>2 DEF Present, InSource
  <2> QED BY <1>1, <2>3 DEF SyncInv, FreshInv, SyncedRowsFresh, Fresh, Synced
<1> QED BY <1>1, SyncInvariant, PTL DEF Spec, SuccessMeansSynced

=============================================================================
