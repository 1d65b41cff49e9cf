-------------------------- MODULE TargetModeProofs --------------------------
(***************************************************************************)
(* Theorems about TargetMode and the Writers of the four drivers, for      *)
(* every set of tables, workers and batches, and for any number of faults, *)
(* of answers of the language model and of runs.                           *)
(***************************************************************************)
EXTENDS TargetMode, FiniteSetTheorems, WellFoundedInduction, TLAPS

-----------------------------------------------------------------------------
(* The types. *)

Versions == {"absent", "old", "new"}
IsTable(x) ==
  /\ x = [exists |-> x.exists, pk |-> x.pk, rows |-> x.rows, next |-> x.next, refs |-> x.refs]
  /\ x.exists \in BOOLEAN /\ x.pk \in BOOLEAN
  /\ x.rows \in [Keys -> Versions]
  /\ x.next \in Nat \ {0}
  /\ x.refs \subseteq Tables

IsStaging(x) == x = [exists |-> x.exists, rows |-> x.rows]

IsCall(x) ==
  /\ x = [pc |-> x.pc, pos |-> x.pos, tries |-> x.tries, err |-> x.err, calls |-> x.calls]
  /\ x.err \in BOOLEAN
  /\ x.pos \in Nat \ {0}

IsJob(j) ==
  /\ j = [table |-> j.table, what |-> j.what, step |-> j.step]
  /\ j.table \in Tables

DatabaseTypes ==
  /\ setting \in Settings
  /\ table = [t \in Tables |-> table[t]] /\ \A t \in Tables : IsTable(table[t])
  /\ staging = [w \in Workers |-> staging[w]] /\ \A w \in Workers : IsStaging(staging[w])
  /\ call = [w \in Workers |-> call[w]] /\ \A w \in Workers : IsCall(call[w])
  /\ faults \in Nat

RunTypes ==
  /\ run = [number |-> run.number, phase |-> run.phase, todo |-> run.todo, failed |-> run.failed]
  /\ run.failed \in BOOLEAN
  /\ \A j \in run.todo : IsJob(j)

\* What a cache may hold for its keys.
Caches == {c \in [CacheKeys -> Answers("create") \cup Answers("drop") \cup {NoAnswer}] :
             \A key \in CacheKeys : c[key] = NoAnswer \/ c[key] \in Answers(key[2])}

AnswerTypes ==
  /\ cache \in Caches
  /\ cacheFile = Unreadable \/ cacheFile \in Caches
  /\ saving = [key \in CacheKeys |-> saving[key]]
  /\ \A key \in CacheKeys : saving[key] = NotSaving \/ saving[key] \in Caches

TargetTypes == DatabaseTypes /\ RunTypes /\ AnswerTypes


-----------------------------------------------------------------------------
(* What the statements do to the tables. *)

LEMMA FourDrivers ==
  ASSUME setting \in Settings
  PROVE  Driver \in {"postgres", "mysql", "mssql", "oracle"}
BY TargetAssumption DEF Driver

Tabled(f) == f = [t \in Tables |-> f[t]] /\ \A t \in Tables : IsTable(f[t])
OthersSame(f, t) == \A u \in Tables : u # t => f[u] = table[u]

\* A table of which a field is set.
LEMMA FieldSet ==
  ASSUME NEW x, IsTable(x), NEW v
  PROVE  /\ v \in BOOLEAN => IsTable([x EXCEPT !.pk = v])
         /\ v \in [Keys -> Versions] => IsTable([x EXCEPT !.rows = v])
         /\ v \subseteq Tables => IsTable([x EXCEPT !.refs = v])
         /\ v \in Nat \ {0} => IsTable([x EXCEPT !.next = v])
<1>1. /\ x = [exists |-> x.exists, pk |-> x.pk, rows |-> x.rows, next |-> x.next, refs |-> x.refs]
      /\ x.exists \in BOOLEAN /\ x.pk \in BOOLEAN
      /\ x.rows \in [Keys -> Versions]
      /\ x.next \in Nat \ {0}
      /\ x.refs \subseteq Tables
  BY Zenon DEF IsTable
<1>2. ASSUME v \in BOOLEAN PROVE IsTable([x EXCEPT !.pk = v])
  <2> DEFINE y == [x EXCEPT !.pk = v]
  <2>1. /\ y.exists = x.exists /\ y.next = x.next /\ y.pk = v /\ y.rows = x.rows /\ y.refs = x.refs
        /\ y = [exists |-> y.exists, pk |-> y.pk, rows |-> y.rows, next |-> y.next, refs |-> y.refs]
    BY <1>1
  <2> HIDE DEF y
  <2>2. IsTable(y)
    BY <1>1, <1>2, <2>1, Zenon DEF IsTable
  <2> QED BY <2>2 DEF y
<1>3. ASSUME v \in [Keys -> Versions] PROVE IsTable([x EXCEPT !.rows = v])
  <2> DEFINE y == [x EXCEPT !.rows = v]
  <2>1. /\ y.exists = x.exists /\ y.next = x.next /\ y.pk = x.pk /\ y.rows = v /\ y.refs = x.refs
        /\ y = [exists |-> y.exists, pk |-> y.pk, rows |-> y.rows, next |-> y.next, refs |-> y.refs]
    BY <1>1
  <2> HIDE DEF y
  <2>2. IsTable(y)
    BY <1>1, <1>3, <2>1, Zenon DEF IsTable
  <2> QED BY <2>2 DEF y
<1>4. ASSUME v \subseteq Tables PROVE IsTable([x EXCEPT !.refs = v])
  <2> DEFINE y == [x EXCEPT !.refs = v]
  <2>1. /\ y.exists = x.exists /\ y.next = x.next /\ y.pk = x.pk /\ y.rows = x.rows /\ y.refs = v
        /\ y = [exists |-> y.exists, pk |-> y.pk, rows |-> y.rows, next |-> y.next, refs |-> y.refs]
    BY <1>1
  <2> HIDE DEF y
  <2>2. IsTable(y)
    BY <1>1, <1>4, <2>1, Zenon DEF IsTable
  <2> QED BY <2>2 DEF y
<1>5. ASSUME v \in Nat \ {0} PROVE IsTable([x EXCEPT !.next = v])
  <2> DEFINE y == [x EXCEPT !.next = v]
  <2>1. /\ y.exists = x.exists /\ y.next = v /\ y.pk = x.pk /\ y.rows = x.rows /\ y.refs = x.refs
        /\ y = [exists |-> y.exists, pk |-> y.pk, rows |-> y.rows, next |-> y.next, refs |-> y.refs]
    BY <1>1
  <2> HIDE DEF y
  <2>2. IsTable(y)
    BY <1>1, <1>5, <2>1, Zenon DEF IsTable
  <2> QED BY <2>2 DEF y
<1> QED BY <1>2, <1>3, <1>4, <1>5

LEMMA TwoFields ==
  ASSUME NEW x, NEW a, NEW b, NEW y, y = [x EXCEPT !.exists = a, !.pk = b],
         x = [exists |-> x.exists, pk |-> x.pk, rows |-> x.rows, next |-> x.next, refs |-> x.refs]
  PROVE  /\ y.exists = a /\ y.pk = b /\ y.rows = x.rows /\ y.next = x.next /\ y.refs = x.refs
         /\ y = [exists |-> y.exists, pk |-> y.pk, rows |-> y.rows, next |-> y.next, refs |-> y.refs]
OBVIOUS

LEMMA NoTableType ==
  /\ IsTable(NoTable)
  /\ \A pk \in BOOLEAN : /\ IsTable(EmptyTable(pk))
                         /\ EmptyTable(pk).exists = TRUE /\ EmptyTable(pk).pk = pk
                         /\ EmptyTable(pk).next = 1
                         /\ \A k \in Keys : EmptyTable(pk).rows[k] = "absent"
<1> DEFINE r == [k \in Keys |-> "absent"]
<1>1. r \in [Keys -> Versions] /\ \A k \in Keys : r[k] = "absent"
  BY DEF Versions
<1>2. /\ NoTable.exists = FALSE /\ NoTable.pk = FALSE /\ NoTable.rows = r /\ NoTable.next = 1
      /\ NoTable.refs = {}
      /\ NoTable = [exists |-> NoTable.exists, pk |-> NoTable.pk, rows |-> NoTable.rows,
                    next |-> NoTable.next, refs |-> NoTable.refs]
  BY DEF NoTable
<1> HIDE DEF r
<1>3. IsTable(NoTable)
  <2>1. FALSE \in BOOLEAN /\ {} \subseteq Tables /\ 1 \in Nat \ {0}
    OBVIOUS
  <2> QED BY <1>1, <1>2, <2>1, Zenon DEF IsTable
<1>4. ASSUME NEW pk \in BOOLEAN
      PROVE  /\ IsTable(EmptyTable(pk))
             /\ EmptyTable(pk).exists = TRUE /\ EmptyTable(pk).pk = pk
             /\ EmptyTable(pk).next = 1 /\ EmptyTable(pk).rows = r
  <2> DEFINE y == EmptyTable(pk)
  <2>1. /\ y.exists = TRUE /\ y.pk = pk /\ y.rows = r /\ y.next = 1 /\ y.refs = {}
        /\ y = [exists |-> y.exists, pk |-> y.pk, rows |-> y.rows, next |-> y.next, refs |-> y.refs]
    <3>1. y = [NoTable EXCEPT !.exists = TRUE, !.pk = pk]
      BY DEF EmptyTable
    <3> HIDE DEF y
    <3> QED BY <1>2, <3>1, TwoFields, Zenon
  <2> HIDE DEF y
  <2>2. TRUE \in BOOLEAN /\ {} \subseteq Tables /\ 1 \in Nat \ {0}
    OBVIOUS
  <2>3. IsTable(y)
    BY <1>1, <1>4, <2>1, <2>2, Zenon DEF IsTable
  <2> QED BY <2>1, <2>3 DEF y
<1> QED BY <1>1, <1>3, <1>4

LEMMA DropEffect ==
  ASSUME DatabaseTypes, NEW t \in Tables
  PROVE  Tabled(DropTable(t))
<1>1. Tabled(table)
  BY DEF DatabaseTypes, Tabled
<1>2. CASE Driver = "postgres"
  <2>1. DropTable(t) = [u \in Tables |-> IF u = t THEN NoTable
                                         ELSE [table[u] EXCEPT !.refs = @ \ {t}]]
    BY <1>2 DEF DropTable, PG!DropTable, PG!NoTable, NoTable
  <2>2. ASSUME NEW u \in Tables
        PROVE  IsTable([table[u] EXCEPT !.refs = @ \ {t}])
    <3>1. IsTable(table[u]) /\ table[u].refs \ {t} \subseteq Tables
      BY <1>1 DEF Tabled, IsTable
    <3> QED BY <3>1, FieldSet
  <2> QED BY <2>1, <2>2, NoTableType DEF Tabled
<1>3. CASE Driver # "postgres"
  <2>1. DropTable(t) = [table EXCEPT ![t] = NoTable]
    BY <1>3, FourDrivers DEF DatabaseTypes, DropTable, MY!DropTable, MS!DropTable, ORA!DropTable,
       MY!NoTable, MS!NoTable, ORA!NoTable, NoTable
  <2> QED BY <1>1, <2>1, NoTableType DEF Tabled
<1> QED BY <1>2, <1>3

LEMMA CreateEffect ==
  ASSUME DatabaseTypes, NEW t \in Tables, NEW withKey \in BOOLEAN
  PROVE  /\ Tabled(CreateTable(t, withKey)) /\ OthersSame(CreateTable(t, withKey), t)
         /\ CreateTable(t, withKey)[t] = EmptyTable(withKey)
<1>1. Tabled(table)
  BY DEF DatabaseTypes, Tabled
<1>2. CreateTable(t, withKey) = [table EXCEPT ![t] = EmptyTable(withKey)]
  BY FourDrivers DEF DatabaseTypes, CreateTable, PG!CreateTable, MY!CreateTable, MS!CreateTable,
     ORA!CreateTable, PG!EmptyTable, MY!EmptyTable, MS!EmptyTable, ORA!EmptyTable, EmptyTable,
     PG!NoTable, MY!NoTable, MS!NoTable, ORA!NoTable, NoTable
<1> QED BY <1>1, <1>2, NoTableType DEF Tabled, OthersSame

LEMMA PrimaryKeyEffect ==
  ASSUME DatabaseTypes, NEW t \in Tables
  PROVE  /\ Tabled(CreatePrimaryKey(t)) /\ OthersSame(CreatePrimaryKey(t), t)
         /\ \/ CreatePrimaryKey(t)[t] = [table[t] EXCEPT !.pk = TRUE]
            \/ Driver # "postgres" /\ CreatePrimaryKey(t)[t] = table[t]
<1>1. Tabled(table)
  BY DEF DatabaseTypes, Tabled
<1>2. CASE Driver = "postgres"
  <2>1. CreatePrimaryKey(t) = [table EXCEPT ![t].pk = TRUE]
    BY <1>2 DEF CreatePrimaryKey, PG!CreatePrimaryKey
  <2>2. IsTable([table[t] EXCEPT !.pk = TRUE])
    <3>1. IsTable(table[t]) /\ TRUE \in BOOLEAN
      BY <1>1 DEF Tabled
    <3> QED BY <3>1, FieldSet
  <2> QED BY <1>1, <2>1, <2>2 DEF Tabled, OthersSame
<1>3. CASE Driver # "postgres"
  <2>1. CreatePrimaryKey(t) = table
    BY <1>3, FourDrivers DEF DatabaseTypes, CreatePrimaryKey, MY!CreatePrimaryKey,
       MS!CreatePrimaryKey, ORA!CreatePrimaryKey
  <2> QED BY <1>1, <1>3, <2>1 DEF OthersSame
<1> QED BY <1>2, <1>3

\* A table but for its next identity value, and but for its foreign keys.
SameButNext(x, y) == x = [y EXCEPT !.next = x.next]
SameButRefs(x, y) == x = [y EXCEPT !.refs = x.refs]

LEMMA SetNext ==
  ASSUME DatabaseTypes, NEW t \in Tables, NEW n \in Nat \ {0}, NEW f, f = [table EXCEPT ![t].next = n]
  PROVE  /\ Tabled(f) /\ OthersSame(f, t)
         /\ f[t].next = n /\ SameButNext(f[t], table[t])
<1>1. Tabled(table)
  BY DEF DatabaseTypes, Tabled
<1>2. IsTable(table[t])
  BY <1>1 DEF Tabled
<1>3. /\ IsTable([table[t] EXCEPT !.next = n])
      /\ [table[t] EXCEPT !.next = n].next = n
  <2>1. [table[t] EXCEPT !.next = n].next = n
    BY <1>2 DEF IsTable
  <2> QED BY <1>2, <2>1, FieldSet
<1>4. f = [table EXCEPT ![t] = [table[t] EXCEPT !.next = n]]
  OBVIOUS
<1>5. Tabled(f) /\ OthersSame(f, t) /\ f[t] = [table[t] EXCEPT !.next = n]
  BY <1>1, <1>3, <1>4 DEF Tabled, OthersSame
<1> QED BY <1>3, <1>5 DEF SameButNext

LEMMA KeysFacts ==
  /\ Cardinality(Keys) \in Nat
  /\ \A k \in Keys : k \in Nat \ {0} /\ k <= Cardinality(Keys)
<1>1. Cardinality(Keys) \in Nat
  BY TargetAssumption, FS_CardinalityType
<1>2. Keys = 1 .. Cardinality(Keys)
  BY TargetAssumption
<1>3. \A n \in Nat : \A k \in 1 .. n : k \in Nat \ {0} /\ k <= n
  OBVIOUS
<1> QED BY <1>1, <1>2, <1>3

\* Keys that there are have a largest one: counted down from the last key, it is the first.
LEMMA LargestKey ==
  ASSUME NEW S \in SUBSET Keys, S # {}
  PROVE  \E k \in S : \A i \in S : i <= k
<1> DEFINE n == Cardinality(Keys)
           Less == {p \in Nat \X Nat : p[1] < p[2]}
           D == {n - k : k \in S}
<1>1. D \in SUBSET Nat /\ D # {} /\ n \in Nat
  BY KeysFacts
<1>2. IsWellFoundedOn(Less, Nat)
  BY NatLessThanWellFounded DEF OpToRel
<1>3. PICK m \in D : \A i \in D : ~(<<i, m>> \in Less)
  <2> HIDE DEF Less, D
  <2> QED BY <1>1, <1>2, WFMin
<1>4. \A i \in D : ~(i < m)
  BY <1>1, <1>3
<1>5. PICK k \in S : m = n - k
  BY <1>3
<1>6. ASSUME NEW i \in S PROVE i <= k
  <2>1. n - i \in D
    OBVIOUS
  <2>2. ~(n - i < m)
    BY <1>4, <2>1
  <2>3. i \in Nat /\ k \in Nat /\ n \in Nat
    BY <1>1, KeysFacts
  <2> HIDE DEF n, D
  <2> QED BY <1>5, <2>2, <2>3
<1> QED BY <1>5, <1>6

LEMMA MaxKey ==
  ASSUME NEW t \in Tables
  PROVE  /\ MaxKeyOf(t) \in Nat
         /\ \A k \in KeysOf(t) : k \in Nat /\ k <= MaxKeyOf(t)
<1>1. KeysOf(t) \in SUBSET Keys
  BY DEF KeysOf
<1>2. CASE KeysOf(t) = {}
  BY <1>2 DEF MaxKeyOf
<1>3. CASE KeysOf(t) # {}
  <2>1. \E k \in KeysOf(t) : \A i \in KeysOf(t) : i <= k
    BY <1>1, <1>3, LargestKey
  <2>2. MaxKeyOf(t) = CHOOSE k \in KeysOf(t) : \A j \in KeysOf(t) : j <= k
    BY <1>3 DEF MaxKeyOf
  <2>3. MaxKeyOf(t) \in KeysOf(t) /\ \A i \in KeysOf(t) : i <= MaxKeyOf(t)
    BY <2>1, <2>2
  <2> QED BY <1>1, <2>3, KeysFacts
<1> QED BY <1>2, <1>3

LEMMA SequenceEffect ==
  ASSUME DatabaseTypes, NEW t \in Tables
  PROVE  /\ Tabled(ResetSequence(t)) /\ OthersSame(ResetSequence(t), t)
         /\ SameButNext(ResetSequence(t)[t], table[t])
         /\ \/ Driver = "oracle" /\ ~setting.ownSequence
            \/ KeysOf(t) # {} /\ ResetSequence(t)[t].next = MaxKeyOf(t) + 1
            \/ KeysOf(t) = {} /\ Driver = "postgres" /\ ResetSequence(t)[t].next = 2
            \/ KeysOf(t) = {} /\ ResetSequence(t)[t].next = table[t].next
<1>1. Tabled(table)
  BY DEF DatabaseTypes, Tabled
<1>2. SameButNext(table[t], table[t]) /\ OthersSame(table, t)
  <2>1. [table[t] EXCEPT !.next = table[t].next] = table[t]
    <3>1. IsTable(table[t])
      BY <1>1 DEF Tabled
    <3> QED BY <3>1 DEF IsTable
  <2> QED BY <2>1 DEF SameButNext, OthersSame
<1> DEFINE m == MaxKeyOf(t) + 1
<1>3. m \in Nat \ {0} /\ 2 \in Nat \ {0}
  BY MaxKey
<1>4. CASE Driver = "postgres"
  <2>1. ResetSequence(t) = [table EXCEPT ![t].next = IF KeysOf(t) = {} THEN 2 ELSE m]
    BY <1>4 DEF ResetSequence, PG!ResetSequence, PG!KeysOf, PG!MaxKeyOf, KeysOf, MaxKeyOf
  <2> HIDE DEF m
  <2>2. CASE KeysOf(t) = {}
    <3>1. ResetSequence(t) = [table EXCEPT ![t].next = 2]
      BY <2>1, <2>2
    <3>2. /\ Tabled(ResetSequence(t)) /\ OthersSame(ResetSequence(t), t)
          /\ ResetSequence(t)[t].next = 2 /\ SameButNext(ResetSequence(t)[t], table[t])
      BY <1>3, <3>1, SetNext
    <3> QED BY <1>4, <2>2, <3>2
  <2>3. CASE KeysOf(t) # {}
    <3>1. ResetSequence(t) = [table EXCEPT ![t].next = m]
      BY <2>1, <2>3
    <3> QED BY <1>3, <2>3, <3>1, SetNext DEF m
  <2> QED BY <2>2, <2>3
<1>5. CASE Driver # "postgres"
  <2>1. /\ KeysOf(t) = {} => ResetSequence(t) = table
        /\ \/ Driver = "oracle" /\ ~setting.ownSequence /\ ResetSequence(t) = table
           \/ KeysOf(t) # {} => ResetSequence(t) = [table EXCEPT ![t].next = m]
    BY <1>5, FourDrivers DEF DatabaseTypes, ResetSequence, MY!ResetSequence, MY!KeysOf,
       MY!MaxKeyOf, MS!ResetSequence, MS!KeysOf, MS!MaxKeyOf, ORA!ResetSequence, ORA!KeysOf,
       ORA!MaxKeyOf, KeysOf, MaxKeyOf
  <2> HIDE DEF m
  <2>2. CASE KeysOf(t) = {}
    BY <1>1, <1>2, <2>1, <2>2 DEF m
  <2>3. CASE Driver = "oracle" /\ ~setting.ownSequence /\ ResetSequence(t) = table
    BY <1>1, <1>2, <2>3 DEF m
  <2>4. CASE KeysOf(t) # {} /\ ResetSequence(t) = [table EXCEPT ![t].next = m]
    BY <1>3, <2>4, SetNext DEF m
  <2> QED BY <2>1, <2>2, <2>3, <2>4
<1> QED BY <1>4, <1>5

LEMMA ObjectEffect ==
  ASSUME DatabaseTypes, NEW t \in Tables, NEW what
  PROVE  /\ Tabled(CreateObject(t, what)) /\ OthersSame(CreateObject(t, what), t)
         /\ SameButRefs(CreateObject(t, what)[t], table[t])
<1>1. Tabled(table)
  BY DEF DatabaseTypes, Tabled
<1>2. CreateObject(t, what) =
        IF what = "foreignKey" THEN [table EXCEPT ![t].refs = References(t)] ELSE table
  BY FourDrivers DEF DatabaseTypes, CreateObject, PG!CreateObject, MY!CreateObject,
     MS!CreateObject, ORA!CreateObject, PG!References, MY!References, MS!References,
     ORA!References, References
<1>3. References(t) \subseteq Tables
  BY TargetAssumption DEF References
<1>4. /\ IsTable([table[t] EXCEPT !.refs = References(t)])
      /\ SameButRefs([table[t] EXCEPT !.refs = References(t)], table[t])
      /\ SameButRefs(table[t], table[t])
  BY <1>1, <1>3 DEF Tabled, IsTable, SameButRefs
<1> QED BY <1>1, <1>2, <1>4 DEF Tabled, OthersSame

LEMMA RowsEffect ==
  ASSUME DatabaseTypes, NEW ks
  PROVE  /\ Tabled(WithRows(ks)) /\ OthersSame(WithRows(ks), Loaded)
         /\ WithRows(ks)[Loaded] =
              [table[Loaded] EXCEPT !.rows = [k \in Keys |-> IF k \in ks THEN "new"
                                                             ELSE table[Loaded].rows[k]]]
         /\ \A k \in Keys : WithRows(ks)[Loaded].rows[k] =
                              IF k \in ks THEN "new" ELSE table[Loaded].rows[k]
<1>1. Tabled(table) /\ Loaded \in Tables
  BY TargetAssumption DEF DatabaseTypes, Tabled
<1> DEFINE f == [k \in Keys |-> IF k \in ks THEN "new" ELSE table[Loaded].rows[k]]
<1>2. WithRows(ks) = [table EXCEPT ![Loaded] = [table[Loaded] EXCEPT !.rows = f]]
  BY DEF WithRows
<1>3. f \in [Keys -> Versions]
  BY <1>1 DEF Tabled, IsTable, Versions
<1>4. IsTable([table[Loaded] EXCEPT !.rows = f]) /\ [table[Loaded] EXCEPT !.rows = f].rows = f
  <2> HIDE DEF f
  <2> QED BY <1>1, <1>3 DEF Tabled, IsTable
<1>5. Tabled(WithRows(ks)) /\ OthersSame(WithRows(ks), Loaded)
      /\ WithRows(ks)[Loaded] = [table[Loaded] EXCEPT !.rows = f]
  <2> HIDE DEF f
  <2> QED BY <1>1, <1>2, <1>4 DEF Tabled, OthersSame
<1> QED BY <1>4, <1>5

-----------------------------------------------------------------------------
(* What the statements of the workers do.  Each driver's module has its own copies of the *)
(* definitions of TargetDatabase.                                                         *)

LEMMA SameStatements ==
  ASSUME NEW w, NEW newTable, NEW newStaging, NEW next, NEW onError
  PROVE  /\ PG!Statement(w, newTable, newStaging, next, onError)
              <=> Statement(w, newTable, newStaging, next, onError)
         /\ MS!Statement(w, newTable, newStaging, next, onError)
              <=> Statement(w, newTable, newStaging, next, onError)
         /\ ORA!Statement(w, newTable, newStaging, next, onError)
              <=> Statement(w, newTable, newStaging, next, onError)
BY DEF PG!Statement, PG!Goto, PG!Fails, PG!Fault, MS!Statement, MS!Goto, MS!Fails, MS!Fault,
       ORA!Statement, ORA!Goto, ORA!Fails, ORA!Fault, Statement, Goto, Fails, Fault

LEMMA SameParts ==
  /\ \A w, onError : /\ PG!Rejected(w, onError) <=> Rejected(w, onError)
                     /\ MY!Rejected(w, onError) <=> Rejected(w, onError)
                     /\ MS!Rejected(w, onError) <=> Rejected(w, onError)
                     /\ ORA!Rejected(w, onError) <=> Rejected(w, onError)
  /\ \A ks : /\ PG!WithRows(ks) = WithRows(ks) /\ MY!WithRows(ks) = WithRows(ks)
             /\ MS!WithRows(ks) = WithRows(ks) /\ ORA!WithRows(ks) = WithRows(ks)
  /\ \A ks : PG!Merged(ks) = Merged(ks) /\ MS!Merged(ks) = Merged(ks)
  /\ \A w : /\ PG!BatchKeys(w) = BatchKeys(w) /\ MS!BatchKeys(w) = BatchKeys(w)
  /\ \A w, p : /\ MY!LastRowOfChunk(w, p) = LastRowOfChunk(w, p)
               /\ ORA!LastRowOfChunk(w, p) = LastRowOfChunk(w, p)
               /\ MY!Chunk(w, p) = Chunk(w, p) /\ ORA!Chunk(w, p) = Chunk(w, p)
  /\ \A w, pc : /\ PG!Goto(w, pc) <=> Goto(w, pc)
                /\ MS!Goto(w, pc) <=> Goto(w, pc)
                /\ ORA!Goto(w, pc) <=> Goto(w, pc)
                /\ MY!Fails(w, pc) <=> Fails(w, pc)
                /\ MS!Fails(w, pc) <=> Fails(w, pc)
                /\ ORA!Fails(w, pc) <=> Fails(w, pc)
  /\ (MY!Fault <=> Fault) /\ (MS!Fault <=> Fault) /\ (ORA!Fault <=> Fault)
  /\ MS!NoStaging = NoStaging /\ ORA!NoStaging = NoStaging
<1>1. \A w, onError : /\ PG!Rejected(w, onError) <=> Rejected(w, onError)
                      /\ MY!Rejected(w, onError) <=> Rejected(w, onError)
                      /\ MS!Rejected(w, onError) <=> Rejected(w, onError)
                      /\ ORA!Rejected(w, onError) <=> Rejected(w, onError)
  BY DEF PG!Rejected, MY!Rejected, MS!Rejected, ORA!Rejected, Rejected, PG!Fails, MY!Fails,
         MS!Fails, ORA!Fails, Fails
<1>2. \A ks : /\ PG!WithRows(ks) = WithRows(ks) /\ MY!WithRows(ks) = WithRows(ks)
              /\ MS!WithRows(ks) = WithRows(ks) /\ ORA!WithRows(ks) = WithRows(ks)
  BY DEF PG!WithRows, MY!WithRows, MS!WithRows, ORA!WithRows, WithRows
<1>3. \A w : /\ PG!BatchKeys(w) = BatchKeys(w) /\ MS!BatchKeys(w) = BatchKeys(w)
  BY DEF PG!BatchKeys, MS!BatchKeys, BatchKeys
<1>4. \A w, p : /\ MY!LastRowOfChunk(w, p) = LastRowOfChunk(w, p)
                /\ ORA!LastRowOfChunk(w, p) = LastRowOfChunk(w, p)
                /\ MY!Chunk(w, p) = Chunk(w, p) /\ ORA!Chunk(w, p) = Chunk(w, p)
  BY DEF MY!LastRowOfChunk, ORA!LastRowOfChunk, LastRowOfChunk, MY!Chunk, ORA!Chunk, Chunk
<1>5. \A w, pc : /\ PG!Goto(w, pc) <=> Goto(w, pc)
                 /\ MS!Goto(w, pc) <=> Goto(w, pc)
                 /\ ORA!Goto(w, pc) <=> Goto(w, pc)
                 /\ MY!Fails(w, pc) <=> Fails(w, pc)
                 /\ MS!Fails(w, pc) <=> Fails(w, pc)
                 /\ ORA!Fails(w, pc) <=> Fails(w, pc)
  BY DEF PG!Goto, MS!Goto, ORA!Goto, Goto, MY!Fails, MS!Fails, ORA!Fails, Fails
<1>6. /\ (MY!Fault <=> Fault) /\ (MS!Fault <=> Fault) /\ (ORA!Fault <=> Fault)
      /\ MS!NoStaging = NoStaging /\ ORA!NoStaging = NoStaging
  BY DEF MY!Fault, MS!Fault, ORA!Fault, Fault, MS!NoStaging, ORA!NoStaging, NoStaging
<1>7. \A ks : PG!Merged(ks) = Merged(ks) /\ MS!Merged(ks) = Merged(ks)
  BY DEF PG!Merged, MS!Merged, Merged
<1> QED BY <1>1, <1>2, <1>3, <1>4, <1>5, <1>6, <1>7

\* The call of worker w is now at pc and pos, with or without an error to return; those of
\* the others are where they were.
CallAt(w, pc, pos, err) ==
  /\ call' = [v \in Workers |-> call'[v]]
  /\ \A v \in Workers : IsCall(call'[v])
  /\ \A v \in Workers : v # w => call'[v] = call[v]
  /\ call'[w].pc = pc /\ call'[w].pos = pos /\ call'[w].err = err

LEMMA CallGoes ==
  ASSUME NEW x, IsCall(x), NEW pc, NEW y, y = [x EXCEPT !.pc = pc]
  PROVE  IsCall(y) /\ y.pc = pc /\ y.pos = x.pos /\ y.err = x.err
<1>1. /\ y.pc = pc /\ y.pos = x.pos /\ y.tries = x.tries /\ y.err = x.err /\ y.calls = x.calls
      /\ y = [pc |-> y.pc, pos |-> y.pos, tries |-> y.tries, err |-> y.err, calls |-> y.calls]
  <2>1. x = [pc |-> x.pc, pos |-> x.pos, tries |-> x.tries, err |-> x.err, calls |-> x.calls]
    BY Zenon DEF IsCall
  <2> QED BY <2>1
<1> QED BY <1>1, Zenon DEF IsCall

LEMMA CallTries ==
  ASSUME NEW x, IsCall(x), NEW tries, NEW y, y = [x EXCEPT !.tries = tries]
  PROVE  IsCall(y) /\ y.pc = x.pc /\ y.pos = x.pos /\ y.err = x.err
<1>1. /\ y.pc = x.pc /\ y.pos = x.pos /\ y.tries = tries /\ y.err = x.err /\ y.calls = x.calls
      /\ y = [pc |-> y.pc, pos |-> y.pos, tries |-> y.tries, err |-> y.err, calls |-> y.calls]
  <2>1. x = [pc |-> x.pc, pos |-> x.pos, tries |-> x.tries, err |-> x.err, calls |-> x.calls]
    BY Zenon DEF IsCall
  <2> QED BY <2>1
<1> QED BY <1>1, Zenon DEF IsCall

LEMMA CallFails ==
  ASSUME NEW x, IsCall(x), NEW pc, NEW e \in BOOLEAN, NEW y, y = [x EXCEPT !.pc = pc, !.err = e]
  PROVE  IsCall(y) /\ y.pc = pc /\ y.pos = x.pos /\ y.err = e
<1>1. /\ y.pc = pc /\ y.pos = x.pos /\ y.tries = x.tries /\ y.err = e /\ y.calls = x.calls
      /\ y = [pc |-> y.pc, pos |-> y.pos, tries |-> y.tries, err |-> y.err, calls |-> y.calls]
  <2>1. x = [pc |-> x.pc, pos |-> x.pos, tries |-> x.tries, err |-> x.err, calls |-> x.calls]
    BY Zenon DEF IsCall
  <2> QED BY <2>1
<1> QED BY <1>1, Zenon DEF IsCall

\* A statement leaves the tables and the staging tables as they were, or as it makes them.
Moves(w, newTable, newStaging, pc, pos, err) ==
  /\ table' = newTable /\ staging' = newStaging
  /\ CallAt(w, pc, pos, err)

LEMMA CallSet ==
  ASSUME DatabaseTypes, NEW w \in Workers, NEW y, IsCall(y), call' = [call EXCEPT ![w] = y]
  PROVE  CallAt(w, y.pc, y.pos, y.err)
BY DEF DatabaseTypes, CallAt

LEMMA GotoEffect ==
  ASSUME DatabaseTypes, NEW w \in Workers, NEW pc, Goto(w, pc)
  PROVE  CallAt(w, pc, call[w].pos, call[w].err)
<1>1. IsCall(call[w])
  BY DEF DatabaseTypes
<1>2. PICK y : y = [call[w] EXCEPT !.pc = pc]
  OBVIOUS
<1>3. call' = [call EXCEPT ![w] = y]
  BY <1>2 DEF Goto
<1>4. IsCall(y) /\ y.pc = pc /\ y.pos = call[w].pos /\ y.err = call[w].err
  BY <1>1, <1>2, CallGoes
<1>5. CallAt(w, y.pc, y.pos, y.err)
  BY <1>3, <1>4, CallSet
<1> QED BY <1>4, <1>5, Zenon

LEMMA FailsEffect ==
  ASSUME DatabaseTypes, NEW w \in Workers, NEW pc, Fails(w, pc)
  PROVE  CallAt(w, pc, call[w].pos, TRUE)
<1>1. IsCall(call[w])
  BY DEF DatabaseTypes
<1>2. PICK e, y : e \in BOOLEAN /\ e = TRUE /\ y = [call[w] EXCEPT !.pc = pc, !.err = e]
  OBVIOUS
<1>3. call' = [call EXCEPT ![w] = y]
  BY <1>2 DEF Fails
<1>4. y = [call[w] EXCEPT !.pc = pc, !.err = e]
  BY <1>2
<1>5. IsCall(y)
  <2>1. e \in BOOLEAN
    BY <1>2
  <2> QED BY <1>1, <1>4, <2>1, CallFails, Zenon
<1>6. y.pc = pc /\ y.pos = call[w].pos /\ y.err = e
  <2>1. PICK x : x = call[w]
    OBVIOUS
  <2>2. x = [pc |-> x.pc, pos |-> x.pos, tries |-> x.tries, err |-> x.err, calls |-> x.calls]
    BY <1>1, <2>1 DEF IsCall
  <2>3. y = [x EXCEPT !.pc = pc, !.err = e]
    BY <1>4, <2>1
  <2>4. y.pc = pc /\ y.pos = x.pos /\ y.err = e
    BY <2>2, <2>3
  <2> QED BY <2>1, <2>4
<1>7. CallAt(w, y.pc, y.pos, y.err)
  BY <1>3, <1>5, CallSet
<1> QED BY <1>2, <1>6, <1>7, Zenon

LEMMA LastRow ==
  ASSUME NEW w \in Workers, NEW pos \in Nat \ {0}
  PROVE  /\ Len(BatchOf[w]) \in Nat
         /\ LastRowOfChunk(w, pos) \in Nat /\ LastRowOfChunk(w, pos) + 1 \in Nat \ {0}
         /\ LastRowOfChunk(w, pos) <= Len(BatchOf[w])
<1>1. Len(BatchOf[w]) \in Nat /\ ChunkSize \in Nat \ {0}
  BY TargetAssumption
<1> QED BY <1>1 DEF LastRowOfChunk

\* On to the next chunk, or with the last one to end.
LEMMA ChunkEffect ==
  ASSUME DatabaseTypes, NEW w \in Workers, NEW end,
         call' = [call EXCEPT ![w].pos = LastRowOfChunk(w, @) + 1,
                              ![w].pc = IF LastRowOfChunk(w, call[w].pos) = Len(BatchOf[w])
                                        THEN end ELSE @]
  PROVE  CallAt(w, IF LastRowOfChunk(w, call[w].pos) = Len(BatchOf[w]) THEN end ELSE call[w].pc,
                LastRowOfChunk(w, call[w].pos) + 1, call[w].err)
<1>1. IsCall(call[w]) /\ call[w].pos \in Nat \ {0}
  BY DEF DatabaseTypes, IsCall
<1>2. PICK pc, pos : /\ pos = LastRowOfChunk(w, call[w].pos) + 1
                     /\ pc = IF LastRowOfChunk(w, call[w].pos) = Len(BatchOf[w])
                             THEN end ELSE call[w].pc
  OBVIOUS
<1>3. pos \in Nat \ {0}
  BY <1>1, <1>2, LastRow
<1>4. PICK y : y = [call[w] EXCEPT !.pos = pos, !.pc = pc]
  OBVIOUS
<1>5. call' = [call EXCEPT ![w] = y]
  BY <1>2, <1>4
<1>6. /\ y.pc = pc /\ y.pos = pos /\ y.err = call[w].err
      /\ y = [pc |-> y.pc, pos |-> y.pos, tries |-> y.tries, err |-> y.err, calls |-> y.calls]
  <2>1. PICK x : x = call[w]
    OBVIOUS
  <2>2. x = [pc |-> x.pc, pos |-> x.pos, tries |-> x.tries, err |-> x.err, calls |-> x.calls]
    BY <1>1, <2>1 DEF IsCall
  <2>3. y = [x EXCEPT !.pos = pos, !.pc = pc]
    BY <1>4, <2>1
  <2>4. /\ y.pc = pc /\ y.pos = pos /\ y.err = x.err
        /\ y = [pc |-> y.pc, pos |-> y.pos, tries |-> y.tries, err |-> y.err, calls |-> y.calls]
    BY <2>2, <2>3
  <2> QED BY <2>1, <2>4
<1>7. IsCall(y)
  BY <1>1, <1>3, <1>6, Zenon DEF IsCall
<1>8. CallAt(w, y.pc, y.pos, y.err)
  BY <1>5, <1>7, CallSet
<1> QED BY <1>2, <1>6, <1>8, Zenon

\* What may have become of a statement of worker w that is sent to make the tables newTable
\* and newStaging.
LEMMA StatementEffect ==
  ASSUME DatabaseTypes, NEW w \in Workers, NEW newTable, NEW newStaging, NEW next, NEW onError,
         Statement(w, newTable, newStaging, next, onError)
  PROVE  /\ UNCHANGED <<setting, run>> /\ faults' \in Nat
         /\ \/ Moves(w, newTable, newStaging, next, call[w].pos, call[w].err)
            \/ Moves(w, newTable, newStaging, onError, call[w].pos, TRUE)
            \/ Moves(w, table, staging, onError, call[w].pos, TRUE)
<1>1. faults \in Nat
  BY DEF DatabaseTypes
<1>2. CASE /\ table' = newTable /\ staging' = newStaging
           /\ Goto(w, next)
           /\ UNCHANGED <<setting, faults, run>>
  BY <1>1, <1>2, GotoEffect DEF Moves
<1>3. CASE /\ Fault
           /\ \E done \in BOOLEAN :
                /\ table' = IF done THEN newTable ELSE table
                /\ staging' = IF done THEN newStaging ELSE staging
           /\ Fails(w, onError)
           /\ UNCHANGED <<setting, run>>
  <2>1. faults' \in Nat
    BY <1>1, <1>3 DEF Fault
  <2>2. CallAt(w, onError, call[w].pos, TRUE)
    BY <1>3, FailsEffect
  <2>3. \/ table' = newTable /\ staging' = newStaging
        \/ table' = table /\ staging' = staging
    BY <1>3
  <2> QED BY <1>3, <2>1, <2>2, <2>3 DEF Moves
<1> QED BY <1>2, <1>3 DEF Statement

-----------------------------------------------------------------------------
(* The workers. *)

StagingLike(s, w) ==
  /\ s = [v \in Workers |-> s[v]]
  /\ \A v \in Workers : IsStaging(s[v])
  /\ \A v \in Workers : v # w => s[v] = staging[v]

LEMMA StagingSet ==
  ASSUME DatabaseTypes, NEW w \in Workers, NEW r
  PROVE  /\ StagingLike(staging, w)
         /\ StagingLike([staging EXCEPT ![w].rows = r], w)
         /\ [staging EXCEPT ![w].rows = r][w].rows = r
         /\ StagingLike([staging EXCEPT ![w].exists = r], w)
         /\ StagingLike([staging EXCEPT ![w] = [exists |-> TRUE, rows |-> {}]], w)
         /\ StagingLike([staging EXCEPT ![w] = NoStaging], w)
<1>1. StagingLike(staging, w) /\ IsStaging(staging[w])
  BY DEF DatabaseTypes, StagingLike
<1>2. ASSUME NEW y, IsStaging(y)
      PROVE  StagingLike([staging EXCEPT ![w] = y], w) /\ [staging EXCEPT ![w] = y][w] = y
  BY <1>1, <1>2 DEF StagingLike
<1>3. \A x : IsStaging(x) => IsStaging([x EXCEPT !.rows = r]) /\ [x EXCEPT !.rows = r].rows = r
  BY DEF IsStaging
<1>4. \A x : IsStaging(x) => IsStaging([x EXCEPT !.exists = r])
  BY DEF IsStaging
<1>5. IsStaging([exists |-> TRUE, rows |-> {}]) /\ IsStaging(NoStaging)
  BY DEF IsStaging, NoStaging
<1>6. /\ StagingLike([staging EXCEPT ![w].rows = r], w)
      /\ [staging EXCEPT ![w].rows = r][w].rows = r
  <2>1. PICK y : y = [staging[w] EXCEPT !.rows = r]
    OBVIOUS
  <2>2. IsStaging(y) /\ y.rows = r
    BY <1>1, <1>3, <2>1
  <2>3. [staging EXCEPT ![w].rows = r] = [staging EXCEPT ![w] = y]
    BY <2>1
  <2> QED BY <1>2, <2>2, <2>3
<1>7. StagingLike([staging EXCEPT ![w].exists = r], w)
  <2>1. PICK y : y = [staging[w] EXCEPT !.exists = r]
    OBVIOUS
  <2>2. IsStaging(y)
    BY <1>1, <1>4, <2>1
  <2>3. [staging EXCEPT ![w].exists = r] = [staging EXCEPT ![w] = y]
    BY <2>1
  <2> QED BY <1>2, <2>2, <2>3
<1> QED BY <1>1, <1>2, <1>5, <1>6, <1>7

\* What every step of a call leaves alone, and what it may do to the target.
WriteFacts(w) ==
  /\ UNCHANGED <<setting, run>>
  /\ faults' \in Nat
  /\ table' = table \/ \E ks : table' = WithRows(ks)
  /\ StagingLike(staging', w)
  /\ \E pc, pos, err : CallAt(w, pc, pos, err)

\* A statement of a call that only inserts: all of the batch, or the chunk at its position.
Inserted(w) ==
  LET last == LastRowOfChunk(w, call[w].pos)
  IN \/ Moves(w, table, staging, "returned", call[w].pos, TRUE)
     \/ /\ Driver \in {"postgres", "mssql"}
        /\ \E err \in {call[w].err, TRUE} :
             Moves(w, WithRows(BatchKeys(w)), staging, "returned", call[w].pos, err)
     \/ /\ Driver \in {"mysql", "oracle"}
        /\ \/ Moves(w, WithRows(Chunk(w, call[w].pos)), staging, "returned", call[w].pos, TRUE)
           \/ Moves(w, WithRows(Chunk(w, call[w].pos)), staging,
                    IF last = Len(BatchOf[w]) THEN "returned" ELSE call[w].pc, last + 1, call[w].err)

LEMMA InsertEffect ==
  ASSUME DatabaseTypes, NEW w \in Workers, Write(w), call[w].pc = "start",
         ~setting.upsert \/ Driver = "mysql"
  PROVE  WriteFacts(w) /\ Inserted(w)
<1>1. StagingLike(staging, w) /\ faults \in Nat
  BY StagingSet DEF DatabaseTypes
<1>2. CASE \E onError \in {"returned"} : Rejected(w, onError)
  <2>1. CallAt(w, "returned", call[w].pos, TRUE)
    BY <1>2, FailsEffect DEF Rejected
  <2> QED BY <1>1, <1>2, <2>1 DEF Rejected, WriteFacts, Inserted, Moves
<1>3. CASE /\ Driver \in {"postgres", "mssql"}
           /\ Statement(w, WithRows(BatchKeys(w)), staging, "returned", "returned")
  BY <1>1, <1>3, StatementEffect DEF WriteFacts, Inserted, Moves
<1>4. CASE /\ Driver \in {"mysql", "oracle"}
           /\ table' = WithRows(Chunk(w, call[w].pos))
           /\ call' = [call EXCEPT ![w].pos = LastRowOfChunk(w, @) + 1,
                       ![w].pc = IF LastRowOfChunk(w, call[w].pos) = Len(BatchOf[w])
                                 THEN "returned" ELSE @]
           /\ UNCHANGED <<setting, staging, faults, run>>
  BY <1>1, <1>4, ChunkEffect DEF WriteFacts, Inserted, Moves
<1>5. CASE /\ Driver \in {"mysql", "oracle"}
           /\ Fault
           /\ table' \in {table, WithRows(Chunk(w, call[w].pos))}
           /\ Fails(w, "returned")
           /\ UNCHANGED <<setting, staging, run>>
  <2>1. CallAt(w, "returned", call[w].pos, TRUE)
    BY <1>5, FailsEffect
  <2>2. faults' \in Nat
    BY <1>1, <1>5 DEF Fault
  <2> QED BY <1>1, <1>5, <2>1, <2>2 DEF WriteFacts, Inserted, Moves
<1>6. CASE Driver = "postgres" /\ PG!WriteBatch(w)
  BY <1>2, <1>3, <1>6, SameParts, SameStatements DEF PG!WriteBatch
<1>7. CASE Driver = "mssql" /\ MS!WriteBatch(w)
  BY <1>2, <1>3, <1>7, SameParts, SameStatements DEF MS!WriteBatch
<1>8. CASE Driver = "mysql" /\ MY!WriteChunk(w)
  BY <1>2, <1>4, <1>5, <1>8, SameParts DEF MY!WriteChunk, MY!AfterChunk
<1>9. CASE Driver = "oracle" /\ ORA!InsertChunk(w)
  BY <1>2, <1>4, <1>5, <1>9, SameParts DEF ORA!InsertChunk, ORA!AfterChunk
<1>10. \/ Driver = "postgres" /\ PG!WriteBatch(w)
       \/ Driver = "mssql" /\ MS!WriteBatch(w)
       \/ Driver = "mysql" /\ MY!WriteChunk(w)
       \/ Driver = "oracle" /\ ORA!InsertChunk(w)
  BY DEF Write, PG!Step, PG!CreateStaging, PG!CopyToStaging, PG!UpsertFromStaging,
         PG!TruncateStaging, MS!Step, MS!CreateStaging, MS!BulkInsertToTemp, MS!Merge,
         MS!CloseSession, MY!Step, ORA!Step, ORA!CreateGlobalTemporary,
         ORA!BulkInsertTemporary, ORA!CreateRegular, ORA!BulkInsert, ORA!Merge,
         ORA!DropStaging
<1> QED BY <1>6, <1>7, <1>8, <1>9, <1>10

Done == {"close", "drop", "returned"}
RowWritten(k) == table[Loaded].rows[k] = "new" \/ Unnoticed(k)
RowsWritten(w) == \A k \in BatchKeys(w) : RowWritten(k)

\* What a call has done so far: the chunks before its position are in the target, or in
\* the staging table, which has all of them when it is merged.
WorkerInv(w) ==
  /\ ~setting.upsert \/ Driver = "mysql" => call[w].pc \in {"start", "returned"}
  /\ ~StagingForgets =>
       /\ call[w].pc \in Done /\ ~call[w].err => RowsWritten(w)
       /\ call[w].pc \notin {"copy", "upsert", "truncate", "bulkTemporary"}
       /\ call[w].pc = "merge" => BatchKeys(w) \subseteq staging[w].rows
       /\ call[w].pc = "start" =>
            \A i \in DOMAIN BatchOf[w] : i < call[w].pos => table[Loaded].rows[BatchOf[w][i]] = "new"
       /\ Driver = "oracle" /\ setting.upsert /\ call[w].pc \in {"start", "create"} => call[w].pos = 1
       /\ Driver = "oracle" /\ call[w].pc = "bulk" =>
            \A i \in DOMAIN BatchOf[w] : i < call[w].pos => BatchOf[w][i] \in staging[w].rows

LEMMA BatchFacts ==
  ASSUME NEW w \in Workers
  PROVE  /\ DOMAIN BatchOf[w] = 1 .. Len(BatchOf[w]) /\ Len(BatchOf[w]) \in Nat
         /\ \A i \in DOMAIN BatchOf[w] : BatchOf[w][i] \in Keys /\ BatchOf[w][i] \in BatchKeys(w)
         /\ \A k \in BatchKeys(w) : k \in Keys /\ \E i \in DOMAIN BatchOf[w] : k = BatchOf[w][i]
<1>1. BatchOf[w] \in Seq(Keys)
  BY TargetAssumption
<1> QED BY <1>1 DEF BatchKeys

\* The rows of the chunk at position pos: with the last chunk the end of the batch is reached.
LEMMA ChunkFacts ==
  ASSUME NEW w \in Workers, NEW pos \in Nat \ {0}
  PROVE  /\ \A i \in DOMAIN BatchOf[w] :
              /\ i < LastRowOfChunk(w, pos) + 1 => i < pos \/ BatchOf[w][i] \in Chunk(w, pos)
              /\ LastRowOfChunk(w, pos) = Len(BatchOf[w]) => i < LastRowOfChunk(w, pos) + 1
         /\ Chunk(w, pos) \subseteq BatchKeys(w)
<1>1. LastRowOfChunk(w, pos) \in Nat /\ LastRowOfChunk(w, pos) <= Len(BatchOf[w])
  BY LastRow
<1>2. \A i \in DOMAIN BatchOf[w] :
        /\ i \in Nat /\ 1 <= i /\ i <= Len(BatchOf[w])
        /\ i < LastRowOfChunk(w, pos) + 1 => i < pos \/ i \in pos .. LastRowOfChunk(w, pos)
        /\ LastRowOfChunk(w, pos) = Len(BatchOf[w]) => i < LastRowOfChunk(w, pos) + 1
  BY <1>1, BatchFacts
<1>3. \A i \in pos .. LastRowOfChunk(w, pos) : i \in DOMAIN BatchOf[w]
  BY <1>1, BatchFacts
<1> QED BY <1>2, <1>3 DEF Chunk, BatchKeys

\* Rows are only added to what the batches have written.
LEMMA NewStay ==
  ASSUME DatabaseTypes, table' = table \/ \E ks : table' = WithRows(ks)
  PROVE  /\ Tabled(table')
         /\ OthersSame(table', Loaded)
         /\ \A k \in Keys : table[Loaded].rows[k] = "new" => table'[Loaded].rows[k] = "new"
         /\ \A k \in Keys : table'[Loaded].rows[k] \in {table[Loaded].rows[k], "new"}
<1>1. CASE table' = table
  BY <1>1 DEF DatabaseTypes, Tabled, OthersSame
<1>2. ASSUME NEW ks, table' = WithRows(ks)
      PROVE  /\ Tabled(table')
             /\ OthersSame(table', Loaded)
             /\ \A k \in Keys : table'[Loaded].rows[k] \in {table[Loaded].rows[k], "new"}
  <2>1. PICK f : f = WithRows(ks)
    OBVIOUS
  <2>2. /\ Tabled(f) /\ OthersSame(f, Loaded)
        /\ \A k \in Keys : f[Loaded].rows[k] \in {table[Loaded].rows[k], "new"}
    <3>1. Tabled(f)
      BY <2>1, RowsEffect
    <3>2. OthersSame(f, Loaded)
      BY <2>1, RowsEffect
    <3>3. \A k \in Keys : f[Loaded].rows[k] = IF k \in ks THEN "new" ELSE table[Loaded].rows[k]
      BY <2>1, RowsEffect
    <3> QED BY <3>1, <3>2, <3>3
  <2> QED BY <1>2, <2>1, <2>2 DEF Tabled, OthersSame
<1> QED BY <1>1, <1>2

LEMMA InsertKeeps ==
  ASSUME DatabaseTypes, NEW w \in Workers, WriteFacts(w), Inserted(w), WorkerInv(w),
         call[w].pc = "start", ~setting.upsert \/ Driver = "mysql"
  PROVE  WorkerInv(w)'
<1> DEFINE pos == call[w].pos
           last == LastRowOfChunk(w, pos)
<1>1. /\ \A k \in Keys : table[Loaded].rows[k] = "new" => table'[Loaded].rows[k] = "new"
      /\ setting' = setting
  BY NewStay DEF WriteFacts
<1>2. /\ pos \in Nat \ {0} /\ call[w].err \in BOOLEAN
      /\ \A i \in DOMAIN BatchOf[w] : BatchOf[w][i] \in Keys
      /\ ~StagingForgets =>
           \A i \in DOMAIN BatchOf[w] : i < pos => table[Loaded].rows[BatchOf[w][i]] = "new"
  BY BatchFacts DEF DatabaseTypes, IsCall, WorkerInv
<1>3. Driver' = Driver /\ (StagingForgets' <=> StagingForgets)
  BY <1>1 DEF Driver, StagingForgets
<1>4. CASE call'[w].pc = "returned" /\ call'[w].err = TRUE
  BY <1>3, <1>4 DEF WorkerInv
<1>5. CASE call'[w].pc = "returned" /\ table' = WithRows(BatchKeys(w))
  <2>1. RowsWritten(w)'
    <3>1. \A k \in BatchKeys(w) : k \in Keys
      BY BatchFacts
    <3>2. \A k \in Keys : k \in BatchKeys(w) => table'[Loaded].rows[k] = "new"
      BY <1>5, RowsEffect
    <3> QED BY <3>1, <3>2 DEF RowsWritten, RowWritten
  <2> QED BY <1>3, <1>5, <2>1 DEF WorkerInv
<1>6. CASE /\ table' = WithRows(Chunk(w, pos))
           /\ call'[w].pc = IF last = Len(BatchOf[w]) THEN "returned" ELSE "start"
           /\ call'[w].pos = last + 1
  <2>1. ASSUME ~StagingForgets, NEW i \in DOMAIN BatchOf[w], i < last + 1
        PROVE  table'[Loaded].rows[BatchOf[w][i]] = "new"
    <3>1. i < pos \/ BatchOf[w][i] \in Chunk(w, pos)
      BY <1>2, <2>1, ChunkFacts
    <3>2. BatchOf[w][i] \in Chunk(w, pos) => table'[Loaded].rows[BatchOf[w][i]] = "new"
      BY <1>2, <1>6, RowsEffect
    <3> QED BY <1>1, <1>2, <2>1, <3>1, <3>2
  <2>2. CASE last = Len(BatchOf[w])
    <3>1. ~StagingForgets => RowsWritten(w)'
      BY <1>2, <2>1, <2>2, ChunkFacts, BatchFacts DEF RowsWritten, RowWritten
    <3> QED BY <1>3, <1>6, <2>2, <3>1 DEF WorkerInv
  <2>3. CASE last # Len(BatchOf[w])
    <3>1. call'[w].pc = "start" /\ call'[w].pos = last + 1
      BY <1>6, <2>3
    <3>2. ~(Driver = "oracle" /\ setting.upsert)
      OBVIOUS
    <3> QED BY <1>1, <1>3, <2>1, <3>1, <3>2 DEF WorkerInv, Done
  <2> QED BY <2>2, <2>3
<1>7. \/ call'[w].pc = "returned" /\ call'[w].err = TRUE
      \/ call'[w].pc = "returned" /\ table' = WithRows(BatchKeys(w))
      \/ /\ table' = WithRows(Chunk(w, pos))
         /\ call'[w].pc = IF last = Len(BatchOf[w]) THEN "returned" ELSE "start"
         /\ call'[w].pos = last + 1
  BY DEF Inserted, Moves, CallAt
<1> QED BY <1>4, <1>5, <1>6, <1>7

\* What a statement of an upsert does, whatever becomes of it.
LEMMA StatementFacts ==
  ASSUME DatabaseTypes, NEW w \in Workers, NEW newTable, NEW newStaging, NEW next, NEW onError,
         Statement(w, newTable, newStaging, next, onError),
         newTable = table \/ \E ks : newTable = WithRows(ks),
         StagingLike(newStaging, w)
  PROVE  /\ WriteFacts(w)
         /\ \/ /\ call'[w].pc = next /\ call'[w].pos = call[w].pos
               /\ table' = newTable /\ staging' = newStaging
            \/ call'[w].pc = onError /\ call'[w].err = TRUE
<1>1. StagingLike(staging, w)
  BY StagingSet
<1>2. /\ UNCHANGED <<setting, run>> /\ faults' \in Nat
      /\ \/ Moves(w, newTable, newStaging, next, call[w].pos, call[w].err)
         \/ Moves(w, newTable, newStaging, onError, call[w].pos, TRUE)
         \/ Moves(w, table, staging, onError, call[w].pos, TRUE)
  BY StatementEffect
<1>3. WriteFacts(w)
  BY <1>1, <1>2 DEF WriteFacts, Moves
<1> QED BY <1>2, <1>3 DEF Moves, CallAt

LEMMA PostgresUpsert ==
  ASSUME DatabaseTypes, NEW w \in Workers, Driver = "postgres", PG!Step(w), setting.upsert
  PROVE  WriteFacts(w)
<1>1. StagingLike(staging, w) /\ faults \in Nat
  BY StagingSet DEF DatabaseTypes
<1>2. CASE PG!CreateStaging(w)
  <2>1. StagingLike([staging EXCEPT ![w].exists = TRUE], w)
    BY StagingSet
  <2> QED BY <1>2, <2>1, SameStatements, StatementFacts DEF PG!CreateStaging
<1>3. CASE PG!CopyToStaging(w)
  <2>1. StagingLike([staging EXCEPT ![w].rows = {}], w)
    BY StagingSet
  <2> QED BY <1>3, <2>1, SameStatements, StatementFacts DEF PG!CopyToStaging
<1>4. CASE PG!UpsertFromStaging(w)
  <2>1. CASE Rejected(w, "returned")
    <3>1. CallAt(w, "returned", call[w].pos, TRUE)
      BY <2>1, FailsEffect DEF Rejected
    <3> QED BY <1>1, <2>1, <3>1 DEF Rejected, WriteFacts
  <2>2. ASSUME NEW ks, Statement(w, WithRows(ks), staging, "truncate", "returned")
        PROVE  WriteFacts(w)
    <3>1. PICK f : f = WithRows(ks)
      OBVIOUS
    <3> QED BY <1>1, <2>2, <3>1, StatementFacts
  <2> QED BY <1>4, <2>1, <2>2, SameParts, SameStatements DEF PG!UpsertFromStaging
<1>5. CASE PG!TruncateStaging(w)
  <2>1. CallAt(w, "returned", call[w].pos, call[w].err)
    <3>1. Goto(w, "returned")
      BY <1>5, SameParts DEF PG!TruncateStaging
    <3> QED BY <3>1, GotoEffect
  <2>2. StagingLike(staging', w)
    BY <1>5, StagingSet DEF PG!TruncateStaging
  <2> QED BY <1>1, <1>5, <2>1, <2>2 DEF PG!TruncateStaging, WriteFacts
<1> QED BY <1>2, <1>3, <1>4, <1>5 DEF PG!Step, PG!WriteBatch

\* The staging table of SQL Server has the batch when it is merged.
LEMMA MSSQLUpsert ==
  ASSUME DatabaseTypes, NEW w \in Workers, Driver = "mssql", MS!Step(w), setting.upsert,
         WorkerInv(w)
  PROVE  WriteFacts(w) /\ WorkerInv(w)'
<1>1. StagingLike(staging, w) /\ faults \in Nat
  BY StagingSet DEF DatabaseTypes
<1>2. ~StagingForgets
  BY DEF StagingForgets
<1>3. ASSUME WriteFacts(w)
      PROVE  /\ \A k \in Keys : table[Loaded].rows[k] = "new" => table'[Loaded].rows[k] = "new"
             /\ setting' = setting /\ Driver' = Driver
             /\ ~StagingForgets'
  BY <1>2, <1>3, NewStay DEF WriteFacts, Driver, StagingForgets
<1>4. CASE MS!CreateStaging(w)
  <2> DEFINE made == [staging EXCEPT ![w] = [exists |-> TRUE, rows |-> {}]]
  <2>1. Statement(w, table, made, "bulk", "close") /\ StagingLike(made, w)
    BY <1>4, StagingSet, SameStatements DEF MS!CreateStaging
  <2> HIDE DEF made
  <2>2. WriteFacts(w)
    BY <2>1, StatementFacts
  <2>3. \/ call'[w].pc = "bulk"
        \/ call'[w].pc = "close" /\ call'[w].err = TRUE
    BY <2>1, StatementFacts
  <2>4. WorkerInv(w)'
    BY <1>3, <2>2, <2>3 DEF WorkerInv, Done
  <2> QED BY <2>2, <2>4
<1>5. CASE MS!BulkInsertToTemp(w)
  <2> DEFINE filled == [staging EXCEPT ![w].rows = BatchKeys(w)]
  <2>1. Statement(w, table, filled, "merge", "close") /\ StagingLike(filled, w)
    BY <1>5, StagingSet, SameStatements, SameParts DEF MS!BulkInsertToTemp
  <2>2. filled[w].rows = BatchKeys(w)
    BY StagingSet
  <2> HIDE DEF filled
  <2>3. WriteFacts(w)
    BY <2>1, StatementFacts
  <2>4. \/ call'[w].pc = "merge" /\ staging' = filled
        \/ call'[w].pc = "close" /\ call'[w].err = TRUE
    BY <2>1, StatementFacts
  <2>5. WorkerInv(w)'
    BY <1>3, <2>2, <2>3, <2>4 DEF WorkerInv, Done
  <2> QED BY <2>3, <2>5
<1>6. CASE MS!Merge(w)
  <2>1. BatchKeys(w) \subseteq staging[w].rows
    BY <1>2, <1>6 DEF MS!Merge, WorkerInv
  <2>2. CASE Statement(w, WithRows(Merged(staging[w].rows)), staging, "close", "close")
    <3>1. PICK f : f = WithRows(Merged(staging[w].rows))
      OBVIOUS
    <3>2. /\ WriteFacts(w)
          /\ \/ /\ call'[w].pc = "close" /\ call'[w].pos = call[w].pos
                /\ table' = f /\ staging' = staging
             \/ call'[w].pc = "close" /\ call'[w].err = TRUE
      <4>1. Statement(w, f, staging, "close", "close") /\ \E ks : f = WithRows(ks)
        BY <2>2, <3>1
      <4>2. StagingLike(staging, w)
        BY <1>1
      <4> QED BY ONLY DatabaseTypes, w \in Workers, <4>1, <4>2, StatementFacts
    <3>3. table' = f => RowsWritten(w)'
      <4>1. \A k \in BatchKeys(w) : k \in Keys /\ k \in staging[w].rows
        BY <2>1, BatchFacts
      <4>2. \A k \in Keys : f[Loaded].rows[k] =
                              IF k \in Merged(staging[w].rows) THEN "new" ELSE table[Loaded].rows[k]
        <5>1. PICK m : m = Merged(staging[w].rows)
          OBVIOUS
        <5>2. f = WithRows(m)
          BY <3>1, <5>1
        <5>3. \A k \in Keys : WithRows(m)[Loaded].rows[k] =
                                IF k \in m THEN "new" ELSE table[Loaded].rows[k]
          BY RowsEffect
        <5> QED BY <5>1, <5>2, <5>3
      <4>3. Driver' = "mssql" /\ setting'.upsert
        BY <1>3, <3>2
      <4>4. ASSUME table' = f, NEW k \in BatchKeys(w) PROVE RowWritten(k)'
        <5>1. CASE k \in Merged(staging[w].rows)
          BY <4>1, <4>2, <4>4, <5>1 DEF RowWritten
        <5>2. CASE k \notin Merged(staging[w].rows)
          <6>1. table[Loaded].rows[k] = "old" /\ k \in Undetected
            BY <4>1, <5>2 DEF Merged
          <6>2. table'[Loaded].rows[k] = "old"
            BY <4>1, <4>2, <4>4, <5>2, <6>1
          <6> QED BY <4>3, <6>1, <6>2 DEF RowWritten, Unnoticed
        <5> QED BY <5>1, <5>2
      <4> QED BY <4>4 DEF RowsWritten
    <3>4. WorkerInv(w)'
      BY <1>3, <3>1, <3>2, <3>3 DEF WorkerInv, Done
    <3> QED BY <3>2, <3>4
  <2>3. CASE Fault /\ MS!Fails(w, "close") /\ UNCHANGED <<setting, table, staging, run>>
    <3>1. CallAt(w, "close", call[w].pos, TRUE)
      BY <2>3, FailsEffect, SameParts
    <3>2. faults' \in Nat
      BY <1>1, <2>3 DEF Fault
    <3>3. WriteFacts(w)
      BY <1>1, <2>3, <3>1, <3>2 DEF WriteFacts
    <3>4. WorkerInv(w)'
      BY <1>3, <3>1, <3>3 DEF CallAt, WorkerInv, Done
    <3> QED BY <3>3, <3>4
  <2>4. CASE /\ Fault /\ UNCHANGED <<setting, table, staging, run>>
             /\ call' = [call EXCEPT ![w].tries = @ + 1]
    <3>1. CallAt(w, "merge", call[w].pos, call[w].err)
      <4>1. IsCall(call[w]) /\ call[w].pc = "merge"
        BY <1>6 DEF DatabaseTypes, MS!Merge
      <4>2. PICK n, y : n = call[w].tries + 1 /\ y = [call[w] EXCEPT !.tries = n]
        OBVIOUS
      <4>3. call' = [call EXCEPT ![w] = y]
        BY <2>4, <4>2
      <4>4. /\ y.pc = call[w].pc /\ y.pos = call[w].pos /\ y.err = call[w].err
            /\ y = [pc |-> y.pc, pos |-> y.pos, tries |-> y.tries, err |-> y.err, calls |-> y.calls]
        <5>1. PICK x : x = call[w]
          OBVIOUS
        <5>2. x = [pc |-> x.pc, pos |-> x.pos, tries |-> x.tries, err |-> x.err, calls |-> x.calls]
          BY <4>1, <5>1 DEF IsCall
        <5>3. y = [x EXCEPT !.tries = n]
          BY <4>2, <5>1
        <5>4. /\ y.pc = x.pc /\ y.pos = x.pos /\ y.err = x.err
              /\ y = [pc |-> y.pc, pos |-> y.pos, tries |-> y.tries, err |-> y.err, calls |-> y.calls]
          BY <5>2, <5>3
        <5> QED BY <5>1, <5>4
      <4>5. IsCall(y)
        BY <4>1, <4>4, Zenon DEF IsCall
      <4>6. CallAt(w, y.pc, y.pos, y.err)
        BY <4>3, <4>5, CallSet
      <4> QED BY <4>1, <4>4, <4>6, Zenon
    <3>2. faults' \in Nat
      BY <1>1, <2>4 DEF Fault
    <3>3. WriteFacts(w)
      BY <1>1, <2>4, <3>1, <3>2 DEF WriteFacts
    <3>4. WorkerInv(w)'
      BY <1>3, <2>1, <2>4, <3>1, <3>3 DEF CallAt, WorkerInv, Done
    <3> QED BY <3>3, <3>4
  <2>5. CASE Rejected(w, "close")
    <3>1. CallAt(w, "close", call[w].pos, TRUE)
      BY <2>5, FailsEffect DEF Rejected
    <3>2. WriteFacts(w)
      BY <1>1, <2>5, <3>1 DEF Rejected, WriteFacts
    <3>3. WorkerInv(w)'
      BY <1>3, <3>1, <3>2 DEF CallAt, WorkerInv, Done
    <3> QED BY <3>2, <3>3
  <2> QED BY <1>6, <2>2, <2>3, <2>4, <2>5, SameParts, SameStatements DEF MS!Merge
<1>7. CASE MS!CloseSession(w)
  <2>1. CallAt(w, "returned", call[w].pos, call[w].err)
    <3>1. Goto(w, "returned")
      BY <1>7, SameParts DEF MS!CloseSession
    <3> QED BY <3>1, GotoEffect
  <2>2. StagingLike(staging', w)
    BY <1>7, StagingSet, SameParts DEF MS!CloseSession
  <2>3. WriteFacts(w)
    BY <1>1, <1>7, <2>1, <2>2 DEF MS!CloseSession, WriteFacts
  <2>4. ~call[w].err => RowsWritten(w)'
    BY <1>2, <1>7 DEF MS!CloseSession, WorkerInv, Done, RowsWritten, RowWritten, Unnoticed, Driver
  <2>5. WorkerInv(w)'
    BY <1>3, <2>1, <2>3, <2>4 DEF CallAt, WorkerInv, Done
  <2> QED BY <2>3, <2>5
<1> QED BY <1>4, <1>5, <1>6, <1>7 DEF MS!Step, MS!WriteBatch

\* Oracle fills its staging table chunk by chunk; a chunk's rows stay for the next ones only
\* if the table is not a temporary one.
LEMMA OracleUpsert ==
  ASSUME DatabaseTypes, NEW w \in Workers, Driver = "oracle", ORA!Step(w), setting.upsert,
         WorkerInv(w)
  PROVE  WriteFacts(w) /\ WorkerInv(w)'
<1>1. StagingLike(staging, w) /\ faults \in Nat
  BY StagingSet DEF DatabaseTypes
<1>2. ASSUME WriteFacts(w)
      PROVE  /\ \A k \in Keys : table[Loaded].rows[k] = "new" => table'[Loaded].rows[k] = "new"
             /\ setting' = setting /\ Driver' = Driver
             /\ StagingForgets' <=> StagingForgets
  BY <1>2, NewStay DEF WriteFacts, Driver, StagingForgets
<1> DEFINE made == [staging EXCEPT ![w] = [exists |-> TRUE, rows |-> {}]]
<1>3. StagingLike(made, w) /\ StagingLike([staging EXCEPT ![w].rows = {}], w)
  BY StagingSet
<1> HIDE DEF made
<1>4. CASE ORA!CreateGlobalTemporary(w)
  <2>1. \/ /\ setting.gtt /\ staging' = made
           /\ Goto(w, "bulkTemporary") /\ UNCHANGED <<setting, table, faults, run>>
        \/ /\ staging' = [staging EXCEPT ![w].rows = {}]
           /\ (Goto(w, "bulk") \/ (setting.gtt /\ Goto(w, "bulkTemporary")))
           /\ UNCHANGED <<setting, table, faults, run>>
        \/ /\ UNCHANGED faults \/ Fault
           /\ Goto(w, "create") /\ UNCHANGED <<setting, table, staging, run>>
    BY <1>4, SameParts DEF ORA!CreateGlobalTemporary, made
  <2>2. faults' \in Nat
    BY <1>1, <2>1 DEF Fault
  <2>3. \/ CallAt(w, "bulkTemporary", call[w].pos, call[w].err) /\ setting.gtt
        \/ CallAt(w, "create", call[w].pos, call[w].err)
        \/ CallAt(w, "bulk", call[w].pos, call[w].err)
    BY <2>1, GotoEffect
  <2>4. WriteFacts(w)
    BY <1>1, <1>3, <2>1, <2>2, <2>3 DEF WriteFacts
  <2>5. call[w].pc = "start"
    BY <1>4 DEF ORA!CreateGlobalTemporary
  <2>6. ~StagingForgets => call[w].pos = 1
    BY <2>5 DEF WorkerInv
  <2>7. \A i \in DOMAIN BatchOf[w] : ~(i < 1)
    BY BatchFacts
  <2>8. WorkerInv(w)'
    BY <1>2, <2>3, <2>4, <2>5, <2>6, <2>7 DEF CallAt, WorkerInv, Done, StagingForgets
  <2> QED BY <2>4, <2>8
<1>5. CASE ORA!BulkInsertTemporary(w)
  <2>1. PICK s : /\ Statement(w, table, s, "merge", "drop")
                 /\ StagingLike(s, w)
    BY <1>3, <1>5, SameStatements DEF ORA!BulkInsertTemporary
  <2>2. WriteFacts(w)
    BY <2>1, StatementFacts
  <2>3. StagingForgets
    BY <1>5 DEF ORA!BulkInsertTemporary, WorkerInv
  <2>4. WorkerInv(w)'
    BY <1>2, <2>2, <2>3 DEF WorkerInv
  <2> QED BY <2>2, <2>4
<1>6. CASE ORA!CreateRegular(w)
  <2>1. Statement(w, table, made, "bulk", "returned") /\ call[w].pc = "create"
    BY <1>6, SameStatements DEF ORA!CreateRegular, made
  <2>2. /\ WriteFacts(w)
        /\ \/ call'[w].pc = "bulk" /\ call'[w].pos = call[w].pos
           \/ call'[w].pc = "returned" /\ call'[w].err = TRUE
    BY <1>3, <2>1, StatementFacts
  <2>3. ~StagingForgets /\ call'[w].pc = "bulk" => call'[w].pos = 1
    BY <2>1, <2>2 DEF WorkerInv
  <2>4. \A i \in DOMAIN BatchOf[w] : ~(i < 1)
    BY BatchFacts
  <2>5. WorkerInv(w)'
    BY <1>2, <2>2, <2>3, <2>4 DEF WorkerInv, Done
  <2> QED BY <2>2, <2>5
<1>7. CASE ORA!BulkInsert(w)
  <2> DEFINE pos == call[w].pos
             last == LastRowOfChunk(w, pos)
             r == staging[w].rows \cup Chunk(w, pos)
             filled == [staging EXCEPT ![w].rows = r]
  <2>1. /\ call[w].pc = "bulk"
        /\ \/ /\ staging' = filled
              /\ ORA!AfterChunk(w, "merge")
              /\ UNCHANGED <<setting, table, faults, run>>
           \/ /\ Fault
              /\ staging' \in {staging, filled}
              /\ Fails(w, "drop")
              /\ UNCHANGED <<setting, table, run>>
    BY <1>7, SameParts DEF ORA!BulkInsert
  <2>2. StagingLike(filled, w) /\ filled[w].rows = r
    BY StagingSet
  <2> HIDE DEF filled
  <2>3. pos \in Nat \ {0}
    BY DEF DatabaseTypes, IsCall
  <2>4. CASE /\ staging' = filled
             /\ ORA!AfterChunk(w, "merge")
             /\ UNCHANGED <<setting, table, faults, run>>
    <3>1. CallAt(w, IF last = Len(BatchOf[w]) THEN "merge" ELSE "bulk", last + 1, call[w].err)
      <4>1. call' = [call EXCEPT ![w].pos = LastRowOfChunk(w, @) + 1,
                                 ![w].pc = IF LastRowOfChunk(w, call[w].pos) = Len(BatchOf[w])
                                           THEN "merge" ELSE @]
        BY <2>4, SameParts DEF ORA!AfterChunk
      <4> QED BY <2>1, <4>1, ChunkEffect
    <3>2. WriteFacts(w)
      BY <1>1, <2>2, <2>4, <3>1 DEF WriteFacts
    <3>3. ASSUME ~StagingForgets, NEW i \in DOMAIN BatchOf[w], i < last + 1
          PROVE  BatchOf[w][i] \in r
      <4>1. i < pos \/ BatchOf[w][i] \in Chunk(w, pos)
        BY <2>3, <3>3, ChunkFacts
      <4>2. i < pos => BatchOf[w][i] \in staging[w].rows
        BY <2>1, <3>3 DEF WorkerInv
      <4> QED BY <4>1, <4>2
    <3>4. ASSUME ~StagingForgets, last = Len(BatchOf[w])
          PROVE  BatchKeys(w) \subseteq staging'[w].rows
      <4>1. \A i \in DOMAIN BatchOf[w] : i < last + 1
        BY <2>3, <3>4, ChunkFacts
      <4>2. \A i \in DOMAIN BatchOf[w] : BatchOf[w][i] \in r
        BY <3>3, <3>4, <4>1
      <4> QED BY <2>2, <2>4, <4>2, BatchFacts
    <3>5. WorkerInv(w)'
      <4>1. CASE last = Len(BatchOf[w])
        <5>1. call'[w].pc = "merge"
          BY <3>1, <4>1 DEF CallAt
        <5> QED BY <1>2, <3>2, <3>4, <4>1, <5>1 DEF WorkerInv, Done
      <4>2. CASE last # Len(BatchOf[w])
        <5>1. call'[w].pc = "bulk" /\ call'[w].pos = last + 1
          BY <3>1, <4>2 DEF CallAt
        <5>2. ~StagingForgets =>
                \A i \in DOMAIN BatchOf[w] : i < last + 1 => BatchOf[w][i] \in staging'[w].rows
          BY <2>2, <2>4, <3>3
        <5> QED BY <1>2, <3>2, <5>1, <5>2 DEF WorkerInv, Done
      <4> QED BY <4>1, <4>2
    <3> QED BY <3>2, <3>5
  <2>5. CASE /\ Fault
             /\ staging' \in {staging, filled}
             /\ Fails(w, "drop")
             /\ UNCHANGED <<setting, table, run>>
    <3>1. CallAt(w, "drop", call[w].pos, TRUE)
      BY <2>5, FailsEffect
    <3>2. faults' \in Nat
      BY <1>1, <2>5 DEF Fault
    <3>3. WriteFacts(w)
      BY <1>1, <2>2, <2>5, <3>1, <3>2 DEF WriteFacts
    <3>4. WorkerInv(w)'
      BY <1>2, <3>1, <3>3 DEF CallAt, WorkerInv, Done
    <3> QED BY <3>3, <3>4
  <2> QED BY <2>1, <2>4, <2>5
<1>8. CASE ORA!Merge(w)
  <2>1. ~StagingForgets => BatchKeys(w) \subseteq staging[w].rows
    BY <1>8 DEF ORA!Merge, WorkerInv
  <2>2. PICK f : f = WithRows(staging[w].rows)
    OBVIOUS
  <2>3. /\ WriteFacts(w)
        /\ \/ call'[w].pc = "drop" /\ table' = f
           \/ call'[w].pc = "drop" /\ call'[w].err = TRUE
    <3>1. Statement(w, f, staging, "drop", "drop")
      BY <1>8, <2>2, SameParts, SameStatements DEF ORA!Merge
    <3>2. StagingLike(staging, w)
      BY <1>1
    <3>3. f = table \/ \E ks : f = WithRows(ks)
      BY <2>2
    <3>4. /\ WriteFacts(w)
          /\ \/ /\ call'[w].pc = "drop" /\ call'[w].pos = call[w].pos
                /\ table' = f /\ staging' = staging
             \/ call'[w].pc = "drop" /\ call'[w].err = TRUE
      BY ONLY DatabaseTypes, w \in Workers, <3>1, <3>2, <3>3, StatementFacts
    <3> QED BY <3>4
  <2>4. ~StagingForgets /\ table' = f => RowsWritten(w)'
    <3>1. \A k \in BatchKeys(w) : k \in Keys
      BY BatchFacts
    <3>2. \A k \in Keys : WithRows(staging[w].rows)[Loaded].rows[k] =
                            IF k \in staging[w].rows THEN "new" ELSE table[Loaded].rows[k]
      BY RowsEffect
    <3> QED BY <2>1, <2>2, <3>1, <3>2 DEF RowsWritten, RowWritten
  <2>5. WorkerInv(w)'
    BY <1>2, <2>3, <2>4 DEF WorkerInv, Done
  <2> QED BY <2>3, <2>5
<1>9. CASE ORA!DropStaging(w)
  <2>1. CallAt(w, "returned", call[w].pos, call[w].err)
    <3>1. Goto(w, "returned")
      BY <1>9, SameParts DEF ORA!DropStaging
    <3> QED BY <3>1, GotoEffect
  <2>2. StagingLike(staging', w)
    BY <1>1, <1>9, StagingSet, SameParts DEF ORA!DropStaging
  <2>3. faults' \in Nat
    BY <1>1, <1>9 DEF ORA!DropStaging
  <2>4. WriteFacts(w)
    BY <1>9, <2>1, <2>2, <2>3 DEF ORA!DropStaging, WriteFacts
  <2>5. ~StagingForgets /\ ~call[w].err => RowsWritten(w)'
    BY <1>9 DEF ORA!DropStaging, WorkerInv, Done, RowsWritten, RowWritten, Unnoticed, Driver
  <2>6. WorkerInv(w)'
    BY <1>2, <2>1, <2>4, <2>5 DEF CallAt, WorkerInv, Done
  <2> QED BY <2>4, <2>6
<1> QED BY <1>4, <1>5, <1>6, <1>7, <1>8, <1>9 DEF ORA!Step, ORA!InsertChunk

LEMMA WriteStep ==
  ASSUME DatabaseTypes, NEW w \in Workers, Write(w), WorkerInv(w)
  PROVE  WriteFacts(w) /\ WorkerInv(w)'
<1>1. CASE ~setting.upsert \/ Driver = "mysql"
  <2>1. call[w].pc = "start"
    BY <1>1 DEF Write, WorkerInv, Returned
  <2>2. WriteFacts(w) /\ Inserted(w)
    BY <1>1, <2>1, InsertEffect
  <2>3. WorkerInv(w)'
    BY <1>1, <2>1, <2>2, InsertKeeps
  <2> QED BY <2>2, <2>3
<1>2. CASE setting.upsert /\ Driver = "postgres"
  <2>1. PG!Step(w)
    BY <1>2 DEF Write
  <2>2. WriteFacts(w)
    BY <1>2, <2>1, PostgresUpsert
  <2>3. WorkerInv(w)'
    BY <1>2, <2>2 DEF WriteFacts, WorkerInv, StagingForgets, Driver
  <2> QED BY <2>2, <2>3
<1>3. CASE setting.upsert /\ Driver = "mssql"
  <2>1. MS!Step(w)
    BY <1>3 DEF Write
  <2> QED BY <1>3, <2>1, MSSQLUpsert
<1>4. CASE setting.upsert /\ Driver = "oracle"
  <2>1. ORA!Step(w)
    BY <1>4 DEF Write
  <2> QED BY <1>4, <2>1, OracleUpsert
<1> QED BY <1>1, <1>2, <1>3, <1>4, FourDrivers DEF DatabaseTypes

LEMMA OtherWorkers ==
  ASSUME DatabaseTypes, NEW w \in Workers, WriteFacts(w), NEW v \in Workers, v # w, WorkerInv(v)
  PROVE  WorkerInv(v)'
<1>1. call'[v] = call[v]
  BY DEF WriteFacts, CallAt
<1>2. staging'[v] = staging[v]
  BY DEF WriteFacts, StagingLike
<1>3. /\ \A k \in Keys : table[Loaded].rows[k] = "new" => table'[Loaded].rows[k] = "new"
      /\ \A k \in Keys : table'[Loaded].rows[k] \in {table[Loaded].rows[k], "new"}
  BY NewStay DEF WriteFacts
<1>4. setting' = setting /\ Driver' = Driver /\ (StagingForgets' <=> StagingForgets)
  BY DEF WriteFacts, Driver, StagingForgets
<1>5. RowsWritten(v) => RowsWritten(v)'
  <2>1. \A k \in Keys : RowWritten(k) => RowWritten(k)'
    BY <1>3, <1>4 DEF RowWritten, Unnoticed
  <2> QED BY <2>1, BatchFacts DEF RowsWritten
<1>6. \A i \in DOMAIN BatchOf[v] : BatchOf[v][i] \in Keys
  BY BatchFacts
<1> QED BY <1>1, <1>2, <1>3, <1>4, <1>5, <1>6 DEF WorkerInv

\* The types of the database after a step of a call.
LEMMA WriteTypes ==
  ASSUME DatabaseTypes, NEW w \in Workers, WriteFacts(w)
  PROVE  DatabaseTypes'
<1>1. setting' \in Settings /\ faults' \in Nat
  BY DEF WriteFacts, DatabaseTypes
<1>2. Tabled(table')
  BY NewStay DEF WriteFacts
<1>3. /\ staging' = [v \in Workers |-> staging'[v]]
      /\ \A v \in Workers : IsStaging(staging'[v])
  BY DEF WriteFacts, StagingLike
<1>4. /\ call' = [v \in Workers |-> call'[v]]
      /\ \A v \in Workers : IsCall(call'[v])
  BY DEF WriteFacts, CallAt
<1> QED BY <1>1, <1>2, <1>3, <1>4, Zenon DEF DatabaseTypes, Tabled

-----------------------------------------------------------------------------
(* The run and its goroutines. *)

RunRecord ==
  /\ run = [number |-> run.number, phase |-> run.phase, todo |-> run.todo, failed |-> run.failed]
  /\ run.failed \in BOOLEAN

RunMoves(phase, todo, failed) ==
  /\ RunRecord'
  /\ run'.number = run.number /\ run'.phase = phase /\ run'.todo = todo
  /\ run'.failed <=> failed

LEMMA StartPhaseEffect ==
  ASSUME RunTypes, NEW phase, run' = StartPhase(phase)
  PROVE  RunMoves(phase, JobsFor(phase), FALSE)
<1>1. run' = [run EXCEPT !.phase = phase, !.todo = JobsFor(phase), !.failed = FALSE]
  BY DEF StartPhase
<1>2. PICK x, y, todo : x = run /\ y = run' /\ todo = JobsFor(phase)
  OBVIOUS
<1>3. /\ x = [number |-> x.number, phase |-> x.phase, todo |-> x.todo, failed |-> x.failed]
      /\ y = [x EXCEPT !.phase = phase, !.todo = todo, !.failed = FALSE]
  BY <1>1, <1>2 DEF RunTypes
<1>4. /\ y = [number |-> y.number, phase |-> y.phase, todo |-> y.todo, failed |-> y.failed]
      /\ y.number = x.number /\ y.phase = phase /\ y.todo = todo /\ y.failed = FALSE
  BY <1>3
<1> QED BY <1>2, <1>4 DEF RunMoves, RunRecord

LEMMA GoesOnEffect ==
  ASSUME RunTypes, NEW j, NEW k, GoesOn(j, k)
  PROVE  RunMoves(run.phase, (run.todo \ {j}) \cup {k}, run.failed)
<1>1. run' = [run EXCEPT !.todo = (run.todo \ {j}) \cup {k}]
  BY DEF GoesOn
<1>2. PICK x, y, todo : x = run /\ y = run' /\ todo = (run.todo \ {j}) \cup {k}
  OBVIOUS
<1>3. /\ x = [number |-> x.number, phase |-> x.phase, todo |-> x.todo, failed |-> x.failed]
      /\ y = [x EXCEPT !.todo = todo]
  BY <1>1, <1>2 DEF RunTypes
<1>4. /\ y = [number |-> y.number, phase |-> y.phase, todo |-> y.todo, failed |-> y.failed]
      /\ y.number = x.number /\ y.phase = x.phase /\ y.todo = todo /\ y.failed = x.failed
  BY <1>3
<1> QED BY <1>2, <1>4, Zenon DEF RunMoves, RunRecord, RunTypes

LEMMA EndsEffect ==
  ASSUME RunTypes, NEW j, NEW err \in BOOLEAN, Ends(j, err)
  PROVE  RunMoves(run.phase, run.todo \ {j}, run.failed \/ err)
<1>1. run' = [run EXCEPT !.todo = run.todo \ {j}, !.failed = run.failed \/ err]
  BY DEF Ends
<1>2. PICK x, y, todo, failed : /\ x = run /\ y = run' /\ todo = run.todo \ {j}
                                /\ failed \in BOOLEAN /\ failed = (run.failed \/ err)
  OBVIOUS
<1>3. /\ x = [number |-> x.number, phase |-> x.phase, todo |-> x.todo, failed |-> x.failed]
      /\ y = [x EXCEPT !.todo = todo, !.failed = failed]
  BY <1>1, <1>2, Zenon DEF RunTypes
<1>4. /\ y = [number |-> y.number, phase |-> y.phase, todo |-> y.todo, failed |-> y.failed]
      /\ y.number = x.number /\ y.phase = x.phase /\ y.todo = todo /\ y.failed = failed
  BY <1>3
<1> QED BY <1>2, <1>4, Zenon DEF RunMoves, RunRecord, RunTypes

LEMMA JobAt ==
  ASSUME NEW j, IsJob(j), NEW step
  PROVE  LET k == [j EXCEPT !.step = step]
         IN IsJob(k) /\ k.table = j.table /\ k.what = j.what /\ k.step = step
BY DEF IsJob

LEMMA NewJob ==
  ASSUME NEW t \in Tables, NEW what
  PROVE  /\ IsJob(Job(t, what)) /\ Job(t, what).table = t /\ Job(t, what).what = what
         /\ Job(t, what).step \in {"ask", "exec"}
         /\ Job(t, what).step = "ask" <=> what = "create" \/ (what = "drop" /\ Driver = "mysql")
BY DEF Job, IsJob

Whats(phase) ==
  CASE phase = "drop" -> {"drop"}
    [] phase = "create" -> {"create", "primaryKey"}
    [] phase = "sequences" -> {"sequence"}
    [] phase = "indexes" -> {"index"}
    [] phase = "foreignKeys" -> {"foreignKey"}
    [] phase = "checks" -> {"check"}
    [] OTHER -> {}

\* The goroutines are those of the phase; the ones that ask have a statement to ask for,
\* and what is sent, or saved, for a new table has been answered.
JobBelongs(j) ==
  /\ j.what \in Whats(run.phase)
  /\ j.step # "exec" => j.what \in {"drop", "create"}
  /\ j.what = "create" /\ j.step # "ask" => cache[j.table, "create"] # NoAnswer
JobsBelong == \A j \in run.todo : JobBelongs(j)

LEMMA PhaseJobs ==
  ASSUME NEW phase
  PROVE  \A j \in JobsFor(phase) :
           /\ IsJob(j) /\ j.what \in Whats(phase)
           /\ j.step # "exec" => j.what \in {"drop", "create"}
           /\ j.what = "create" => j.step = "ask"
<1> SUFFICES ASSUME NEW j \in JobsFor(phase)
             PROVE  /\ IsJob(j) /\ j.what \in Whats(phase)
                    /\ j.step # "exec" => j.what \in {"drop", "create"}
                    /\ j.what = "create" => j.step = "ask"
  OBVIOUS
<1>1. PICK t \in Tables, what \in Whats(phase) : j = Job(t, what)
  <2>1. \A r \in Refs : r[1] \in Tables
    BY TargetAssumption
  <2> QED BY <2>1 DEF JobsFor, Whats
<1> QED BY <1>1, NewJob

\* Whatever a goroutine does.
JobStep(j) == AskModel(j) \/ SaveAnswer(j) \/ Drop(j) \/ CreateTableAndPK(j) \/ Finalize(j)

LEMMA KeyOfJob ==
  ASSUME NEW j, IsJob(j), j.what \in {"drop", "create"}
  PROVE  KeyOf(j) \in CacheKeys /\ KeyOf(j)[1] = j.table /\ KeyOf(j)[2] = j.what
BY DEF IsJob, KeyOf, CacheKeys

LEMMA GenerateTypes ==
  ASSUME AnswerTypes, NEW key \in CacheKeys, GenerateDDL(key), UNCHANGED <<cacheFile, saving>>
  PROVE  /\ AnswerTypes'
         /\ cache'[key] # NoAnswer
         /\ \A k \in CacheKeys : k # key => cache'[k] = cache[k]
<1>1. /\ cache \in [CacheKeys -> Answers("create") \cup Answers("drop") \cup {NoAnswer}]
      /\ \A k \in CacheKeys : cache[k] = NoAnswer \/ cache[k] \in Answers(k[2])
  BY DEF AnswerTypes, Caches
<1>2. PICK answer \in Answers(key[2]) : cache' = [cache EXCEPT ![key] = answer]
  BY DEF GenerateDDL
<1>3. answer \in Answers("create") \cup Answers("drop") /\ answer # NoAnswer
  BY DEF Answers, NoAnswer
<1>4. cache' \in Caches
  BY <1>1, <1>2, <1>3 DEF Caches
<1> QED BY <1>1, <1>2, <1>3, <1>4 DEF AnswerTypes

LEMMA SaveTypes ==
  ASSUME AnswerTypes, NEW key \in CacheKeys, SaveBegins(key) \/ SaveEnds(key)
  PROVE  AnswerTypes' /\ UNCHANGED cache
<1>1. CASE SaveBegins(key)
  BY <1>1 DEF SaveBegins, AnswerTypes
<1>2. CASE SaveEnds(key)
  <2>1. saving[key] \in Caches
    BY <1>2 DEF SaveEnds, AnswerTypes, NotSaving
  <2>2. cacheFile' \in {saving[key], Unreadable} /\ UNCHANGED cache
    BY <1>2 DEF SaveEnds
  <2>3. saving' = [saving EXCEPT ![key] = NotSaving]
    BY <1>2 DEF SaveEnds
  <2> QED BY <2>1, <2>2, <2>3 DEF AnswerTypes
<1> QED BY <1>1, <1>2

LEMMA LoadTypes ==
  ASSUME AnswerTypes, LoadCache
  PROVE  AnswerTypes'
<1>1. NoAnswers \in Caches
  BY DEF NoAnswers, Caches, NoAnswer
<1> QED BY <1>1 DEF AnswerTypes, LoadCache

\* The goroutine of job j is over, or goes on.
JobFacts(j) ==
  /\ UNCHANGED <<setting, staging, call>>
  /\ faults' \in Nat /\ (faults' = 0 => faults = 0)
  /\ Tabled(table')
  /\ AnswerTypes'
  /\ \A k \in CacheKeys : k # KeyOf(j) \/ cache[k] # NoAnswer => cache'[k] = cache[k]
  /\ \A k \in CacheKeys : cache[k] # NoAnswer => cache'[k] # NoAnswer
  /\ RunTypes'
  /\ run'.number = run.number /\ run'.phase = run.phase
  /\ run.failed => run'.failed
  /\ JobsBelong'

\* Jobs that belong to their phase still do when the cache has no less.
Joins(k) ==
  /\ IsJob(k) /\ k.what \in Whats(run.phase)
  /\ k.step # "exec" => k.what \in {"drop", "create"}
  /\ k.what = "create" /\ k.step # "ask" => cache'[k.table, "create"] # NoAnswer

LEMMA JobsStay ==
  ASSUME RunTypes, JobsBelong, NEW todo, NEW failed,
         RunMoves(run.phase, todo, failed), \A k \in todo : k \in run.todo \/ Joins(k),
         \A k \in CacheKeys : cache[k] # NoAnswer => cache'[k] # NoAnswer
  PROVE  /\ RunTypes' /\ JobsBelong'
         /\ run'.number = run.number /\ run'.phase = run.phase
<1>1. ASSUME NEW i \in todo
      PROVE  Joins(i)
  <2>1. CASE i \in run.todo
    <3>1. IsJob(i) /\ JobBelongs(i)
      BY <2>1 DEF RunTypes, JobsBelong
    <3>2. i.what = "create" => <<i.table, "create">> \in CacheKeys
      BY <3>1 DEF IsJob, CacheKeys
    <3> QED BY <3>1, <3>2 DEF JobBelongs, Joins
  <2> QED BY <1>1, <2>1
<1> QED BY <1>1 DEF RunMoves, RunRecord, RunTypes, JobsBelong, JobBelongs, Joins

LEMMA AskStep ==
  ASSUME TargetTypes, JobsBelong, NEW j \in run.todo, AskModel(j)
  PROVE  JobFacts(j)
<1>1. /\ IsJob(j) /\ j.what \in Whats(run.phase) /\ j.what \in {"drop", "create"}
      /\ KeyOf(j) \in CacheKeys /\ KeyOf(j)[1] = j.table /\ KeyOf(j)[2] = j.what
  <2>1. IsJob(j) /\ JobBelongs(j) /\ j.step = "ask"
    BY DEF AskModel, TargetTypes, RunTypes, JobsBelong
  <2>2. j.what \in {"drop", "create"}
    BY <2>1 DEF JobBelongs
  <2> QED BY <2>1, <2>2, KeyOfJob DEF JobBelongs
<1>2. /\ UNCHANGED <<setting, table, staging, call, faults>>
      /\ faults' \in Nat /\ Tabled(table')
  BY DEF AskModel, TargetTypes, DatabaseTypes, Tabled
<1>3. /\ AnswerTypes'
      /\ \A k \in CacheKeys : k # KeyOf(j) \/ cache[k] # NoAnswer => cache'[k] = cache[k]
      /\ \A k \in CacheKeys : cache[k] # NoAnswer => cache'[k] # NoAnswer
  <2>1. CASE UNCHANGED ddlVars
    BY <2>1 DEF ddlVars, TargetTypes, AnswerTypes, Caches
  <2>2. CASE /\ cache[KeyOf(j)] = NoAnswer /\ GenerateDDL(KeyOf(j))
             /\ UNCHANGED <<cacheFile, saving>>
    <3>1. AnswerTypes
      BY DEF TargetTypes
    <3> QED BY <1>1, <2>2, <3>1, GenerateTypes
  <2> QED BY <2>1, <2>2 DEF AskModel
<1>4. CASE \E step \in {"exec", "save"} :
             /\ AtStep(j, step)
             /\ j.what = "create" => cache'[KeyOf(j)] # NoAnswer
  <2>1. PICK k : /\ GoesOn(j, k) /\ IsJob(k) /\ k.table = j.table /\ k.what = j.what
                 /\ j.what = "create" => cache'[KeyOf(j)] # NoAnswer
    BY <1>1, <1>4, JobAt DEF AtStep
  <2>2. RunMoves(run.phase, (run.todo \ {j}) \cup {k}, run.failed)
    BY <2>1, GoesOnEffect DEF TargetTypes
  <2>3. Joins(k)
    BY <1>1, <2>1 DEF Joins, KeyOf
  <2>4. RunTypes' /\ JobsBelong' /\ run'.number = run.number /\ run'.phase = run.phase
    BY <1>3, <2>2, <2>3, JobsStay DEF TargetTypes
  <2> QED BY <1>2, <1>3, <2>2, <2>4 DEF JobFacts, RunMoves
<1>5. CASE Ends(j, TRUE)
  <2>1. RunMoves(run.phase, run.todo \ {j}, run.failed \/ TRUE)
    BY <1>5, EndsEffect DEF TargetTypes
  <2>2. RunTypes' /\ JobsBelong' /\ run'.number = run.number /\ run'.phase = run.phase
    BY <1>3, <2>1, JobsStay DEF TargetTypes
  <2> QED BY <1>2, <1>3, <2>1, <2>2 DEF JobFacts, RunMoves
<1>6. \/ \E step \in {"exec", "save"} :
           /\ AtStep(j, step)
           /\ j.what = "create" => cache'[KeyOf(j)] # NoAnswer
      \/ Ends(j, TRUE)
  <2>1. CASE cache[KeyOf(j)] # NoAnswer /\ AtStep(j, "exec") /\ UNCHANGED ddlVars
    BY <2>1 DEF ddlVars
  <2>2. CASE /\ cache[KeyOf(j)] = NoAnswer /\ GenerateDDL(KeyOf(j)) /\ AtStep(j, "save")
             /\ UNCHANGED <<cacheFile, saving>>
    <3>1. cache'[KeyOf(j)] # NoAnswer
      BY <1>1, <2>2, GenerateTypes DEF TargetTypes
    <3> QED BY <2>2, <3>1
  <2> QED BY <2>1, <2>2 DEF AskModel
<1> QED BY <1>4, <1>5, <1>6

LEMMA SaveStep ==
  ASSUME TargetTypes, JobsBelong, NEW j \in run.todo, SaveAnswer(j)
  PROVE  JobFacts(j) /\ UNCHANGED <<table, cache>>
<1>1. /\ IsJob(j) /\ JobBelongs(j) /\ j.step \in {"save", "saving"}
      /\ j.what \in {"drop", "create"}
      /\ KeyOf(j) \in CacheKeys
  <2>1. IsJob(j) /\ JobBelongs(j) /\ j.step \in {"save", "saving"}
    BY DEF SaveAnswer, TargetTypes, RunTypes, JobsBelong
  <2>2. j.what \in {"drop", "create"}
    BY <2>1 DEF JobBelongs
  <2> QED BY <2>1, <2>2, KeyOfJob
<1>2. /\ UNCHANGED <<setting, table, staging, call, faults>>
      /\ faults' \in Nat /\ Tabled(table')
  BY DEF SaveAnswer, TargetTypes, DatabaseTypes, Tabled
<1>3. AnswerTypes' /\ UNCHANGED cache
  BY <1>1, SaveTypes DEF SaveAnswer, TargetTypes
<1>4. PICK k : GoesOn(j, k) /\ IsJob(k) /\ k.table = j.table /\ k.what = j.what
  BY <1>1, JobAt DEF SaveAnswer, AtStep
<1>5. RunMoves(run.phase, (run.todo \ {j}) \cup {k}, run.failed)
  BY <1>4, GoesOnEffect DEF TargetTypes
<1>6. Joins(k)
  BY <1>1, <1>3, <1>4 DEF Joins, JobBelongs
<1>7. RunTypes' /\ JobsBelong' /\ run'.number = run.number /\ run'.phase = run.phase
  BY <1>3, <1>5, <1>6, JobsStay DEF TargetTypes
<1> QED BY <1>2, <1>3, <1>5, <1>7 DEF JobFacts, RunMoves

\* A goroutine that sends a statement of its table: it has taken effect or not, and if it has
\* not, or has lost its answer, the phase has failed.
LEMMA RejectedStep ==
  ASSUME TargetTypes, JobsBelong, NEW j \in run.todo, DDLRejected(j)
  PROVE  JobFacts(j) /\ UNCHANGED <<table, cache>> /\ RunMoves(run.phase, run.todo \ {j}, TRUE)
<1>1. /\ UNCHANGED <<setting, table, staging, call, faults, cache, cacheFile, saving>>
      /\ faults' \in Nat /\ Tabled(table')
  BY DEF DDLRejected, ddlVars, TargetTypes, DatabaseTypes, Tabled
<1>2. AnswerTypes'
  BY <1>1 DEF TargetTypes, AnswerTypes, Caches
<1>3. RunMoves(run.phase, run.todo \ {j}, run.failed \/ TRUE)
  BY EndsEffect DEF DDLRejected, TargetTypes
<1>4. RunTypes' /\ JobsBelong' /\ run'.number = run.number /\ run'.phase = run.phase
  BY <1>1, <1>3, JobsStay DEF TargetTypes
<1> QED BY <1>1, <1>2, <1>3, <1>4 DEF JobFacts, RunMoves

LEMMA DDLStep ==
  ASSUME TargetTypes, JobsBelong, NEW j \in run.todo, NEW newTable, NEW follows,
         DDL(j, newTable, follows), Tabled(newTable),
         \A k \in follows : IsJob(k) /\ k.what \in Whats(run.phase) /\ k.step = "exec"
                            /\ k.what # "create"
  PROVE  /\ JobFacts(j) /\ UNCHANGED cache
         /\ \/ /\ table' = newTable /\ UNCHANGED faults
               /\ \/ follows = {} /\ RunMoves(run.phase, run.todo \ {j}, run.failed)
                  \/ \E k \in follows : RunMoves(run.phase, (run.todo \ {j}) \cup {k}, run.failed)
            \/ /\ table' \in {table, newTable} /\ faults' # faults /\ faults' # 0
               /\ RunMoves(run.phase, run.todo \ {j}, TRUE)
<1>1. /\ UNCHANGED <<setting, staging, call, cache, cacheFile, saving>>
      /\ faults \in Nat /\ Tabled(table)
  BY DEF DDL, ddlVars, TargetTypes, DatabaseTypes, Tabled
<1>2. AnswerTypes'
  BY <1>1 DEF TargetTypes, AnswerTypes, Caches
<1>3. CASE table' = newTable /\ UNCHANGED faults /\ follows = {} /\ Ends(j, FALSE)
  <2>1. RunMoves(run.phase, run.todo \ {j}, run.failed \/ FALSE)
    BY <1>3, EndsEffect DEF TargetTypes
  <2>2. RunTypes' /\ JobsBelong' /\ run'.number = run.number /\ run'.phase = run.phase
    BY <1>1, <2>1, JobsStay DEF TargetTypes
  <2> QED BY <1>1, <1>2, <1>3, <2>1, <2>2 DEF JobFacts, RunMoves
<1>4. CASE /\ table' = newTable /\ UNCHANGED faults
           /\ \E k \in follows : GoesOn(j, k)
  <2>1. PICK k \in follows : GoesOn(j, k)
    BY <1>4
  <2>2. RunMoves(run.phase, (run.todo \ {j}) \cup {k}, run.failed)
    BY <2>1, GoesOnEffect DEF TargetTypes
  <2>3. Joins(k)
    BY <2>1 DEF Joins
  <2>4. RunTypes' /\ JobsBelong' /\ run'.number = run.number /\ run'.phase = run.phase
    BY <1>1, <2>2, <2>3, JobsStay DEF TargetTypes
  <2> QED BY <1>1, <1>2, <1>4, <2>2, <2>4 DEF JobFacts, RunMoves
<1>5. CASE Fault /\ table' \in {table, newTable} /\ Ends(j, TRUE)
  <2>1. RunMoves(run.phase, run.todo \ {j}, run.failed \/ TRUE)
    BY <1>5, EndsEffect DEF TargetTypes
  <2>2. RunTypes' /\ JobsBelong' /\ run'.number = run.number /\ run'.phase = run.phase
    BY <1>1, <2>1, JobsStay DEF TargetTypes
  <2>3. faults' \in Nat /\ faults' # faults /\ faults' # 0
    BY <1>1, <1>5 DEF Fault
  <2> QED BY <1>1, <1>2, <1>5, <2>1, <2>2, <2>3 DEF JobFacts, RunMoves
<1> QED BY <1>3, <1>4, <1>5 DEF DDL

LEMMA LastDDL ==
  ASSUME TargetTypes, JobsBelong, NEW j \in run.todo, NEW newTable,
         DDL(j, newTable, {}), Tabled(newTable)
  PROVE  /\ JobFacts(j) /\ UNCHANGED cache
         /\ \/ /\ table' = newTable /\ UNCHANGED faults
               /\ RunMoves(run.phase, run.todo \ {j}, run.failed)
            \/ /\ table' \in {table, newTable} /\ faults' # faults /\ faults' # 0
               /\ RunMoves(run.phase, run.todo \ {j}, TRUE)
<1>1. PICK follows : follows = {} /\ DDL(j, newTable, follows)
  OBVIOUS
<1>2. \A k \in follows : IsJob(k) /\ k.what \in Whats(run.phase) /\ k.step = "exec"
                         /\ k.what # "create"
  BY <1>1
<1>3. /\ JobFacts(j) /\ UNCHANGED cache
      /\ \/ /\ table' = newTable /\ UNCHANGED faults
            /\ \/ follows = {} /\ RunMoves(run.phase, run.todo \ {j}, run.failed)
               \/ \E k \in follows : RunMoves(run.phase, (run.todo \ {j}) \cup {k}, run.failed)
         \/ /\ table' \in {table, newTable} /\ faults' # faults /\ faults' # 0
            /\ RunMoves(run.phase, run.todo \ {j}, TRUE)
  BY <1>1, <1>2, DDLStep
<1> QED BY <1>1, <1>3

Objects == {"index", "foreignKey", "check"}

\* What becomes of a goroutine: it goes on at its next step; it fails; it is done; or it goes
\* on with the primary key of the table that it has created.
Advances(j) ==
  /\ UNCHANGED table
  /\ \E k : /\ k.table = j.table /\ k.what = j.what
            /\ RunMoves(run.phase, (run.todo \ {j}) \cup {k}, run.failed)
JobFails(j) ==
  /\ RunMoves(run.phase, run.todo \ {j}, TRUE)
  /\ j.what = "sequence" => table' \in {table, ResetSequence(j.table)} /\ faults' # 0
  /\ j.what \in Objects => table' \in {table, CreateObject(j.table, j.what)}
JobEnds(j) ==
  /\ RunMoves(run.phase, run.todo \ {j}, run.failed)
  /\ j.what # "create" /\ UNCHANGED cache
  /\ j.what = "primaryKey" => table' = CreatePrimaryKey(j.table)
  /\ j.what = "sequence" => table' = ResetSequence(j.table)
  /\ j.what \in Objects => table' = CreateObject(j.table, j.what)
Creates(j) ==
  /\ j.what = "create" /\ UNCHANGED cache
  /\ cache[j.table, "create"] \in {"right", "noKey"}
  /\ table' = CreateTable(j.table, cache[j.table, "create"] = "right")
  /\ \E k : /\ k.table = j.table /\ k.what = "primaryKey"
            /\ RunMoves(run.phase, (run.todo \ {j}) \cup {k}, run.failed)

LEMMA DropStep ==
  ASSUME TargetTypes, JobsBelong, NEW j \in run.todo, Drop(j)
  PROVE  JobFacts(j) /\ (JobFails(j) \/ JobEnds(j))
<1>1. IsJob(j) /\ j.what = "drop"
  BY DEF Drop, TargetTypes, RunTypes
<1>2. CASE DDLRejected(j)
  <2>1. JobFacts(j)
    BY <1>2, RejectedStep
  <2>2. RunMoves(run.phase, run.todo \ {j}, TRUE)
    BY <1>2, RejectedStep
  <2> QED BY <1>1, <2>1, <2>2 DEF JobFails, Objects
<1>3. CASE \E f \in {table, DropTable(j.table)} : DDL(j, f, {})
  <2>1. PICK f \in {table, DropTable(j.table)} : DDL(j, f, {})
    BY <1>3
  <2>2. Tabled(f)
    BY <1>1, <2>1, DropEffect DEF IsJob, TargetTypes, DatabaseTypes, Tabled
  <2>3. /\ JobFacts(j) /\ UNCHANGED cache
        /\ \/ /\ table' = f /\ UNCHANGED faults
              /\ RunMoves(run.phase, run.todo \ {j}, run.failed)
           \/ /\ table' \in {table, f} /\ faults' # faults /\ faults' # 0
              /\ RunMoves(run.phase, run.todo \ {j}, TRUE)
    BY <2>1, <2>2, LastDDL
  <2> QED BY <1>1, <2>3 DEF JobFails, JobEnds, Objects
<1> QED BY <1>2, <1>3 DEF Drop

LEMMA CreateStep ==
  ASSUME TargetTypes, JobsBelong, NEW j \in run.todo, CreateTableAndPK(j)
  PROVE  JobFacts(j) /\ (JobFails(j) \/ JobEnds(j) \/ Creates(j))
<1>1. IsJob(j) /\ j.table \in Tables /\ j.what \in {"create", "primaryKey"}
  BY DEF CreateTableAndPK, TargetTypes, RunTypes, IsJob
<1>2. CASE DDLRejected(j)
  <2>1. JobFacts(j)
    BY <1>2, RejectedStep
  <2>2. RunMoves(run.phase, run.todo \ {j}, TRUE)
    BY <1>2, RejectedStep
  <2> QED BY <1>1, <2>1, <2>2 DEF JobFails, Objects
<1>3. CASE /\ j.what = "create" /\ j.step = "exec" /\ cache[KeyOf(j)] # "rejected"
           /\ DDL(j, CreateTable(j.table, cache[KeyOf(j)] = "right"), {Job(j.table, "primaryKey")})
  <2>1. cache[j.table, "create"] \in {"right", "noKey"} /\ j.what \in Whats(run.phase)
    <3>1. JobBelongs(j) /\ KeyOf(j) = <<j.table, "create">>
      BY <1>3 DEF JobsBelong, KeyOf
    <3>2. cache[j.table, "create"] # NoAnswer
      BY <1>3, <3>1 DEF JobBelongs
    <3>3. cache[KeyOf(j)] = NoAnswer \/ cache[KeyOf(j)] \in Answers(j.what)
      BY <1>1, <1>3, KeyOfJob DEF TargetTypes, AnswerTypes, Caches
    <3> QED BY <1>3, <3>1, <3>2, <3>3 DEF Answers, JobBelongs
  <2> DEFINE withKey == cache[KeyOf(j)] = "right"
             f == CreateTable(j.table, withKey)
             next == {Job(j.table, "primaryKey")}
  <2>2. DDL(j, f, next) /\ withKey \in BOOLEAN
    BY <1>3
  <2> HIDE DEF withKey
  <2>3. Tabled(f)
    BY <1>1, <2>2, CreateEffect DEF TargetTypes
  <2> HIDE DEF f
  <2>4. \A k \in next :
          /\ IsJob(k) /\ k.what = "primaryKey" /\ k.table = j.table /\ k.step = "exec"
          /\ k.what \in Whats(run.phase)
    <3>1. j.what = "create" /\ "primaryKey" \in Whats(run.phase)
      BY <1>3, <2>1 DEF Whats
    <3> QED BY <1>1, <3>1, NewJob
  <2> HIDE DEF next
  <2>5. \A k \in next : IsJob(k) /\ k.what \in Whats(run.phase) /\ k.step = "exec"
                        /\ k.what # "create"
    BY <2>4
  <2>6. /\ JobFacts(j) /\ UNCHANGED cache
        /\ \/ /\ table' = f /\ UNCHANGED faults
              /\ \/ next = {} /\ RunMoves(run.phase, run.todo \ {j}, run.failed)
                 \/ \E k \in next : RunMoves(run.phase, (run.todo \ {j}) \cup {k}, run.failed)
           \/ /\ table' \in {table, f} /\ faults' # faults /\ faults' # 0
              /\ RunMoves(run.phase, run.todo \ {j}, TRUE)
    BY <2>2, <2>3, <2>5, DDLStep
  <2>7. next # {}
    BY DEF next
  <2>8. table' = f => table' = CreateTable(j.table, cache[j.table, "create"] = "right")
    BY <1>3 DEF f, withKey, KeyOf
  <2>9. CASE RunMoves(run.phase, run.todo \ {j}, TRUE)
    BY <1>3, <2>6, <2>9 DEF JobFails, Objects
  <2>10. CASE /\ table' = f
              /\ \E k \in next : RunMoves(run.phase, (run.todo \ {j}) \cup {k}, run.failed)
    BY <1>3, <2>1, <2>4, <2>6, <2>8, <2>10 DEF Creates
  <2> QED BY <2>6, <2>7, <2>9, <2>10
<1>4. CASE j.what = "primaryKey" /\ DDL(j, CreatePrimaryKey(j.table), {})
  <2> DEFINE f == CreatePrimaryKey(j.table)
  <2>1. Tabled(f) /\ DDL(j, f, {})
    BY <1>1, <1>4, PrimaryKeyEffect DEF TargetTypes
  <2> HIDE DEF f
  <2>2. /\ JobFacts(j) /\ UNCHANGED cache
        /\ \/ /\ table' = f /\ UNCHANGED faults
              /\ RunMoves(run.phase, run.todo \ {j}, run.failed)
           \/ /\ table' \in {table, f} /\ faults' # faults /\ faults' # 0
              /\ RunMoves(run.phase, run.todo \ {j}, TRUE)
    BY <2>1, LastDDL
  <2> QED BY <1>4, <2>2 DEF JobFails, JobEnds, Objects, f
<1> QED BY <1>2, <1>3, <1>4 DEF CreateTableAndPK

LEMMA FinalizeStep ==
  ASSUME TargetTypes, JobsBelong, NEW j \in run.todo, Finalize(j)
  PROVE  JobFacts(j) /\ (JobFails(j) \/ JobEnds(j))
<1>1. IsJob(j) /\ j.table \in Tables /\ j.what \in {"sequence"} \cup Objects
  BY DEF Finalize, TargetTypes, RunTypes, IsJob, Objects
<1>2. CASE j.what = "sequence" /\ DDL(j, ResetSequence(j.table), {})
  <2> DEFINE f == ResetSequence(j.table)
  <2>1. Tabled(f) /\ DDL(j, f, {})
    BY <1>1, <1>2, SequenceEffect DEF TargetTypes
  <2> HIDE DEF f
  <2>2. /\ JobFacts(j) /\ UNCHANGED cache
        /\ \/ /\ table' = f /\ UNCHANGED faults
              /\ RunMoves(run.phase, run.todo \ {j}, run.failed)
           \/ /\ table' \in {table, f} /\ faults' # faults /\ faults' # 0
              /\ RunMoves(run.phase, run.todo \ {j}, TRUE)
    BY <2>1, LastDDL
  <2> QED BY <1>2, <2>2 DEF JobFails, JobEnds, Objects, f
<1>3. CASE j.what \in Objects /\ DDL(j, CreateObject(j.table, j.what), {})
  <2> DEFINE f == CreateObject(j.table, j.what)
  <2>1. Tabled(f) /\ DDL(j, f, {})
    BY <1>1, <1>3, ObjectEffect DEF TargetTypes
  <2> HIDE DEF f
  <2>2. /\ JobFacts(j) /\ UNCHANGED cache
        /\ \/ /\ table' = f /\ UNCHANGED faults
              /\ RunMoves(run.phase, run.todo \ {j}, run.failed)
           \/ /\ table' \in {table, f} /\ faults' # faults /\ faults' # 0
              /\ RunMoves(run.phase, run.todo \ {j}, TRUE)
    BY <2>1, LastDDL
  <2> QED BY <1>3, <2>2 DEF JobFails, JobEnds, Objects, f
<1>4. CASE j.what \in Objects /\ DDLRejected(j)
  <2>1. JobFacts(j) /\ UNCHANGED table /\ RunMoves(run.phase, run.todo \ {j}, TRUE)
    BY <1>4, RejectedStep
  <2> QED BY <1>4, <2>1 DEF JobFails, Objects
<1> QED BY <1>2, <1>3, <1>4 DEF Finalize, GenerateFinalizationDDL, Objects

LEMMA JobEffect ==
  ASSUME TargetTypes, JobsBelong, NEW j \in run.todo, JobStep(j)
  PROVE  JobFacts(j) /\ (Advances(j) \/ JobFails(j) \/ JobEnds(j) \/ Creates(j))
<1>1. IsJob(j) /\ JobBelongs(j)
  BY DEF TargetTypes, RunTypes, JobsBelong
<1>2. CASE (AskModel(j) \/ SaveAnswer(j)) /\ \E step : AtStep(j, step)
  <2>1. JobFacts(j) /\ UNCHANGED table
    BY <1>2, AskStep, SaveStep DEF AskModel, SaveAnswer
  <2>2. PICK k : GoesOn(j, k) /\ k.table = j.table /\ k.what = j.what
    <3>1. PICK step, k : GoesOn(j, k) /\ k = [j EXCEPT !.step = step]
      BY <1>2 DEF AtStep
    <3>2. k.table = j.table /\ k.what = j.what
      BY <1>1, <3>1 DEF IsJob
    <3> QED BY <3>1, <3>2
  <2>3. RunMoves(run.phase, (run.todo \ {j}) \cup {k}, run.failed)
    BY <2>2, GoesOnEffect DEF TargetTypes
  <2> QED BY <2>1, <2>2, <2>3 DEF Advances
<1>3. CASE AskModel(j) /\ Ends(j, TRUE)
  <2>1. JobFacts(j) /\ UNCHANGED table
    BY <1>3, AskStep DEF AskModel
  <2>2. RunMoves(run.phase, run.todo \ {j}, run.failed \/ TRUE)
    BY <1>3, EndsEffect DEF TargetTypes
  <2>3. j.what \in {"drop", "create"}
    BY <1>1, <1>3 DEF AskModel, JobBelongs
  <2> QED BY <2>1, <2>2, <2>3 DEF JobFails, RunMoves, Objects
<1>4. AskModel(j) \/ SaveAnswer(j) => (\E step : AtStep(j, step)) \/ (AskModel(j) /\ Ends(j, TRUE))
  BY DEF AskModel, SaveAnswer
<1>5. CASE Drop(j)
  BY <1>5, DropStep
<1>6. CASE CreateTableAndPK(j)
  BY <1>6, CreateStep
<1>7. CASE Finalize(j)
  BY <1>7, FinalizeStep
<1> QED BY <1>2, <1>3, <1>4, <1>5, <1>6, <1>7 DEF JobStep

-----------------------------------------------------------------------------
(* The inductive invariant of the types, the phases and the calls. *)

\* Tables are dropped and created before the first call of a worker begins.
PhaseInv ==
  /\ setting.upsert => run.phase \in {"validate", "load", "finished", "aborted"}
  /\ ~setting.upsert => run.phase # "validate"
  /\ run.phase \in {"validate", "drop", "create"} =>
       \A w \in Workers : call[w].pc = "start" /\ call[w].pos = 1

TargetInv == TargetTypes /\ JobsBelong /\ PhaseInv /\ \A w \in Workers : WorkerInv(w)

LEMMA WorkerStarts ==
  ASSUME NEW w \in Workers, call[w].pc = "start", call[w].pos = 1
  PROVE  WorkerInv(w)
BY BatchFacts DEF WorkerInv, Done

LEMMA NewCalls ==
  /\ IsCall(NewCall) /\ NewCall.pc = "start" /\ NewCall.pos = 1
  /\ IsStaging(NoStaging)
<1>1. /\ NewCall.pc = "start" /\ NewCall.pos = 1 /\ NewCall.err = FALSE
      /\ NewCall = [pc |-> NewCall.pc, pos |-> NewCall.pos, tries |-> NewCall.tries,
                    err |-> NewCall.err, calls |-> NewCall.calls]
  BY DEF NewCall
<1>2. FALSE \in BOOLEAN /\ 1 \in Nat \ {0}
  OBVIOUS
<1> QED BY <1>1, <1>2, Zenon DEF IsCall, IsStaging, NoStaging

LEMMA StartTypes ==
  ASSUME NEW number
  PROVE  LET r == StartRun(number)
         IN /\ r = [number |-> r.number, phase |-> r.phase, todo |-> r.todo, failed |-> r.failed]
            /\ r.failed = FALSE
            /\ r.phase = IF setting.upsert THEN "validate" ELSE "drop"
            /\ \A j \in r.todo : /\ IsJob(j) /\ j.what = "drop" /\ r.phase = "drop"
                                 /\ j.what \in Whats(r.phase)
<1>1. \A j \in JobsFor("drop") : IsJob(j) /\ j.what \in Whats("drop")
  BY PhaseJobs
<1>2. Whats("drop") = {"drop"}
  BY DEF Whats
<1> QED BY <1>1, <1>2 DEF StartRun

LEMMA TargetInit == Init => TargetInv
<1> SUFFICES ASSUME Init PROVE TargetInv
  OBVIOUS
<1>1. Tabled(table)
  <2> DEFINE old == [k \in Keys |-> "old"]
  <2>1. PICK e \in [Tables -> [exists : BOOLEAN, pk : BOOLEAN, full : BOOLEAN, linked : BOOLEAN]] :
          table = [t \in Tables |->
                     IF ~e[t].exists THEN NoTable
                     ELSE [exists |-> TRUE, pk |-> e[t].pk,
                           rows |-> IF e[t].full THEN old ELSE NoTable.rows, next |-> 1,
                           refs |-> IF e[t].linked
                                    THEN {u \in Tables : <<t, u>> \in Refs /\ e[u].exists}
                                    ELSE {}]]
    BY DEF Init, InitialTables
  <2>2. old \in [Keys -> Versions] /\ NoTable.rows \in [Keys -> Versions]
    BY NoTableType DEF IsTable, Versions
  <2> HIDE DEF old
  <2>3. \A pk \in BOOLEAN, rows \in [Keys -> Versions], refs \in SUBSET Tables :
          IsTable([exists |-> TRUE, pk |-> pk, rows |-> rows, next |-> 1, refs |-> refs])
    BY DEF IsTable
  <2>4. ASSUME NEW t \in Tables
        PROVE  IsTable(table[t])
    <3>1. CASE ~e[t].exists
      BY <2>1, <3>1, NoTableType
    <3>2. CASE e[t].exists
      <4>1. e[t].pk \in BOOLEAN
        BY <2>1
      <4> DEFINE rows == IF e[t].full THEN old ELSE NoTable.rows
                 refs == IF e[t].linked THEN {u \in Tables : <<t, u>> \in Refs /\ e[u].exists} ELSE {}
      <4>2. rows \in [Keys -> Versions] /\ refs \in SUBSET Tables
        BY <2>2
      <4>3. table[t] = [exists |-> TRUE, pk |-> e[t].pk, rows |-> rows, next |-> 1, refs |-> refs]
        BY <2>1, <3>2
      <4> HIDE DEF rows, refs
      <4> QED BY <2>3, <4>1, <4>2, <4>3
    <3> QED BY <3>1, <3>2
  <2>5. table = [t \in Tables |-> table[t]]
    BY <2>1
  <2> QED BY <2>4, <2>5 DEF Tabled
<1>2. DatabaseTypes
  BY <1>1, NewCalls DEF Init, DatabaseTypes, Tabled
<1>3. RunTypes /\ run.phase \in {"validate", "drop"} /\ (run.phase = "validate" <=> setting.upsert)
  BY StartTypes DEF Init, RunTypes
<1>4. AnswerTypes
  BY DEF Init, InitAnswers, AnswerTypes, Caches, NoAnswers, NotSaving, NoAnswer
<1>5. JobsBelong
  BY StartTypes DEF Init, JobsBelong, JobBelongs
<1>6. PhaseInv
  BY <1>3, NewCalls DEF Init, PhaseInv
<1>7. ASSUME NEW w \in Workers
      PROVE  WorkerInv(w)
  BY NewCalls, WorkerStarts DEF Init
<1> QED BY <1>2, <1>3, <1>4, <1>5, <1>6, <1>7 DEF TargetInv, TargetTypes

\* A step that leaves the calls alone, and the rows once there are any, keeps what the calls
\* have done.
LEMMA WorkersKept ==
  ASSUME TargetInv, UNCHANGED <<setting, staging, call>>,
         \/ run.phase \in {"validate", "drop", "create"}
         \/ table'[Loaded].rows = table[Loaded].rows
  PROVE  \A w \in Workers : WorkerInv(w)'
<1> SUFFICES ASSUME NEW w \in Workers PROVE WorkerInv(w)'
  OBVIOUS
<1>1. WorkerInv(w) /\ call'[w] = call[w] /\ staging'[w] = staging[w]
  BY DEF TargetInv
<1>2. setting' = setting /\ Driver' = Driver /\ (StagingForgets' <=> StagingForgets)
  BY DEF Driver, StagingForgets
<1>3. CASE table'[Loaded].rows = table[Loaded].rows
  BY <1>1, <1>2, <1>3 DEF WorkerInv, RowsWritten, RowWritten, Unnoticed
<1>4. CASE run.phase \in {"validate", "drop", "create"}
  <2>1. call'[w].pc = "start" /\ call'[w].pos = 1
    BY <1>1, <1>4 DEF TargetInv, PhaseInv
  <2> QED BY <2>1, BatchFacts DEF WorkerInv, Done
<1> QED BY <1>3, <1>4

\* The next phase begins, with the goroutines of that phase.
LEMMA PhaseStep ==
  ASSUME TargetInv, NEW phase, run' = StartPhase(phase),
         UNCHANGED <<setting, table, staging, call, ddlVars>>, faults' \in Nat,
         setting.upsert => phase \in {"load", "finished", "aborted"},
         phase # "validate", phase = "drop" => run.phase = "drop",
         phase = "create" => run.phase = "drop"
  PROVE  TargetInv'
<1>1. RunMoves(phase, JobsFor(phase), FALSE)
  BY StartPhaseEffect DEF TargetInv, TargetTypes
<1>2. \A j \in run'.todo :
        /\ IsJob(j) /\ j.what \in Whats(run'.phase)
        /\ j.step # "exec" => j.what \in {"drop", "create"}
        /\ j.what = "create" => j.step = "ask"
  BY <1>1, PhaseJobs DEF RunMoves
<1>3. DatabaseTypes'
  BY DEF TargetInv, TargetTypes, DatabaseTypes
<1>4. AnswerTypes'
  BY DEF TargetInv, TargetTypes, AnswerTypes, ddlVars, Caches
<1>5. RunTypes' /\ JobsBelong'
  BY <1>1, <1>2 DEF RunMoves, RunRecord, RunTypes, JobsBelong, JobBelongs
<1>6. PhaseInv'
  BY <1>1 DEF RunMoves, TargetInv, PhaseInv
<1>7. \A w \in Workers : WorkerInv(w)'
  BY WorkersKept
<1> QED BY <1>3, <1>4, <1>5, <1>6, <1>7 DEF TargetInv, TargetTypes

\* Finalize changes neither rows nor whether a table and its key are there.
SameContents ==
  \A t \in Tables : /\ table'[t].rows = table[t].rows
                    /\ table'[t].exists = table[t].exists
                    /\ table'[t].pk = table[t].pk

LEMMA FinalizeContents ==
  ASSUME DatabaseTypes, NEW j, IsJob(j),
         \/ UNCHANGED table
         \/ table' = ResetSequence(j.table)
         \/ \E what : table' = CreateObject(j.table, what)
  PROVE  SameContents
<1>1. j.table \in Tables /\ \A t \in Tables : IsTable(table[t])
  BY DEF IsJob, DatabaseTypes
<1>2. CASE UNCHANGED table
  BY <1>2 DEF SameContents
<1>3. ASSUME NEW y, NEW t \in Tables, SameButNext(y, table[t]) \/ SameButRefs(y, table[t])
      PROVE  y.rows = table[t].rows /\ y.exists = table[t].exists /\ y.pk = table[t].pk
  <2>1. PICK x : x = table[t] /\ IsTable(x)
    BY <1>1
  <2>2. x = [exists |-> x.exists, pk |-> x.pk, rows |-> x.rows, next |-> x.next, refs |-> x.refs]
    BY <2>1, Zenon DEF IsTable
  <2>3. y = [x EXCEPT !.next = y.next] \/ y = [x EXCEPT !.refs = y.refs]
    BY <1>3, <2>1 DEF SameButNext, SameButRefs
  <2>4. y.rows = x.rows /\ y.exists = x.exists /\ y.pk = x.pk
    BY <2>2, <2>3
  <2> QED BY <2>1, <2>4
<1>4. ASSUME NEW f, table' = f, OthersSame(f, j.table),
             SameButNext(f[j.table], table[j.table]) \/ SameButRefs(f[j.table], table[j.table])
      PROVE  SameContents
  <2>1. /\ f[j.table].rows = table[j.table].rows
        /\ f[j.table].exists = table[j.table].exists
        /\ f[j.table].pk = table[j.table].pk
    BY <1>1, <1>3, <1>4
  <2> QED BY <1>4, <2>1 DEF SameContents, OthersSame
<1>5. CASE table' = ResetSequence(j.table)
  BY <1>1, <1>4, <1>5, SequenceEffect
<1>6. CASE \E what : table' = CreateObject(j.table, what)
  BY <1>1, <1>4, <1>6, ObjectEffect
<1> QED BY <1>2, <1>5, <1>6

LEMMA JobContents ==
  ASSUME TargetInv, NEW j \in run.todo, JobStep(j), run.phase \notin {"drop", "create"}
  PROVE  SameContents
<1>1. IsJob(j) /\ j.what \in {"sequence"} \cup Objects
  BY DEF TargetInv, TargetTypes, RunTypes, JobsBelong, JobBelongs, Whats, Objects
<1>2. Advances(j) \/ JobFails(j) \/ JobEnds(j)
  BY <1>1, JobEffect DEF TargetInv, Creates, Objects
<1>3. \/ UNCHANGED table
      \/ table' = ResetSequence(j.table)
      \/ \E what : table' = CreateObject(j.table, what)
  BY <1>1, <1>2 DEF Advances, JobFails, JobEnds
<1> QED BY <1>1, <1>3, FinalizeContents DEF TargetInv, TargetTypes

LEMMA TargetNext == TargetInv /\ [Next]_<<targetVars, ddlVars>> => TargetInv'
<1> SUFFICES ASSUME TargetInv, [Next]_<<targetVars, ddlVars>> PROVE TargetInv'
  OBVIOUS
<1> USE DEF TargetInv
<1>1. faults \in Nat /\ Tabled(table)
  BY DEF TargetTypes, DatabaseTypes, Tabled
<1>2. ASSUME NEW j \in run.todo, JobStep(j)
      PROVE  TargetInv'
  <2>1. JobFacts(j)
    BY <1>2, JobEffect
  <2>2. DatabaseTypes'
    BY <2>1 DEF JobFacts, TargetTypes, DatabaseTypes, Tabled
  <2>3. \A w \in Workers : WorkerInv(w)'
    <3>1. Loaded \in Tables
      BY TargetAssumption
    <3>2. run.phase \in {"drop", "create"} \/ table'[Loaded].rows = table[Loaded].rows
      BY <1>2, <3>1, JobContents DEF SameContents
    <3> QED BY <2>1, <3>2, WorkersKept DEF JobFacts
  <2>4. PhaseInv'
    BY <2>1 DEF JobFacts, PhaseInv
  <2> QED BY <2>1, <2>2, <2>3, <2>4 DEF JobFacts, TargetTypes
<1>3. CASE PrepareEnds
  <2>1. PICK phase \in {"aborted", "create", "load"} :
          run' = StartPhase(phase) /\ (phase = "create" => run.phase = "drop")
    BY <1>3 DEF PrepareEnds
  <2>2. ~setting.upsert /\ faults' = faults
    BY <1>3 DEF PrepareEnds, PhaseInv
  <2> QED BY <1>1, <1>3, <2>1, <2>2, PhaseStep DEF PrepareEnds
<1>4. CASE FinalizePhaseEnds
  <2>1. ~setting.upsert
    BY <1>4 DEF FinalizePhaseEnds, PhaseInv
  <2>2. FinalizeNext \in {"indexes", "foreignKeys", "checks", "finished"}
    BY <1>4 DEF FinalizePhaseEnds, FinalizeNext
  <2>3. PICK phase \in {"indexes", "foreignKeys", "checks", "finished"} : run' = StartPhase(phase)
    BY <1>4, <2>2 DEF FinalizePhaseEnds
  <2> QED BY <1>1, <1>4, <2>1, <2>3, PhaseStep DEF FinalizePhaseEnds
<1>5. CASE Validate
  <2>1. PICK phase \in {"load", "aborted"} : run' = StartPhase(phase)
    BY <1>5 DEF Validate
  <2>2. faults' \in Nat
    BY <1>1, <1>5 DEF Validate, Fault
  <2> QED BY <1>5, <2>1, <2>2, PhaseStep DEF Validate
<1>6. CASE LoadEnds
  <2>1. PICK phase \in {"aborted", "finished", "sequences"} :
          run' = StartPhase(phase) /\ (setting.upsert => phase # "sequences")
    BY <1>6 DEF LoadEnds
  <2> QED BY <1>1, <1>6, <2>1, PhaseStep DEF LoadEnds
<1>7. ASSUME NEW w \in Workers, Write(w)
      PROVE  TargetInv'
  <2>1. WriteFacts(w) /\ WorkerInv(w)'
    BY <1>7, WriteStep DEF TargetTypes
  <2>2. DatabaseTypes'
    BY <2>1, WriteTypes DEF TargetTypes
  <2>3. \A v \in Workers : WorkerInv(v)'
    BY <2>1, OtherWorkers DEF TargetTypes
  <2>4. run' = run /\ setting' = setting /\ UNCHANGED ddlVars /\ run.phase = "load"
    BY <1>7, <2>1 DEF WriteFacts, Write
  <2>5. RunTypes' /\ AnswerTypes' /\ JobsBelong' /\ PhaseInv'
    BY <2>4 DEF TargetTypes, RunTypes, AnswerTypes, Caches, ddlVars, JobsBelong, JobBelongs, PhaseInv
  <2> QED BY <2>2, <2>3, <2>5 DEF TargetTypes
<1>8. ASSUME NEW w \in Workers, Retry(w)
      PROVE  TargetInv'
  <2>1. PICK y : y = [NewCall EXCEPT !.calls = call[w].calls + 1]
    OBVIOUS
  <2>2. call' = [call EXCEPT ![w] = y]
    BY <1>8, <2>1 DEF Retry
  <2>3. IsCall(y) /\ y.pc = "start" /\ y.pos = 1
    <3>1. PICK x, n : x = NewCall /\ n = call[w].calls + 1
      OBVIOUS
    <3>2. /\ x.err = FALSE /\ x.pc = "start" /\ x.pos = 1
          /\ x = [pc |-> x.pc, pos |-> x.pos, tries |-> x.tries, err |-> x.err, calls |-> x.calls]
      BY <3>1 DEF NewCall
    <3>3. y = [x EXCEPT !.calls = n]
      BY <2>1, <3>1
    <3>4. /\ y.err = FALSE /\ y.pc = "start" /\ y.pos = 1
          /\ y = [pc |-> y.pc, pos |-> y.pos, tries |-> y.tries, err |-> y.err, calls |-> y.calls]
      BY <3>2, <3>3
    <3>5. FALSE \in BOOLEAN /\ 1 \in Nat \ {0}
      OBVIOUS
    <3> QED BY <3>4, <3>5, Zenon DEF IsCall
  <2>4. CallAt(w, y.pc, y.pos, y.err)
    BY <2>2, <2>3, CallSet DEF TargetTypes
  <2>5. UNCHANGED <<setting, table, staging, faults, run, ddlVars>>
    BY <1>8 DEF Retry
  <2>6. DatabaseTypes'
    BY <2>4, <2>5 DEF TargetTypes, DatabaseTypes, CallAt
  <2>7. \A v \in Workers : WorkerInv(v)'
    <3>1. StagingLike(staging', w) /\ table' = table /\ faults' \in Nat
      BY <1>1, <2>5, StagingSet DEF TargetTypes
    <3>2. WriteFacts(w)
      BY <2>4, <2>5, <3>1 DEF WriteFacts
    <3>3. WorkerInv(w)'
      <4>1. call'[w].pc = "start" /\ call'[w].pos = 1
        BY <2>3, <2>4 DEF CallAt
      <4> QED BY <4>1, BatchFacts DEF WorkerInv, Done
    <3> QED BY <3>2, <3>3, OtherWorkers DEF TargetTypes
  <2>8. run.phase = "load"
    BY <1>8 DEF Retry
  <2>9. RunTypes' /\ AnswerTypes' /\ JobsBelong' /\ PhaseInv'
    BY <2>5, <2>8 DEF TargetTypes, RunTypes, AnswerTypes, Caches, ddlVars, JobsBelong, JobBelongs, PhaseInv
  <2> QED BY <2>6, <2>7, <2>9 DEF TargetTypes
<1>9. CASE RunAgain
  <2>1. Tabled(table')
    <3>1. \A t \in Tables : IsTable(AfterRun(t))
      <4> SUFFICES ASSUME NEW t \in Tables PROVE IsTable(AfterRun(t))
        OBVIOUS
      <4> DEFINE rows == [k \in Keys |-> IF table[t].rows[k] = "new" THEN "old" ELSE table[t].rows[k]]
      <4>1. IsTable(table[t]) /\ rows \in [Keys -> Versions]
        BY <1>1 DEF Tabled, IsTable, Versions
      <4>2. AfterRun(t) = [table[t] EXCEPT !.rows = rows]
        BY DEF AfterRun
      <4> HIDE DEF rows
      <4>3. IsTable([table[t] EXCEPT !.rows = rows])
        BY <4>1, FieldSet
      <4> QED BY <4>2, <4>3, Zenon
    <3> QED BY <1>9, <3>1 DEF RunAgain, Tabled
  <2>2. DatabaseTypes'
    BY <1>9, <2>1, NewCalls DEF RunAgain, TargetTypes, DatabaseTypes, Tabled
  <2>3. AnswerTypes'
    BY <1>9, LoadTypes DEF RunAgain, TargetTypes
  <2>4. PICK n : run' = StartRun(n)
    BY <1>9 DEF RunAgain
  <2>5. setting' = setting
    BY <1>9 DEF RunAgain
  <2>6. /\ RunTypes' /\ JobsBelong'
        /\ run'.phase = IF setting.upsert THEN "validate" ELSE "drop"
    BY <2>4, StartTypes DEF RunTypes, JobsBelong, JobBelongs
  <2>7. \A w \in Workers : call'[w].pc = "start" /\ call'[w].pos = 1
    BY <1>9, NewCalls DEF RunAgain
  <2>8. PhaseInv'
    BY <2>5, <2>6, <2>7 DEF PhaseInv
  <2>9. \A w \in Workers : WorkerInv(w)'
    BY <2>7, BatchFacts DEF WorkerInv, Done
  <2> QED BY <2>2, <2>3, <2>6, <2>8, <2>9 DEF TargetTypes
<1>10. CASE UNCHANGED <<targetVars, ddlVars>>
  <2>1. UNCHANGED <<setting, table, staging, call, faults, run, cache, cacheFile, saving>>
    BY <1>10 DEF targetVars, ddlVars
  <2>2. DatabaseTypes'
    BY <2>1 DEF TargetTypes, DatabaseTypes
  <2>3. RunTypes' /\ AnswerTypes' /\ JobsBelong' /\ PhaseInv'
    BY <2>1 DEF TargetTypes, RunTypes, AnswerTypes, Caches, JobsBelong, JobBelongs, PhaseInv
  <2>4. \A w \in Workers : WorkerInv(w)'
    BY <2>1 DEF WorkerInv, RowsWritten, RowWritten, Unnoticed, StagingForgets, Driver
  <2> QED BY <2>2, <2>3, <2>4 DEF TargetTypes
<1> QED BY <1>2, <1>3, <1>4, <1>5, <1>6, <1>7, <1>8, <1>9, <1>10 DEF Next, JobStep

-----------------------------------------------------------------------------
(* The theorems. *)

LEMMA TargetInvHolds == Spec => []TargetInv
BY TargetInit, TargetNext, PTL DEF Spec

\* WriteBatch or UpsertBatch returns nil only when each row of the batch is in the target, and
\* as the batch carries it unless its change escapes the comparison in the MERGE of SQL
\* Server; staging tables that lose their rows are left out (the writers of the four drivers,
\* up to executeMergeWithRetry): however the calls of the workers interleave, whichever of
\* their statements fail, take effect and lose their answers or are retried, and whatever
\* earlier calls have left.
THEOREM NilWritten == Spec => []NilMeansWritten
<1>1. TargetInv => NilMeansWritten
  BY DEF TargetInv, WorkerInv, RowsWritten, RowWritten, NilMeansWritten, Returned, Done
<1> QED BY <1>1, TargetInvHolds, PTL

-----------------------------------------------------------------------------
(* What PrepareTables has done when it returns nil. *)

Made(t) == table[t].exists /\ \A k \in Keys : table[t].rows[k] = "absent"
Keyed(t) == table[t].pk \/ (Driver # "postgres" /\ cache[t, "create"] = "noKey")
Recreated(t) == table[t].exists /\ Keyed(t) /\ \A k \in Keys : table[t].rows[k] # "old"

\* A table that no goroutine creates any more is there; one of PostgreSQL that has no key
\* still has the goroutine that adds it.
CreateInv(t) ==
  \/ \E j \in run.todo : j.table = t /\ j.what = "create"
  \/ Made(t) /\ Keyed(t)
  \/ Made(t) /\ Driver = "postgres" /\ \E j \in run.todo : j.table = t /\ j.what = "primaryKey"

RecreatedInv ==
  ~setting.upsert =>
    /\ run.phase = "create" /\ ~run.failed => \A t \in Tables : CreateInv(t)
    /\ Loading => \A t \in Tables : Recreated(t)

\* A table keeps what it is in a step that leaves it, or all but its foreign keys and next
\* identity value, and takes no answer from the cache.
LEMMA TableKept ==
  ASSUME NEW t \in Tables, UNCHANGED setting,
         cache[t, "create"] = "noKey" => cache'[t, "create"] = "noKey",
         table'[t].rows = table[t].rows, table'[t].exists = table[t].exists,
         table'[t].pk = table[t].pk
  PROVE  /\ Made(t) => Made(t)'
         /\ Keyed(t) => Keyed(t)'
         /\ Recreated(t) => Recreated(t)'
BY DEF Made, Keyed, Recreated, Driver

LEMMA JobCreates ==
  ASSUME TargetInv, RecreatedInv, NEW j \in run.todo, JobStep(j), ~setting.upsert,
         run.phase = "create", ~run'.failed, NEW t \in Tables
  PROVE  CreateInv(t)'
<1>1. /\ IsJob(j) /\ j.what \in {"create", "primaryKey"} /\ DatabaseTypes /\ CreateInv(t)
      /\ j.table \in Tables
  <2>1. IsJob(j) /\ j.what \in {"create", "primaryKey"} /\ DatabaseTypes
    BY DEF TargetInv, TargetTypes, RunTypes, JobsBelong, JobBelongs, Whats
  <2>2. ~run.failed
    BY JobEffect DEF TargetInv, JobFacts
  <2> QED BY <2>1, <2>2 DEF IsJob, RecreatedInv
<1>2. JobFacts(j) /\ (Advances(j) \/ JobFails(j) \/ JobEnds(j) \/ Creates(j))
  BY JobEffect DEF TargetInv
<1>3. setting' = setting /\ Driver' = Driver
  BY <1>2 DEF JobFacts, Driver
<1>4. \A u \in Tables : cache[u, "create"] = "noKey" => cache'[u, "create"] = "noKey"
  <2> SUFFICES ASSUME NEW u \in Tables, cache[u, "create"] = "noKey"
               PROVE  cache'[u, "create"] = "noKey"
    OBVIOUS
  <2>1. <<u, "create">> \in CacheKeys
    BY DEF CacheKeys
  <2>2. cache[u, "create"] # NoAnswer
    BY DEF NoAnswer
  <2> QED BY <1>2, <2>1, <2>2 DEF JobFacts
<1>5. CASE Advances(j)
  <2>1. PICK k : /\ k.table = j.table /\ k.what = j.what
                 /\ RunMoves(run.phase, (run.todo \ {j}) \cup {k}, run.failed)
    BY <1>5 DEF Advances
  <2>2. run'.todo = (run.todo \ {j}) \cup {k}
    BY <2>1 DEF RunMoves
  <2>3. table' = table
    BY <1>5 DEF Advances
  <2>4. /\ Made(t) => Made(t)'
        /\ Keyed(t) => Keyed(t)'
    BY <1>3, <1>4, <2>3, TableKept
  <2>5. \A what : (\E i \in run.todo : i.table = t /\ i.what = what)
                    => \E i \in run'.todo : i.table = t /\ i.what = what
    BY <2>1, <2>2
  <2> QED BY <1>1, <1>3, <2>4, <2>5 DEF CreateInv
<1>6. CASE JobFails(j)
  BY <1>6 DEF JobFails, RunMoves
<1>7. CASE JobEnds(j)
  <2>1. j.what = "primaryKey" /\ table' = CreatePrimaryKey(j.table) /\ run'.todo = run.todo \ {j}
    BY <1>1, <1>7 DEF JobEnds, RunMoves
  <2>2. /\ OthersSame(CreatePrimaryKey(j.table), j.table)
        /\ \/ CreatePrimaryKey(j.table)[j.table] = [table[j.table] EXCEPT !.pk = TRUE]
           \/ /\ Driver # "postgres"
              /\ CreatePrimaryKey(j.table)[j.table] = table[j.table]
    BY <1>1, PrimaryKeyEffect
  <2>3. /\ table'[t].rows = table[t].rows /\ table'[t].exists = table[t].exists
        /\ table'[t].pk = table[t].pk \/ table'[t].pk = TRUE
        /\ t = j.table /\ Driver = "postgres" => table'[t].pk = TRUE
    <3>1. CASE t # j.table
      BY <2>1, <2>2, <3>1 DEF OthersSame
    <3>2. CASE t = j.table
      <4>1. PICK x : x = table[t] /\ IsTable(x)
        BY <1>1 DEF DatabaseTypes
      <4>2. x = [exists |-> x.exists, pk |-> x.pk, rows |-> x.rows, next |-> x.next, refs |-> x.refs]
        BY <4>1, Zenon DEF IsTable
      <4>3. \A y : y = [x EXCEPT !.pk = TRUE] =>
                     y.rows = x.rows /\ y.exists = x.exists /\ y.pk = TRUE
        BY <4>2
      <4>4. table'[t] = [x EXCEPT !.pk = TRUE] \/ (Driver # "postgres" /\ table'[t] = x)
        BY <2>1, <2>2, <3>2, <4>1
      <4> QED BY <4>1, <4>3, <4>4
    <3> QED BY <3>1, <3>2
  <2>4. /\ Made(t) => Made(t)'
        /\ Keyed(t) => Keyed(t)'
        /\ t = j.table /\ Driver = "postgres" => Keyed(t)'
    BY <1>3, <1>4, <2>3 DEF Made, Keyed
  <2>5. \A i \in run.todo : i.table = t /\ (i.what = "create" \/ t # j.table) => i \in run'.todo
    BY <2>1
  <2> QED BY <1>1, <1>3, <2>4, <2>5 DEF CreateInv
<1>8. CASE Creates(j)
  <2> DEFINE withKey == cache[j.table, "create"] = "right"
  <2>1. PICK k : /\ k.table = j.table /\ k.what = "primaryKey"
                 /\ RunMoves(run.phase, (run.todo \ {j}) \cup {k}, run.failed)
    BY <1>8 DEF Creates
  <2>2. /\ j.what = "create" /\ cache' = cache /\ cache[j.table, "create"] \in {"right", "noKey"}
        /\ table' = CreateTable(j.table, withKey)
        /\ run'.todo = (run.todo \ {j}) \cup {k}
    BY <1>8, <2>1 DEF Creates, RunMoves
  <2>3. withKey \in BOOLEAN
    OBVIOUS
  <2> HIDE DEF withKey
  <2>4. OthersSame(table', j.table) /\ table'[j.table] = EmptyTable(withKey)
    BY <1>1, <2>2, <2>3, CreateEffect
  <2>5. CASE t # j.table
    <3>1. table'[t] = table[t]
      BY <2>4, <2>5 DEF OthersSame
    <3>2. /\ Made(t) => Made(t)'
          /\ Keyed(t) => Keyed(t)'
      BY <1>3, <1>4, <3>1, TableKept
    <3>3. \A i \in run.todo : i.table = t => i \in run'.todo
      BY <2>2, <2>5
    <3> QED BY <1>1, <1>3, <3>2, <3>3 DEF CreateInv
  <2>6. CASE t = j.table
    <3>1. Made(t)' /\ (table'[t].pk <=> withKey)
      BY <2>3, <2>4, <2>6, NoTableType DEF Made
    <3>2. withKey \/ Driver # "postgres" => Keyed(t)'
      BY <1>3, <2>2, <2>6, <3>1 DEF Keyed, withKey
    <3>3. k \in run'.todo
      BY <2>2
    <3> QED BY <1>3, <2>1, <2>6, <3>1, <3>2, <3>3 DEF CreateInv
  <2> QED BY <2>5, <2>6
<1> QED BY <1>2, <1>5, <1>6, <1>7, <1>8

LEMMA WriteContents ==
  ASSUME DatabaseTypes, NEW w \in Workers, WriteFacts(w), NEW t \in Tables
  PROVE  /\ table'[t].exists = table[t].exists /\ table'[t].pk = table[t].pk
         /\ table'[t].next = table[t].next
         /\ \A k \in Keys : table'[t].rows[k] = table[t].rows[k] \/ table'[t].rows[k] = "new"
<1>1. CASE table'[t] = table[t]
  BY <1>1
<1>2. CASE t = Loaded /\ \E ks : table' = WithRows(ks)
  <2>1. PICK ks : table' = WithRows(ks)
    BY <1>2
  <2>2. PICK x, f : /\ x = table[t] /\ IsTable(x)
                    /\ f = [k \in Keys |-> IF k \in ks THEN "new" ELSE table[Loaded].rows[k]]
    BY DEF DatabaseTypes
  <2>3. x = [exists |-> x.exists, pk |-> x.pk, rows |-> x.rows, next |-> x.next, refs |-> x.refs]
    BY <2>2, Zenon DEF IsTable
  <2>4. table'[t] = [x EXCEPT !.rows = f]
    BY <1>2, <2>1, <2>2, RowsEffect
  <2>5. \A y : y = [x EXCEPT !.rows = f] =>
                 y.exists = x.exists /\ y.pk = x.pk /\ y.next = x.next /\ y.rows = f
    BY <2>3
  <2>6. /\ table'[t].exists = x.exists /\ table'[t].pk = x.pk /\ table'[t].next = x.next
        /\ table'[t].rows = f
    BY <2>4, <2>5
  <2> QED BY <1>2, <2>2, <2>6
<1> QED BY <1>1, <1>2, NewStay DEF WriteFacts, OthersSame

LEMMA RecreatedNext ==
  TargetInv /\ RecreatedInv /\ [Next]_<<targetVars, ddlVars>> => RecreatedInv'
<1> SUFFICES ASSUME TargetInv, RecreatedInv, [Next]_<<targetVars, ddlVars>>, ~setting'.upsert
             PROVE  /\ run'.phase = "create" /\ ~run'.failed => \A t \in Tables : CreateInv(t)'
                    /\ Loading' => \A t \in Tables : Recreated(t)'
  BY DEF RecreatedInv
<1>1. DatabaseTypes /\ RunTypes /\ JobsBelong /\ PhaseInv
  BY DEF TargetInv, TargetTypes
<1>2. ASSUME setting' = setting, Loading => Loading', Loading' => Loading,
             run'.phase # "create",
             \A t \in Tables : Recreated(t) => Recreated(t)'
      PROVE  /\ run'.phase = "create" /\ ~run'.failed => \A t \in Tables : CreateInv(t)'
             /\ Loading' => \A t \in Tables : Recreated(t)'
  BY <1>2 DEF RecreatedInv
<1>3. ASSUME UNCHANGED <<setting, table, cache>>, NEW t \in Tables
      PROVE  Recreated(t) => Recreated(t)'
  BY <1>3 DEF Recreated, Keyed, Driver
<1>4. ASSUME NEW j \in run.todo, JobStep(j)
      PROVE  /\ run'.phase = "create" /\ ~run'.failed => \A t \in Tables : CreateInv(t)'
             /\ Loading' => \A t \in Tables : Recreated(t)'
  <2>1. JobFacts(j)
    BY <1>4, JobEffect DEF TargetInv
  <2>2. setting' = setting /\ run'.phase = run.phase
    BY <2>1 DEF JobFacts
  <2>3. CASE run.phase = "create"
    BY <1>4, <2>2, <2>3, JobCreates DEF Loading
  <2>4. CASE Loading
    <3>1. SameContents
      BY <1>4, <2>4, JobContents DEF Loading
    <3>2. ASSUME NEW t \in Tables
          PROVE  Recreated(t) => Recreated(t)'
      <4>1. <<t, "create">> \in CacheKeys
        BY DEF CacheKeys
      <4>2. cache[t, "create"] = "noKey" => cache'[t, "create"] = "noKey"
        BY <2>1, <4>1 DEF JobFacts, NoAnswer
      <4> QED BY <2>2, <3>1, <4>2, TableKept DEF SameContents
    <3> QED BY <1>2, <2>2, <2>4, <3>2 DEF Loading
  <2>5. CASE run.phase # "create" /\ ~Loading
    BY <2>2, <2>5 DEF Loading
  <2> QED BY <2>3, <2>4, <2>5
<1>5. CASE PrepareEnds
  <2>1. UNCHANGED <<setting, table, cache>> /\ run.todo = {}
    BY <1>5 DEF PrepareEnds, ddlVars
  <2>2. CASE run.phase = "drop" /\ run' = StartPhase("create")
    <3>1. run'.phase = "create" /\ run'.todo = JobsFor("create")
      BY <1>1, <2>2, StartPhaseEffect DEF RunMoves
    <3>2. \A t \in Tables : Job(t, "create") \in run'.todo
      BY <3>1 DEF JobsFor
    <3>3. \A t \in Tables : Job(t, "create").table = t /\ Job(t, "create").what = "create"
      BY NewJob
    <3> QED BY <3>1, <3>2, <3>3 DEF CreateInv, Loading
  <2>3. CASE run.phase = "create" /\ ~run.failed /\ run' = StartPhase("load")
    <3>1. run'.phase = "load"
      BY <1>1, <2>3, StartPhaseEffect DEF RunMoves
    <3>2. \A t \in Tables : Made(t) /\ Keyed(t)
      BY <2>1, <2>3 DEF RecreatedInv, CreateInv
    <3>3. \A t \in Tables : Recreated(t)'
      BY <1>3, <2>1, <3>2 DEF Made, Recreated
    <3> QED BY <3>1, <3>3
  <2>4. CASE run' = StartPhase("aborted")
    <3>1. run'.phase = "aborted"
      BY <1>1, <2>4, StartPhaseEffect DEF RunMoves
    <3> QED BY <3>1 DEF Loading
  <2> QED BY <1>5, <2>2, <2>3, <2>4 DEF PrepareEnds
<1>6. CASE FinalizePhaseEnds \/ LoadEnds
  <2>1. UNCHANGED <<setting, table, cache>> /\ Loading
    BY <1>6 DEF FinalizePhaseEnds, LoadEnds, ddlVars, Loading
  <2>2. PICK phase \in {"aborted", "finished", "sequences", "indexes", "foreignKeys", "checks"} :
          run' = StartPhase(phase)
    <3>1. CASE FinalizePhaseEnds
      BY <3>1 DEF FinalizePhaseEnds, FinalizeNext
    <3> QED BY <1>6, <3>1 DEF LoadEnds
  <2>3. run'.phase = phase
    BY <1>1, <2>2, StartPhaseEffect DEF RunMoves
  <2> QED BY <1>3, <2>1, <2>3 DEF RecreatedInv, Loading
<1>7. CASE Validate
  BY <1>1, <1>7 DEF Validate, PhaseInv
<1>8. ASSUME NEW w \in Workers, Write(w)
      PROVE  /\ run'.phase = "create" /\ ~run'.failed => \A t \in Tables : CreateInv(t)'
             /\ Loading' => \A t \in Tables : Recreated(t)'
  <2>1. WriteFacts(w)
    BY <1>8, WriteStep DEF TargetInv, TargetTypes
  <2>2. setting' = setting /\ run' = run /\ cache' = cache /\ run.phase = "load"
    BY <1>8, <2>1 DEF WriteFacts, Write, ddlVars
  <2>3. ASSUME NEW t \in Tables
        PROVE  Recreated(t) => Recreated(t)'
    BY <1>1, <2>1, <2>2, WriteContents DEF Recreated, Keyed, Driver
  <2> QED BY <1>2, <2>2, <2>3 DEF Loading
<1>9. ASSUME NEW w \in Workers, Retry(w)
      PROVE  /\ run'.phase = "create" /\ ~run'.failed => \A t \in Tables : CreateInv(t)'
             /\ Loading' => \A t \in Tables : Recreated(t)'
  <2>1. UNCHANGED <<setting, table, cache, run>> /\ run.phase = "load"
    BY <1>9 DEF Retry, ddlVars
  <2> QED BY <1>2, <1>3, <2>1 DEF Loading
<1>10. CASE RunAgain
  <2>1. PICK n : run' = StartRun(n)
    BY <1>10 DEF RunAgain
  <2>2. run'.phase \in {"validate", "drop"}
    BY <2>1, StartTypes
  <2> QED BY <2>2 DEF Loading
<1>11. CASE UNCHANGED <<targetVars, ddlVars>>
  BY <1>11 DEF targetVars, ddlVars, RecreatedInv, Loading, CreateInv, Recreated, Made, Keyed, Driver
<1> QED BY <1>4, <1>5, <1>6, <1>7, <1>8, <1>9, <1>10, <1>11 DEF Next, JobStep

LEMMA RecreatedInit == Init => RecreatedInv
BY StartTypes DEF Init, RecreatedInv, Loading

\* PrepareTables of drop_recreate returns nil only when each table is there with its key,
\* unless CREATE TABLE left it out and the driver does not add it, and none of its old rows:
\* for any order of the goroutines, any failures, and any answers of the language model that
\* this run and the ones before have kept.
THEOREM PreparedRecreated == Spec => []PreparedMeansRecreated
<1>1. TargetInv /\ RecreatedInv => PreparedMeansRecreated
  BY DEF RecreatedInv, Recreated, Keyed, PreparedMeansRecreated
<1> QED BY <1>1, TargetInvHolds, RecreatedInit, RecreatedNext, PTL DEF Spec
-----------------------------------------------------------------------------
(* What Finalize has done to the identity values. *)

NextFree(t) == table[t].next \notin KeysOf(t) /\ table[t].next > MaxKeyOf(t)

\* A table whose identity no goroutine resets any more has a free next value.
NextInv ==
  ~setting.upsert /\ faults = 0 /\ (Driver = "oracle" => setting.ownSequence) =>
    /\ run.phase = "sequences" =>
         \A t \in Tables : NextFree(t) \/ \E j \in run.todo : j.table = t /\ j.what = "sequence"
    /\ run.phase \in {"indexes", "foreignKeys", "checks", "finished"} =>
         \A t \in Tables : NextFree(t)

LEMMA NextKept ==
  ASSUME NEW t \in Tables, table'[t].rows = table[t].rows, table'[t].next = table[t].next
  PROVE  NextFree(t) => NextFree(t)'
<1>1. KeysOf(t)' = KeysOf(t)
  BY DEF KeysOf
<1>2. MaxKeyOf(t)' = MaxKeyOf(t)
  BY <1>1 DEF MaxKeyOf
<1> QED BY <1>1, <1>2 DEF NextFree

\* setval, AUTO_INCREMENT, RESEED and the trigger's sequence: no row has the next value.
LEMMA ResetFrees ==
  ASSUME DatabaseTypes, NEW t \in Tables, table' = ResetSequence(t),
         Driver = "oracle" => setting.ownSequence
  PROVE  NextFree(t)'
<1>1. /\ SameButNext(table'[t], table[t])
      /\ \/ KeysOf(t) # {} /\ table'[t].next = MaxKeyOf(t) + 1
         \/ KeysOf(t) = {} /\ table'[t].next \in {2, table[t].next}
  BY SequenceEffect
<1>2. table'[t].rows = table[t].rows /\ table[t].next \in Nat \ {0}
  <2>1. PICK x, y : x = table[t] /\ y = table'[t] /\ IsTable(x)
    BY DEF DatabaseTypes
  <2>2. x = [exists |-> x.exists, pk |-> x.pk, rows |-> x.rows, next |-> x.next, refs |-> x.refs]
    BY <2>1, Zenon DEF IsTable
  <2>3. y = [x EXCEPT !.next = y.next]
    BY <1>1, <2>1 DEF SameButNext
  <2>4. y.rows = x.rows
    BY <2>2, <2>3
  <2> QED BY <2>1, <2>4 DEF IsTable
<1>3. KeysOf(t)' = KeysOf(t)
  BY <1>2 DEF KeysOf
<1>4. MaxKeyOf(t)' = MaxKeyOf(t)
  BY <1>3 DEF MaxKeyOf
<1>5. /\ MaxKeyOf(t) \in Nat
      /\ \A k \in KeysOf(t) : k \in Nat /\ k <= MaxKeyOf(t)
  BY MaxKey
<1>6. KeysOf(t) = {} => MaxKeyOf(t) = 0
  BY DEF MaxKeyOf
<1>7. table'[t].next \in Nat /\ table'[t].next > MaxKeyOf(t)
  BY <1>1, <1>2, <1>5, <1>6
<1>8. table'[t].next \notin KeysOf(t)
  BY <1>5, <1>7
<1> QED BY <1>3, <1>4, <1>7, <1>8 DEF NextFree

\* A goroutine of Finalize that leaves a table's rows and next identity value.
LEMMA JobNext ==
  ASSUME TargetInv, NEW j \in run.todo, JobStep(j), faults' = 0,
         run.phase \in {"sequences", "indexes", "foreignKeys", "checks", "finished"},
         Driver = "oracle" => setting.ownSequence, NEW t \in Tables
  PROVE  /\ NextFree(t) => NextFree(t)'
         /\ (\E i \in run.todo : i.table = t /\ i.what = "sequence") =>
              NextFree(t)' \/ \E i \in run'.todo : i.table = t /\ i.what = "sequence"
<1>1. /\ IsJob(j) /\ j.table \in Tables /\ j.what \in {"sequence"} \cup Objects
      /\ DatabaseTypes
  BY DEF TargetInv, TargetTypes, RunTypes, JobsBelong, JobBelongs, Whats, Objects, IsJob
<1>2. Advances(j) \/ JobFails(j) \/ JobEnds(j)
  BY <1>1, JobEffect DEF TargetInv, Creates, Objects
<1>3. SameContents
  BY JobContents
<1>4. ASSUME NEW x, NEW y, IsTable(x), y = [x EXCEPT !.refs = y.refs]
      PROVE  y.next = x.next
  <2>1. x = [exists |-> x.exists, pk |-> x.pk, rows |-> x.rows, next |-> x.next, refs |-> x.refs]
    BY <1>4, Zenon DEF IsTable
  <2> QED BY <1>4, <2>1
<1>5. CASE table'[t].next = table[t].next
      /\ \A i \in run.todo : i.table = t /\ i.what = "sequence" =>
           \E k \in run'.todo : k.table = t /\ k.what = "sequence"
  BY <1>3, <1>5, NextKept DEF SameContents
<1>6. CASE Advances(j)
  <2>1. PICK k : /\ k.table = j.table /\ k.what = j.what
                 /\ RunMoves(run.phase, (run.todo \ {j}) \cup {k}, run.failed)
    BY <1>6 DEF Advances
  <2>2. run'.todo = (run.todo \ {j}) \cup {k} /\ table' = table
    BY <1>6, <2>1 DEF RunMoves, Advances
  <2> QED BY <1>5, <2>1, <2>2
<1>7. CASE j.what = "sequence" /\ JobEnds(j)
  <2>1. table' = ResetSequence(j.table) /\ run'.todo = run.todo \ {j}
    BY <1>7 DEF JobEnds, RunMoves
  <2>2. CASE t = j.table
    BY <1>1, <2>1, <2>2, ResetFrees
  <2>3. CASE t # j.table
    <3>1. table'[t] = table[t]
      BY <1>1, <2>1, <2>3, SequenceEffect DEF OthersSame
    <3>2. \A i \in run.todo : i.table = t => i \in run'.todo
      BY <2>1, <2>3
    <3> QED BY <1>5, <3>1, <3>2
  <2> QED BY <2>2, <2>3
<1>8. CASE j.what \in Objects /\ (JobFails(j) \/ JobEnds(j))
  <2>1. table' \in {table, CreateObject(j.table, j.what)} /\ run'.todo = run.todo \ {j}
    BY <1>8 DEF JobFails, JobEnds, RunMoves
  <2>2. table'[t].next = table[t].next
    <3>1. CASE table' = table
      BY <3>1
    <3>2. CASE table' = CreateObject(j.table, j.what) /\ t # j.table
      BY <1>1, <3>2, ObjectEffect DEF OthersSame
    <3>3. CASE table' = CreateObject(j.table, j.what) /\ t = j.table
      <4>1. SameButRefs(table'[t], table[t])
        BY <1>1, <3>3, ObjectEffect
      <4>2. IsTable(table[t])
        BY <1>1 DEF DatabaseTypes
      <4> QED BY <1>4, <4>1, <4>2 DEF SameButRefs
    <3> QED BY <2>1, <3>1, <3>2, <3>3
  <2>3. \A i \in run.todo : i.what = "sequence" => i \in run'.todo
    BY <1>8, <2>1 DEF Objects
  <2> QED BY <1>5, <2>2, <2>3
<1>9. CASE j.what = "sequence" /\ JobFails(j)
  BY <1>9 DEF JobFails
<1> QED BY <1>1, <1>2, <1>6, <1>7, <1>8, <1>9

LEMMA NextInvNext ==
  TargetInv /\ NextInv /\ [Next]_<<targetVars, ddlVars>> => NextInv'
<1> DEFINE Later == {"indexes", "foreignKeys", "checks", "finished"}
<1> SUFFICES ASSUME TargetInv, NextInv, [Next]_<<targetVars, ddlVars>>, ~setting'.upsert,
                    faults' = 0, Driver' = "oracle" => setting'.ownSequence
             PROVE  /\ run'.phase = "sequences" =>
                         \A t \in Tables : \/ NextFree(t)'
                                           \/ \E j \in run'.todo : j.table = t /\ j.what = "sequence"
                    /\ run'.phase \in Later => \A t \in Tables : NextFree(t)'
  BY DEF NextInv
<1>1. /\ DatabaseTypes /\ RunTypes /\ JobsBelong /\ PhaseInv /\ faults \in Nat
  BY DEF TargetInv, TargetTypes, DatabaseTypes
<1>2. ASSUME run'.phase \notin {"sequences"} \cup Later
      PROVE  /\ run'.phase = "sequences" =>
                  \A t \in Tables : \/ NextFree(t)'
                                    \/ \E j \in run'.todo : j.table = t /\ j.what = "sequence"
             /\ run'.phase \in Later => \A t \in Tables : NextFree(t)'
  BY <1>2
<1>3. ASSUME setting' = setting, faults = 0
      PROVE  /\ run.phase = "sequences" =>
                  \A t \in Tables : \/ NextFree(t)
                                    \/ \E j \in run.todo : j.table = t /\ j.what = "sequence"
             /\ run.phase \in Later => \A t \in Tables : NextFree(t)
  BY <1>3 DEF NextInv, Driver
<1>4. ASSUME NEW j \in run.todo, JobStep(j)
      PROVE  /\ run'.phase = "sequences" =>
                  \A t \in Tables : \/ NextFree(t)'
                                    \/ \E i \in run'.todo : i.table = t /\ i.what = "sequence"
             /\ run'.phase \in Later => \A t \in Tables : NextFree(t)'
  <2>1. setting' = setting /\ faults = 0 /\ run'.phase = run.phase /\ Driver' = Driver
    BY <1>4, JobEffect DEF JobFacts, TargetInv, Driver
  <2>2. CASE run.phase \in {"sequences"} \cup Later
    <3>1. ASSUME NEW t \in Tables
          PROVE  /\ NextFree(t) => NextFree(t)'
                 /\ (\E i \in run.todo : i.table = t /\ i.what = "sequence") =>
                      NextFree(t)' \/ \E i \in run'.todo : i.table = t /\ i.what = "sequence"
      BY <1>4, <2>1, <2>2, JobNext
    <3> QED BY <1>3, <2>1, <3>1
  <2>3. CASE run.phase \notin {"sequences"} \cup Later
    BY <2>1, <2>3
  <2> QED BY <2>2, <2>3
<1>5. CASE PrepareEnds \/ Validate
  <2>1. PICK phase \in {"aborted", "create", "load"} : run' = StartPhase(phase)
    BY <1>5 DEF PrepareEnds, Validate
  <2>2. run'.phase = phase
    BY <1>1, <2>1, StartPhaseEffect DEF RunMoves
  <2> QED BY <1>2, <2>2
<1>6. CASE FinalizePhaseEnds
  <2>1. /\ UNCHANGED <<setting, table, faults>> /\ run.todo = {} /\ run' = StartPhase(FinalizeNext)
        /\ run.phase \in {"sequences"} \cup Later
        /\ FinalizeNext \in Later
    BY <1>6 DEF FinalizePhaseEnds, FinalizeNext
  <2>2. run'.phase = FinalizeNext
    BY <1>1, <2>1, StartPhaseEffect DEF RunMoves
  <2>3. \A t \in Tables : NextFree(t)
    BY <1>3, <2>1
  <2>4. \A t \in Tables : NextFree(t)'
    BY <2>1, <2>3, NextKept
  <2> QED BY <2>1, <2>2, <2>4
<1>7. CASE LoadEnds
  <2>1. PICK phase \in {"aborted", "finished", "sequences"} :
          /\ run' = StartPhase(phase) /\ (phase = "finished" => setting.upsert)
          /\ setting' = setting
    BY <1>7 DEF LoadEnds
  <2>2. run'.phase = phase /\ run'.todo = JobsFor(phase) /\ phase # "finished"
    BY <1>1, <2>1, StartPhaseEffect DEF RunMoves
  <2>3. phase = "sequences" => \A t \in Tables : Job(t, "sequence") \in run'.todo
    BY <2>2 DEF JobsFor
  <2>4. \A t \in Tables : Job(t, "sequence").table = t /\ Job(t, "sequence").what = "sequence"
    BY NewJob
  <2> QED BY <2>1, <2>2, <2>3, <2>4
<1>8. ASSUME NEW w \in Workers, Write(w) \/ Retry(w)
      PROVE  run'.phase \notin {"sequences"} \cup Later
  <2>1. run' = run /\ run.phase = "load"
    <3>1. CASE Write(w)
      BY <3>1, WriteStep DEF WriteFacts, Write, TargetInv, TargetTypes
    <3> QED BY <1>8, <3>1 DEF Retry
  <2> QED BY <2>1
<1>9. CASE RunAgain
  <2>1. PICK n : run' = StartRun(n)
    BY <1>9 DEF RunAgain
  <2>2. run'.phase \in {"validate", "drop"}
    BY <2>1, StartTypes
  <2> QED BY <2>2
<1>10. CASE UNCHANGED <<targetVars, ddlVars>>
  <2>1. UNCHANGED <<setting, table, faults, run>>
    BY <1>10 DEF targetVars
  <2>2. \A t \in Tables : NextFree(t) => NextFree(t)'
    BY <2>1, NextKept
  <2> QED BY <1>3, <2>1, <2>2
<1> QED BY <1>4, <1>5, <1>6, <1>7, <1>8, <1>9, <1>10 DEF Next, JobStep

LEMMA NextInvInit == Init => NextInv
BY StartTypes DEF Init, NextInv

\* Once Finalize has met no error, no row of any table has its next identity value, nor a
\* larger key (ResetSequence of the four writers), empty tables included: for any order of
\* the goroutines and whatever the workers have written; but for Oracle's identity columns,
\* which keep their sequences.
THEOREM FinalizedNextFree == Spec => []NextIdentityFree
<1>1. NextInv => NextIdentityFree
  BY DEF NextInv, NextFree, NextIdentityFree
<1> QED BY <1>1, TargetInvHolds, NextInvInit, NextInvNext, PTL DEF Spec
-----------------------------------------------------------------------------
(* What a WriteBatch that fails has left. *)

\* The jobs of a table read each of its rows once, so that a key is at one place of one batch.
BatchesApart ==
  \A v, w \in Workers : \A i \in DOMAIN BatchOf[v], k \in DOMAIN BatchOf[w] :
    BatchOf[v][i] = BatchOf[w][k] => v = w /\ i = k

NewRows == {k \in Keys : table[Loaded].rows[k] = "new"}
Written(w) == {i \in DOMAIN BatchOf[w] : BatchOf[w][i] \in NewRows}
Before(w, pos) == {i \in DOMAIN BatchOf[w] : i < pos}
InOne == Driver \in {"postgres", "mssql"}

\* The rows of worker w in the target are those before its position.
TornAt(w) ==
  /\ call[w].pc = "start" => /\ Written(w) = Before(w, call[w].pos)
                             /\ InOne => call[w].pos = 1
  /\ call[w].pc = "returned" =>
       /\ \E pos \in Nat : Written(w) = Before(w, pos)
       /\ InOne => Written(w) \in {{}, DOMAIN BatchOf[w]}

TornInv ==
  ~setting.upsert =>
    /\ run.phase \in {"drop", "create"} => NewRows = {}
    /\ \A w \in Workers : TornAt(w)

\* Tables in which there is no new row that there was not.
AddsNone(f) ==
  \A t \in Tables, k \in Keys : f[t].rows[k] = "new" => table[t].rows[k] = "new"

LEMMA DropAddsNone ==
  ASSUME DatabaseTypes, NEW t \in Tables
  PROVE  AddsNone(DropTable(t))
<1>1. \A u \in Tables : IsTable(table[u])
  BY DEF DatabaseTypes
<1>2. \A k \in Keys : NoTable.rows[k] = "absent"
  <2>1. NoTable.rows = [k \in Keys |-> "absent"]
    BY DEF NoTable
  <2> QED BY <2>1
<1>3. \A u \in Tables : \/ DropTable(t)[u] = NoTable
                        \/ DropTable(t)[u] = table[u]
                        \/ DropTable(t)[u] = [table[u] EXCEPT !.refs = table[u].refs \ {t}]
  <2>1. CASE Driver = "postgres"
    <3>1. DropTable(t) = [u \in Tables |-> IF u = t THEN NoTable
                                           ELSE [table[u] EXCEPT !.refs = @ \ {t}]]
      BY <2>1 DEF DropTable, PG!DropTable, PG!NoTable, NoTable
    <3> QED BY <3>1
  <2>2. CASE Driver # "postgres"
    <3>1. DropTable(t) = [table EXCEPT ![t] = NoTable]
      BY <2>2, FourDrivers DEF DatabaseTypes, DropTable, MY!DropTable, MS!DropTable,
         ORA!DropTable, MY!NoTable, MS!NoTable, ORA!NoTable, NoTable
    <3>2. table = [u \in Tables |-> table[u]]
      BY DEF DatabaseTypes
    <3> QED BY <3>1, <3>2
  <2> QED BY <2>1, <2>2
<1>4. ASSUME NEW x, NEW r, IsTable(x)
      PROVE  [x EXCEPT !.refs = r].rows = x.rows
  <2>1. x = [exists |-> x.exists, pk |-> x.pk, rows |-> x.rows, next |-> x.next, refs |-> x.refs]
    BY <1>4, Zenon DEF IsTable
  <2> QED BY <2>1
<1>5. ASSUME NEW u \in Tables, NEW k \in Keys, DropTable(t)[u].rows[k] = "new"
      PROVE  table[u].rows[k] = "new"
  <2>1. DropTable(t)[u] # NoTable
    BY <1>2, <1>5
  <2>2. IsTable(table[u])
    BY <1>1
  <2>3. [table[u] EXCEPT !.refs = table[u].refs \ {t}].rows = table[u].rows
    BY <1>4, <2>2
  <2>4. DropTable(t)[u].rows = table[u].rows
    BY <1>3, <2>1, <2>3
  <2> QED BY <1>5, <2>4
<1> QED BY <1>5 DEF AddsNone

LEMMA CreateAddsNone ==
  ASSUME DatabaseTypes, NEW t \in Tables
  PROVE  /\ \A withKey \in BOOLEAN : AddsNone(CreateTable(t, withKey))
         /\ AddsNone(CreatePrimaryKey(t))
<1>1. ASSUME NEW withKey \in BOOLEAN, NEW u \in Tables, NEW k \in Keys,
             CreateTable(t, withKey)[u].rows[k] = "new"
      PROVE  table[u].rows[k] = "new"
  <2>1. EmptyTable(withKey).rows[k] = "absent"
    BY NoTableType
  <2>2. u # t
    BY <1>1, <2>1, CreateEffect
  <2> QED BY <1>1, <2>2, CreateEffect DEF OthersSame
<1>2. ASSUME NEW u \in Tables, NEW k \in Keys, CreatePrimaryKey(t)[u].rows[k] = "new"
      PROVE  table[u].rows[k] = "new"
  <2>1. PICK x : x = table[t] /\ IsTable(x)
    BY DEF DatabaseTypes
  <2>2. x = [exists |-> x.exists, pk |-> x.pk, rows |-> x.rows, next |-> x.next, refs |-> x.refs]
    BY <2>1, Zenon DEF IsTable
  <2>3. [x EXCEPT !.pk = TRUE].rows = x.rows
    BY <2>2
  <2>4. CASE u = t
    BY <1>2, <2>1, <2>3, <2>4, PrimaryKeyEffect
  <2>5. CASE u # t
    BY <1>2, <2>5, PrimaryKeyEffect DEF OthersSame
  <2> QED BY <2>4, <2>5
<1> QED BY <1>1, <1>2 DEF AddsNone

LEMMA JobAddsNone ==
  ASSUME TargetInv, NEW j \in run.todo, JobStep(j), run.phase \in {"drop", "create"}
  PROVE  AddsNone(table')
<1>1. /\ IsJob(j) /\ j.table \in Tables /\ DatabaseTypes
      /\ j.what \notin {"sequence"} \cup Objects
  BY DEF TargetInv, TargetTypes, RunTypes, JobsBelong, JobBelongs, Whats, Objects, IsJob
<1>2. AddsNone(table)
  BY DEF AddsNone
<1>3. ASSUME NEW f, NEW follows, DDL(j, f, follows), AddsNone(f)
      PROVE  AddsNone(table')
  BY <1>2, <1>3 DEF DDL
<1>4. CASE AskModel(j) \/ SaveAnswer(j) \/ DDLRejected(j)
  BY <1>2, <1>4 DEF AskModel, SaveAnswer, DDLRejected
<1>5. CASE Drop(j)
  <2>1. DDLRejected(j) \/ DDL(j, table, {}) \/ DDL(j, DropTable(j.table), {})
    BY <1>5 DEF Drop
  <2>2. AddsNone(DropTable(j.table))
    BY <1>1, DropAddsNone
  <2> QED BY <1>2, <1>3, <1>4, <2>1, <2>2
<1>6. CASE CreateTableAndPK(j)
  <2>1. PICK withKey \in BOOLEAN : withKey = (cache[KeyOf(j)] = "right")
    OBVIOUS
  <2>2. \/ DDLRejected(j)
        \/ DDL(j, CreateTable(j.table, withKey), {Job(j.table, "primaryKey")})
        \/ DDL(j, CreatePrimaryKey(j.table), {})
    BY <1>6, <2>1 DEF CreateTableAndPK
  <2>3. AddsNone(CreateTable(j.table, withKey)) /\ AddsNone(CreatePrimaryKey(j.table))
    BY <1>1, CreateAddsNone
  <2> QED BY <1>3, <1>4, <2>2, <2>3
<1>7. ~Finalize(j)
  BY <1>1 DEF Finalize, Objects
<1> QED BY <1>4, <1>5, <1>6, <1>7 DEF JobStep

\* Keys that worker w has not got are not in its chunks.
LEMMA ChunkExact ==
  ASSUME BatchesApart, NEW w \in Workers, NEW pos \in Nat \ {0}, NEW i \in DOMAIN BatchOf[w]
  PROVE  i \in Before(w, LastRowOfChunk(w, pos) + 1) <=>
           i \in Before(w, pos) \/ BatchOf[w][i] \in Chunk(w, pos)
<1>1. /\ LastRowOfChunk(w, pos) \in Nat /\ LastRowOfChunk(w, pos) <= Len(BatchOf[w])
      /\ DOMAIN BatchOf[w] = 1 .. Len(BatchOf[w]) /\ Len(BatchOf[w]) \in Nat
  BY LastRow, BatchFacts
<1>2. ASSUME BatchOf[w][i] \in Chunk(w, pos)
      PROVE  i < LastRowOfChunk(w, pos) + 1
  <2>1. PICK k \in pos .. LastRowOfChunk(w, pos) : BatchOf[w][i] = BatchOf[w][k]
    BY <1>2 DEF Chunk
  <2>2. k \in DOMAIN BatchOf[w]
    BY <1>1
  <2>3. i = k
    BY <2>1, <2>2 DEF BatchesApart
  <2> QED BY <1>1, <2>3
<1>3. i < pos => i < LastRowOfChunk(w, pos) + 1
  <2>1. i <= Len(BatchOf[w]) /\ i \in Nat /\ ChunkSize \in Nat \ {0}
    BY <1>1, TargetAssumption
  <2> QED BY <1>1, <2>1 DEF LastRowOfChunk
<1>4. i < LastRowOfChunk(w, pos) + 1 => i < pos \/ BatchOf[w][i] \in Chunk(w, pos)
  BY ChunkFacts
<1> QED BY <1>2, <1>3, <1>4 DEF Before

LEMMA NewRowsAdded ==
  ASSUME DatabaseTypes, NEW ks, table' = WithRows(ks)
  PROVE  NewRows' = NewRows \cup (ks \cap Keys)
<1>1. \A k \in Keys : WithRows(ks)[Loaded].rows[k] =
                        IF k \in ks THEN "new" ELSE table[Loaded].rows[k]
  BY RowsEffect
<1> QED BY <1>1 DEF NewRows

\* The call of a worker that inserts keeps what TornInv says of it and of the others.
LEMMA InsertTorn ==
  ASSUME DatabaseTypes, BatchesApart, NEW w \in Workers, WriteFacts(w), Inserted(w),
         call[w].pc = "start", ~setting.upsert, \A v \in Workers : TornAt(v)
  PROVE  \A v \in Workers : TornAt(v)'
<1> DEFINE pos == call[w].pos
           last == LastRowOfChunk(w, pos)
<1>1. pos \in Nat \ {0} /\ last \in Nat /\ last + 1 \in Nat
  BY LastRow DEF DatabaseTypes, IsCall
<1>2. Driver' = Driver /\ (InOne' <=> InOne)
  BY DEF WriteFacts, Driver, InOne
<1>3. Written(w) = Before(w, pos) /\ (InOne => pos = 1)
  BY DEF TornAt
<1>4. \/ table' = table /\ call'[w].pc = "returned"
      \/ InOne /\ table' = WithRows(BatchKeys(w)) /\ call'[w].pc = "returned"
      \/ ~InOne /\ table' = WithRows(Chunk(w, pos)) /\ call'[w].pc = "returned"
      \/ ~InOne /\ table' = WithRows(Chunk(w, pos)) /\ call'[w].pc = "start"
                /\ call'[w].pos = last + 1
  BY DEF Inserted, Moves, CallAt, InOne
<1>5. \E ks \in SUBSET BatchKeys(w) : NewRows' = NewRows \cup (ks \cap Keys)
  <2>1. CASE table' = table
    <3>1. NewRows' = NewRows \cup ({} \cap Keys)
      BY <2>1 DEF NewRows
    <3> QED BY <3>1
  <2>2. CASE table' = WithRows(BatchKeys(w))
    BY <2>2, NewRowsAdded
  <2>3. CASE table' = WithRows(Chunk(w, pos))
    <3>1. Chunk(w, pos) \subseteq BatchKeys(w)
      BY <1>1, ChunkFacts
    <3> QED BY <2>3, <3>1, NewRowsAdded
  <2> QED BY <1>4, <2>1, <2>2, <2>3
<1>6. ASSUME NEW v \in Workers, v # w
      PROVE  TornAt(v)'
  <2>1. call'[v] = call[v]
    BY <1>6 DEF WriteFacts, CallAt
  <2>2. \A i \in DOMAIN BatchOf[v] : BatchOf[v][i] \notin BatchKeys(w)
    BY <1>6 DEF BatchesApart, BatchKeys
  <2>3. Written(v)' = Written(v)
    BY <1>5, <2>2 DEF Written
  <2> QED BY <1>2, <2>1, <2>3 DEF TornAt
<1>7. TornAt(w)'
  <2>1. CASE table' = table /\ call'[w].pc = "returned"
    <3>1. Written(w)' = Before(w, pos)
      BY <1>3, <2>1 DEF Written, NewRows
    <3>2. InOne => Before(w, pos) = {}
      BY <1>3, BatchFacts DEF Before
    <3> QED BY <1>1, <1>2, <2>1, <3>1, <3>2 DEF TornAt
  <2>2. CASE InOne /\ table' = WithRows(BatchKeys(w)) /\ call'[w].pc = "returned"
    <3>1. NewRows' = NewRows \cup (BatchKeys(w) \cap Keys)
      BY <2>2, NewRowsAdded
    <3>2. Written(w)' = DOMAIN BatchOf[w]
      BY <3>1, BatchFacts DEF Written
    <3>3. Before(w, Len(BatchOf[w]) + 1) = DOMAIN BatchOf[w] /\ Len(BatchOf[w]) + 1 \in Nat
      BY BatchFacts DEF Before
    <3> QED BY <1>2, <2>2, <3>2, <3>3 DEF TornAt
  <2>3. CASE ~InOne /\ table' = WithRows(Chunk(w, pos))
    <3>1. NewRows' = NewRows \cup (Chunk(w, pos) \cap Keys)
      BY <2>3, NewRowsAdded
    <3>2. \A i \in DOMAIN BatchOf[w] : i \in Written(w)' <=>
            i \in Written(w) \/ BatchOf[w][i] \in Chunk(w, pos)
      BY <3>1, BatchFacts DEF Written
    <3>3. Written(w)' = Before(w, last + 1)
      <4>1. \A i \in DOMAIN BatchOf[w] : i \in Written(w)' <=> i \in Before(w, last + 1)
        BY <1>1, <1>3, <3>2, ChunkExact
      <4> QED BY <4>1 DEF Written, Before
    <3> QED BY <1>1, <1>2, <1>4, <2>3, <3>3 DEF TornAt
  <2> QED BY <1>4, <2>1, <2>2, <2>3
<1> QED BY <1>6, <1>7
LEMMA TornNext ==
  TargetInv /\ BatchesApart /\ TornInv /\ [Next]_<<targetVars, ddlVars>> => TornInv'
<1> SUFFICES ASSUME TargetInv, BatchesApart, TornInv, [Next]_<<targetVars, ddlVars>>,
                    ~setting'.upsert
             PROVE  /\ run'.phase \in {"drop", "create"} => NewRows' = {}
                    /\ \A w \in Workers : TornAt(w)'
  BY DEF TornInv
<1>1. /\ DatabaseTypes /\ RunTypes /\ PhaseInv /\ Loaded \in Tables
  BY TargetAssumption DEF TargetInv, TargetTypes
<1>2. ASSUME setting' = setting
      PROVE  /\ run.phase \in {"drop", "create"} => NewRows = {}
             /\ \A w \in Workers : TornAt(w)
  BY <1>2 DEF TornInv
<1>3. ASSUME setting' = setting, call' = call, NewRows' = NewRows
      PROVE  \A w \in Workers : TornAt(w)'
  <2>1. InOne' <=> InOne
    BY <1>3 DEF InOne, Driver
  <2>2. \A w \in Workers : Written(w)' = Written(w)
    BY <1>3 DEF Written
  <2> QED BY <1>2, <1>3, <2>1, <2>2 DEF TornAt
<1>4. ASSUME UNCHANGED <<setting, table, call>>,
             run'.phase \in {"drop", "create"} => run.phase \in {"drop", "create"}
      PROVE  /\ run'.phase \in {"drop", "create"} => NewRows' = {}
             /\ \A w \in Workers : TornAt(w)'
  <2>1. NewRows' = NewRows
    BY <1>4 DEF NewRows
  <2> QED BY <1>2, <1>3, <1>4, <2>1
<1>5. ASSUME NEW j \in run.todo, JobStep(j)
      PROVE  /\ run'.phase \in {"drop", "create"} => NewRows' = {}
             /\ \A w \in Workers : TornAt(w)'
  <2>1. setting' = setting /\ call' = call /\ run'.phase = run.phase
    BY <1>5, JobEffect DEF JobFacts, TargetInv
  <2>2. NewRows' = NewRows
    <3>1. CASE run.phase \in {"drop", "create"}
      <4>1. NewRows = {}
        BY <1>2, <2>1, <3>1
      <4>2. AddsNone(table')
        BY <1>5, <3>1, JobAddsNone
      <4> QED BY <1>1, <4>1, <4>2 DEF NewRows, AddsNone
    <3>2. CASE run.phase \notin {"drop", "create"}
      <4>1. table'[Loaded].rows = table[Loaded].rows
        BY <1>1, <1>5, <3>2, JobContents DEF SameContents
      <4> QED BY <4>1 DEF NewRows
    <3> QED BY <3>1, <3>2
  <2> QED BY <1>2, <1>3, <2>1, <2>2
<1>6. CASE PrepareEnds \/ FinalizePhaseEnds \/ Validate \/ LoadEnds
  <2>1. UNCHANGED <<setting, table, call>>
    BY <1>6 DEF PrepareEnds, FinalizePhaseEnds, Validate, LoadEnds
  <2>2. PICK phase : run' = StartPhase(phase) /\ (phase \in {"drop", "create"} => PrepareEnds)
    <3>1. CASE PrepareEnds
      BY <3>1 DEF PrepareEnds
    <3>2. CASE FinalizePhaseEnds
      BY <3>2 DEF FinalizePhaseEnds, FinalizeNext
    <3> QED BY <1>6, <3>1, <3>2 DEF Validate, LoadEnds
  <2>3. run'.phase = phase
    BY <1>1, <2>2, StartPhaseEffect DEF RunMoves
  <2> QED BY <1>4, <2>1, <2>2, <2>3 DEF PrepareEnds
<1>7. ASSUME NEW w \in Workers, Write(w)
      PROVE  /\ run'.phase \in {"drop", "create"} => NewRows' = {}
             /\ \A v \in Workers : TornAt(v)'
  <2>1. WriteFacts(w) /\ WorkerInv(w)
    BY <1>1, <1>7, WriteStep DEF TargetInv
  <2>2. setting' = setting /\ run' = run /\ run.phase = "load"
    BY <1>7, <2>1 DEF WriteFacts, Write
  <2>3. call[w].pc = "start" /\ ~setting.upsert
    BY <1>7, <2>1, <2>2 DEF WorkerInv, Write, Returned
  <2>4. Inserted(w)
    BY <1>1, <1>7, <2>3, InsertEffect
  <2>5. \A v \in Workers : TornAt(v)
    BY <1>2, <2>2
  <2>6. \A v \in Workers : TornAt(v)'
    BY <1>1, <2>1, <2>3, <2>4, <2>5, InsertTorn
  <2> QED BY <2>2, <2>6
<1>8. ~(\E w \in Workers : Retry(w))
  BY DEF Retry
<1>9. CASE RunAgain
  <2>1. setting' = setting /\ table' = [t \in Tables |-> AfterRun(t)]
        /\ call' = [w \in Workers |-> NewCall]
    BY <1>9 DEF RunAgain
  <2>2. NewRows' = {}
    <3> DEFINE rows == [k \in Keys |-> IF table[Loaded].rows[k] = "new" THEN "old"
                                       ELSE table[Loaded].rows[k]]
    <3>1. table'[Loaded] = [table[Loaded] EXCEPT !.rows = rows]
      BY <1>1, <2>1 DEF AfterRun
    <3>2. PICK x : x = table[Loaded] /\ IsTable(x)
      BY <1>1 DEF DatabaseTypes
    <3>3. \A k \in Keys : rows[k] # "new"
      OBVIOUS
    <3> HIDE DEF rows
    <3>4. x = [exists |-> x.exists, pk |-> x.pk, rows |-> x.rows, next |-> x.next, refs |-> x.refs]
      BY <3>2, Zenon DEF IsTable
    <3>5. [x EXCEPT !.rows = rows].rows = rows
      BY <3>4
    <3> QED BY <3>1, <3>2, <3>3, <3>5 DEF NewRows
  <2>3. ASSUME NEW w \in Workers
        PROVE  TornAt(w)'
    <3>1. call'[w].pc = "start" /\ call'[w].pos = 1
      BY <2>1, NewCalls
    <3>2. Written(w)' = {} /\ Before(w, 1) = {}
      BY <2>2, BatchFacts DEF Written, Before
    <3> QED BY <3>1, <3>2 DEF TornAt
  <2> QED BY <2>2, <2>3
<1>10. CASE UNCHANGED <<targetVars, ddlVars>>
  BY <1>4, <1>10 DEF targetVars
<1> QED BY <1>5, <1>6, <1>7, <1>8, <1>9, <1>10 DEF Next, JobStep

LEMMA TornInit == Init => TornInv
<1> SUFFICES ASSUME Init PROVE TornInv
  OBVIOUS
<1>1. NewRows = {}
  <2>1. PICK e : table = [t \in Tables |->
          IF ~e[t].exists THEN NoTable
          ELSE [exists |-> TRUE, pk |-> e[t].pk,
                rows |-> IF e[t].full THEN [k \in Keys |-> "old"] ELSE NoTable.rows, next |-> 1,
                refs |-> IF e[t].linked THEN {u \in Tables : <<t, u>> \in Refs /\ e[u].exists}
                         ELSE {}]]
    BY DEF Init, InitialTables
  <2>2. \A k \in Keys : NoTable.rows[k] = "absent"
    <3>1. NoTable.rows = [k \in Keys |-> "absent"]
      BY DEF NoTable
    <3> QED BY <3>1
  <2>3. table[Loaded].rows = [k \in Keys |-> "old"] \/ table[Loaded].rows = NoTable.rows
    BY <2>1, TargetAssumption
  <2> QED BY <2>2, <2>3 DEF NewRows
<1>2. ASSUME NEW w \in Workers
      PROVE  TornAt(w)
  <2>1. call[w].pc = "start" /\ call[w].pos = 1
    BY NewCalls DEF Init
  <2>2. Written(w) = {} /\ Before(w, 1) = {}
    BY <1>1, BatchFacts DEF Written, Before
  <2> QED BY <2>1, <2>2 DEF TornAt
<1> QED BY <1>1, <1>2 DEF TornInv

\* A WriteBatch that fails leaves the first rows of its batch and none of the others, and all
\* or none of them with the drivers that copy in one transaction (postgres, mssql), beside
\* whatever the other workers write; given that no row is read twice.
THEOREM TornWriteIsPrefix ==
  ASSUME BatchesApart
  PROVE  Spec => []TornIsPrefix
<1>1. TornInv => TornIsPrefix
  <2> SUFFICES ASSUME TornInv, NEW w \in Workers, ~setting.upsert, Returned(w),
                      NEW written, written = Written(w)
               PROVE  /\ \A i \in written : 1 .. i \subseteq written
                      /\ Driver \in {"postgres", "mssql"} => written \in {{}, DOMAIN BatchOf[w]}
    <3>1. \A w \in Workers : {i \in DOMAIN BatchOf[w] : table[Loaded].rows[BatchOf[w][i]] = "new"}
                               = Written(w)
      BY BatchFacts DEF Written, NewRows
    <3> QED BY <3>1 DEF TornIsPrefix
  <2>1. PICK pos \in Nat : written = Before(w, pos)
    BY DEF TornInv, TornAt, Returned
  <2>2. \A i \in written : 1 .. i \subseteq written
    BY <2>1, BatchFacts DEF Before
  <2> QED BY <2>2 DEF TornInv, TornAt, Returned, InOne
<1>2. TargetInv /\ TornInv /\ [Next]_<<targetVars, ddlVars>> => TornInv'
  BY TornNext
<1> QED BY <1>1, <1>2, TargetInvHolds, TornInit, PTL DEF Spec
=============================================================================
