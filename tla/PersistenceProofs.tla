-------------------------- MODULE PersistenceProofs --------------------------
(***************************************************************************)
(* Proofs about what outlives the process.  The write-behind drivers, for  *)
(* any number of changes, failures, crashes and restarts: coalescing       *)
(* forgets nothing, both drivers implement DurableStore for each table and *)
(* keep the references between the tables whole, and the community driver  *)
(* implements it for its whole state.  The JSON store and the seed         *)
(* scripts, for any fixtures, number of changes and runs: whoever writes   *)
(* the file last, no id is handed out twice, no reference dangles, users,  *)
(* votes and figures agree, an answered change is on file, and seeding     *)
(* twice is seeding once.                                                  *)
(***************************************************************************)
EXTENDS WriteBehind, FileStore, FiniteFacts, TLAPS

\* A snapshot refers to array objects that exist; the newest one to those in use.
RefsOK ==
  /\ latest # NoState => \A t \in Table : latest.arr[t] = Len(arrays[t])
  /\ \A i \in 1 .. Len(queue) : \A t \in Table : queue[i].arr[t] \in 1 .. Len(arrays[t])
  /\ reading # 0 => reading \in 1 .. Len(arrays["users"])

\* The driver's fields are consistent with each other and with the process.
DriverOK ==
  /\ latest # NoState => timer
  /\ queue # <<>> => tx # NoState
  /\ reading # 0 => tx # NoState /\ Driver = "projects"
  /\ ~up => latest = NoState /\ ~timer /\ queue = <<>> /\ tx = NoState
  /\ up /\ failed => latest = NoState /\ queue = <<>> /\ tx = NoState

\* What a transaction started with s now would read of table t.
Content(s, t) == IF Driver = "projects" THEN arrays[t][s.arr[t]] ELSE Current(t)

\* Of each table: younger array objects, and states further back in the chain, are
\* newer, and what is written last is not newer than memory.
ArraysOK(t) ==
  /\ \A i, j \in 1 .. Len(arrays[t]) : i <= j => arrays[t][i].ver <= arrays[t][j].ver
  /\ Current(t).ver <= clock
  /\ durable.tables[t].ver <= clock
  /\ up => durable.tables[t].ver <= Current(t).ver

ChainOK(t) ==
  /\ \A i, j \in 1 .. Len(queue) : i <= j => queue[i].arr[t] <= queue[j].arr[t]
  /\ tx # NoState =>
       /\ durable.tables[t].ver <= tx.tables[t].ver
       /\ tx.tables[t].ver <= Current(t).ver
       /\ \A i \in 1 .. Len(queue) : tx.tables[t].ver <= Content(queue[i], t).ver

\* The users array still to be read is not older than what is to come after it.
ReadingOK ==
  reading # 0 =>
    /\ tx.tables["users"].ver <= arrays["users"][reading].ver
    /\ \A i \in 1 .. Len(queue) : reading <= queue[i].arr["users"]

OrderOK == (\A t \in Table : ArraysOK(t) /\ ChainOK(t)) /\ ReadingOK

IInv == TypeOK /\ RefsOK /\ DriverOK /\ OrderOK /\ NothingForgotten

\* States are written in the order of their last changes.
AgeOK ==
  /\ ver <= clock
  /\ durable.ver <= clock
  /\ up => durable.ver <= ver
  /\ tx # NoState => durable.ver <= tx.ver /\ tx.ver <= ver

------------------------------------------------------------------------------
IdsOf(rows) == {r.id : r \in rows}

NamesIn(rows, ids) == \A r \in rows : r.ref \in ids

\* Rows of memory name rows of memory, the arrays left behind included.
MemoryWhole ==
  /\ \A t \in Table : t # "upvotes" => Len(arrays[t]) = 1
  /\ NamesIn(Current("projects").rows, IdsOf(Current("users").rows))
  /\ \A t \in {"events", "upvotes"} : \A i \in 1 .. Len(arrays[t]) :
       NamesIn(arrays[t][i].rows, IdsOf(Current("projects").rows))

\* So do those of a transaction; its projects name users of memory until it has
\* read the users.
TxWhole ==
  tx # NoState =>
    /\ \A t \in {"events", "upvotes"} :
         NamesIn(tx.tables[t].rows, IdsOf(tx.tables["projects"].rows))
    /\ NamesIn(tx.tables["projects"].rows,
              IF reading = 0 THEN IdsOf(tx.tables["users"].rows)
              ELSE IdsOf(Current("users").rows))

WholeInv == MemoryWhole /\ TxWhole /\ Whole(durable)

------------------------------------------------------------------------------
\* The arrays in use, and what serialising a snapshot yields.
LEMMA CurrentType ==
  ASSUME TypeOK, NEW t \in Table
  PROVE  /\ arrays[t] \in Seq(ArrayObject) /\ Len(arrays[t]) \in 1 .. Len(arrays[t])
         /\ \A i \in 1 .. Len(arrays[t]) : arrays[t][i] \in ArrayObject /\ arrays[t][i].ver \in Nat
         /\ Current(t) \in ArrayObject /\ Current(t).ver \in Nat
  <1>1. arrays[t] \in Seq(ArrayObject) /\ Len(arrays[t]) \in 1 .. Len(arrays[t])
    BY DEF TypeOK
  <1>2. \A i \in 1 .. Len(arrays[t]) : arrays[t][i] \in ArrayObject
    BY <1>1
  <1>. QED
    BY <1>1, <1>2 DEF Current, ArrayObject

LEMMA StoredType ==
  ASSUME NEW s \in Stored, NEW t \in Table
  PROVE  s.tables[t] \in ArrayObject /\ s.tables[t].ver \in Nat /\ s.ver \in Nat
  BY DEF Stored, ArrayObject

LEMMA MemType == TypeOK => Mem \in Stored
  <1>. SUFFICES ASSUME TypeOK PROVE Mem \in Stored
    OBVIOUS
  <1>1. [t \in Table |-> Current(t)] \in [Table -> ArrayObject]
    BY CurrentType
  <1>. QED
    BY <1>1 DEF Mem, Stored, TypeOK

\* A snapshot whose arrays exist.
InRange(s) == \A t \in Table : s.arr[t] \in 1 .. Len(arrays[t])

LEMMA ContentLemma ==
  ASSUME TypeOK, OrderOK, NEW s \in Snapshot, InRange(s), NEW t \in Table
  PROVE  /\ Content(s, t) \in ArrayObject /\ Content(s, t).ver \in Nat
         /\ Content(s, t).ver <= Current(t).ver
         /\ s.arr[t] = Len(arrays[t]) => Content(s, t) = Current(t)
  <1>1. s.arr[t] \in 1 .. Len(arrays[t])
    BY DEF InRange
  <1>2. arrays[t][s.arr[t]].ver <= arrays[t][Len(arrays[t])].ver
    BY <1>1, CurrentType DEF OrderOK, ArraysOK
  <1>. QED
    BY <1>1, <1>2, CurrentType DEF Content, Current

LEMMA SerialiseLemma ==
  ASSUME TypeOK, NEW s \in Snapshot, InRange(s)
  PROVE  /\ Serialise(s) \in Stored /\ Serialise(s) # NoState
         /\ \A t \in Table : Serialise(s).tables[t] = Content(s, t)
         /\ Serialise(s).ver = ver
  <1>1. [t \in Table |-> arrays[t][s.arr[t]]] \in [Table -> ArrayObject]
    BY CurrentType DEF InRange
  <1>2. SerialiseProjects(s) \in Stored
    BY <1>1 DEF SerialiseProjects, Stored, Snapshot, TypeOK
  <1>3. Serialise(s) \in Stored
    BY <1>2, MemType DEF Serialise, SerialiseCommunity
  <1>4. \A t \in Table : Serialise(s).tables[t] = Content(s, t)
    BY DEF Serialise, SerialiseProjects, SerialiseCommunity, Mem, Content
  <1>5. Serialise(s).ver = ver
    BY DEF Serialise, SerialiseProjects, SerialiseCommunity, Mem
  <1>. QED
    BY <1>3, <1>4, <1>5, NoStateAssumption

\* What is read from an older snapshot is not newer.
LEMMA ContentMono ==
  ASSUME TypeOK, OrderOK, NEW s \in Snapshot, NEW q \in Snapshot, InRange(s), InRange(q),
         NEW t \in Table, s.arr[t] <= q.arr[t]
  PROVE  Content(s, t).ver <= Content(q, t).ver
  <1>1. arrays[t][s.arr[t]].ver <= arrays[t][q.arr[t]].ver
    BY DEF OrderOK, ArraysOK, InRange
  <1>. QED
    BY <1>1, CurrentType DEF Content

LEMMA InitInv == Init => IInv /\ AgeOK
  <1>. SUFFICES ASSUME Init PROVE IInv /\ AgeOK
    OBVIOUS
  <1>1. durable \in Stored /\ durable.ver = 0 /\ \A t \in Table : durable.tables[t].ver = 0
    <2>1. ASSUME NEW rows, \A t \in Table : rows[t] \in SUBSET Row
          PROVE  /\ Holding(rows) \in Stored /\ Holding(rows).ver = 0
                 /\ \A t \in Table : Holding(rows).tables[t].ver = 0
      <3>1. [t \in Table |-> [rows |-> rows[t], ver |-> 0]] \in [Table -> ArrayObject]
        BY <2>1 DEF ArrayObject
      <3>2. [t \in Table |-> IF rows[t] = {} THEN 1 ELSE 2] \in [Table -> Nat]
        OBVIOUS
      <3>. QED
        BY <3>1, <3>2 DEF Holding, Stored
    <2>2. NothingStored = Holding([t \in Table |-> {}])
      BY DEF NothingStored
    <2>3. \A t \in Table : [t_1 \in Table |-> {}][t] \in SUBSET Row
      OBVIOUS
    <2>. DEFINE one == [t \in Table |-> {[id |-> 1, op |-> 0, ref |-> IF t = "users" THEN 0 ELSE 1]}]
    <2>4. Registered = Holding(one)
      BY DEF Registered
    <2>5. \A t \in Table : one[t] \in SUBSET Row
      BY DEF Row
    <2>. HIDE DEF one
    <2>6. durable = NothingStored \/ durable = Registered
      BY DEF Init
    <2>. QED
      BY <2>1, <2>2, <2>3, <2>4, <2>5, <2>6
  <1>2. arrays = [t \in Table |-> <<durable.tables[t]>>]
    BY DEF Init
  <1>3. ASSUME NEW t \in Table
        PROVE  /\ arrays[t] \in Seq(ArrayObject) /\ Len(arrays[t]) = 1
               /\ arrays[t][1].ver = 0 /\ Current(t).ver = 0
    <2>1. durable.tables[t] \in ArrayObject
      BY <1>1 DEF Stored
    <2>2. arrays[t] = <<durable.tables[t]>>
      BY <1>2
    <2>. QED
      BY <1>1, <2>1, <2>2 DEF Current
  <1>4. TypeOK
    <2>1. arrays \in [Table -> Seq(ArrayObject)] /\ \A t \in Table : Len(arrays[t]) > 0
      BY <1>2, <1>3
    <2>2. queue \in Seq(Snapshot)
      BY DEF Init
    <2>3. next \in [Table -> Nat] /\ durable \in Stored /\ past \in SUBSET Stored
      BY <1>1 DEF Init, Stored
    <2>. QED
      BY <2>1, <2>2, <2>3 DEF Init, TypeOK
  <1>5. RefsOK /\ DriverOK /\ AgeOK
    BY <1>1 DEF Init, RefsOK, DriverOK, AgeOK
  <1>6. OrderOK
    BY <1>1, <1>3 DEF Init, OrderOK, ArraysOK, ChainOK, ReadingOK
  <1>7. NothingForgotten
    BY <1>1, <1>3 DEF Init, NothingForgotten, Covered
  <1>. QED
    BY <1>4, <1>5, <1>6, <1>7 DEF IInv

------------------------------------------------------------------------------
(* The chain.                                                              *)

\* A transaction starts with the state s, before those that are still waiting.
LEMMA StartLemma ==
  ASSUME TypeOK, OrderOK, UNCHANGED memVars, NEW s \in Snapshot, InRange(s), Begin(s),
         durable' \in Stored,
         \A t \in Table : durable'.tables[t].ver <= Content(s, t).ver,
         queue' \in Seq(Snapshot),
         \A i \in 1 .. Len(queue') : InRange(queue'[i])
           /\ \A t \in Table : s.arr[t] <= queue'[i].arr[t],
         \A t \in Table : \A i, j \in 1 .. Len(queue') :
           i <= j => queue'[i].arr[t] <= queue'[j].arr[t]
  PROVE  /\ tx' \in Stored /\ tx' # NoState /\ tx'.ver = ver
         /\ \A t \in Table : tx'.tables[t] = Content(s, t)
         /\ reading' \in Nat /\ (reading' # 0 => Driver = "projects" /\ reading' = s.arr["users"])
         /\ Driver = "projects" => reading' # 0
         /\ \A t \in Table : ChainOK(t)'
         /\ ReadingOK'
  <1>1. /\ tx' \in Stored /\ tx' # NoState /\ tx'.ver = ver
        /\ \A t \in Table : tx'.tables[t] = Content(s, t)
    BY SerialiseLemma DEF Begin
  <1>2. /\ reading' \in Nat /\ (reading' # 0 => Driver = "projects" /\ reading' = s.arr["users"])
        /\ Driver = "projects" => reading' # 0
    BY DEF Begin, Snapshot, InRange, Table
  <1>3. /\ \A t : Current(t)' = Current(t)
        /\ \A q, t : Content(q, t)' = IF Driver = "projects" THEN arrays[t][q'.arr[t]] ELSE Current(t)
    BY DEF Current, Content, memVars
  <1>4. ASSUME NEW t \in Table PROVE ChainOK(t)'
    <2>1. tx'.tables[t].ver <= Current(t).ver
      BY <1>1, ContentLemma
    <2>2. ASSUME NEW i \in 1 .. Len(queue')
          PROVE  tx'.tables[t].ver <= Content(queue'[i], t).ver
      BY <1>1, ContentMono
    <2>3. \A i \in 1 .. Len(queue') : Content(queue[i], t)' = Content(queue'[i], t)
      BY DEF Content, Current, memVars
    <2>. QED
      BY <1>1, <1>3, <2>1, <2>2, <2>3 DEF ChainOK
  <1>5. ReadingOK'
    <2>. SUFFICES ASSUME reading' # 0
                  PROVE  /\ tx'.tables["users"].ver <= arrays["users"][reading'].ver
                         /\ \A i \in 1 .. Len(queue') : reading' <= queue'[i].arr["users"]
      BY DEF ReadingOK, memVars
    <2>1. "users" \in Table
      BY DEF Table
    <2>2. tx'.tables["users"] = arrays["users"][reading']
      BY <1>1, <1>2, <2>1 DEF Content
    <2>3. arrays["users"][reading'].ver \in Nat
      BY <1>2, <2>1, CurrentType DEF InRange
    <2>. QED
      BY <1>2, <2>1, <2>2, <2>3
  <1>. QED
    BY <1>1, <1>2, <1>4, <1>5

\* Memory and what is durable stay, so does what is said of them.
LEMMA SameArrays ==
  ASSUME UNCHANGED memVars, UNCHANGED <<durable, up>>, NEW t
  PROVE  ArraysOK(t) => ArraysOK(t)'
  BY DEF ArraysOK, Current, memVars

LEMMA SameMemory ==
  ASSUME UNCHANGED memVars
  PROVE  /\ \A t : Current(t)' = Current(t)
         /\ \A q : InRange(q) => \A t \in Table : q.arr[t] \in 1 .. Len(arrays'[t])
  BY DEF Current, InRange, memVars

\* The states in the chain.
LEMMA QueueType ==
  ASSUME IInv
  PROVE  /\ queue \in Seq(Snapshot) /\ Len(queue) \in Nat
         /\ \A i \in 1 .. Len(queue) : queue[i] \in Snapshot /\ InRange(queue[i])
         /\ latest # NoState => latest \in Snapshot /\ InRange(latest)
  <1>1. queue \in Seq(Snapshot) /\ Len(queue) \in Nat
    BY DEF IInv, TypeOK
  <1>2. \A i \in 1 .. Len(queue) : queue[i] \in Snapshot /\ InRange(queue[i])
    BY <1>1 DEF IInv, RefsOK, InRange
  <1>3. latest # NoState => latest \in Snapshot /\ InRange(latest)
    BY CurrentType DEF IInv, TypeOK, RefsOK, InRange
  <1>. QED
    BY <1>1, <1>2, <1>3

\* What handing the latest state to the chain preserves; shared by the timer
\* and by flush().
LEMMA DrainLemma ==
  ASSUME IInv, up, Drain, timer' = FALSE, UNCHANGED memVars,
         UNCHANGED <<dirty, failed, durable, up>>
  PROVE  /\ latest' = NoState
         /\ queue' \in Seq(Snapshot) /\ tx' \in Stored \cup {NoState} /\ reading' \in Nat
         /\ tx' = tx \/ (tx' \in Stored /\ tx'.ver = ver)
         /\ RefsOK' /\ DriverOK' /\ OrderOK' /\ NothingForgotten'
  <1>. USE DEF IInv
  <1>a. \A t \in Table : ArraysOK(t)'
    BY SameArrays DEF OrderOK
  <1>b. \A t : Current(t)' = Current(t)
    BY SameMemory
  <1>c. arrays' = arrays
    BY DEF memVars
  <1>1. CASE latest = NoState
    <2>1. queue' = queue /\ tx' = tx /\ reading' = reading /\ latest' = latest
      BY <1>1 DEF Drain
    <2>2. \A t \in Table : ChainOK(t)'
      BY <1>b, <1>c, <2>1 DEF OrderOK, ChainOK, Content
    <2>3. ReadingOK'
      BY <1>c, <2>1 DEF OrderOK, ReadingOK
    <2>4. OrderOK'
      BY <1>a, <2>2, <2>3 DEF OrderOK
    <2>5. NothingForgotten'
      BY <1>1, <1>b, <1>c, <2>1 DEF NothingForgotten, Covered
    <2>6. RefsOK' /\ DriverOK'
      BY <1>1, <1>c, <2>1 DEF RefsOK, DriverOK
    <2>. QED
      BY <1>1, <2>1, <2>4, <2>5, <2>6 DEF TypeOK
  <1>2. CASE latest # NoState /\ tx = NoState
    <2>1. queue' = queue /\ Begin(latest) /\ latest' = NoState /\ queue = <<>>
      BY <1>2 DEF Drain, DriverOK
    <2>2. latest \in Snapshot /\ InRange(latest)
      BY <1>2, QueueType
    <2>3. \A t \in Table : Content(latest, t) = Current(t)
      BY <1>2, <2>2, ContentLemma DEF RefsOK
    <2>4. \A t \in Table : durable'.tables[t].ver <= Content(latest, t).ver
      BY <2>3 DEF OrderOK, ArraysOK
    <2>5. queue' \in Seq(Snapshot) /\ Len(queue') = 0 /\ durable' \in Stored
      BY <2>1 DEF TypeOK
    <2>6. /\ tx' \in Stored /\ tx' # NoState /\ tx'.ver = ver
          /\ \A t \in Table : tx'.tables[t] = Content(latest, t)
          /\ reading' \in Nat
          /\ reading' # 0 => Driver = "projects" /\ reading' = latest.arr["users"]
          /\ \A t \in Table : ChainOK(t)'
          /\ ReadingOK'
      BY <2>1, <2>2, <2>4, <2>5, StartLemma
    <2>7. OrderOK'
      BY <1>a, <2>6 DEF OrderOK
    <2>8. RefsOK' /\ DriverOK'
      <3>1. "users" \in Table
        BY DEF Table
      <3>. QED
        BY <1>2, <1>c, <2>1, <2>2, <2>5, <2>6, <3>1 DEF RefsOK, DriverOK, InRange
    <2>9. NothingForgotten'
      <3>. SUFFICES ASSUME NEW t \in Table PROVE Covered(t)'
        BY DEF NothingForgotten
      <3>1. tx'.tables[t].ver = Current(t)'.ver
        BY <1>b, <2>3, <2>6
      <3>2. t = "users" /\ reading' # 0 => reading' = Len(arrays'[t])
        BY <1>2, <1>c, <2>6 DEF RefsOK
      <3>. QED
        BY <2>1, <2>5, <2>6, <3>1, <3>2 DEF Covered
    <2>. QED
      BY <2>1, <2>5, <2>6, <2>7, <2>8, <2>9
  <1>3. CASE latest # NoState /\ tx # NoState
    <2>1. queue' = Append(queue, latest) /\ tx' = tx /\ reading' = reading /\ latest' = NoState
      BY <1>3 DEF Drain
    <2>2. latest \in Snapshot /\ InRange(latest) /\ queue \in Seq(Snapshot)
          /\ \A i \in 1 .. Len(queue) : queue[i] \in Snapshot /\ InRange(queue[i])
      BY <1>3, QueueType
    <2>3. /\ queue' \in Seq(Snapshot) /\ Len(queue') = Len(queue) + 1
          /\ queue'[Len(queue')] = latest
          /\ \A i \in 1 .. Len(queue) : queue'[i] = queue[i]
          /\ Len(queue) \in Nat
      BY <2>1, <2>2
    <2>4. ASSUME NEW i \in 1 .. Len(queue')
          PROVE  /\ queue'[i] \in Snapshot /\ InRange(queue'[i])
                 /\ (i \in 1 .. Len(queue) /\ queue'[i] = queue[i]) \/ queue'[i] = latest
      BY <2>2, <2>3
    <2>5. RefsOK'
      BY <1>3, <1>c, <2>1, <2>4 DEF RefsOK, InRange
    <2>6. ASSUME NEW t \in Table PROVE ChainOK(t)'
      <3>1. \A i, j \in 1 .. Len(queue') : i <= j => queue'[i].arr[t] <= queue'[j].arr[t]
        <4>1. latest.arr[t] = Len(arrays[t]) /\ Len(arrays[t]) \in Nat
          BY <1>3, CurrentType DEF RefsOK
        <4>2. \A i \in 1 .. Len(queue) : queue[i].arr[t] \in 1 .. Len(arrays[t])
          BY <2>2 DEF InRange
        <4>. QED
          BY <2>3, <4>1, <4>2 DEF OrderOK, ChainOK
      <3>2. \A i \in 1 .. Len(queue') : tx.tables[t].ver <= Content(queue'[i], t).ver
        <4>1. Content(latest, t) = Current(t)
          BY <1>3, <2>2, ContentLemma DEF RefsOK
        <4>. QED
          BY <1>3, <2>4, <4>1 DEF OrderOK, ChainOK
      <3>3. \A i \in 1 .. Len(queue') : Content(queue[i], t)' = Content(queue'[i], t)
        BY <1>b, <1>c DEF Content
      <3>. QED
        BY <1>3, <1>b, <2>1, <3>1, <3>2, <3>3 DEF OrderOK, ChainOK
    <2>7. ReadingOK'
      <3>. SUFFICES ASSUME reading # 0
                    PROVE  /\ tx.tables["users"].ver <= arrays["users"][reading].ver
                           /\ \A i \in 1 .. Len(queue') : reading <= queue'[i].arr["users"]
        BY <1>c, <2>1 DEF ReadingOK
      <3>1. latest.arr["users"] = Len(arrays["users"]) /\ reading \in 1 .. Len(arrays["users"])
        BY <1>3 DEF RefsOK, Table
      <3>2. Len(arrays["users"]) \in Nat
        BY CurrentType DEF Table
      <3>. QED
        BY <2>4, <3>1, <3>2 DEF OrderOK, ReadingOK
    <2>8. OrderOK'
      BY <1>a, <2>6, <2>7 DEF OrderOK
    <2>9. NothingForgotten'
      <3>. SUFFICES ASSUME NEW t \in Table PROVE Covered(t)'
        BY DEF NothingForgotten
      <3>1. queue' # <<>>
        BY <2>3
      <3>. QED
        BY <1>3, <1>c, <2>1, <2>3, <3>1 DEF Covered, RefsOK
    <2>a. DriverOK'
      BY <1>3, <2>1 DEF DriverOK
    <2>. QED
      BY <1>3, <2>1, <2>3, <2>5, <2>8, <2>9, <2>a DEF TypeOK
  <1>. QED
    BY <1>1, <1>2, <1>3

\* The same for the chain moving on to its next state when a transaction has
\* settled.
LEMMA AdvanceLemma ==
  ASSUME IInv, up, tx # NoState, Advance, UNCHANGED memVars,
         durable' = durable \/ (durable' = tx /\ reading = 0),
         UNCHANGED <<latest, timer, up>>,
         failed' => queue = <<>> /\ latest = NoState
  PROVE  /\ durable' \in Stored
         /\ queue' \in Seq(Snapshot) /\ tx' \in Stored \cup {NoState} /\ reading' \in Nat
         /\ RefsOK' /\ DriverOK' /\ OrderOK'
         /\ queue = <<>> => tx' = NoState /\ queue' = <<>>
         /\ queue # <<>> => /\ queue' = Tail(queue) /\ tx' # NoState /\ tx' \in Stored
                            /\ tx'.ver = ver
                            /\ \A t \in Table : tx'.tables[t] = Content(Head(queue), t)
                            /\ reading' # 0 => reading' = Head(queue).arr["users"]
  <1>. USE DEF IInv
  <1>b. \A t : Current(t)' = Current(t)
    BY SameMemory
  <1>c. arrays' = arrays /\ clock' = clock
    BY DEF memVars
  <1>0. tx \in Stored /\ durable \in Stored
    BY DEF TypeOK
  <1>1. durable' \in Stored
    BY <1>0
  <1>2. ASSUME NEW t \in Table
        PROVE  /\ durable'.tables[t].ver <= tx.tables[t].ver
               /\ tx.tables[t].ver <= Current(t).ver /\ Current(t).ver <= clock
               /\ durable'.tables[t].ver \in Nat /\ tx.tables[t].ver \in Nat
               /\ Current(t).ver \in Nat /\ clock \in Nat
    <2>1. durable.tables[t].ver <= tx.tables[t].ver /\ tx.tables[t].ver <= Current(t).ver
      BY DEF OrderOK, ChainOK
    <2>2. Current(t).ver <= clock /\ clock \in Nat
      BY DEF OrderOK, ArraysOK, TypeOK
    <2>. QED
      BY <1>0, <1>1, <2>1, <2>2, StoredType, CurrentType
  <1>3. ASSUME NEW t \in Table PROVE ArraysOK(t)'
    <2>1. durable'.tables[t].ver <= Current(t).ver /\ durable'.tables[t].ver <= clock
      BY <1>2
    <2>. QED
      BY <1>b, <1>c, <2>1 DEF OrderOK, ArraysOK
  <1>4. CASE queue = <<>>
    <2>1. queue' = <<>> /\ tx' = NoState /\ reading' = 0 /\ queue' \in Seq(Snapshot)
      BY <1>4 DEF Advance, TypeOK
    <2>2. OrderOK'
      BY <1>3, <2>1 DEF OrderOK, ChainOK, ReadingOK
    <2>3. RefsOK' /\ DriverOK'
      BY <1>4, <1>c, <2>1 DEF RefsOK, DriverOK
    <2>. QED
      BY <1>1, <1>4, <2>1, <2>2, <2>3
  <1>5. CASE queue # <<>>
    <2>1. queue' = Tail(queue) /\ Begin(Head(queue)) /\ Head(queue) = queue[1]
          /\ Len(queue) > 0 /\ queue \in Seq(Snapshot) /\ Len(queue) \in Nat
      BY <1>5 DEF Advance, TypeOK
    <2>2. /\ queue' \in Seq(Snapshot) /\ Len(queue') = Len(queue) - 1
          /\ \A i \in 1 .. Len(queue') : queue'[i] = queue[i + 1]
      BY <1>5, <2>1
    <2>3. \A i \in 1 .. Len(queue) : queue[i] \in Snapshot /\ InRange(queue[i])
      BY QueueType
    <2>4. \A i \in 1 .. Len(queue') : i + 1 \in 1 .. Len(queue) /\ 1 <= i + 1
      BY <2>1, <2>2
    <2>5. \A t \in Table : durable'.tables[t].ver <= Content(queue[1], t).ver
      <3>. SUFFICES ASSUME NEW t \in Table
                    PROVE  durable'.tables[t].ver <= Content(queue[1], t).ver
        OBVIOUS
      <3>1. tx.tables[t].ver <= Content(queue[1], t).ver
        BY <2>1 DEF OrderOK, ChainOK
      <3>2. Content(queue[1], t).ver \in Nat
        BY <2>1, <2>3, ContentLemma
      <3>. QED
        BY <1>2, <3>1, <3>2
    <2>6. \A i \in 1 .. Len(queue') : InRange(queue'[i])
            /\ \A t \in Table : queue[1].arr[t] <= queue'[i].arr[t]
      BY <2>1, <2>2, <2>3, <2>4 DEF OrderOK, ChainOK
    <2>7. \A t \in Table : \A i, j \in 1 .. Len(queue') :
            i <= j => queue'[i].arr[t] <= queue'[j].arr[t]
      BY <2>1, <2>2, <2>4 DEF OrderOK, ChainOK
    <2>8. queue[1] \in Snapshot /\ InRange(queue[1]) /\ Begin(queue[1])
      BY <2>1, <2>3
    <2>9. /\ tx' \in Stored /\ tx' # NoState /\ tx'.ver = ver
          /\ \A t \in Table : tx'.tables[t] = Content(queue[1], t)
          /\ reading' \in Nat
          /\ reading' # 0 => Driver = "projects" /\ reading' = queue[1].arr["users"]
          /\ \A t \in Table : ChainOK(t)'
          /\ ReadingOK'
      BY <1>1, <2>2, <2>5, <2>6, <2>7, <2>8, StartLemma
    <2>a. OrderOK'
      BY <1>3, <2>9 DEF OrderOK
    <2>b. RefsOK'
      <3>1. "users" \in Table
        BY DEF Table
      <3>. QED
        BY <1>c, <2>1, <2>6, <2>8, <2>9, <3>1 DEF RefsOK, InRange
    <2>c. DriverOK'
      BY <1>5, <2>9 DEF DriverOK
    <2>. QED
      BY <1>1, <1>5, <2>1, <2>2, <2>9, <2>a, <2>b, <2>c
  <1>. QED
    BY <1>4, <1>5

------------------------------------------------------------------------------
(* Changes of memory.                                                      *)

\* Table t is as it was, or its array in use is changed in place or replaced.
Moved(t) ==
  /\ arrays'[t] \in Seq(ArrayObject)
  /\ \/ arrays'[t] = arrays[t]
     \/ /\ Len(arrays'[t]) = Len(arrays[t])
        /\ \A i \in 1 .. Len(arrays[t]) : i # Len(arrays[t]) => arrays'[t][i] = arrays[t][i]
        /\ arrays'[t][Len(arrays[t])].ver = clock + 1
     \/ /\ Len(arrays'[t]) = Len(arrays[t]) + 1
        /\ \A i \in 1 .. Len(arrays[t]) : arrays'[t][i] = arrays[t][i]
        /\ arrays'[t][Len(arrays[t]) + 1].ver = clock + 1

\* A change of memory, whatever tables it touches.
MemoryMoves ==
  /\ arrays' \in [Table -> Seq(ArrayObject)]
  /\ \A t \in Table : Moved(t)
  /\ next' \in [Table -> Nat]
  /\ clock' = clock + 1
  /\ ver' = clock + 1
  /\ past' = past \cup {Mem'}

LEMMA WithType ==
  ASSUME TypeOK, NEW t \in Table, NEW ref \in Nat
  PROVE  With(t, ref) \in ArrayObject /\ With(t, ref).ver = clock + 1
  <1>1. Current(t).rows \in SUBSET Row
    BY CurrentType DEF ArrayObject
  <1>2. [id |-> next[t], op |-> clock + 1, ref |-> ref] \in Row /\ clock + 1 \in Nat
    BY DEF TypeOK, Row
  <1>. QED
    BY <1>1, <1>2 DEF With, ArrayObject

\* What pushing rows does to each table.
LEMMA PushLemma ==
  ASSUME TypeOK, NEW refs, PushRows(refs), \A t \in Table : t \in DOMAIN refs => refs[t] \in Nat
  PROVE  /\ MemoryMoves
         /\ \A t \in Table : t \notin DOMAIN refs => arrays'[t] = arrays[t]
         /\ \A t \in Table : Len(arrays'[t]) = Len(arrays[t])
         /\ \A t \in Table : t \in DOMAIN refs => Current(t)' = With(t, refs[t])
         /\ \A t \in Table : \A i \in 1 .. Len(arrays[t]) :
              i # Len(arrays[t]) => arrays'[t][i] = arrays[t][i]
  <1>1. arrays' = [t \in Table |->
          IF t \in DOMAIN refs
          THEN [arrays[t] EXCEPT ![Len(arrays[t])] = With(t, refs[t])]
          ELSE arrays[t]]
    BY DEF PushRows
  <1>2. ASSUME NEW t \in Table, t \in DOMAIN refs
        PROVE  /\ Moved(t) /\ Len(arrays'[t]) = Len(arrays[t])
               /\ Current(t)' = With(t, refs[t])
               /\ \A i \in 1 .. Len(arrays[t]) :
                    i # Len(arrays[t]) => arrays'[t][i] = arrays[t][i]
    <2>1. With(t, refs[t]) \in ArrayObject /\ With(t, refs[t]).ver = clock + 1
      BY <1>2, WithType
    <2>2. arrays'[t] = [arrays[t] EXCEPT ![Len(arrays[t])] = With(t, refs[t])]
      BY <1>1, <1>2
    <2>. DEFINE obj == With(t, refs[t])
    <2>. HIDE DEF obj
    <2>3. arrays'[t] = [arrays[t] EXCEPT ![Len(arrays[t])] = obj] /\ obj \in ArrayObject
          /\ obj.ver = clock + 1
      BY <2>1, <2>2 DEF obj
    <2>4. /\ arrays'[t] \in Seq(ArrayObject) /\ Len(arrays'[t]) = Len(arrays[t])
          /\ \A i \in 1 .. Len(arrays[t]) : i # Len(arrays[t]) => arrays'[t][i] = arrays[t][i]
          /\ arrays'[t][Len(arrays[t])] = obj
      BY <2>3, CurrentType
    <2>5. Current(t)' = obj
      BY <2>4 DEF Current
    <2>6. Moved(t)
      BY <2>3, <2>4 DEF Moved
    <2>. QED
      BY <2>4, <2>5, <2>6 DEF obj
  <1>3. ASSUME NEW t \in Table, t \notin DOMAIN refs
        PROVE  arrays'[t] = arrays[t] /\ Moved(t)
    <2>1. arrays'[t] = arrays[t]
      BY <1>1, <1>3
    <2>. QED
      BY <2>1, CurrentType DEF Moved
  <1>4. \A t \in Table : Moved(t)
    BY <1>2, <1>3
  <1>5. arrays' \in [Table -> Seq(ArrayObject)]
    <2>1. \A t \in Table : arrays'[t] \in Seq(ArrayObject)
      BY <1>4 DEF Moved
    <2>2. arrays' = [t \in Table |-> arrays'[t]]
      BY <1>1
    <2>. QED
      BY <2>1, <2>2
  <1>6. next' \in [Table -> Nat]
    BY DEF PushRows, NextIds, TypeOK
  <1>7. MemoryMoves
    BY <1>4, <1>5, <1>6 DEF PushRows, Changed, MemoryMoves
  <1>. QED
    BY <1>2, <1>3, <1>7

\* Replacing the upvotes, as `filter' does.
LEMMA UnvoteLemma ==
  ASSUME TypeOK, NEW v, TakeBack(v)
  PROVE  /\ MemoryMoves
         /\ \A t \in Table : t # "upvotes" => arrays'[t] = arrays[t]
         /\ Current("upvotes")'.rows \subseteq Current("upvotes").rows
         /\ Len(arrays'["upvotes"]) = Len(arrays["upvotes"]) + 1
         /\ \A i \in 1 .. Len(arrays["upvotes"]) : arrays'["upvotes"][i] = arrays["upvotes"][i]
         /\ next' = next
  <1>. DEFINE obj == [rows |-> {r \in Current("upvotes").rows : r.id # v.id}, ver |-> clock + 1]
  <1>0. "upvotes" \in Table
    BY DEF Table
  <1>1. arrays' = [arrays EXCEPT !["upvotes"] = Append(@, obj)]
    BY DEF TakeBack
  <1>2. obj \in ArrayObject /\ obj.ver = clock + 1 /\ obj.rows \subseteq Current("upvotes").rows
    <2>1. Current("upvotes").rows \in SUBSET Row
      BY <1>0, CurrentType DEF ArrayObject
    <2>. QED
      BY <2>1 DEF ArrayObject, TypeOK
  <1>. HIDE DEF obj
  <1>3. arrays'["upvotes"] = Append(arrays["upvotes"], obj)
        /\ \A t \in Table : t # "upvotes" => arrays'[t] = arrays[t]
    BY <1>0, <1>1 DEF TypeOK
  <1>4. /\ arrays'["upvotes"] \in Seq(ArrayObject)
        /\ Len(arrays'["upvotes"]) = Len(arrays["upvotes"]) + 1
        /\ \A i \in 1 .. Len(arrays["upvotes"]) : arrays'["upvotes"][i] = arrays["upvotes"][i]
        /\ arrays'["upvotes"][Len(arrays["upvotes"]) + 1] = obj
    BY <1>0, <1>2, <1>3, CurrentType
  <1>5. Current("upvotes")' = obj
    BY <1>4 DEF Current
  <1>6. \A t \in Table : Moved(t)
    BY <1>2, <1>3, <1>4, CurrentType DEF Moved
  <1>7. arrays' \in [Table -> Seq(ArrayObject)]
    BY <1>1, <1>3, <1>4 DEF TypeOK
  <1>8. MemoryMoves /\ next' = next
    BY <1>6, <1>7 DEF TakeBack, Changed, MemoryMoves, TypeOK
  <1>. QED
    BY <1>2, <1>3, <1>4, <1>5, <1>8

\* A change keeps the order: what it touches is the newest, the older arrays that
\* the chain may still hold are as they were.
LEMMA MovedLemma ==
  ASSUME TypeOK, OrderOK, MemoryMoves, NEW t \in Table
  PROVE  /\ Len(arrays'[t]) \in Nat /\ Len(arrays'[t]) >= Len(arrays[t])
         /\ Current(t)' \in ArrayObject /\ Current(t)'.ver \in Nat
         /\ Current(t)'.ver <= clock' /\ Current(t).ver <= Current(t)'.ver
         /\ Current(t)' = Current(t) \/ Current(t)'.ver > Current(t).ver
         /\ \A i \in 1 .. Len(arrays[t]) : arrays[t][i].ver <= arrays'[t][i].ver
         /\ \A i \in 1 .. Len(arrays'[t]) : arrays'[t][i].ver \in Nat
         /\ \A i, j \in 1 .. Len(arrays'[t]) : i <= j => arrays'[t][i].ver <= arrays'[t][j].ver
  <1>1. Moved(t) /\ arrays'[t] \in Seq(ArrayObject) /\ clock' = clock + 1
    BY DEF MemoryMoves, Moved
  <1>2. /\ clock \in Nat /\ Current(t).ver <= clock
        /\ \A i, j \in 1 .. Len(arrays[t]) : i <= j => arrays[t][i].ver <= arrays[t][j].ver
        /\ Current(t) = arrays[t][Len(arrays[t])] /\ Current(t)' = arrays'[t][Len(arrays'[t])]
    BY DEF TypeOK, OrderOK, ArraysOK, Current
  <1>3. \A i \in 1 .. Len(arrays[t]) : arrays[t][i].ver \in Nat /\ arrays[t][i].ver <= clock
    BY <1>2, CurrentType
  <1>4. \A i \in 1 .. Len(arrays'[t]) : arrays'[t][i] \in ArrayObject /\ arrays'[t][i].ver \in Nat
    <2>1. \A i \in 1 .. Len(arrays'[t]) : arrays'[t][i] \in ArrayObject
      BY <1>1
    <2>. QED
      BY <2>1 DEF ArrayObject
  <1>5. Len(arrays[t]) \in 1 .. Len(arrays[t]) /\ Len(arrays[t]) \in Nat /\ Len(arrays'[t]) \in Nat
    BY <1>1, CurrentType
  <1>6. CASE arrays'[t] = arrays[t]
    BY <1>1, <1>2, <1>3, <1>4, <1>5, <1>6
  <1>7. CASE /\ Len(arrays'[t]) = Len(arrays[t])
             /\ \A i \in 1 .. Len(arrays[t]) : i # Len(arrays[t]) => arrays'[t][i] = arrays[t][i]
             /\ arrays'[t][Len(arrays[t])].ver = clock + 1
    <2>1. \A i \in 1 .. Len(arrays[t]) : arrays[t][i].ver <= arrays'[t][i].ver
      BY <1>2, <1>3, <1>7
    <2>2. \A i, j \in 1 .. Len(arrays'[t]) : i <= j => arrays'[t][i].ver <= arrays'[t][j].ver
      BY <1>2, <1>3, <1>5, <1>7
    <2>3. Current(t)'.ver = clock + 1
      BY <1>2, <1>7
    <2>. QED
      BY <1>1, <1>2, <1>3, <1>4, <1>5, <1>7, <2>1, <2>2, <2>3
  <1>8. CASE /\ Len(arrays'[t]) = Len(arrays[t]) + 1
             /\ \A i \in 1 .. Len(arrays[t]) : arrays'[t][i] = arrays[t][i]
             /\ arrays'[t][Len(arrays[t]) + 1].ver = clock + 1
    <2>1. \A i \in 1 .. Len(arrays[t]) : arrays[t][i].ver <= arrays'[t][i].ver
      BY <1>3, <1>8
    <2>2. ASSUME NEW i \in 1 .. Len(arrays'[t]), NEW j \in 1 .. Len(arrays'[t]), i <= j
          PROVE  arrays'[t][i].ver <= arrays'[t][j].ver
      <3>1. j \in 1 .. Len(arrays[t]) => i \in 1 .. Len(arrays[t])
        BY <1>5, <1>8, <2>2
      <3>2. j \notin 1 .. Len(arrays[t]) => j = Len(arrays[t]) + 1
        BY <1>5, <1>8
      <3>3. i \notin 1 .. Len(arrays[t]) => i = Len(arrays[t]) + 1
        BY <1>5, <1>8
      <3>4. CASE j \in 1 .. Len(arrays[t])
        BY <1>2, <1>8, <2>2, <3>1, <3>4
      <3>5. CASE j = Len(arrays[t]) + 1
        <4>1. arrays'[t][j].ver = clock + 1
          BY <1>8, <3>5
        <4>2. arrays'[t][i].ver <= clock + 1
          BY <1>2, <1>3, <1>8, <3>3
        <4>. QED
          BY <4>1, <4>2
      <3>. QED
        BY <3>2, <3>4, <3>5
    <2>3. Current(t)'.ver = clock + 1
      BY <1>2, <1>8
    <2>. QED
      BY <1>1, <1>2, <1>3, <1>4, <1>5, <1>8, <2>1, <2>2, <2>3
  <1>. QED
    BY <1>1, <1>6, <1>7, <1>8 DEF Moved

LEMMA ChangeOrder ==
  ASSUME IInv, MemoryMoves, UNCHANGED <<queue, tx, reading, durable, up>>
  PROVE  /\ OrderOK'
         /\ \A i \in 1 .. Len(queue) : \A t \in Table : queue[i].arr[t] \in 1 .. Len(arrays'[t])
         /\ reading # 0 => reading \in 1 .. Len(arrays'["users"])
  <1>. USE DEF IInv
  <1>1. ASSUME NEW t \in Table PROVE ArraysOK(t)'
    <2>1. /\ durable.tables[t].ver <= clock /\ up => durable.tables[t].ver <= Current(t).ver
          /\ durable.tables[t].ver \in Nat /\ clock \in Nat /\ clock' = clock + 1
          /\ Current(t).ver \in Nat
      BY StoredType, CurrentType DEF OrderOK, ArraysOK, TypeOK, MemoryMoves
    <2>. QED
      BY <2>1, MovedLemma DEF OrderOK, ArraysOK
  <1>2. ASSUME NEW i \in 1 .. Len(queue), NEW t \in Table
        PROVE  queue[i].arr[t] \in 1 .. Len(arrays'[t])
    <2>1. queue[i].arr[t] \in 1 .. Len(arrays[t])
      BY DEF RefsOK
    <2>. QED
      BY <2>1, MovedLemma, CurrentType
  <1>3. ASSUME NEW t \in Table PROVE ChainOK(t)'
    <2>1. \A i, j \in 1 .. Len(queue') : i <= j => queue'[i].arr[t] <= queue'[j].arr[t]
      BY DEF OrderOK, ChainOK
    <2>2. ASSUME tx' # NoState
          PROVE  /\ durable'.tables[t].ver <= tx'.tables[t].ver
                 /\ tx'.tables[t].ver <= Current(t)'.ver
      <3>1. /\ durable.tables[t].ver <= tx.tables[t].ver /\ tx.tables[t].ver <= Current(t).ver
            /\ tx.tables[t].ver \in Nat /\ Current(t).ver \in Nat
        BY <2>2, StoredType, CurrentType DEF OrderOK, ChainOK, TypeOK
      <3>. QED
        BY <3>1, MovedLemma
    <2>3. ASSUME tx # NoState, NEW i \in 1 .. Len(queue)
          PROVE  tx.tables[t].ver <= Content(queue[i], t)'.ver
      <3>1. queue[i] \in Snapshot /\ InRange(queue[i]) /\ queue[i].arr[t] \in 1 .. Len(arrays[t])
        BY QueueType DEF InRange
      <3>2. tx.tables[t].ver <= Content(queue[i], t).ver /\ tx.tables[t].ver \in Nat
            /\ Content(queue[i], t).ver \in Nat
        BY <2>3, <3>1, ContentLemma, StoredType DEF OrderOK, ChainOK, TypeOK
      <3>3. Content(queue[i], t)' = IF Driver = "projects" THEN arrays'[t][queue[i].arr[t]]
                                    ELSE Current(t)'
        BY DEF Content
      <3>4. Content(queue[i], t).ver <= Content(queue[i], t)'.ver
        BY <3>1, <3>3, MovedLemma DEF Content
      <3>5. Content(queue[i], t)'.ver \in Nat
        <4>1. queue[i].arr[t] \in 1 .. Len(arrays'[t])
          BY <1>2
        <4>. QED
          BY <3>3, <4>1, MovedLemma
      <3>. QED
        BY <3>2, <3>4, <3>5
    <2>. QED
      BY <2>1, <2>2, <2>3 DEF ChainOK
  <1>4. reading # 0 => reading \in 1 .. Len(arrays'["users"])
    BY MovedLemma, CurrentType DEF RefsOK, Table
  <1>5. ReadingOK'
    <2>. SUFFICES ASSUME reading # 0
                  PROVE  tx.tables["users"].ver <= arrays'["users"][reading].ver
      BY DEF OrderOK, ReadingOK
    <2>1. reading \in 1 .. Len(arrays["users"]) /\ tx # NoState /\ "users" \in Table
      BY DEF RefsOK, DriverOK, Table
    <2>2. tx.tables["users"].ver <= arrays["users"][reading].ver
      BY DEF OrderOK, ReadingOK
    <2>3. tx.tables["users"].ver \in Nat /\ arrays["users"][reading].ver \in Nat
      BY <2>1, StoredType, CurrentType DEF TypeOK
    <2>4. arrays'["users"][reading].ver \in Nat
      BY <1>4, <2>1, MovedLemma
    <2>5. arrays["users"][reading].ver <= arrays'["users"][reading].ver
      BY <2>1, MovedLemma
    <2>. QED
      BY <2>2, <2>3, <2>4, <2>5
  <1>. QED
    BY <1>1, <1>2, <1>3, <1>4, <1>5 DEF OrderOK

LEMMA TypeAfterChange ==
  ASSUME TypeOK, MemoryMoves, OrderOK,
         latest' = latest \/ latest' = Saved,
         dirty' \in BOOLEAN, sweeping' \in BOOLEAN, timer' \in BOOLEAN,
         failed' \in BOOLEAN, UNCHANGED <<queue, tx, reading, durable, flush, ahead, up>>
  PROVE  TypeOK' /\ Saved \in Snapshot
  <1>1. \A t \in Table : Len(arrays'[t]) \in Nat /\ Len(arrays'[t]) > 0
    BY MovedLemma, CurrentType
  <1>2. Saved \in Snapshot
    BY <1>1 DEF Saved, Snapshot, MemoryMoves
  <1>3. Mem' \in Stored
    <2>1. [t \in Table |-> Current(t)'] \in [Table -> ArrayObject]
      BY MovedLemma
    <2>2. ver' \in Nat /\ next' \in [Table -> Nat]
      BY DEF MemoryMoves, TypeOK
    <2>. QED
      BY <2>1, <2>2 DEF Mem, Stored
  <1>4. past' \in SUBSET Stored /\ clock' \in Nat /\ ver' \in Nat
    BY <1>3 DEF MemoryMoves, TypeOK
  <1>5. latest' \in Snapshot \cup {NoState}
    BY <1>2 DEF TypeOK
  <1>. QED
    BY <1>1, <1>2, <1>4, <1>5 DEF TypeOK, MemoryMoves

------------------------------------------------------------------------------
(* IInv is inductive.                                                      *)

\* The requests that change memory and save.
LEMMA ChangeStep ==
  ASSUME IInv, up, MemoryMoves, Save, Served
  PROVE  IInv'
  <1>. USE DEF IInv
  <1>1. /\ latest' = Saved /\ timer' = TRUE /\ dirty' = FALSE /\ failed' = FALSE
        /\ UNCHANGED <<sweeping, queue, tx, reading, durable, flush, ahead, up>>
    BY DEF Save, Served
  <1>2. TypeOK' /\ Saved \in Snapshot
    BY <1>1, TypeAfterChange DEF TypeOK
  <1>3. OrderOK' /\ RefsOK'
    BY <1>1, ChangeOrder DEF RefsOK, Saved
  <1>4. latest' # NoState
    BY <1>1, <1>2, NoStateAssumption
  <1>5. DriverOK' /\ NothingForgotten'
    BY <1>1, <1>4 DEF DriverOK, NothingForgotten, Covered, Saved
  <1>. QED
    BY <1>2, <1>3, <1>5

\* What each request pushes.
LEMMA Pushes ==
  ASSUME TypeOK
  PROVE  /\ Login => MemoryMoves
         /\ SubmitProject => MemoryMoves
         /\ \A u \in Current("users").rows : SubmitAgain(u) => MemoryMoves
         /\ \A p \in Current("projects").rows : AddUpvote(p) => MemoryMoves
         /\ \A p \in Current("projects").rows : SweepStep(p) => MemoryMoves
  <1>1. Login => MemoryMoves
    <2>. DEFINE refs == [t \in {"users"} |-> 0]
    <2>1. \A t \in Table : t \in DOMAIN refs => refs[t] \in Nat
      OBVIOUS
    <2>. QED
      BY <2>1, PushLemma DEF Login
  <1>2. \A n : n \in Row => n.id \in Nat
    BY DEF Row
  <1>3. ASSUME NEW t \in Table PROVE Current(t).rows \in SUBSET Row
    BY CurrentType DEF ArrayObject
  <1>4. next["users"] \in Nat /\ next["projects"] \in Nat
    BY DEF TypeOK, Table
  <1>5. SubmitProject => MemoryMoves
    <2>. DEFINE refs == [t \in {"users", "projects", "events"} |->
                          CASE t = "users" -> 0 [] t = "projects" -> next["users"]
                            [] t = "events" -> next["projects"]]
    <2>1. \A t \in Table : t \in DOMAIN refs => refs[t] \in Nat
      BY <1>4
    <2>2. SubmitProject => PushRows(refs)
      BY DEF SubmitProject
    <2>. HIDE DEF refs
    <2>. QED
      BY <2>1, <2>2, PushLemma
  <1>6. ASSUME NEW u \in Current("users").rows, SubmitAgain(u) PROVE MemoryMoves
    <2>. DEFINE refs == [t \in {"projects", "events"} |->
                          IF t = "projects" THEN u.id ELSE next["projects"]]
    <2>1. u.id \in Nat
      BY <1>2, <1>3 DEF Table
    <2>2. \A t \in Table : t \in DOMAIN refs => refs[t] \in Nat
      BY <1>4, <2>1
    <2>3. PushRows(refs)
      BY <1>6 DEF SubmitAgain
    <2>. HIDE DEF refs
    <2>. QED
      BY <2>2, <2>3, PushLemma
  <1>7. ASSUME NEW p \in Current("projects").rows, NEW S,
               PushRows([t \in S |-> p.id])
        PROVE  MemoryMoves
    <2>. DEFINE refs == [t \in S |-> p.id]
    <2>1. p.id \in Nat
      BY <1>2, <1>3 DEF Table
    <2>2. \A t \in Table : t \in DOMAIN refs => refs[t] \in Nat
      BY <2>1
    <2>. QED
      BY <1>7, <2>2, PushLemma
  <1>. QED
    BY <1>1, <1>5, <1>6, <1>7 DEF AddUpvote, SweepStep

LEMMA RequestStep ==
  ASSUME IInv, \/ Login \/ SubmitProject
               \/ \E u \in Current("users").rows : SubmitAgain(u)
               \/ \E p \in Current("projects").rows : AddUpvote(p)
               \/ \E v \in Current("upvotes").rows : TakeBack(v)
  PROVE  IInv' /\ MemoryMoves /\ up /\ Save /\ Served
  <1>. USE DEF IInv
  <1>1. MemoryMoves
    BY Pushes, UnvoteLemma
  <1>2. up /\ Save /\ Served
    BY DEF Login, SubmitProject, SubmitAgain, AddUpvote, TakeBack
  <1>. QED
    BY <1>1, <1>2, ChangeStep

\* Saving what is there already.
LEMMA SaveStep ==
  ASSUME IInv, up, Save, UNCHANGED memVars, sweeping' \in BOOLEAN,
         UNCHANGED <<queue, tx, reading, durable, flush, ahead, up>>
  PROVE  IInv'
  <1>. USE DEF IInv
  <1>1. /\ latest' = Saved /\ timer' = TRUE /\ dirty' = FALSE /\ failed' = FALSE
    BY DEF Save
  <1>2. /\ arrays' = arrays /\ next' = next /\ \A t : Current(t)' = Current(t)
        /\ \A q, t : Content(q, t)' = Content(q', t)
    BY DEF memVars, Current, Content
  <1>3. Saved \in Snapshot /\ \A t \in Table : Saved.arr[t] = Len(arrays[t])
    BY <1>2, CurrentType DEF Saved, Snapshot, TypeOK
  <1>4. latest' # NoState
    BY <1>1, <1>3, NoStateAssumption
  <1>5. TypeOK'
    BY <1>1, <1>2, <1>3 DEF TypeOK, memVars
  <1>6. RefsOK' /\ DriverOK' /\ NothingForgotten'
    BY <1>1, <1>2, <1>3, <1>4 DEF RefsOK, DriverOK, NothingForgotten, Covered
  <1>7. OrderOK'
    <2>1. \A t \in Table : ArraysOK(t)'
      BY SameArrays DEF OrderOK
    <2>2. ASSUME NEW t \in Table PROVE ChainOK(t)'
      BY <1>2 DEF OrderOK, ChainOK, Content
    <2>3. ReadingOK'
      BY <1>2 DEF OrderOK, ReadingOK
    <2>. QED
      BY <2>1, <2>2, <2>3 DEF OrderOK
  <1>. QED
    BY <1>5, <1>6, <1>7

LEMMA SweepStepStep ==
  ASSUME IInv, NEW p \in Current("projects").rows, SweepStep(p)
  PROVE  IInv'
  <1>. USE DEF IInv
  <1>1. /\ up /\ MemoryMoves /\ sweeping' = TRUE /\ dirty' = TRUE
        /\ UNCHANGED <<driverVars, failed, durable, flush, ahead, up>>
    BY Pushes DEF SweepStep
  <1>2. UNCHANGED <<latest, timer, queue, tx, reading>>
    BY <1>1 DEF driverVars
  <1>3. TypeOK'
    BY <1>1, <1>2, TypeAfterChange DEF TypeOK
  <1>4. OrderOK'
    BY <1>1, <1>2, ChangeOrder
  <1>5. RefsOK'
    <2>1. \A t \in Table : Len(arrays'[t]) = Len(arrays[t])
      <3>. DEFINE refs == [t \in {"events"} |-> p.id]
      <3>1. p.id \in Nat
        BY CurrentType DEF Table, ArrayObject, Row
      <3>2. \A t \in Table : t \in DOMAIN refs => refs[t] \in Nat
        BY <3>1
      <3>. QED
        BY <3>2, PushLemma DEF SweepStep
    <2>. QED
      BY <1>1, <1>2, <2>1, ChangeOrder DEF RefsOK
  <1>6. DriverOK' /\ NothingForgotten'
    BY <1>1, <1>2 DEF DriverOK, NothingForgotten
  <1>. QED
    BY <1>3, <1>4, <1>5, <1>6

LEMMA TimerStep == ASSUME IInv, TimerFires PROVE IInv'
  <1>1. up /\ Drain /\ timer' = FALSE /\ UNCHANGED memVars
        /\ UNCHANGED <<dirty, sweeping, failed, durable, flush, ahead, up>>
    BY DEF TimerFires
  <1>2. TypeOK'
    BY <1>1, DrainLemma DEF IInv, TypeOK, memVars
  <1>. QED
    BY <1>1, <1>2, DrainLemma DEF IInv

LEMMA FlushBeginStep == ASSUME IInv, FlushBegin PROVE IInv'
  <1>1. up /\ Drain /\ timer' = FALSE /\ UNCHANGED memVars
        /\ UNCHANGED <<dirty, sweeping, failed, durable, up>>
        /\ ahead' = Links(queue', tx') /\ flush' \in {"no", "drained"}
    BY DEF FlushBegin
  <1>2. ahead' \in Nat
    <2>1. Len(queue') \in Nat
      BY <1>1, DrainLemma
    <2>. QED
      BY <1>1, <2>1 DEF Links
  <1>3. TypeOK'
    BY <1>1, <1>2, DrainLemma DEF IInv, TypeOK, memVars
  <1>. QED
    BY <1>1, <1>3, DrainLemma DEF IInv

LEMMA UsersReadStep == ASSUME IInv, UsersRead PROVE IInv'
  <1>. USE DEF IInv
  <1>. DEFINE users == arrays["users"][reading]
  <1>0. "users" \in Table
    BY DEF Table
  <1>1. /\ up /\ reading # 0 /\ tx # NoState /\ tx \in Stored
        /\ tx' = [tx EXCEPT !.tables["users"] = users] /\ reading' = 0
        /\ UNCHANGED memVars
        /\ UNCHANGED <<latest, timer, queue, dirty, sweeping, failed, durable, flush, ahead, up>>
    BY DEF UsersRead, DriverOK, TypeOK
  <1>2. users \in ArrayObject /\ users.ver \in Nat /\ reading \in 1 .. Len(arrays["users"])
    BY <1>0, <1>1, CurrentType DEF RefsOK
  <1>. HIDE DEF users
  <1>3. /\ tx' \in Stored /\ tx' # NoState /\ tx'.tables["users"] = users
        /\ \A t \in Table : t # "users" => tx'.tables[t] = tx.tables[t]
    <2>1. tx' \in Stored /\ tx'.tables["users"] = users
          /\ \A t \in Table : t # "users" => tx'.tables[t] = tx.tables[t]
      BY <1>0, <1>1, <1>2 DEF Stored
    <2>. QED
      BY <2>1, NoStateAssumption
  <1>4. TypeOK'
    BY <1>1, <1>3 DEF TypeOK, memVars
  <1>5. /\ arrays' = arrays /\ \A t : Current(t)' = Current(t)
        /\ \A q, t : Content(q, t)' = Content(q', t)
    BY <1>1 DEF memVars, Current, Content
  <1>6. OrderOK'
    <2>1. \A t \in Table : ArraysOK(t)'
      BY <1>1, SameArrays DEF OrderOK
    <2>2. ASSUME NEW t \in Table, t # "users" PROVE ChainOK(t)'
      BY <1>1, <1>3, <1>5, <2>2 DEF OrderOK, ChainOK, Content
    <2>3. ChainOK("users")'
      <3>1. durable.tables["users"].ver <= users.ver
        <4>1. durable.tables["users"].ver <= tx.tables["users"].ver
              /\ tx.tables["users"].ver <= users.ver
          BY <1>0, <1>1 DEF OrderOK, ChainOK, ReadingOK, users
        <4>. QED
          BY <1>0, <1>1, <1>2, <4>1, StoredType DEF TypeOK
      <3>2. users.ver <= Current("users").ver
        BY <1>0, <1>2, CurrentType DEF OrderOK, ArraysOK, Current, users
      <3>3. ASSUME NEW i \in 1 .. Len(queue) PROVE users.ver <= Content(queue[i], "users").ver
        <4>1. queue[i] \in Snapshot /\ queue[i].arr["users"] \in 1 .. Len(arrays["users"])
          BY <1>0, QueueType DEF InRange
        <4>2. reading <= queue[i].arr["users"] /\ Driver = "projects"
          BY <1>1 DEF OrderOK, ReadingOK, DriverOK
        <4>. QED
          BY <1>0, <1>2, <4>1, <4>2 DEF OrderOK, ArraysOK, Content, users
      <3>4. \A i, j \in 1 .. Len(queue) : i <= j => queue[i].arr["users"] <= queue[j].arr["users"]
        BY <1>0 DEF OrderOK, ChainOK
      <3>. QED
        BY <1>1, <1>3, <1>5, <3>1, <3>2, <3>3, <3>4 DEF ChainOK, Content
    <2>4. ReadingOK'
      BY <1>1 DEF ReadingOK
    <2>. QED
      BY <2>1, <2>2, <2>3, <2>4 DEF OrderOK
  <1>7. RefsOK' /\ DriverOK'
    BY <1>1, <1>3, <1>5 DEF RefsOK, DriverOK
  <1>8. NothingForgotten'
    <2>. SUFFICES ASSUME up, ~dirty, ~failed, NEW t \in Table PROVE Covered(t)'
      BY <1>1 DEF NothingForgotten
    <2>1. Covered(t)
      BY DEF NothingForgotten
    <2>2. CASE t # "users"
      BY <1>1, <1>3, <1>5, <2>1, <2>2 DEF Covered
    <2>3. CASE t = "users"
      <3>1. latest = NoState /\ queue = <<>> => users = Current("users")
        BY <1>1, <2>1, <2>3 DEF Covered, Current, users
      <3>. QED
        BY <1>1, <1>3, <1>5, <2>1, <2>3, <3>1 DEF Covered
    <2>. QED
      BY <2>2, <2>3
  <1>. QED
    BY <1>4, <1>6, <1>7, <1>8

\* What flush() still waits for is a number of transactions.
LEMMA FlushWaitsType ==
  ASSUME TypeOK, FlushWaits, queue' \in Seq(Snapshot)
  PROVE  flush' \in {"no", "drained", "chain"} /\ ahead' \in Nat
  <1>1. Links(queue', tx') \in Nat
    BY DEF Links
  <1>2. ahead \in Nat /\ flush \in {"no", "drained", "chain"}
    BY DEF TypeOK
  <1>. DEFINE n == Links(queue', tx')
              left == IF ahead > 1 THEN ahead - 1 ELSE IF flush = "drained" THEN n ELSE 0
  <1>3. n \in Nat
    BY <1>1
  <1>. HIDE DEF n
  <1>4. left \in Nat
    BY <1>2, <1>3
  <1>5. (ahead' = left \/ ahead' = ahead) /\ flush' \in {"no", "chain", flush}
    BY DEF FlushWaits, n
  <1>. QED
    BY <1>2, <1>4, <1>5

\* A transaction settles: it is committed, or it fails and its answer may be lost.
LEMMA SettleStep ==
  ASSUME IInv, up, tx # NoState, Advance, FlushWaits, UNCHANGED memVars,
         durable' = durable \/ (durable' = tx /\ reading = 0),
         UNCHANGED <<dirty, sweeping, latest, timer, up>>,
         failed' \in BOOLEAN, failed' => queue = <<>> /\ latest = NoState,
         failed' \/ (durable' = tx /\ reading = 0) \/ queue # <<>> \/ latest # NoState
  PROVE  IInv'
  <1>. USE DEF IInv
  <1>1. /\ durable' \in Stored
        /\ queue' \in Seq(Snapshot) /\ tx' \in Stored \cup {NoState} /\ reading' \in Nat
        /\ RefsOK' /\ DriverOK' /\ OrderOK'
        /\ queue = <<>> => tx' = NoState /\ queue' = <<>>
        /\ queue # <<>> => /\ queue' = Tail(queue) /\ tx' # NoState
                           /\ \A t \in Table : tx'.tables[t] = Content(Head(queue), t)
                           /\ reading' # 0 => reading' = Head(queue).arr["users"]
    BY AdvanceLemma
  <1>2. TypeOK'
    BY <1>1, FlushWaitsType DEF TypeOK, memVars
  <1>3. ASSUME ~dirty, ~failed', NEW t \in Table PROVE Covered(t)'
    <2>0. ~failed
      BY DEF DriverOK
    <2>1. Covered(t)
      BY <1>3, <2>0 DEF NothingForgotten
    <2>2. arrays' = arrays /\ Current(t)' = Current(t)
      BY DEF memVars, Current
    <2>3. CASE latest # NoState
      BY <2>1, <2>2, <2>3 DEF Covered
    <2>4. CASE latest = NoState /\ queue = <<>>
      BY <1>1, <1>3, <2>1, <2>2, <2>4 DEF Covered
    <2>5. CASE latest = NoState /\ queue # <<>> /\ Tail(queue) # <<>>
      <3>1. queue \in Seq(Snapshot)
        BY DEF TypeOK
      <3>2. queue' # <<>> /\ queue'[Len(queue')] = queue[Len(queue)]
        BY <1>1, <2>5, <3>1
      <3>. QED
        BY <2>1, <2>2, <2>5, <3>2 DEF Covered
    <2>6. CASE latest = NoState /\ queue # <<>> /\ Tail(queue) = <<>>
      <3>1. queue \in Seq(Snapshot)
        BY DEF TypeOK
      <3>a. Len(queue) = 1
        <4>1. Len(Tail(queue)) = Len(queue) - 1 /\ Len(queue) \in Nat
          BY <2>6, <3>1
        <4>. DEFINE rest == Tail(queue)
        <4>2. rest = <<>> /\ Len(rest) = Len(queue) - 1
          BY <2>6, <4>1
        <4>. HIDE DEF rest
        <4>3. Len(rest) = 0
          BY <4>2
        <4>. QED
          BY <4>1, <4>2, <4>3
      <3>2. queue[Len(queue)] = Head(queue) /\ Head(queue) = queue[1] /\ 1 \in 1 .. Len(queue)
        BY <2>6, <3>1, <3>a
      <3>3. Head(queue).arr[t] = Len(arrays[t])
        BY <2>1, <2>6, <3>2 DEF Covered
      <3>4. Content(Head(queue), t) = Current(t)
        BY <3>2, <3>3, QueueType, ContentLemma
      <3>. QED
        BY <1>1, <2>2, <2>6, <3>3, <3>4 DEF Covered
    <2>. QED
      BY <2>3, <2>4, <2>5, <2>6
  <1>. QED
    BY <1>1, <1>2, <1>3 DEF NothingForgotten

LEMMA CommitStep == ASSUME IInv, Commit PROVE IInv'
  <1>1. /\ up /\ tx # NoState /\ Advance /\ FlushWaits /\ UNCHANGED memVars
        /\ durable' = tx /\ reading = 0
        /\ UNCHANGED <<dirty, sweeping, latest, timer, up>> /\ failed' = failed
    BY DEF Commit
  <1>2. ~failed /\ failed' \in BOOLEAN
    BY <1>1 DEF IInv, DriverOK, TypeOK
  <1>. QED
    BY <1>1, <1>2, SettleStep

LEMMA FailStep == ASSUME IInv, Fail PROVE IInv'
  <1>1. /\ up /\ tx # NoState /\ Advance /\ FlushWaits /\ UNCHANGED memVars
        /\ durable' = durable \/ (durable' = tx /\ reading = 0)
        /\ UNCHANGED <<dirty, sweeping, latest, timer, up>>
        /\ failed' = (queue = <<>> /\ latest = NoState)
    BY DEF Fail, MayCommit
  <1>. QED
    BY <1>1, SettleStep

\* The process ends; its last transaction may still be committed.
LEMMA StopStep == ASSUME IInv, Stop PROVE IInv'
  <1>. USE DEF IInv
  <1>1. /\ up /\ up' = FALSE /\ latest' = NoState /\ timer' = FALSE /\ queue' = <<>>
        /\ tx' = NoState /\ reading' = 0 /\ sweeping' = FALSE /\ flush' = "no" /\ ahead' = 0
        /\ UNCHANGED memVars /\ UNCHANGED <<dirty, failed>>
        /\ durable' = durable \/ (tx # NoState /\ durable' = tx)
    BY DEF Stop, MayCommit
  <1>2. durable' \in Stored /\ queue' \in Seq(Snapshot)
    BY <1>1 DEF TypeOK
  <1>3. TypeOK'
    BY <1>1, <1>2 DEF TypeOK, memVars
  <1>4. ASSUME NEW t \in Table PROVE durable'.tables[t].ver <= clock
    <2>1. tx # NoState => tx.tables[t].ver <= Current(t).ver
      BY DEF OrderOK, ChainOK
    <2>2. Current(t).ver <= clock /\ durable.tables[t].ver <= clock
      BY DEF OrderOK, ArraysOK
    <2>3. Current(t).ver \in Nat /\ clock \in Nat /\ durable'.tables[t].ver \in Nat
      BY <1>2, StoredType, CurrentType DEF TypeOK
    <2>. QED
      BY <1>1, <2>1, <2>2, <2>3
  <1>5. OrderOK'
    <2>1. \A t : Current(t)' = Current(t)
      BY <1>1, SameMemory
    <2>2. ASSUME NEW t \in Table PROVE ArraysOK(t)'
      BY <1>1, <1>4, <2>1 DEF OrderOK, ArraysOK, memVars
    <2>. QED
      BY <1>1, <2>2 DEF OrderOK, ChainOK, ReadingOK
  <1>. QED
    BY <1>1, <1>3, <1>5 DEF RefsOK, DriverOK, NothingForgotten

LEMMA RestartStep == ASSUME IInv, Restart PROVE IInv'
  <1>. USE DEF IInv
  <1>1. /\ up' = TRUE /\ arrays' = [t \in Table |-> <<durable.tables[t]>>]
        /\ next' = durable.next /\ ver' = durable.ver /\ dirty' = FALSE /\ failed' = FALSE
        /\ past' = {durable}
        /\ UNCHANGED <<clock, sweeping, latest, timer, queue, tx, reading, durable, flush, ahead>>
        /\ latest = NoState /\ ~timer /\ queue = <<>> /\ tx = NoState /\ reading = 0
    BY DEF Restart, driverVars, DriverOK
  <1>2. durable \in Stored
    BY DEF TypeOK
  <1>3. ASSUME NEW t \in Table
        PROVE  /\ arrays'[t] \in Seq(ArrayObject) /\ Len(arrays'[t]) = 1
               /\ arrays'[t][1] = durable.tables[t] /\ Current(t)' = durable.tables[t]
               /\ durable.tables[t].ver \in Nat
    <2>1. durable.tables[t] \in ArrayObject /\ durable.tables[t].ver \in Nat
      BY <1>2, StoredType
    <2>2. arrays'[t] = <<durable.tables[t]>>
      BY <1>1
    <2>. QED
      BY <2>1, <2>2 DEF Current
  <1>4. TypeOK'
    <2>1. arrays' \in [Table -> Seq(ArrayObject)] /\ \A t \in Table : Len(arrays'[t]) > 0
      BY <1>1, <1>3
    <2>2. next' \in [Table -> Nat] /\ ver' \in Nat /\ past' \in SUBSET Stored
      BY <1>1, <1>2 DEF Stored
    <2>. QED
      BY <1>1, <2>1, <2>2 DEF TypeOK
  <1>5. OrderOK'
    <2>1. ASSUME NEW t \in Table PROVE ArraysOK(t)'
      <3>1. durable.tables[t].ver <= clock
        BY DEF OrderOK, ArraysOK
      <3>. QED
        BY <1>1, <1>3, <3>1 DEF ArraysOK
    <2>. QED
      BY <1>1, <2>1 DEF OrderOK, ChainOK, ReadingOK
  <1>6. RefsOK' /\ DriverOK'
    BY <1>1 DEF RefsOK, DriverOK
  <1>7. NothingForgotten'
    BY <1>1, <1>3 DEF NothingForgotten, Covered
  <1>. QED
    BY <1>4, <1>5, <1>6, <1>7

LEMMA NextInv == ASSUME IInv, [Next]_vars PROVE IInv'
  <1>1. ASSUME Resave PROVE IInv'
    BY <1>1, SaveStep DEF Resave, Served, IInv, TypeOK
  <1>2. ASSUME SweepEnd PROVE IInv'
    BY <1>2, SaveStep DEF SweepEnd
  <1>3. ASSUME UNCHANGED vars PROVE IInv'
    <2>1. arrays' = arrays /\ \A t : Current(t)' = Current(t)
      BY <1>3 DEF vars, memVars, Current
    <2>2. \A q, t : Content(q, t)' = Content(q', t)
      BY <2>1 DEF Content
    <2>3. OrderOK'
      BY <1>3, <2>1, <2>2 DEF vars, memVars, driverVars, IInv, OrderOK, ArraysOK, ChainOK,
                             ReadingOK, Content
    <2>4. TypeOK' /\ RefsOK' /\ DriverOK'
      BY <1>3 DEF vars, memVars, driverVars, IInv, TypeOK, RefsOK, DriverOK
    <2>5. NothingForgotten'
      BY <1>3, <2>1 DEF vars, memVars, driverVars, IInv, NothingForgotten, Covered
    <2>. QED
      BY <2>3, <2>4, <2>5 DEF IInv
  <1>. QED
    BY <1>1, <1>2, <1>3, RequestStep, SweepStepStep, TimerStep, FlushBeginStep, UsersReadStep,
       CommitStep, FailStep, StopStep, RestartStep DEF Next

\* Every reachable state satisfies the inductive invariant.
THEOREM Invariance == Spec => []IInv
  <1>1. Init => IInv
    BY InitInv
  <1>2. IInv /\ [Next]_vars => IInv'
    BY NextInv
  <1>. QED
    BY <1>1, <1>2, PTL DEF Spec

\* The arrays, the snapshots and the driver's fields always have their types.
THEOREM TypeCorrect == Spec => []TypeOK
  <1>1. IInv => TypeOK
    BY DEF IInv
  <1>. QED
    BY <1>1, Invariance, PTL

\* Coalescing forgets nothing (postgres-projects-store.ts, save and drain): any
\* number of changes, transactions, failures, crashes and restarts.
THEOREM NothingIsForgotten == Spec => []NothingForgotten
  <1>1. IInv => NothingForgotten
    BY DEF IInv
  <1>. QED
    BY <1>1, Invariance, PTL

------------------------------------------------------------------------------
(* The kinds of step, for what memory, the transaction and the database hold. *)

\* The database keeps what it has, or is given the transaction, read to its end.
Wrote == durable' = durable \/ (tx # NoState /\ reading = 0 /\ durable' = tx)

\* The transaction stays, ends, starts with a saved state or reads the users.
TxSteps ==
  \/ tx' = tx /\ reading' = reading
  \/ tx' = NoState /\ reading' = 0
  \/ \E s \in Snapshot : InRange(s) /\ Begin(s)
  \/ UsersRead

Moves == up /\ MemoryMoves /\ UNCHANGED <<tx, reading, durable, up>>
Drives == up /\ UNCHANGED memVars /\ UNCHANGED up /\ Wrote /\ TxSteps
Ends == up /\ ~up' /\ UNCHANGED memVars /\ Wrote /\ tx' = NoState /\ reading' = 0
Rests == UNCHANGED memVars /\ UNCHANGED <<tx, reading, durable, up>>

LEMMA Kinds ==
  ASSUME IInv, [Next]_vars
  PROVE  \/ Moves
         \/ Drives
         \/ Ends
         \/ Restart
         \/ Rests
  <1>. USE DEF IInv
  <1>1. CASE \/ Login \/ SubmitProject
             \/ \E u \in Current("users").rows : SubmitAgain(u)
             \/ \E p \in Current("projects").rows : AddUpvote(p)
             \/ \E v \in Current("upvotes").rows : TakeBack(v)
    BY <1>1, RequestStep DEF Served, Moves
  <1>2. CASE \E p \in Current("projects").rows : SweepStep(p)
    <2>1. PICK p \in Current("projects").rows : SweepStep(p)
      BY <1>2
    <2>2. MemoryMoves
      BY <2>1, Pushes
    <2>. QED
      BY <2>1, <2>2 DEF SweepStep, driverVars, Moves
  <1>3. CASE Resave \/ SweepEnd
    BY <1>3 DEF Resave, SweepEnd, Served, Drives, Wrote, TxSteps
  <1>4. CASE TimerFires \/ FlushBegin
    <2>1. up /\ Drain /\ UNCHANGED memVars /\ UNCHANGED <<durable, up>>
      BY <1>4 DEF TimerFires, FlushBegin
    <2>2. TxSteps
      BY <2>1, QueueType DEF Drain, TxSteps
    <2>. QED
      BY <2>1, <2>2 DEF Drives, Wrote
  <1>5. CASE UsersRead
    BY <1>5 DEF UsersRead, Drives, Wrote, TxSteps
  <1>6. CASE Commit \/ Fail
    <2>1. up /\ Advance /\ UNCHANGED memVars /\ UNCHANGED up /\ Wrote
      BY <1>6 DEF Commit, Fail, MayCommit, Wrote
    <2>2. TxSteps
      <3>1. CASE queue = <<>>
        BY <2>1, <3>1 DEF Advance, TxSteps
      <3>2. CASE queue # <<>>
        <4>1. Head(queue) = queue[1] /\ 1 \in 1 .. Len(queue)
          BY <3>2, QueueType
        <4>. QED
          BY <2>1, <3>2, <4>1, QueueType DEF Advance, TxSteps
      <3>. QED
        BY <3>1, <3>2
    <2>. QED
      BY <2>1, <2>2 DEF Drives
  <1>7. CASE Stop
    BY <1>7 DEF Stop, MayCommit, Wrote, Ends
  <1>8. CASE UNCHANGED vars
    BY <1>8 DEF vars, driverVars, Rests
  <1>. QED
    BY <1>1, <1>2, <1>3, <1>4, <1>5, <1>6, <1>7, <1>8 DEF Next

\* A boot takes memory from the database.
LEMMA Booted ==
  ASSUME IInv, Restart
  PROVE  /\ Mem' = durable /\ durable' = durable /\ past' = {durable} /\ tx' = NoState
         /\ clock' = clock /\ ver' = durable.ver
         /\ \A t \in Table : /\ Current(t)' = durable.tables[t] /\ Len(arrays'[t]) = 1
                             /\ arrays'[t][1] = durable.tables[t]
  <1>1. /\ arrays' = [t \in Table |-> <<durable.tables[t]>>]
        /\ next' = durable.next /\ ver' = durable.ver
        /\ past' = {durable} /\ durable' = durable /\ tx' = NoState /\ clock' = clock
    BY DEF Restart, driverVars, IInv, DriverOK
  <1>2. ASSUME NEW t \in Table
        PROVE  /\ Current(t)' = durable.tables[t] /\ Len(arrays'[t]) = 1
               /\ arrays'[t][1] = durable.tables[t]
    <2>1. arrays'[t] = <<durable.tables[t]>>
      BY <1>1
    <2>. QED
      BY <2>1 DEF Current
  <1>3. durable \in Stored
    BY DEF IInv, TypeOK
  <1>4. [t \in Table |-> Current(t)'] = durable.tables
    BY <1>2, <1>3 DEF Stored
  <1>5. Mem' = [tables |-> durable.tables, next |-> durable.next, ver |-> durable.ver]
    BY <1>1, <1>4 DEF Mem
  <1>6. Mem' = durable
    BY <1>3, <1>5 DEF Stored
  <1>. QED
    BY <1>1, <1>2, <1>6

\* A transaction that changes without ending.
LEMMA TxStep ==
  ASSUME IInv, Drives, tx' # NoState
  PROVE  \/ tx' = tx /\ reading' = reading
         \/ \E s \in Snapshot :
              /\ InRange(s) /\ tx' = Serialise(s) /\ tx'.ver = ver
              /\ \A t \in Table : tx'.tables[t] = Content(s, t)
         \/ /\ tx # NoState /\ tx'.ver = tx.ver /\ reading' = 0
            /\ tx'.tables["users"] = arrays["users"][reading]
            /\ reading \in 1 .. Len(arrays["users"])
            /\ \A t \in Table : t # "users" => tx'.tables[t] = tx.tables[t]
            /\ Driver = "projects"
  <1>. USE DEF IInv
  <1>1. ASSUME NEW s \in Snapshot, InRange(s), Begin(s)
        PROVE  tx' = Serialise(s) /\ tx'.ver = ver
               /\ \A t \in Table : tx'.tables[t] = Content(s, t)
    BY <1>1, SerialiseLemma DEF Begin
  <1>2. ASSUME UsersRead
        PROVE  /\ tx # NoState /\ tx'.ver = tx.ver /\ reading' = 0
               /\ tx'.tables["users"] = arrays["users"][reading]
               /\ reading \in 1 .. Len(arrays["users"])
               /\ \A t \in Table : t # "users" => tx'.tables[t] = tx.tables[t]
               /\ Driver = "projects"
    <2>1. tx \in Stored /\ tx # NoState /\ reading \in 1 .. Len(arrays["users"])
          /\ Driver = "projects"
      BY <1>2 DEF UsersRead, DriverOK, RefsOK, TypeOK
    <2>2. tx' = [tx EXCEPT !.tables["users"] = arrays["users"][reading]] /\ reading' = 0
      BY <1>2 DEF UsersRead
    <2>. QED
      BY <2>1, <2>2 DEF Stored, Table
  <1>. QED
    BY <1>1, <1>2 DEF Drives, TxSteps

LEMMA AgeNext ==
  ASSUME IInv, AgeOK, [Next]_vars
  PROVE  AgeOK'
  <1>. USE DEF IInv
  <1>0. /\ ver \in Nat /\ clock \in Nat /\ durable.ver \in Nat
        /\ tx # NoState => tx \in Stored /\ tx.ver \in Nat
    BY DEF TypeOK, Stored
  <1>1. CASE Moves
    BY <1>0, <1>1 DEF Moves, MemoryMoves, AgeOK
  <1>2. CASE Drives
    <2>1. ver' = ver /\ clock' = clock /\ up' = up /\ up /\ Wrote
      BY <1>2 DEF Drives, memVars
    <2>2. durable'.ver <= ver /\ durable.ver <= durable'.ver /\ durable'.ver \in Nat
          /\ (tx # NoState => durable'.ver <= tx.ver)
      BY <1>0, <2>1 DEF Wrote, AgeOK
    <2>3. ASSUME tx' # NoState PROVE tx'.ver = ver \/ (tx # NoState /\ tx'.ver = tx.ver)
      BY <1>2, <2>3, TxStep
    <2>. QED
      BY <1>0, <2>1, <2>2, <2>3 DEF AgeOK
  <1>3. CASE Ends
    BY <1>0, <1>3 DEF Ends, Wrote, AgeOK, memVars
  <1>4. CASE Restart
    BY <1>0, <1>4, Booted DEF AgeOK
  <1>5. CASE Rests
    BY <1>5 DEF Rests, AgeOK, memVars
  <1>. QED
    BY <1>1, <1>2, <1>3, <1>4, <1>5, Kinds

------------------------------------------------------------------------------
(* The community driver implements DurableStore.                           *)

\* Every state the driver holds serialised is one memory has been in.
PastInv ==
  /\ Mem \in past
  /\ durable \in past
  /\ tx # NoState => tx \in past

LEMMA MemInit == Init => Mem = durable /\ past = {Mem} /\ tx = NoState
  <1>. SUFFICES ASSUME Init PROVE Mem = durable /\ past = {Mem} /\ tx = NoState
    OBVIOUS
  <1>1. durable \in Stored /\ durable.ver = 0
    <2>1. durable \in Stored
      BY InitInv DEF IInv, TypeOK
    <2>. QED
      BY <2>1 DEF Init, NothingStored, Registered, Holding
  <1>2. [t \in Table |-> Current(t)] = durable.tables
    <2>1. \A t \in Table : Current(t) = durable.tables[t]
      BY DEF Init, Current
    <2>. QED
      BY <1>1, <2>1 DEF Stored
  <1>3. Mem = [tables |-> durable.tables, next |-> durable.next, ver |-> durable.ver]
    BY <1>1, <1>2 DEF Init, Mem
  <1>4. Mem = durable
    BY <1>1, <1>3 DEF Stored
  <1>. QED
    BY <1>4 DEF Init

LEMMA SameMem == ASSUME UNCHANGED memVars PROVE Mem' = Mem /\ past' = past
  BY DEF memVars, Mem, Current

LEMMA PastNext ==
  ASSUME Driver = "community", IInv, PastInv, [Next]_vars
  PROVE  PastInv'
  <1>1. CASE Moves
    BY <1>1 DEF Moves, MemoryMoves, PastInv
  <1>2. CASE Drives
    <2>1. Mem' = Mem /\ past' = past /\ durable' \in past
      BY <1>2, SameMem DEF Drives, Wrote, PastInv
    <2>2. ASSUME tx' # NoState PROVE tx' = tx \/ tx' = Mem
      <3>1. \A s : Serialise(s) = Mem
        BY DEF Serialise, SerialiseCommunity
      <3>. QED
        BY <1>2, <2>2, <3>1, TxStep
    <2>. QED
      BY <2>1, <2>2 DEF PastInv
  <1>3. CASE Ends \/ Rests
    BY <1>3, SameMem DEF Ends, Rests, Wrote, PastInv
  <1>4. CASE Restart
    BY <1>4, Booted DEF PastInv
  <1>. QED
    BY <1>1, <1>2, <1>3, <1>4, Kinds

\* Every step of the driver is a step of the abstract store or changes nothing
\* of it.
LEMMA StoreStep ==
  ASSUME Driver = "community", IInv, AgeOK, PastInv, [Next]_vars
  PROVE  [Store!DSNext]_(Store!absVars)
  <1>. USE DEF IInv
  <1>0. Mem.ver = ver /\ ver \in Nat /\ clock \in Nat /\ durable \in Stored /\ durable.ver \in Nat
    BY DEF Mem, TypeOK, Stored
  <1>a. tx # NoState => tx \in past /\ tx \in Stored /\ tx.ver >= durable.ver
    <2>1. SUFFICES ASSUME tx # NoState
                   PROVE  tx \in past /\ tx \in Stored /\ tx.ver >= durable.ver
      OBVIOUS
    <2>2. tx \in Stored /\ tx.ver \in Nat /\ durable.ver <= tx.ver
      BY <2>1 DEF AgeOK, TypeOK, Stored
    <2>. QED
      BY <1>0, <2>1, <2>2 DEF PastInv
  <1>1. CASE Moves
    <2>1. up /\ up' = up /\ durable' = durable /\ past' = past \cup {Mem'}
      BY <1>1 DEF Moves, MemoryMoves
    <2>2. Mem' \in Stored
      <3>1. [t \in Table |-> Current(t)'] \in [Table -> ArrayObject]
        BY <1>1, MovedLemma DEF Moves
      <3>. QED
        BY <1>0, <1>1, <3>1 DEF Moves, MemoryMoves, Mem, Stored
    <2>3. Mem'.ver > Mem.ver
      BY <1>0, <1>1 DEF Moves, MemoryMoves, Mem, AgeOK
    <2>. QED
      BY <2>1, <2>2, <2>3 DEF Store!DSNext, Store!Change, Store!absVars
  <1>2. CASE Drives
    <2>1. up /\ up' = up /\ Mem' = Mem /\ past' = past /\ Wrote
      BY <1>2, SameMem DEF Drives
    <2>2. CASE durable' = durable
      BY <2>1, <2>2 DEF Store!absVars
    <2>3. CASE tx # NoState /\ durable' = tx
      BY <1>a, <2>1, <2>3 DEF Store!DSNext, Store!Sync, Store!Forward, Store!absVars
    <2>. QED
      BY <2>1, <2>2, <2>3 DEF Wrote
  <1>3. CASE Ends
    <2>1. up = TRUE /\ up' = FALSE /\ Mem' = Mem /\ past' = past /\ Wrote
      <3>1. up' = FALSE
        BY <1>3, NextInv DEF Ends, TypeOK
      <3>. QED
        BY <1>3, <3>1, SameMem DEF Ends, TypeOK
    <2>2. CASE durable' = durable
      BY <2>1, <2>2 DEF Store!DSNext, Store!Down
    <2>3. CASE tx # NoState /\ durable' = tx
      BY <1>a, <2>1, <2>3 DEF Store!DSNext, Store!Down, Store!Forward
    <2>. QED
      BY <2>1, <2>2, <2>3 DEF Wrote
  <1>4. CASE Restart
    BY <1>4, Booted DEF Restart, Store!DSNext, Store!Boot
  <1>5. CASE Rests
    BY <1>5, SameMem DEF Rests, Store!absVars
  <1>. QED
    BY <1>1, <1>2, <1>3, <1>4, <1>5, Kinds

\* The write-behind driver of the community state (community.store.ts), whose
\* snapshots share everything, implements the abstract store of one table: what
\* a restart loads is exactly one of the states the service was in.
THEOREM CommunityImplementsStore ==
  ASSUME Driver = "community"
  PROVE  Spec => StoreSpec
  <1>1. Init => Store!DSInit
    <2>1. Init => Mem = durable /\ past = {Mem} /\ up = TRUE
      BY MemInit DEF Init
    <2>. QED
      BY <2>1, InitInv DEF Store!DSInit, IInv, TypeOK
  <1>2. Init => AgeOK /\ PastInv
    BY InitInv, MemInit DEF PastInv
  <1>3. IInv /\ AgeOK /\ [Next]_vars => AgeOK'
    BY AgeNext
  <1>4. IInv /\ PastInv /\ [Next]_vars => PastInv'
    BY PastNext
  <1>5. IInv /\ AgeOK /\ PastInv /\ [Next]_vars => [Store!DSNext]_(Store!absVars)
    BY StoreStep
  <1>. QED
    BY <1>1, <1>2, <1>3, <1>4, <1>5, Invariance, PTL DEF Spec, StoreSpec, Store!DSSpec

------------------------------------------------------------------------------
(* Each table by itself, for both drivers.                                 *)

TablePast(t) == {s.tables[t] : s \in past}

\* Every array object holds rows its table has had, the ones the service has left
\* behind too: a late transaction may read any of them.
TablesInv ==
  \A t \in Table :
    /\ \A i \in 1 .. Len(arrays[t]) : arrays[t][i] \in TablePast(t)
    /\ durable.tables[t] \in TablePast(t)
    /\ tx # NoState => tx.tables[t] \in TablePast(t)

LEMMA CurrentPast ==
  ASSUME IInv, TablesInv, NEW t \in Table
  PROVE  /\ Current(t) \in TablePast(t)
         /\ \A s \in Snapshot : InRange(s) => Content(s, t) \in TablePast(t)
  BY CurrentType DEF IInv, TablesInv, Current, Content, InRange

LEMMA TablesInit == Init => TablesInv
  <1>. SUFFICES ASSUME Init, NEW t \in Table
                PROVE  /\ \A i \in 1 .. Len(arrays[t]) : arrays[t][i] \in TablePast(t)
                       /\ durable.tables[t] \in TablePast(t)
                       /\ tx = NoState
    BY DEF TablesInv
  <1>1. arrays[t] = <<durable.tables[t]>> /\ past = {durable} /\ tx = NoState
    BY DEF Init
  <1>2. durable.tables[t] \in TablePast(t)
    BY <1>1 DEF TablePast
  <1>. QED
    BY <1>1, <1>2

LEMMA TablesNext == ASSUME IInv, TablesInv, [Next]_vars PROVE TablesInv'
  <1>. USE DEF IInv
  <1>1. CASE Moves
    <2>. SUFFICES ASSUME NEW t \in Table
                  PROVE  /\ \A i \in 1 .. Len(arrays'[t]) : arrays'[t][i] \in TablePast(t)'
                         /\ durable'.tables[t] \in TablePast(t)'
                         /\ tx' # NoState => tx'.tables[t] \in TablePast(t)'
      BY DEF TablesInv
    <2>1. past' = past \cup {Mem'} /\ tx' = tx /\ durable' = durable /\ Moved(t)
      BY <1>1 DEF Moves, MemoryMoves
    <2>2. TablePast(t) \subseteq TablePast(t)' /\ Mem'.tables[t] \in TablePast(t)'
      BY <2>1 DEF TablePast
    <2>3. Mem'.tables[t] = arrays'[t][Len(arrays'[t])]
      BY DEF Mem, Current
    <2>4. \A i \in 1 .. Len(arrays[t]) : arrays[t][i] \in TablePast(t)'
      BY <2>2 DEF TablesInv
    <2>5. Len(arrays[t]) \in Nat /\ Len(arrays'[t]) \in Nat
      BY <1>1, CurrentType, MovedLemma DEF Moves
    <2>6. \A i \in 1 .. Len(arrays'[t]) :
            i = Len(arrays'[t]) \/ (i \in 1 .. Len(arrays[t]) /\ arrays'[t][i] = arrays[t][i])
      BY <2>1, <2>5 DEF Moved
    <2>7. \A i \in 1 .. Len(arrays'[t]) : arrays'[t][i] \in TablePast(t)'
      BY <2>2, <2>3, <2>4, <2>6
    <2>. QED
      BY <2>1, <2>2, <2>7 DEF TablesInv
  <1>a. ASSUME UNCHANGED memVars
        PROVE  arrays' = arrays /\ \A t : TablePast(t)' = TablePast(t)
    BY <1>a DEF memVars, TablePast
  <1>b. ASSUME Wrote, NEW t \in Table PROVE durable'.tables[t] \in TablePast(t)
    BY <1>b DEF Wrote, TablesInv
  <1>2. CASE Drives
    <2>1. \A t : arrays' = arrays /\ TablePast(t)' = TablePast(t)
      BY <1>2, <1>a DEF Drives
    <2>2. ASSUME NEW t \in Table, tx' # NoState PROVE tx'.tables[t] \in TablePast(t)
      <3>1. CASE tx' = tx /\ reading' = reading
        BY <2>2, <3>1 DEF TablesInv
      <3>2. CASE \E s \in Snapshot : InRange(s) /\ \A t_1 \in Table : tx'.tables[t_1] = Content(s, t_1)
        BY <3>2, CurrentPast
      <3>3. CASE /\ tx # NoState
                 /\ tx'.tables["users"] = arrays["users"][reading]
                 /\ reading \in 1 .. Len(arrays["users"])
                 /\ \A t_1 \in Table : t_1 # "users" => tx'.tables[t_1] = tx.tables[t_1]
        BY <3>3 DEF TablesInv
      <3>. QED
        BY <1>2, <2>2, <3>1, <3>2, <3>3, TxStep
    <2>. QED
      BY <1>2, <1>b, <2>1, <2>2 DEF TablesInv, Drives
  <1>3. CASE Ends
    BY <1>3, <1>a, <1>b DEF Ends, TablesInv
  <1>4. CASE Restart
    <2>1. ASSUME NEW t \in Table PROVE durable.tables[t] \in TablePast(t)'
      BY <1>4, Booted DEF TablePast
    <2>. QED
      BY <1>4, <2>1, Booted DEF TablesInv
  <1>5. CASE Rests
    BY <1>5, <1>a DEF Rests, TablesInv
  <1>. QED
    BY <1>1, <1>2, <1>3, <1>4, <1>5, Kinds

\* Every step of a driver is, for each table, a step of the abstract store or
\* changes nothing of it.
LEMMA TablesStep ==
  ASSUME IInv, TablesInv, [Next]_vars
  PROVE  [Rows!DSNext]_(Rows!absVars)
  <1>. USE DEF IInv
  <1>. DEFINE cur == [t \in Table |-> Current(t)]
              had == [t \in Table |-> {s.tables[t] : s \in past}]
  <1>0. \A t \in Table : had[t] = TablePast(t) /\ cur[t] = Current(t)
    BY DEF TablePast
  <1>a. ASSUME tx # NoState
        PROVE  /\ tx.tables \in [Table -> ArrayObject]
               /\ \A t \in Table : /\ tx.tables[t] \in had[t]
                                   /\ tx.tables[t].ver >= durable.tables[t].ver
    <2>1. tx \in Stored /\ durable \in Stored
      BY <1>a DEF TypeOK
    <2>2. ASSUME NEW t \in Table PROVE tx.tables[t].ver >= durable.tables[t].ver
      <3>1. durable.tables[t].ver <= tx.tables[t].ver
        BY <1>a DEF OrderOK, ChainOK
      <3>. QED
        BY <2>1, <3>1, StoredType
    <2>. QED
      BY <1>0, <1>a, <2>1, <2>2 DEF TablesInv, Stored
  <1>b. ASSUME UNCHANGED memVars PROVE cur' = cur /\ had' = had
    BY <1>b DEF memVars, Current
  <1>1. CASE Moves
    <2>1. up /\ up' = up /\ durable' = durable /\ past' = past \cup {Mem'}
      BY <1>1 DEF Moves, MemoryMoves
    <2>2. ASSUME NEW t \in Table
          PROVE  /\ Current(t)' \in ArrayObject
                 /\ Current(t)' = Current(t) \/ Current(t)'.ver > Current(t).ver
      BY <1>1, MovedLemma DEF Moves
    <2>3. cur' \in [Table -> ArrayObject]
      BY <2>2
    <2>4. \A t \in Table : cur'[t] = cur[t] \/ cur'[t].ver > cur[t].ver
      BY <2>2
    <2>5. had' = [t \in Table |-> had[t] \cup {cur'[t]}]
      <3>1. \A t \in Table : Mem'.tables[t] = cur'[t]
        BY DEF Mem
      <3>2. ASSUME NEW t \in Table
            PROVE  {s.tables[t] : s \in past'} = {s.tables[t] : s \in past} \cup {Mem'.tables[t]}
        BY <2>1
      <3>. QED
        BY <3>1, <3>2
    <2>. HIDE DEF cur, had
    <2>6. Rows!Change
      BY <2>1, <2>3, <2>4, <2>5 DEF Rows!Change, cur, had
    <2>. QED
      BY <2>6 DEF Rows!DSNext
  <1>2. CASE Drives
    <2>1. up /\ up' = up /\ cur' = cur /\ had' = had /\ Wrote
      BY <1>2, <1>b DEF Drives
    <2>2. CASE durable' = durable
      BY <2>1, <2>2 DEF Rows!absVars
    <2>3. CASE tx # NoState /\ durable' = tx
      BY <1>a, <2>1, <2>3 DEF Rows!DSNext, Rows!Sync, Rows!Forward, Rows!absVars
    <2>. QED
      BY <2>1, <2>2, <2>3 DEF Wrote
  <1>3. CASE Ends
    <2>1. up = TRUE /\ up' = FALSE /\ cur' = cur /\ had' = had /\ Wrote
      <3>1. up' = FALSE
        BY <1>3, NextInv DEF Ends, TypeOK
      <3>. QED
        BY <1>3, <1>b, <3>1 DEF Ends, TypeOK
    <2>2. CASE durable' = durable
      BY <2>1, <2>2 DEF Rows!DSNext, Rows!Down
    <2>3. CASE tx # NoState /\ durable' = tx
      BY <1>a, <2>1, <2>3 DEF Rows!DSNext, Rows!Down, Rows!Forward
    <2>. QED
      BY <2>1, <2>2, <2>3 DEF Wrote
  <1>4. CASE Restart
    <2>1. ~up /\ up' = TRUE /\ durable' = durable /\ past' = {durable}
      BY <1>4, Booted DEF Restart
    <2>2. cur' = durable.tables
      <3>1. durable.tables \in [Table -> ArrayObject]
        BY DEF TypeOK, Stored
      <3>2. \A t \in Table : cur'[t] = durable.tables[t]
        BY <1>4, Booted
      <3>. QED
        BY <3>1, <3>2
    <2>3. had' = [t \in Table |-> {durable.tables[t]}]
      BY <2>1
    <2>. QED
      BY <2>1, <2>2, <2>3 DEF Rows!DSNext, Rows!Boot
  <1>5. CASE Rests
    BY <1>5, <1>b DEF Rests, Rows!absVars
  <1>. QED
    BY <1>1, <1>2, <1>3, <1>4, <1>5, Kinds

\* Both write-behind drivers implement the abstract store for each of their
\* tables: whatever the order of saves, transactions, failures, lost answers,
\* crashes and boots, and whichever arrays a late transaction reads, no table gets
\* rows it never had, or older ones than the database holds.
THEOREM TablesAreStores == Spec => TablesSpec
  <1>1. Init => Rows!DSInit
    <2>. SUFFICES ASSUME Init PROVE Rows!DSInit
      OBVIOUS
    <2>1. durable.tables \in [Table -> ArrayObject]
      BY InitInv DEF IInv, TypeOK, Stored
    <2>2. [t \in Table |-> Current(t)] = durable.tables
      <3>1. \A t \in Table : Current(t) = durable.tables[t]
        BY DEF Init, Current
      <3>. QED
        BY <2>1, <3>1
    <2>3. past = {durable} /\ up = TRUE
      BY DEF Init
    <2>4. [t \in Table |-> {s.tables[t] : s \in past}]
            = [t \in Table |-> {[t_1 \in Table |-> Current(t_1)][t]}]
      BY <2>2, <2>3
    <2>. QED
      BY <2>1, <2>2, <2>3, <2>4 DEF Rows!DSInit
  <1>2. Init => TablesInv
    BY TablesInit
  <1>3. IInv /\ TablesInv /\ [Next]_vars => TablesInv'
    BY TablesNext
  <1>4. IInv /\ TablesInv /\ [Next]_vars => [Rows!DSNext]_(Rows!absVars)
    BY TablesStep
  <1>. QED
    BY <1>1, <1>2, <1>3, <1>4, Invariance, PTL DEF Spec, TablesSpec, Rows!DSSpec

------------------------------------------------------------------------------
(* References.                                                             *)

\* What Whole says, in the terms of the invariant.
LEMMA WholeNames ==
  ASSUME NEW s
  PROVE  Whole(s) <=> /\ NamesIn(s.tables["projects"].rows, IdsOf(s.tables["users"].rows))
                      /\ \A t \in {"events", "upvotes"} :
                           NamesIn(s.tables[t].rows, IdsOf(s.tables["projects"].rows))
  <1>1. ASSUME NEW rows, NEW named
        PROVE  NamesIn(rows, IdsOf(named)) <=> \A r \in rows : \E n \in named : n.id = r.ref
    BY DEF NamesIn, IdsOf
  <1>. QED
    BY <1>1 DEF Whole

LEMMA NamesMono ==
  ASSUME NEW rows, NEW few, NEW ids, NEW many, few \subseteq rows, ids \subseteq many,
         NamesIn(rows, ids)
  PROVE  NamesIn(few, many)
  BY DEF NamesIn

LEMMA WholeInit == Init => WholeInv
  <1>. SUFFICES ASSUME Init PROVE WholeInv
    OBVIOUS
  <1>1. Whole(durable)
    <2>1. Whole(NothingStored)
      BY DEF NothingStored, Holding, Whole, Table
    <2>2. Whole(Registered)
      <3>1. ASSUME NEW t \in Table
            PROVE  Registered.tables[t].rows = {[id |-> 1, op |-> 0, ref |-> IF t = "users" THEN 0 ELSE 1]}
        BY <3>1 DEF Registered, Holding
      <3>2. ASSUME NEW t \in Table, NEW r \in Registered.tables[t].rows
            PROVE  r.id = 1 /\ (t # "users" => r.ref = 1)
        <4>1. r = [id |-> 1, op |-> 0, ref |-> IF t = "users" THEN 0 ELSE 1]
          BY <3>1
        <4>. QED
          BY <4>1
      <3>3. ASSUME NEW t \in Table PROVE \E r \in Registered.tables[t].rows : r.id = 1
        <4>. DEFINE row == [id |-> 1, op |-> 0, ref |-> IF t = "users" THEN 0 ELSE 1]
        <4>1. row \in Registered.tables[t].rows /\ row.id = 1
          BY <3>1
        <4>. QED
          BY <4>1
      <3>. QED
        BY <3>2, <3>3 DEF Whole, Table
    <2>. QED
      BY <2>1, <2>2 DEF Init
  <1>2. \A t \in Table : arrays[t] = <<durable.tables[t]>> /\ Current(t) = durable.tables[t]
    BY DEF Init, Current
  <1>3. MemoryWhole
    <2>1. /\ Len(<<durable.tables["upvotes"]>>) = 1
          /\ \A t \in Table : Len(arrays[t]) = 1 /\ arrays[t][1] = durable.tables[t]
      BY <1>2
    <2>. QED
      BY <1>1, <1>2, <2>1, WholeNames DEF MemoryWhole, Table
  <1>4. TxWhole
    BY DEF Init, TxWhole
  <1>. QED
    BY <1>1, <1>3, <1>4 DEF WholeInv

\* Pushing rows that name rows that are there, the pushed ones included.
LEMMA PushWhole ==
  ASSUME IInv, MemoryWhole, NEW refs, PushRows(refs),
         \A t \in Table : t \in DOMAIN refs => refs[t] \in Nat,
         "projects" \in DOMAIN refs => refs["projects"] \in IdsOf(Current("users")'.rows),
         \A t \in {"events", "upvotes"} :
           t \in DOMAIN refs => refs[t] \in IdsOf(Current("projects")'.rows)
  PROVE  MemoryWhole' /\ IdsOf(Current("users").rows) \subseteq IdsOf(Current("users")'.rows)
  <1>. USE DEF IInv
  <1>1. ASSUME NEW t \in Table
        PROVE  /\ Len(arrays'[t]) = Len(arrays[t]) /\ Len(arrays[t]) \in 1 .. Len(arrays[t])
               /\ \A i \in 1 .. Len(arrays[t]) : i # Len(arrays[t]) => arrays'[t][i] = arrays[t][i]
               /\ t \notin DOMAIN refs => Current(t)' = Current(t)
               /\ t \in DOMAIN refs => Current(t)' = With(t, refs[t])
               /\ arrays'[t][Len(arrays[t])] = Current(t)'
    BY PushLemma, CurrentType DEF Current
  <1>2. ASSUME NEW t \in Table
        PROVE  IdsOf(Current(t).rows) \subseteq IdsOf(Current(t)'.rows)
    <2>1. Current(t).rows \subseteq Current(t)'.rows
      BY <1>1 DEF With
    <2>. QED
      BY <2>1 DEF IdsOf
  <1>3. ASSUME NEW t \in Table, NEW ids, NEW more, ids \subseteq more,
               NamesIn(Current(t).rows, ids), t \in DOMAIN refs => refs[t] \in more
        PROVE  NamesIn(Current(t)'.rows, more)
    <2>1. t \in DOMAIN refs =>
            Current(t)'.rows = Current(t).rows \cup {[id |-> next[t], op |-> clock + 1, ref |-> refs[t]]}
      BY <1>1 DEF With
    <2>. QED
      BY <1>1, <1>3, <2>1 DEF NamesIn
  <1>4. NamesIn(Current("projects")'.rows, IdsOf(Current("users")'.rows))
    BY <1>2, <1>3 DEF MemoryWhole, Table
  <1>5. ASSUME NEW t \in {"events", "upvotes"}, NEW i \in 1 .. Len(arrays'[t])
        PROVE  NamesIn(arrays'[t][i].rows, IdsOf(Current("projects")'.rows))
    <2>1. t \in Table /\ "projects" \in Table
      BY DEF Table
    <2>2. i \in 1 .. Len(arrays[t])
      BY <1>1, <2>1
    <2>3. NamesIn(arrays[t][i].rows, IdsOf(Current("projects").rows))
      BY <2>2 DEF MemoryWhole
    <2>4. CASE i = Len(arrays[t])
      <3>1. NamesIn(Current(t).rows, IdsOf(Current("projects").rows))
        BY <2>3, <2>4 DEF Current
      <3>2. IdsOf(Current("projects").rows) \subseteq IdsOf(Current("projects")'.rows)
        BY <1>2, <2>1
      <3>3. t \in DOMAIN refs => refs[t] \in IdsOf(Current("projects")'.rows)
        OBVIOUS
      <3>4. NamesIn(Current(t)'.rows, IdsOf(Current("projects")'.rows))
        BY <1>3, <2>1, <3>1, <3>2, <3>3
      <3>. QED
        BY <1>1, <2>1, <2>4, <3>4
    <2>5. CASE i # Len(arrays[t])
      <3>1. arrays'[t][i] = arrays[t][i]
        BY <1>1, <2>1, <2>2, <2>5
      <3>. QED
        BY <1>2, <2>1, <2>3, <3>1 DEF NamesIn
    <2>. QED
      BY <2>4, <2>5
  <1>6. MemoryWhole'
    BY <1>1, <1>4, <1>5 DEF MemoryWhole
  <1>. QED
    BY <1>2, <1>6 DEF Table

\* The requests keep memory whole, and only add users.
LEMMA RequestsWhole ==
  ASSUME IInv, MemoryWhole,
         \/ Login \/ SubmitProject
         \/ \E u \in Current("users").rows : SubmitAgain(u)
         \/ \E p \in Current("projects").rows : AddUpvote(p)
         \/ \E v \in Current("upvotes").rows : TakeBack(v)
         \/ \E p \in Current("projects").rows : SweepStep(p)
  PROVE  MemoryWhole' /\ IdsOf(Current("users").rows) \subseteq IdsOf(Current("users")'.rows)
  <1>. USE DEF IInv
  <1>0. /\ next["users"] \in Nat /\ next["projects"] \in Nat
        /\ \A t \in Table : \A r \in Current(t).rows : r.id \in Nat /\ r.id \in IdsOf(Current(t).rows)
    <2>1. ASSUME NEW t \in Table PROVE Current(t).rows \in SUBSET Row
      BY CurrentType DEF ArrayObject
    <2>. QED
      BY <2>1 DEF TypeOK, Table, Row, IdsOf
  <1>a. ASSUME NEW refs, PushRows(refs), NEW t \in Table, t \in DOMAIN refs,
               \A t_1 \in Table : t_1 \in DOMAIN refs => refs[t_1] \in Nat
        PROVE  next[t] \in IdsOf(Current(t)'.rows)
    <2>1. Current(t)'.rows = Current(t).rows \cup {[id |-> next[t], op |-> clock + 1, ref |-> refs[t]]}
      BY <1>a, PushLemma DEF With
    <2>2. [id |-> next[t], op |-> clock + 1, ref |-> refs[t]].id = next[t]
      OBVIOUS
    <2>. QED
      BY <2>1, <2>2 DEF IdsOf
  <1>b. ASSUME NEW refs, PushRows(refs), NEW t \in Table, t \notin DOMAIN refs,
               \A t_1 \in Table : t_1 \in DOMAIN refs => refs[t_1] \in Nat
        PROVE  Current(t)' = Current(t)
    BY <1>b, PushLemma DEF Current
  <1>1. CASE Login
    <2>. DEFINE refs == [t \in {"users"} |-> 0]
    <2>1. PushRows(refs) /\ DOMAIN refs = {"users"} /\ \A t \in Table : t \in DOMAIN refs => refs[t] \in Nat
      BY <1>1 DEF Login
    <2>. HIDE DEF refs
    <2>. QED
      BY <2>1, PushWhole
  <1>2. CASE SubmitProject
    <2>. DEFINE refs == [t \in {"users", "projects", "events"} |->
                          CASE t = "users" -> 0 [] t = "projects" -> next["users"]
                            [] t = "events" -> next["projects"]]
    <2>1. /\ PushRows(refs) /\ DOMAIN refs = {"users", "projects", "events"}
          /\ refs["users"] = 0 /\ refs["projects"] = next["users"]
          /\ refs["events"] = next["projects"]
      BY <1>2 DEF SubmitProject
    <2>. HIDE DEF refs
    <2>2. \A t \in Table : t \in DOMAIN refs => refs[t] \in Nat
      BY <1>0, <2>1
    <2>3. /\ next["users"] \in IdsOf(Current("users")'.rows)
          /\ next["projects"] \in IdsOf(Current("projects")'.rows)
      BY <1>a, <2>1, <2>2 DEF Table
    <2>. QED
      BY <2>1, <2>2, <2>3, PushWhole
  <1>3. ASSUME NEW u \in Current("users").rows, SubmitAgain(u)
        PROVE  MemoryWhole' /\ IdsOf(Current("users").rows) \subseteq IdsOf(Current("users")'.rows)
    <2>. DEFINE refs == [t \in {"projects", "events"} |->
                          IF t = "projects" THEN u.id ELSE next["projects"]]
    <2>1. /\ PushRows(refs) /\ DOMAIN refs = {"projects", "events"}
          /\ refs["projects"] = u.id /\ refs["events"] = next["projects"]
      BY <1>3 DEF SubmitAgain
    <2>. HIDE DEF refs
    <2>2. \A t \in Table : t \in DOMAIN refs => refs[t] \in Nat
      BY <1>0, <2>1 DEF Table
    <2>3. /\ u.id \in IdsOf(Current("users")'.rows)
          /\ next["projects"] \in IdsOf(Current("projects")'.rows)
      BY <1>0, <1>a, <1>b, <2>1, <2>2 DEF Table
    <2>. QED
      BY <2>1, <2>2, <2>3, PushWhole
  <1>4. ASSUME NEW p \in Current("projects").rows, NEW S \in SUBSET {"events", "upvotes"},
               PushRows([t \in S |-> p.id])
        PROVE  MemoryWhole' /\ IdsOf(Current("users").rows) \subseteq IdsOf(Current("users")'.rows)
    <2>. DEFINE refs == [t \in S |-> p.id]
    <2>1. /\ PushRows(refs) /\ DOMAIN refs \subseteq {"events", "upvotes"}
          /\ \A t \in DOMAIN refs : refs[t] = p.id
      BY <1>4
    <2>. HIDE DEF refs
    <2>2. \A t \in Table : t \in DOMAIN refs => refs[t] \in Nat
      BY <1>0, <2>1 DEF Table
    <2>3. p.id \in IdsOf(Current("projects")'.rows)
      BY <1>0, <1>b, <2>1, <2>2 DEF Table
    <2>4. "projects" \notin DOMAIN refs
      BY <2>1
    <2>. QED
      BY <2>1, <2>2, <2>3, <2>4, PushWhole
  <1>5. ASSUME NEW p \in Current("projects").rows, AddUpvote(p) \/ SweepStep(p)
        PROVE  MemoryWhole' /\ IdsOf(Current("users").rows) \subseteq IdsOf(Current("users")'.rows)
    <2>1. PushRows([t \in {"upvotes", "events"} |-> p.id]) \/ PushRows([t \in {"events"} |-> p.id])
      BY <1>5 DEF AddUpvote, SweepStep
    <2>. QED
      BY <1>4, <2>1
  <1>6. ASSUME NEW v, TakeBack(v)
        PROVE  MemoryWhole' /\ IdsOf(Current("users").rows) \subseteq IdsOf(Current("users")'.rows)
    <2>1. /\ \A t \in Table : t # "upvotes" => arrays'[t] = arrays[t]
          /\ Current("upvotes")'.rows \subseteq Current("upvotes").rows
          /\ Len(arrays'["upvotes"]) = Len(arrays["upvotes"]) + 1
          /\ \A i \in 1 .. Len(arrays["upvotes"]) : arrays'["upvotes"][i] = arrays["upvotes"][i]
      BY <1>6, UnvoteLemma
    <2>2. \A t \in Table : t # "upvotes" => Current(t)' = Current(t)
      BY <2>1 DEF Current
    <2>3. \A i \in 1 .. Len(arrays["upvotes"]) + 1 :
            i \in 1 .. Len(arrays["upvotes"]) \/ i = Len(arrays["upvotes"]) + 1
      BY CurrentType DEF Table
    <2>4. Current("upvotes")' = arrays'["upvotes"][Len(arrays["upvotes"]) + 1]
      BY <2>1 DEF Current
    <2>5. /\ Len(arrays["upvotes"]) \in 1 .. Len(arrays["upvotes"])
          /\ Current("upvotes") = arrays["upvotes"][Len(arrays["upvotes"])]
      BY CurrentType DEF Table, Current
    <2>6. NamesIn(Current("upvotes")'.rows, IdsOf(Current("projects").rows))
      BY <2>1, <2>5 DEF MemoryWhole, NamesIn
    <2>7. \A i \in 1 .. Len(arrays'["upvotes"]) :
            NamesIn(arrays'["upvotes"][i].rows, IdsOf(Current("projects").rows))
      BY <2>1, <2>3, <2>4, <2>6 DEF MemoryWhole
    <2>8. \A i \in 1 .. Len(arrays'["events"]) :
            NamesIn(arrays'["events"][i].rows, IdsOf(Current("projects").rows))
      BY <2>1 DEF MemoryWhole, Table
    <2>. QED
      BY <2>1, <2>2, <2>7, <2>8 DEF MemoryWhole, Table
  <1>. QED
    BY <1>1, <1>2, <1>3, <1>5, <1>6

\* What a transaction reads when it starts: the tables as they are, except the
\* upvotes, which may be those of an array left behind.
LEMMA StartedWhole ==
  ASSUME IInv, MemoryWhole, NEW s \in Snapshot, InRange(s)
  PROVE  /\ \A t \in Table : t # "upvotes" => Content(s, t) = Current(t)
         /\ \A t \in {"events", "upvotes"} :
              NamesIn(Content(s, t).rows, IdsOf(Current("projects").rows))
  <1>1. ASSUME NEW t \in Table
        PROVE  \E i \in 1 .. Len(arrays[t]) : Content(s, t) = arrays[t][i]
    BY CurrentType DEF IInv, Content, InRange, Current
  <1>2. \A t \in Table : t # "upvotes" => Content(s, t) = Current(t)
    BY <1>1 DEF MemoryWhole, Current
  <1>. QED
    BY <1>1, <1>2 DEF MemoryWhole, Table

LEMMA WholeNext == ASSUME IInv, WholeInv, [Next]_vars PROVE WholeInv'
  <1>. USE DEF IInv
  <1>a. ASSUME UNCHANGED memVars, MemoryWhole PROVE MemoryWhole' /\ \A t : Current(t)' = Current(t)
    BY <1>a DEF memVars, MemoryWhole, Current
  <1>b. ASSUME Wrote, WholeInv PROVE Whole(durable')
    <2>1. CASE durable' = durable
      BY <1>b, <2>1 DEF WholeInv
    <2>2. CASE tx # NoState /\ reading = 0 /\ durable' = tx
      BY <1>b, <2>2, WholeNames DEF WholeInv, TxWhole
    <2>. QED
      BY <1>b, <2>1, <2>2 DEF Wrote
  <1>1. ASSUME MemoryWhole', IdsOf(Current("users").rows) \subseteq IdsOf(Current("users")'.rows),
               UNCHANGED <<tx, reading, durable>>
        PROVE  WholeInv'
    <2>1. TxWhole'
      BY <1>1, NamesMono DEF WholeInv, TxWhole
    <2>2. Whole(durable)'
      BY <1>1 DEF WholeInv, Whole
    <2>. QED
      BY <1>1, <2>1, <2>2 DEF WholeInv
  <1>2. CASE \/ Login \/ SubmitProject
             \/ \E u \in Current("users").rows : SubmitAgain(u)
             \/ \E p \in Current("projects").rows : AddUpvote(p)
             \/ \E v \in Current("upvotes").rows : TakeBack(v)
             \/ \E p \in Current("projects").rows : SweepStep(p)
    <2>1. UNCHANGED <<tx, reading, durable>>
      BY <1>2, RequestStep DEF Served, SweepStep, driverVars
    <2>. QED
      BY <1>1, <1>2, <2>1, RequestsWhole DEF WholeInv
  <1>3. CASE Drives
    <2>1. MemoryWhole' /\ \A t : Current(t)' = Current(t)
      BY <1>3, <1>a DEF Drives, WholeInv
    <2>2. Whole(durable)'
      BY <1>3, <1>b DEF Drives, Whole
    <2>3. ASSUME tx' # NoState PROVE TxWhole'
      <3>1. CASE tx' = tx /\ reading' = reading
        BY <2>1, <3>1 DEF WholeInv, TxWhole
      <3>2. CASE \E s \in Snapshot :
                   InRange(s) /\ \A t \in Table : tx'.tables[t] = Content(s, t)
        <4>1. PICK s \in Snapshot :
                InRange(s) /\ \A t \in Table : tx'.tables[t] = Content(s, t)
          BY <3>2
        <4>2. /\ tx'.tables["projects"] = Current("projects")
              /\ tx'.tables["users"] = Current("users")
              /\ \A t \in {"events", "upvotes"} :
                   NamesIn(tx'.tables[t].rows, IdsOf(Current("projects").rows))
          BY <4>1, StartedWhole DEF WholeInv, Table
        <4>3. NamesIn(Current("projects").rows, IdsOf(Current("users").rows))
          BY DEF WholeInv, MemoryWhole
        <4>. QED
          BY <2>1, <4>2, <4>3 DEF TxWhole
      <3>3. CASE /\ tx # NoState /\ reading' = 0
                 /\ tx'.tables["users"] = arrays["users"][reading]
                 /\ reading \in 1 .. Len(arrays["users"])
                 /\ \A t \in Table : t # "users" => tx'.tables[t] = tx.tables[t]
        <4>1. arrays["users"][reading] = Current("users")
          BY <3>3 DEF WholeInv, MemoryWhole, Table, Current
        <4>2. reading # 0
          BY <3>3, CurrentType DEF Table
        <4>3. \A t \in {"events", "upvotes", "projects"} : tx'.tables[t] = tx.tables[t]
          BY <3>3 DEF Table
        <4>. QED
          BY <3>3, <4>1, <4>2, <4>3 DEF WholeInv, TxWhole
      <3>. QED
        BY <1>3, <2>3, <3>1, <3>2, <3>3, TxStep
    <2>4. tx' = NoState => TxWhole'
      BY DEF TxWhole
    <2>. QED
      BY <2>1, <2>2, <2>3, <2>4 DEF WholeInv
  <1>4. CASE Ends
    <2>1. MemoryWhole' /\ Whole(durable)'
      BY <1>4, <1>a, <1>b DEF Ends, WholeInv, Whole
    <2>. QED
      BY <1>4, <2>1 DEF Ends, WholeInv, TxWhole
  <1>5. CASE Restart
    <2>1. /\ \A t \in Table : /\ Current(t)' = durable.tables[t] /\ Len(arrays'[t]) = 1
                              /\ arrays'[t][1] = durable.tables[t]
          /\ tx' = NoState /\ durable' = durable
      BY <1>5, Booted
    <2>2. MemoryWhole'
      BY <2>1, WholeNames DEF WholeInv, MemoryWhole, Table
    <2>. QED
      BY <2>1, <2>2 DEF WholeInv, TxWhole, Whole
  <1>6. CASE Resave \/ SweepEnd \/ TimerFires \/ UsersRead \/ Commit \/ Fail \/ FlushBegin \/ Stop
             \/ UNCHANGED vars
    <2>1. ~Moves \/ UNCHANGED memVars
      BY <1>6 DEF Resave, SweepEnd, TimerFires, UsersRead, Commit, Fail, FlushBegin, Stop, vars
    <2>2. clock \in Nat /\ (Moves => clock' # clock)
      BY DEF Moves, MemoryMoves, TypeOK
    <2>3. ~Moves
      BY <2>1, <2>2 DEF memVars
    <2>4. Rests => WholeInv'
      BY <1>1, <1>a DEF Rests, WholeInv
    <2>. QED
      BY <1>3, <1>4, <1>5, <2>3, <2>4, Kinds
  <1>. QED
    BY <1>2, <1>5, <1>6 DEF Next

\* Whatever mixture of moments a transaction makes durable, its rows name rows
\* that are there: users are only added and read after the projects, projects
\* never go, and an older array of upvotes names projects that stay.
THEOREM ReferencesStayWhole == Spec => []ReferencesDurable
  <1>1. Init => WholeInv
    BY WholeInit
  <1>2. IInv /\ WholeInv /\ [Next]_vars => WholeInv'
    BY WholeNext
  <1>3. WholeInv => ReferencesDurable
    BY DEF WholeInv, ReferencesDurable
  <1>. QED
    BY <1>1, <1>2, <1>3, Invariance, PTL DEF Spec

------------------------------------------------------------------------------
(* Rows: what seeding makes of them.                                          *)

\* Finitely many rows with ids, and no id twice.
IsRow(r)   == r = [n \in DOMAIN r |-> r[n]] /\ "id" \in DOMAIN r
AreRows(S) == IsFiniteSet(S) /\ \A r \in S : IsRow(r) /\ r.id \in Nat \ {0}
OwnIds(S) == \A r, q \in S : r.id = q.id => r = q

LEMMA FiniteImage == ASSUME NEW S, IsFiniteSet(S), NEW f PROVE IsFiniteSet({f[x] : x \in S})
<1> DEFINE T == {f[x] : x \in S}
           g == [x \in S |-> f[x]]
<1>1. g \in Surjection(S, T)
  BY DEF Surjection
<1> QED BY <1>1, FS_Surjection

\* A row laid over another is a record.
LEMMA OverIsRecord ==
  ASSUME NEW new, NEW old
  PROVE  Over(new, old) = [n \in DOMAIN Over(new, old) |-> Over(new, old)[n]]
BY DEF Over

LEMMA RowFound ==
  ASSUME NEW S, OwnIds(S), NEW r \in S PROVE RowOf(S, r.id) = r
<1>1. \A q \in S : q.id = r.id <=> q = r
  BY DEF OwnIds
<1> QED BY <1>1 DEF RowOf

\* The three kinds of rows that an upsert leaves.
LEMMA UpsertedRow ==
  ASSUME NEW T, NEW N, OwnIds(T), NEW u \in UpsertById(T, N)
  PROVE  \/ u \in T /\ u.id \notin Ids(N)
         \/ u \in N /\ u.id \notin Ids(T)
         \/ \E n \in N : \E o \in T : o.id = n.id /\ u = Over(n, o)
<1>1. ASSUME NEW n \in N, n.id \in Ids(T), u = Over(n, RowOf(T, n.id))
      PROVE  \E o \in T : o.id = n.id /\ u = Over(n, o)
  <2>1. PICK o \in T : o.id = n.id
    BY <1>1 DEF Ids
  <2>2. RowOf(T, n.id) = o
    BY <2>1, RowFound
  <2> QED BY <1>1, <2>1, <2>2
<1> QED BY <1>1 DEF UpsertById

LEMMA Upserted ==
  ASSUME NEW T, NEW N, AreRows(T), OwnIds(T), AreRows(N), OwnIds(N)
  PROVE  /\ AreRows(UpsertById(T, N)) /\ OwnIds(UpsertById(T, N))
         /\ Ids(UpsertById(T, N)) = Ids(T) \cup Ids(N)
<1> DEFINE U == UpsertById(T, N)
<1>1. ASSUME NEW n \in N, NEW o PROVE Over(n, o).id = n.id /\ "id" \in DOMAIN Over(n, o)
  <2>1. "id" \in DOMAIN n
    BY DEF AreRows, IsRow
  <2> QED BY <2>1 DEF Over
<1>2. ASSUME NEW u \in U
      PROVE  /\ u.id \in Ids(T) \cup Ids(N) /\ u.id \in Nat \ {0} /\ "id" \in DOMAIN u
             /\ u = [n \in DOMAIN u |-> u[n]]
             /\ u.id \in Ids(N) => \E n \in N : n.id = u.id /\
                   ((u = n /\ n.id \notin Ids(T)) \/ \E o \in T : o.id = n.id /\ u = Over(n, o))
  <2>1. CASE u \in T /\ u.id \notin Ids(N)
    BY <2>1 DEF AreRows, IsRow, Ids
  <2>2. CASE u \in N /\ u.id \notin Ids(T)
    BY <2>2 DEF AreRows, IsRow, Ids
  <2>3. CASE \E n \in N : \E o \in T : o.id = n.id /\ u = Over(n, o)
    <3>1. PICK n \in N, o \in T : o.id = n.id /\ u = Over(n, o)
      BY <2>3
    <3>2. u.id = n.id /\ "id" \in DOMAIN u /\ u = [x \in DOMAIN u |-> u[x]]
      <4>1. Over(n, o) = [x \in DOMAIN Over(n, o) |-> Over(n, o)[x]]
        BY OverIsRecord, Zenon
      <4> QED BY <1>1, <3>1, <4>1
    <3> QED BY <3>1, <3>2 DEF AreRows, IsRow, Ids
  <2> HIDE DEF U
  <2> QED BY <2>1, <2>2, <2>3, UpsertedRow DEF U
<1>3. IsFiniteSet(U)
  <2> DEFINE f == [n \in N |-> Over(n, RowOf(T, n.id))]
             A == {r \in T : r.id \notin Ids(N)}
             B == {n \in N : n.id \notin Ids(T)}
             M == {m \in N : m.id \in Ids(T)}
             C == {f[n] : n \in M}
  <2>1. IsFiniteSet(A) /\ IsFiniteSet(B) /\ IsFiniteSet(M)
    BY FS_Subset DEF AreRows, IsRow
  <2>2. IsFiniteSet(C)
    <3> HIDE DEF f, M
    <3> QED BY <2>1, FiniteImage
  <2>3. U = A \cup B \cup C
    BY DEF UpsertById
  <2> HIDE DEF A, B, C, U
  <2> QED BY <2>1, <2>2, <2>3, FS_Union
<1>4. OwnIds(U)
  <2> SUFFICES ASSUME NEW u \in U, NEW v \in U, u.id = v.id PROVE u = v
    BY DEF OwnIds
  <2> HIDE DEF U
  <2>1. CASE u.id \in Ids(N)
    <3>1. PICK n \in N : n.id = u.id /\
            ((u = n /\ n.id \notin Ids(T)) \/ \E o \in T : o.id = n.id /\ u = Over(n, o))
      BY <1>2, <2>1
    <3>2. PICK m \in N : m.id = v.id /\
            ((v = m /\ m.id \notin Ids(T)) \/ \E o \in T : o.id = m.id /\ v = Over(m, o))
      BY <1>2, <2>1
    <3>3. m = n
      BY <3>1, <3>2 DEF OwnIds
    <3>4. CASE n.id \notin Ids(T)
      BY <3>1, <3>2, <3>3, <3>4 DEF Ids
    <3>5. CASE n.id \in Ids(T)
      BY <3>1, <3>2, <3>3, <3>5 DEF OwnIds
    <3> QED BY <3>4, <3>5
  <2>2. CASE u.id \notin Ids(N)
    <3>1. \A w \in U : w.id \notin Ids(N) => w \in T
      <4>1. \A w : w \in N => w.id \in Ids(N)
        BY DEF Ids
      <4>2. \A n \in N : \A o : Over(n, o).id \in Ids(N)
        BY <1>1, <4>1
      <4> QED BY <4>1, <4>2, UpsertedRow DEF U
    <3> QED BY <2>2, <3>1 DEF OwnIds
  <2> QED BY <2>1, <2>2
<1>5. Ids(U) = Ids(T) \cup Ids(N)
  <2>1. Ids(U) \subseteq Ids(T) \cup Ids(N)
    <3> HIDE DEF U
    <3>1. ASSUME NEW i \in Ids(U) PROVE i \in Ids(T) \cup Ids(N)
      <4>1. PICK u \in U : i = u.id
        BY DEF Ids
      <4> QED BY <1>2, <4>1
    <3> QED BY <3>1
  <2>2. ASSUME NEW t \in T PROVE t.id \in Ids(U)
    <3>1. CASE t.id \notin Ids(N)
      <4>1. t \in U
        BY <3>1 DEF UpsertById
      <4> HIDE DEF U
      <4> QED BY <4>1 DEF Ids
    <3>2. CASE t.id \in Ids(N)
      <4>1. PICK n \in N : n.id = t.id
        BY <3>2 DEF Ids
      <4>2. n.id \in Ids(T)
        BY <4>1 DEF Ids
      <4>3. Over(n, RowOf(T, n.id)) \in U
        BY <4>2 DEF UpsertById
      <4> HIDE DEF U
      <4> QED BY <1>1, <4>1, <4>3 DEF Ids
    <3> QED BY <3>1, <3>2
  <2>3. ASSUME NEW n \in N PROVE n.id \in Ids(U)
    <3>1. CASE n.id \notin Ids(T)
      <4>1. n \in U
        BY <3>1 DEF UpsertById
      <4> HIDE DEF U
      <4> QED BY <4>1 DEF Ids
    <3>2. CASE n.id \in Ids(T)
      <4>3. Over(n, RowOf(T, n.id)) \in U
        BY <3>2 DEF UpsertById
      <4> HIDE DEF U
      <4> QED BY <1>1, <4>3 DEF Ids
    <3> QED BY <3>1, <3>2
  <2> HIDE DEF U
  <2>4. Ids(T) \subseteq Ids(U)
    BY <2>2 DEF Ids
  <2>5. Ids(N) \subseteq Ids(U)
    BY <2>3 DEF Ids
  <2> QED BY <2>1, <2>4, <2>5
<1>6. AreRows(U)
  <2> HIDE DEF U
  <2> QED BY <1>2, <1>3 DEF AreRows, IsRow
<1> QED BY <1>4, <1>5, <1>6

LEMMA LargestOf ==
  ASSUME NEW S \in SUBSET Int, IsFiniteSet(S), S # {}
  PROVE  Largest(S) \in S /\ \A m \in S : m <= Largest(S)
<1>1. \E n \in S : \A m \in S : m <= n
  BY HasLargest
<1> QED BY <1>1 DEF Largest

\* The counter that seeding leaves is ahead of every row.
LEMMA CounterIsAhead ==
  ASSUME NEW rows, AreRows(rows), NEW known \in Nat, NEW wanted \in Nat
  PROVE  /\ NextId(rows, known, wanted) \in Nat \ {0}
         /\ \A r \in rows : r.id < NextId(rows, known, wanted)
<1> DEFINE f == [r \in rows |-> r.id + 1]
           I == {f[r] : r \in rows}
           S == {known, wanted, 1} \cup {i + 1 : i \in Ids(rows)}
<1>1. IsFiniteSet(I)
  <2> HIDE DEF f
  <2> QED BY FiniteImage DEF AreRows, IsRow
<1>2. {i + 1 : i \in Ids(rows)} = I
  BY DEF Ids
<1>3. IsFiniteSet({known, wanted, 1})
  <2>1. IsFiniteSet({known}) /\ {known} \cup {wanted} = {known, wanted}
        /\ {known, wanted} \cup {1} = {known, wanted, 1}
    BY FS_Singleton
  <2>2. IsFiniteSet({known, wanted})
    BY <2>1, FS_AddElement
  <2> QED BY <2>1, <2>2, FS_AddElement
<1>4. IsFiniteSet(S)
  <2> HIDE DEF I
  <2> QED BY <1>1, <1>2, <1>3, FS_Union
<1>5. \A r \in rows : r.id \in Nat
  BY DEF AreRows, IsRow
<1>6. S \in SUBSET Int /\ S \in SUBSET Nat
  <2>1. \A i \in Ids(rows) : i \in Nat
    BY <1>5 DEF Ids
  <2>2. \A i \in Ids(rows) : i + 1 \in Nat
    BY <2>1
  <2> QED BY <2>2
<1>7. \A r \in rows : r.id + 1 \in S
  BY DEF Ids
<1>8. NextId(rows, known, wanted) = Largest(S)
  BY DEF NextId
<1>9. 1 \in S
  OBVIOUS
<1> HIDE DEF S
<1>10. Largest(S) \in Nat /\ \A m \in S : m <= Largest(S)
  BY <1>4, <1>6, <1>9, LargestOf
<1> QED BY <1>5, <1>7, <1>8, <1>9, <1>10

------------------------------------------------------------------------------
(* The users and their counter while accounts are seeded one by one.          *)

Account == [id : Nat, email : STRING, role : STRING \cup {"maker"}, name : STRING]
UsersFit(acc) ==
  /\ acc = [users |-> acc.users, next |-> acc.next]
  /\ AreRows(acc.users) /\ OwnIds(acc.users)
  /\ acc.next \in Nat \ {0}
  /\ \A u \in acc.users : u.id < acc.next /\ "email" \in DOMAIN u
  /\ \A u, v \in acc.users : u.email = v.email => u = v

\* Users that are rewritten, but for their ids and addresses.
Retouch(f, U) ==
  \A u \in U : /\ IsRow(f[u]) /\ "email" \in DOMAIN f[u]
               /\ f[u].id = u.id /\ f[u].email = u.email
LEMMA Retouched ==
  ASSUME NEW acc, UsersFit(acc), NEW f,
         Retouch(f, acc.users)
  PROVE  /\ UsersFit([users |-> {f[u] : u \in acc.users}, next |-> acc.next])
         /\ Ids({f[u] : u \in acc.users}) = Ids(acc.users)
<1> DEFINE U == acc.users
           V == {f[u] : u \in U}
<1>1. IsFiniteSet(V)
  BY FiniteImage DEF UsersFit, AreRows, IsRow
<1>2. \A v \in V : \E u \in U : v = f[u] /\ v.id = u.id /\ v.email = u.email
  BY DEF Retouch
<1>3. \A u \in U : u.id \in Nat \ {0} /\ u.id < acc.next
  BY DEF UsersFit, AreRows, IsRow
<1>4. \A u \in U : f[u] \in V /\ f[u].id = u.id
  BY DEF Retouch
<1>5. AreRows(V)
  <2>1. \A v \in V : IsRow(v)
    BY DEF Retouch
  <2> HIDE DEF V
  <2> QED BY <1>1, <1>2, <1>3, <2>1 DEF AreRows
<1>6. \A v \in V : "email" \in DOMAIN v
  BY DEF Retouch
<1> HIDE DEF V
<1>7. OwnIds(V) /\ \A v, w \in V : v.email = w.email => v = w
  BY <1>2 DEF UsersFit, OwnIds
<1>8. \A v \in V : v.id < acc.next
  BY <1>2, <1>3
<1>9. Ids(V) = Ids(U)
  <2>1. Ids(V) \subseteq Ids(U)
    BY <1>2 DEF Ids
  <2>2. \A u \in U : \E v \in V : v.id = u.id
    BY <1>4
  <2>3. Ids(U) \subseteq Ids(V)
    BY <2>2 DEF Ids
  <2> QED BY <2>1, <2>3
<1>10. UsersFit([users |-> V, next |-> acc.next])
  BY <1>5, <1>6, <1>7, <1>8 DEF UsersFit
<1> QED BY <1>9, <1>10 DEF V

\* A user is added.
LEMMA Joined ==
  ASSUME NEW acc, UsersFit(acc), NEW a, NEW n \in Nat,
         a = [x \in DOMAIN a |-> a[x]], {"id", "email"} \subseteq DOMAIN a,
         a.id \in Nat \ {0}, a.id \notin Ids(acc.users), a.id < n, acc.next <= n,
         \A u \in acc.users : u.email # a.email
  PROVE  /\ UsersFit([users |-> acc.users \cup {a}, next |-> n])
         /\ Ids(acc.users) \subseteq Ids(acc.users \cup {a})
<1> DEFINE U == acc.users
           V == U \cup {a}
<1>1. IsFiniteSet(V)
  BY FS_AddElement DEF UsersFit, AreRows, IsRow
<1>2. \A u \in U : u.id # a.id
  BY DEF Ids
<1>3. \A u \in U : u.id \in Nat \ {0} /\ u.id < acc.next /\ acc.next \in Nat
  BY DEF UsersFit, AreRows, IsRow
<1>4. \A u \in U : u.id < n
  BY <1>3
<1>5. AreRows(V)
  BY <1>1 DEF UsersFit, AreRows, IsRow
<1>6. OwnIds(V)
  BY <1>2 DEF UsersFit, OwnIds
<1>7. n \in Nat \ {0}
  <2>1. \A i \in Nat \ {0} : i < n => n # 0
    OBVIOUS
  <2> QED BY <2>1
<1>8. UsersFit([users |-> V, next |-> n])
  BY <1>4, <1>5, <1>6, <1>7 DEF UsersFit
<1> QED BY <1>8 DEF Ids

LEMMA SeedUserFits ==
  ASSUME NEW acc, UsersFit(acc), NEW a \in Account
  PROVE  UsersFit(SeedUser(acc, a)) /\ Ids(acc.users) \subseteq Ids(SeedUser(acc, a).users)
<1> DEFINE same == {u \in acc.users : u.email = a.email}
           used == Ids(acc.users)
           free == CHOOSE i \in acc.next..(acc.next + Cardinality(used)) :
                     i \notin used /\ \A j \in acc.next..(i - 1) : j \in used
           id   == IF a.id = 0 \/ a.id \in used THEN free ELSE a.id
           over(u) == Over([role |-> a.role, name |-> a.name], u)
<1>1. CASE same # {}
  <2> DEFINE f == [u \in acc.users |-> IF u \in same THEN over(u) ELSE u]
             V == {f[u] : u \in acc.users}
  <2>1. SeedUser(acc, a) = [acc EXCEPT !.users = (@ \ same) \cup {over(u) : u \in same}]
    BY <1>1 DEF SeedUser
  <2>2. (acc.users \ same) \cup {over(u) : u \in same} = V
    <3> HIDE DEF same
    <3>1. same \subseteq acc.users
      BY DEF same
    <3> QED BY <3>1
  <2>3. SeedUser(acc, a) = [users |-> V, next |-> acc.next]
    <3> HIDE DEF V, same
    <3> QED BY <2>1, <2>2 DEF UsersFit
  <2>4. ASSUME NEW u \in acc.users
        PROVE  /\ IsRow(f[u]) /\ "email" \in DOMAIN f[u]
               /\ f[u].id = u.id /\ f[u].email = u.email
    <3>1. u = [n \in DOMAIN u |-> u[n]] /\ {"id", "email"} \subseteq DOMAIN u
      BY DEF UsersFit, AreRows, IsRow
    <3>2. over(u).id = u.id /\ over(u).email = u.email /\ {"id", "email"} \subseteq DOMAIN over(u)
      BY <3>1 DEF Over
    <3>3. over(u) = [n \in DOMAIN over(u) |-> over(u)[n]]
      BY DEF Over
    <3>4. CASE u \in same
      <4>1. f[u] = over(u)
        BY <3>4
      <4> HIDE DEF over, f
      <4> QED BY <3>2, <3>3, <4>1 DEF IsRow
    <3>5. CASE u \notin same
      BY <3>1, <3>5 DEF IsRow
    <3> QED BY <3>4, <3>5
  <2> HIDE DEF f
  <2>5. UsersFit([users |-> V, next |-> acc.next]) /\ Ids(V) = Ids(acc.users)
    BY <2>4, Retouched DEF Retouch
  <2> HIDE DEF V
  <2> QED BY <2>3, <2>5
<1>2. CASE same = {}
  <2>1. acc.next \in Nat /\ acc.next # 0 /\ acc.next \notin used
    BY DEF UsersFit, AreRows, IsRow, Ids
  <2>2. free = acc.next
    <3>1. IsFiniteSet(used)
      <4> DEFINE f == [u \in acc.users |-> u.id]
      <4>1. used = {f[u] : u \in acc.users}
        BY DEF Ids
      <4> HIDE DEF f, used
      <4> QED BY <4>1, FiniteImage DEF UsersFit, AreRows, IsRow
    <3> HIDE DEF used
    <3>2. Cardinality(used) \in Nat
      BY <3>1, FS_CardinalityType
    <3>3. acc.next \in acc.next..(acc.next + Cardinality(used)) /\ \A j \in acc.next..(acc.next - 1) : j \in used
      BY <2>1, <3>2
    <3>4. \A i \in acc.next..(acc.next + Cardinality(used)) :
             i # acc.next => acc.next \in acc.next..(i - 1)
      BY <2>1, <3>2
    <3>5. \A i \in acc.next..(acc.next + Cardinality(used)) :
             (i \notin used /\ \A j \in acc.next..(i - 1) : j \in used) <=> i = acc.next
      BY <2>1, <3>3, <3>4
    <3> QED BY <3>3, <3>5
  <2> HIDE DEF free
  <2>3. id \in Nat \ {0} /\ id \notin used
    BY <2>1, <2>2 DEF Account
  <2>4. SeedUser(acc, a) = [users |-> acc.users \cup {[a EXCEPT !.id = id]},
                            next |-> Largest({acc.next, id + 1})]
    BY <1>2 DEF SeedUser, free
  <2> DEFINE n == Largest({acc.next, id + 1})
             b == [a EXCEPT !.id = id]
  <2> HIDE DEF id, used
  <2>5. n \in Nat /\ acc.next <= n /\ id < n
    <3>1. IsFiniteSet({acc.next, id + 1})
      <4>1. IsFiniteSet({acc.next}) /\ {acc.next} \cup {id + 1} = {acc.next, id + 1}
        BY FS_Singleton
      <4> QED BY <4>1, FS_AddElement
    <3>2. {acc.next, id + 1} \in SUBSET Int /\ {acc.next, id + 1} # {}
          /\ {acc.next, id + 1} \subseteq Nat
      BY <2>1, <2>3
    <3>3. n \in {acc.next, id + 1} /\ \A m \in {acc.next, id + 1} : m <= n
      BY <3>1, <3>2, LargestOf
    <3> HIDE DEF n
    <3> QED BY <2>1, <2>3, <3>2, <3>3
  <2>6. b = [id |-> id, email |-> a.email, role |-> a.role, name |-> a.name]
    BY DEF Account
  <2> HIDE DEF b, n
  <2>7. b = [x \in DOMAIN b |-> b[x]] /\ {"id", "email"} \subseteq DOMAIN b /\ b.id = id /\ b.email = a.email
    BY <2>6
  <2>8. \A u \in acc.users : u.email # a.email
    BY <1>2
  <2>9. UsersFit([users |-> acc.users \cup {b}, next |-> n]) /\ Ids(acc.users) \subseteq Ids(acc.users \cup {b})
    BY <2>3, <2>5, <2>7, <2>8, Joined DEF used
  <2>10. SeedUser(acc, a) = [users |-> acc.users \cup {b}, next |-> n]
    BY <2>4 DEF b, n
  <2> QED BY <2>9, <2>10
<1> QED BY <1>1, <1>2

LEMMA SeedAccountFits ==
  ASSUME NEW acc, UsersFit(acc), NEW a \in Account
  PROVE  UsersFit(SeedAccount(acc, a)) /\ Ids(acc.users) \subseteq Ids(SeedAccount(acc, a).users)
<1>1. CASE \E u \in acc.users : u.email = a.email
  <2> DEFINE f == [u \in acc.users |-> IF u.email = a.email THEN [u EXCEPT !.role = a.role] ELSE u]
             V == {f[u] : u \in acc.users}
  <2>1. SeedAccount(acc, a) = [users |-> V, next |-> acc.next]
    <3>1. acc = [users |-> acc.users, next |-> acc.next]
      BY DEF UsersFit
    <3> QED BY <1>1, <3>1 DEF SeedAccount
  <2>2. ASSUME NEW u \in acc.users
        PROVE  /\ IsRow(f[u]) /\ "email" \in DOMAIN f[u]
               /\ f[u].id = u.id /\ f[u].email = u.email
    <3>1. u = [n \in DOMAIN u |-> u[n]] /\ {"id", "email"} \subseteq DOMAIN u
      BY DEF UsersFit, AreRows, IsRow
    <3>2. CASE u.email = a.email
      <4>1. f[u] = [u EXCEPT !.role = a.role]
        BY <3>2
      <4> QED BY <3>1, <4>1 DEF IsRow
    <3>3. CASE u.email # a.email
      BY <3>1, <3>3 DEF IsRow
    <3> QED BY <3>2, <3>3
  <2> HIDE DEF f
  <2>3. UsersFit([users |-> V, next |-> acc.next]) /\ Ids(V) = Ids(acc.users)
    BY <2>2, Retouched DEF Retouch
  <2> HIDE DEF V
  <2> QED BY <2>1, <2>3
<1>2. CASE ~\E u \in acc.users : u.email = a.email
  <2> DEFINE b == [id |-> acc.next, email |-> a.email, role |-> a.role]
  <2>1. acc.next \in Nat /\ acc.next # 0 /\ acc.next \notin Ids(acc.users)
    BY DEF UsersFit, AreRows, IsRow, Ids
  <2>2. SeedAccount(acc, a) = [users |-> acc.users \cup {b}, next |-> acc.next + 1]
    BY <1>2 DEF SeedAccount
  <2>3. b = [x \in DOMAIN b |-> b[x]] /\ {"id", "email"} \subseteq DOMAIN b
        /\ b.id = acc.next /\ b.email = a.email
    OBVIOUS
  <2> HIDE DEF b
  <2>4. /\ UsersFit([users |-> acc.users \cup {b}, next |-> acc.next + 1])
        /\ Ids(acc.users) \subseteq Ids(acc.users \cup {b})
    BY <1>2, <2>1, <2>3, Joined
  <2> QED BY <2>2, <2>4
<1> QED BY <1>1, <1>2

\* Both scripts go through their accounts one by one.
Step(kind, acc, a) == IF kind = "data" THEN SeedUser(acc, a) ELSE SeedAccount(acc, a)
OneStep(g, kind, base, accounts, n) ==
  g[n] = IF n = 0 THEN base ELSE Step(kind, g[n - 1], accounts[n])
Steps(g, kind, base, accounts) ==
  g = [n \in 0..Len(accounts) |-> IF n = 0 THEN base ELSE Step(kind, g[n - 1], accounts[n])]
UsersOf(s) == [users |-> s.rows["users"], next |-> s.next["users"]]
AllSteps(kind, s, accounts) == CHOOSE g : Steps(g, kind, UsersOf(s), accounts)

LEMMA SeedUsersUnfolded ==
  ASSUME NEW s, NEW accounts
  PROVE  SeedUsers(s, accounts) = AllSteps("data", s, accounts)[Len(accounts)]
BY DEF SeedUsers, AllSteps, Steps, UsersOf, Step

LEMMA SeedAccountsUnfolded ==
  ASSUME NEW s, NEW accounts
  PROVE  LET acc == AllSteps("accounts", s, accounts)[Len(accounts)]
         IN  SeedAccounts(s, accounts).state =
               [s EXCEPT !.rows["users"] = acc.users,
                         !.next["users"] = NextId(acc.users, acc.next, 1)]
BY DEF SeedAccounts, AllSteps, Steps, UsersOf, Step

LEMMA StepsExist ==
  ASSUME NEW kind, NEW base, NEW A, NEW accounts \in Seq(A)
  PROVE  \E g : Steps(g, kind, base, accounts)
<1> DEFINE Upto(n) == \E g : /\ g = [k \in 0..n |-> g[k]]
                             /\ \A k \in 0..n : OneStep(g, kind, base, accounts, k)
           T == {n \in Nat : Upto(n)}
<1>1. 0 \in T
  <2> DEFINE g == [k \in 0..0 |-> base]
  <2>1. g = [k \in 0..0 |-> g[k]] /\ \A k \in 0..0 : OneStep(g, kind, base, accounts, k)
    BY DEF OneStep
  <2> QED BY <2>1
<1>2. ASSUME NEW n \in T PROVE n + 1 \in T
  <2>1. n \in Nat /\ Upto(n)
    <3> HIDE DEF Upto
    <3> QED OBVIOUS
  <2>2. PICK g : g = [k \in 0..n |-> g[k]] /\ \A k \in 0..n : OneStep(g, kind, base, accounts, k)
    BY <2>1
  <2> DEFINE h == [k \in 0..n + 1 |->
                     IF k <= n THEN g[k] ELSE Step(kind, g[n], accounts[n + 1])]
  <2>3. ASSUME NEW k \in 0..n + 1 PROVE OneStep(h, kind, base, accounts, k)
    <3>1. CASE k <= n
      <4>1. k \in 0..n /\ h[k] = g[k] /\ (k # 0 => k - 1 \in 0..n /\ h[k - 1] = g[k - 1])
        BY <2>1, <3>1
      <4> HIDE DEF h
      <4> QED BY <2>2, <4>1 DEF OneStep
    <3>2. CASE k = n + 1
      <4>1. h[k] = Step(kind, g[n], accounts[n + 1]) /\ h[k - 1] = g[n] /\ k # 0
        BY <2>1, <3>2
      <4> HIDE DEF h
      <4> QED BY <3>2, <4>1 DEF OneStep
    <3> QED BY <2>1, <3>1, <3>2
  <2>4. h = [k \in 0..n + 1 |-> h[k]]
    OBVIOUS
  <2> HIDE DEF h
  <2>5. Upto(n + 1)
    BY <2>3, <2>4
  <2> HIDE DEF Upto
  <2> QED BY <2>1, <2>5
<1> HIDE DEF Upto
<1>3. Len(accounts) \in Nat /\ T \in SUBSET Nat
  OBVIOUS
<1> HIDE DEF T
<1>4. Len(accounts) \in T
  BY <1>1, <1>2, <1>3, NaturalsBySuccessor
<1>5. Upto(Len(accounts))
  BY <1>4 DEF T
<1>6. PICK g : /\ g = [k \in 0..Len(accounts) |-> g[k]]
               /\ \A k \in 0..Len(accounts) : OneStep(g, kind, base, accounts, k)
  BY <1>5 DEF Upto
<1>7. Steps(g, kind, base, accounts)
  BY <1>6 DEF Steps, OneStep
<1> QED BY <1>7

LEMMA EveryStep ==
  ASSUME NEW kind, NEW s, NEW A, NEW accounts \in Seq(A), NEW n \in 0..Len(accounts)
  PROVE  OneStep(AllSteps(kind, s, accounts), kind, UsersOf(s), accounts, n)
<1>1. Steps(AllSteps(kind, s, accounts), kind, UsersOf(s), accounts)
  BY StepsExist DEF AllSteps
<1> QED BY <1>1 DEF Steps, OneStep

LEMMA StepsFit ==
  ASSUME NEW kind, NEW s, NEW accounts \in Seq(Account), UsersFit(UsersOf(s)),
         NEW n \in 0..Len(accounts)
  PROVE  LET acc == AllSteps(kind, s, accounts)[n]
         IN  UsersFit(acc) /\ Ids(s.rows["users"]) \subseteq Ids(acc.users)
<1> DEFINE g == AllSteps(kind, s, accounts)
           Fit(k) == UsersFit(g[k]) /\ Ids(s.rows["users"]) \subseteq Ids(g[k].users)
           T == {k \in Nat : k <= Len(accounts) => Fit(k)}
<1>1. \A k \in 0..Len(accounts) :
        g[k] = IF k = 0 THEN UsersOf(s) ELSE Step(kind, g[k - 1], accounts[k])
  BY EveryStep DEF OneStep
<1> HIDE DEF g
<1>2. Len(accounts) \in Nat
  OBVIOUS
<1>3. 0 \in T
  <2>1. g[0] = UsersOf(s)
    BY <1>1, <1>2
  <2>2. UsersOf(s).users = s.rows["users"]
    BY DEF UsersOf
  <2> QED BY <2>1, <2>2
<1>4. ASSUME NEW k \in T PROVE k + 1 \in T
  <2>1. k \in Nat /\ (k <= Len(accounts) => Fit(k))
    <3> HIDE DEF Fit
    <3> QED OBVIOUS
  <2>2. CASE k + 1 <= Len(accounts)
    <3>1. Fit(k) /\ accounts[k + 1] \in Account
      BY <1>2, <2>1, <2>2
    <3>2. g[k + 1] = Step(kind, g[k], accounts[k + 1])
      BY <1>1, <1>2, <2>1, <2>2
    <3>3. UsersFit(g[k + 1]) /\ Ids(g[k].users) \subseteq Ids(g[k + 1].users)
      BY <3>1, <3>2, SeedUserFits, SeedAccountFits DEF Step
    <3>4. Fit(k + 1)
      BY <3>1, <3>3
    <3> HIDE DEF Fit
    <3> QED BY <2>1, <3>4
  <2>3. CASE ~(k + 1 <= Len(accounts))
    <3> HIDE DEF Fit
    <3> QED BY <2>1, <2>3
  <2> QED BY <2>2, <2>3
<1>5. T \in SUBSET Nat
  OBVIOUS
<1> HIDE DEF T, Fit
<1>6. n \in T /\ n <= Len(accounts)
  <2>1. T = Nat
    BY <1>3, <1>4, <1>5, NaturalsBySuccessor
  <2>2. n \in Nat /\ n <= Len(accounts)
    BY <1>2
  <2> QED BY <2>1, <2>2
<1>7. Fit(n)
  BY <1>6 DEF T
<1> QED BY <1>7 DEF Fit, g

------------------------------------------------------------------------------
(* What is taken from a fixture file.                                         *)

FixtureTables == {"projects", "proposals", "events", "upvotes", "reviews", "auditLogs"}

NamedStep(g, raw, n) ==
  g[n] = IF n = 0 THEN <<>>
         ELSE IF raw[n].email = NoText THEN g[n - 1] ELSE Append(g[n - 1], raw[n])
Naming(g, raw) ==
  g = [n \in 0..Len(raw) |->
         IF n = 0 THEN <<>>
         ELSE IF raw[n].email = NoText THEN g[n - 1] ELSE Append(g[n - 1], raw[n])]

LEMMA NamedUnfolded == ASSUME NEW raw PROVE Named(raw) = (CHOOSE g : Naming(g, raw))[Len(raw)]
BY DEF Named, Naming

LEMMA NamedAccounts == ASSUME NEW A, NEW raw \in Seq(A) PROVE Named(raw) \in Seq(A)
<1> DEFINE Upto(n) == \E g \in [0..n -> Seq(A)] : \A k \in 0..n : NamedStep(g, raw, k)
           T == {n \in Nat : n <= Len(raw) => Upto(n)}
<1>1. 0 \in T
  <2> DEFINE g == [k \in 0..0 |-> <<>>]
  <2>1. g \in [0..0 -> Seq(A)] /\ \A k \in 0..0 : NamedStep(g, raw, k)
    BY DEF NamedStep
  <2> QED BY <2>1
<1>2. ASSUME NEW n \in T PROVE n + 1 \in T
  <2> SUFFICES ASSUME n + 1 <= Len(raw) PROVE Upto(n + 1)
    OBVIOUS
  <2>1. n \in Nat /\ Upto(n) /\ Len(raw) \in Nat
    <3>1. n \in Nat /\ (n <= Len(raw) => Upto(n))
      <4> HIDE DEF Upto
      <4> QED OBVIOUS
    <3>2. Len(raw) \in Nat
      OBVIOUS
    <3>3. n <= Len(raw)
      <4> HIDE DEF T, Upto
      <4> QED BY <3>1, <3>2
    <3> HIDE DEF T, Upto
    <3> QED BY <3>1, <3>2, <3>3
  <2>2. PICK g \in [0..n -> Seq(A)] : \A k \in 0..n : NamedStep(g, raw, k)
    BY <2>1
  <2> DEFINE next1 == IF raw[n + 1].email = NoText THEN g[n] ELSE Append(g[n], raw[n + 1])
             h == [k \in 0..n + 1 |-> IF k <= n THEN g[k] ELSE next1]
  <2>3. raw[n + 1] \in A /\ g[n] \in Seq(A)
    BY <2>1
  <2>4. next1 \in Seq(A)
    BY <2>3
  <2> HIDE DEF next1
  <2>5. h \in [0..n + 1 -> Seq(A)]
    BY <2>1, <2>4
  <2>6. ASSUME NEW k \in 0..n + 1 PROVE NamedStep(h, raw, k)
    <3>1. CASE k <= n
      <4>1. k \in 0..n /\ h[k] = g[k] /\ (k # 0 => k - 1 \in 0..n /\ h[k - 1] = g[k - 1])
        BY <2>1, <3>1
      <4> HIDE DEF h
      <4> QED BY <2>2, <4>1 DEF NamedStep
    <3>2. CASE k = n + 1
      <4>1. h[k] = next1 /\ h[k - 1] = g[n] /\ k # 0
        BY <2>1, <3>2
      <4> HIDE DEF h
      <4> QED BY <3>2, <4>1 DEF NamedStep, next1
    <3> QED BY <2>1, <3>1, <3>2
  <2> QED BY <2>5, <2>6
<1>3. Len(raw) \in Nat /\ T \in SUBSET Nat
  OBVIOUS
<1> HIDE DEF T
<1>4. Len(raw) \in T
  BY <1>1, <1>2, <1>3, NaturalsBySuccessor
<1> DEFINE g == CHOOSE g : Naming(g, raw)
<1>5. Naming(g, raw)
  <2>1. PICK h \in [0..Len(raw) -> Seq(A)] : \A k \in 0..Len(raw) : NamedStep(h, raw, k)
    BY <1>3, <1>4 DEF T
  <2>2. Naming(h, raw)
    BY <2>1 DEF Naming, NamedStep
  <2> QED BY <2>2
<1> HIDE DEF g
<1>6. \A k \in 0..Len(raw) : NamedStep(g, raw, k)
  BY <1>5 DEF Naming, NamedStep
<1> DEFINE R == {k \in Nat : k <= Len(raw) => g[k] \in Seq(A)}
<1>7. 0 \in R
  <2>1. g[0] = <<>>
    BY <1>3, <1>6 DEF NamedStep
  <2>2. <<>> \in Seq(A)
    OBVIOUS
  <2>3. g[0] \in Seq(A)
    BY <2>1, <2>2
  <2> QED BY <2>3
<1>8. ASSUME NEW k \in R PROVE k + 1 \in R
  <2>1. CASE k + 1 <= Len(raw)
    <3>1. /\ g[k] \in Seq(A) /\ raw[k + 1] \in A /\ k + 1 \in 0..Len(raw)
          /\ (k + 1) - 1 = k /\ k + 1 # 0
      BY <1>3, <2>1
    <3>2. NamedStep(g, raw, k + 1)
      BY <1>6, <3>1
    <3>3. g[k + 1] = g[k] \/ g[k + 1] = Append(g[k], raw[k + 1])
      BY <3>1, <3>2 DEF NamedStep
    <3>4. Append(g[k], raw[k + 1]) \in Seq(A)
      BY <3>1
    <3>5. g[k + 1] \in Seq(A)
      BY <3>1, <3>3, <3>4
    <3> QED BY <3>5
  <2>2. CASE ~(k + 1 <= Len(raw))
    BY <2>2
  <2> QED BY <2>1, <2>2
<1>9. R \in SUBSET Nat
  OBVIOUS
<1> HIDE DEF R
<1>10. Len(raw) \in R
  BY <1>3, <1>7, <1>8, <1>9, NaturalsBySuccessor
<1>11. g[Len(raw)] \in Seq(A)
  BY <1>3, <1>10 DEF R
<1> QED BY <1>11, NamedUnfolded DEF g

LEMMA AccountsLoaded ==
  ASSUME NEW raw \in Seq(Account), NEW roles
  PROVE  NormalAccounts(raw, roles) \in Seq(Account)
<1> DEFINE named == Named(raw)
           f(a) == [a EXCEPT !.role = IF @ \in roles THEN @ ELSE "maker"]
<1>1. named \in Seq(Account)
  BY NamedAccounts
<1>2. ASSUME NEW a \in Account PROVE f(a) \in Account
  BY DEF Account
<1>3. NormalAccounts(raw, roles) = [i \in DOMAIN named |-> f(named[i])]
  BY DEF NormalAccounts
<1> HIDE DEF named, f
<1>4. \A i \in DOMAIN named : f(named[i]) \in Account
  BY <1>1, <1>2
<1> QED BY <1>1, <1>3, <1>4

\* What a fixture is once it is loaded.
Loaded(f) ==
  /\ f.accounts \in Seq(Account) /\ f.next \in [DataTables -> Nat]
  /\ \A t \in FixtureTables : AreRows(f[t]) /\ OwnIds(f[t])
  /\ \A t \in FixtureTables \ {"projects", "auditLogs"} : \A r \in f[t] : "projectId" \in DOMAIN r
  /\ \A r \in f.upvotes : "email" \in DOMAIN r
  /\ \A p \in f.projects : "userId" \in DOMAIN p /\ {"matchCount", "committed"} \cap DOMAIN p = {}

\* The rows of a fixture before they are dated.
Normal(f) ==
  [accounts |-> NormalAccounts(f.accounts, Roles), projects |-> NormalProjects(f.projects),
   proposals |-> NormalProposals(f.proposals), events |-> NormalEvents(f.events),
   upvotes |-> NormalUpvotes(f.upvotes), reviews |-> NormalReviews(f.reviews),
   auditLogs |-> NormalAuditLogs(f.auditLogs), next |-> f.next]

LEMMA NormalLoaded ==
  ASSUME NEW f, IsFixture(f)
  PROVE  Loaded(Normal(f)) /\ \A t \in FixtureTables : \A r \in Normal(f)[t] : \E q \in f[t] :
           "at" \in DOMAIN r /\ r.id = q.id /\ r.at = q.at
<1> DEFINE l == Normal(f)
<1>1. /\ l.accounts = NormalAccounts(f.accounts, Roles) /\ l.projects = NormalProjects(f.projects)
      /\ l.proposals = NormalProposals(f.proposals) /\ l.events = NormalEvents(f.events)
      /\ l.upvotes = NormalUpvotes(f.upvotes) /\ l.reviews = NormalReviews(f.reviews)
      /\ l.auditLogs = NormalAuditLogs(f.auditLogs) /\ l.next = f.next
  BY DEF Normal
<1> HIDE DEF l
<1>2. /\ f.projects \subseteq [id : Nat, userId : Nat, ownerEmail : STRING, title : STRING, at : Nat]
      /\ f.proposals \subseteq [id : Nat, projectId : Nat, fundingRangeId : STRING, at : Nat]
      /\ f.events \subseteq [id : Nat, projectId : Nat, type : STRING, at : Nat]
      /\ f.upvotes \subseteq [id : Nat, projectId : Nat, email : STRING, at : Nat]
      /\ f.reviews \subseteq [id : Nat, projectId : Nat, authorEmail : STRING, type : STRING, at : Nat]
      /\ f.auditLogs \subseteq [id : Nat, targetId : Nat, action : STRING, at : Nat]
  BY DEF IsFixture, FixtureRows
<1>3. ASSUME NEW t \in FixtureTables
      PROVE  IsFiniteSet(f[t]) /\ \A r, q \in f[t] : r.id = q.id /\ r.id > 0 => r = q
  BY DEF IsFixture, FixtureRows, FixtureTables
<1>4. ASSUME NEW S, NEW T \in SUBSET S, IsFiniteSet(S),
             \A r, q \in S : r.id = q.id /\ r.id > 0 => r = q,
             \A r \in T : IsRow(r) /\ r.id \in Nat /\ r.id > 0
      PROVE  AreRows(T) /\ OwnIds(T)
  <2>1. IsFiniteSet(T)
    BY <1>4, FS_Subset
  <2>2. \A r \in T : r.id \in Nat \ {0}
    BY <1>4
  <2> QED BY <1>4, <2>1, <2>2 DEF AreRows, OwnIds
<1>5. AreRows(l.proposals) /\ OwnIds(l.proposals) /\ \A r \in l.proposals : "projectId" \in DOMAIN r
  <2>1. l.proposals \subseteq f.proposals
    BY <1>1 DEF NormalProposals, About
  <2>2. \A r \in l.proposals : IsRow(r) /\ r.id \in Nat /\ r.id > 0 /\ "projectId" \in DOMAIN r
    BY <1>1, <1>2 DEF NormalProposals, About, IsRow
  <2>3. IsFiniteSet(f.proposals) /\ \A r, q \in f.proposals : r.id = q.id /\ r.id > 0 => r = q
    BY <1>3 DEF FixtureTables
  <2> QED BY <1>4, <2>1, <2>2, <2>3
<1>6. AreRows(l.events) /\ OwnIds(l.events) /\ \A r \in l.events : "projectId" \in DOMAIN r
  <2>1. l.events \subseteq f.events
    BY <1>1 DEF NormalEvents, About
  <2>2. \A r \in l.events : IsRow(r) /\ r.id \in Nat /\ r.id > 0 /\ "projectId" \in DOMAIN r
    BY <1>1, <1>2 DEF NormalEvents, About, IsRow
  <2>3. IsFiniteSet(f.events) /\ \A r, q \in f.events : r.id = q.id /\ r.id > 0 => r = q
    BY <1>3 DEF FixtureTables
  <2> QED BY <1>4, <2>1, <2>2, <2>3
<1>7. /\ AreRows(l.upvotes) /\ OwnIds(l.upvotes)
      /\ \A r \in l.upvotes : "projectId" \in DOMAIN r /\ "email" \in DOMAIN r
  <2>1. l.upvotes \subseteq f.upvotes
    BY <1>1 DEF NormalUpvotes, About
  <2>2. \A r \in l.upvotes : /\ IsRow(r) /\ r.id \in Nat /\ r.id > 0
                             /\ "projectId" \in DOMAIN r /\ "email" \in DOMAIN r
    BY <1>1, <1>2 DEF NormalUpvotes, About, IsRow
  <2>3. IsFiniteSet(f.upvotes) /\ \A r, q \in f.upvotes : r.id = q.id /\ r.id > 0 => r = q
    BY <1>3 DEF FixtureTables
  <2> QED BY <1>4, <2>1, <2>2, <2>3
<1>8. AreRows(l.reviews) /\ OwnIds(l.reviews) /\ \A r \in l.reviews : "projectId" \in DOMAIN r
  <2>1. l.reviews \subseteq f.reviews
    BY <1>1 DEF NormalReviews, About
  <2>2. \A r \in l.reviews : IsRow(r) /\ r.id \in Nat /\ r.id > 0 /\ "projectId" \in DOMAIN r
    BY <1>1, <1>2 DEF NormalReviews, About, IsRow
  <2>3. IsFiniteSet(f.reviews) /\ \A r, q \in f.reviews : r.id = q.id /\ r.id > 0 => r = q
    BY <1>3 DEF FixtureTables
  <2> QED BY <1>4, <2>1, <2>2, <2>3
<1>9. AreRows(l.auditLogs) /\ OwnIds(l.auditLogs)
  <2>1. l.auditLogs \subseteq f.auditLogs
    BY <1>1 DEF NormalAuditLogs
  <2>2. \A r \in l.auditLogs : IsRow(r) /\ r.id \in Nat /\ r.id > 0
    BY <1>1, <1>2 DEF NormalAuditLogs, IsRow
  <2>3. IsFiniteSet(f.auditLogs) /\ \A r, q \in f.auditLogs : r.id = q.id /\ r.id > 0 => r = q
    BY <1>3 DEF FixtureTables
  <2> QED BY <1>4, <2>1, <2>2, <2>3
<1>10. /\ AreRows(l.projects) /\ OwnIds(l.projects)
       /\ \A p \in l.projects : "userId" \in DOMAIN p /\ {"matchCount", "committed"} \cap DOMAIN p = {}
       /\ \A p \in l.projects : \E q \in f.projects : "at" \in DOMAIN p /\ p.id = q.id /\ p.at = q.at
  <2> DEFINE taken(p) == IF p.ownerEmail = NoText THEN Fields(p, {"id", "userId", "title", "at"}) ELSE p
             T == {q \in f.projects : q.id > 0 /\ q.title # NoText}
             F == [p \in T |-> taken(p)]
  <2>1. ASSUME NEW p \in T
        PROVE  /\ taken(p).id = p.id /\ IsRow(taken(p)) /\ p.id \in Nat \ {0}
               /\ "at" \in DOMAIN taken(p) /\ taken(p).at = p.at
               /\ "userId" \in DOMAIN taken(p) /\ {"matchCount", "committed"} \cap DOMAIN taken(p) = {}
    <3>1. p \in [id : Nat, userId : Nat, ownerEmail : STRING, title : STRING, at : Nat] /\ p.id > 0
      BY <1>2
    <3>2. /\ p = [n \in DOMAIN p |-> p[n]] /\ DOMAIN p = {"id", "userId", "ownerEmail", "title", "at"}
          /\ p.id \in Nat \ {0}
      BY <3>1
    <3> HIDE DEF T
    <3>3. CASE p.ownerEmail = NoText
      BY <3>2, <3>3 DEF Fields, IsRow
    <3>4. CASE p.ownerEmail # NoText
      BY <3>2, <3>4 DEF IsRow
    <3> QED BY <3>2, <3>3, <3>4
  <2>2. l.projects = {F[p] : p \in T}
    BY <1>1 DEF NormalProjects
  <2>3. IsFiniteSet(T) /\ OwnIds(T)
    <3>1. IsFiniteSet(f.projects) /\ \A r, q \in f.projects : r.id = q.id /\ r.id > 0 => r = q
      BY <1>3 DEF FixtureTables
    <3> QED BY <3>1, FS_Subset DEF OwnIds
  <2>4. \A p \in T : F[p] = taken(p)
    OBVIOUS
  <2> HIDE DEF taken, F, T
  <2>5. IsFiniteSet(l.projects)
    BY <2>2, <2>3, FiniteImage
  <2>6. \A r \in l.projects : \E p \in T : r = F[p] /\ r.id = p.id
    BY <2>1, <2>2, <2>4
  <2>7. OwnIds(l.projects)
    BY <2>3, <2>6 DEF OwnIds
  <2>8. \A r \in l.projects : /\ IsRow(r) /\ r.id \in Nat \ {0} /\ "userId" \in DOMAIN r
                              /\ {"matchCount", "committed"} \cap DOMAIN r = {}
    BY <2>1, <2>2, <2>4
  <2>9. \A r \in l.projects : \E q \in T : "at" \in DOMAIN r /\ r.id = q.id /\ r.at = q.at
    BY <2>1, <2>2, <2>4
  <2>10. \A r \in l.projects : \E q \in f.projects : "at" \in DOMAIN r /\ r.id = q.id /\ r.at = q.at
    BY <2>9 DEF T
  <2> QED BY <2>5, <2>7, <2>8, <2>10 DEF AreRows
<1>11. l.accounts \in Seq(Account)
  <2> DEFINE A == [id : Nat, email : STRING, role : STRING, name : STRING]
  <2>1. f.accounts \in Seq(A)
    BY DEF IsFixture
  <2>2. A \subseteq Account
    BY DEF Account
  <2> HIDE DEF A
  <2>3. f.accounts \in Seq(Account)
    BY <2>1, <2>2
  <2> QED BY <1>1, <2>3, AccountsLoaded
<1>12. l.next \in [DataTables -> Nat]
  BY <1>1 DEF IsFixture
<1>13. /\ \A t \in FixtureTables : AreRows(l[t]) /\ OwnIds(l[t])
       /\ \A t \in FixtureTables \ {"projects", "auditLogs"} : \A r \in l[t] : "projectId" \in DOMAIN r
  BY <1>5, <1>6, <1>7, <1>8, <1>9, <1>10 DEF FixtureTables
<1>14. Loaded(l)
  BY <1>7, <1>10, <1>11, <1>12, <1>13 DEF Loaded
<1>15. ASSUME NEW t \in FixtureTables \ {"projects"}
       PROVE  \A r \in l[t] : r \in f[t] /\ "at" \in DOMAIN r
  <2>1. /\ l.proposals \subseteq f.proposals /\ l.events \subseteq f.events /\ l.upvotes \subseteq f.upvotes
        /\ l.reviews \subseteq f.reviews /\ l.auditLogs \subseteq f.auditLogs
    BY <1>1 DEF NormalProposals, NormalEvents, NormalUpvotes, NormalReviews, NormalAuditLogs, About
  <2>2. /\ \A r \in f.proposals : "at" \in DOMAIN r
        /\ \A r \in f.events : "at" \in DOMAIN r
        /\ \A r \in f.upvotes : "at" \in DOMAIN r
        /\ \A r \in f.reviews : "at" \in DOMAIN r
        /\ \A r \in f.auditLogs : "at" \in DOMAIN r
    BY <1>2
  <2> QED BY <2>1, <2>2 DEF FixtureTables
<1> QED BY <1>10, <1>14, <1>15 DEF l, FixtureTables

\* A date fills in for a missing one, and nothing else.
LEMMA DatedRows ==
  ASSUME NEW T, AreRows(T), OwnIds(T), NEW now
  PROVE  /\ AreRows(AllDated(T, now)) /\ OwnIds(AllDated(T, now))
         /\ \A r \in AllDated(T, now) : \E q \in T :
              r.id = q.id /\ DOMAIN r = DOMAIN q /\ \A k \in DOMAIN q \ {"at"} : r[k] = q[k]
<1> DEFINE F == [r \in T |-> Dated(r, now)]
<1>1. ASSUME NEW q \in T
      PROVE  /\ IsRow(F[q]) /\ F[q].id = q.id /\ q.id \in Nat \ {0} /\ DOMAIN F[q] = DOMAIN q
             /\ \A k \in DOMAIN q \ {"at"} : F[q][k] = q[k]
  <2>1. IsRow(q) /\ q.id \in Nat \ {0}
    BY DEF AreRows
  <2> QED BY <2>1 DEF Dated, IsRow
<1>2. AllDated(T, now) = {F[q] : q \in T}
  BY DEF AllDated
<1> HIDE DEF F
<1>3. IsFiniteSet({F[q] : q \in T})
  BY FiniteImage DEF AreRows
<1>4. \A r \in AllDated(T, now) : \E q \in T :
        /\ IsRow(r) /\ r.id = q.id /\ r.id \in Nat \ {0} /\ r = F[q] /\ DOMAIN r = DOMAIN q
        /\ \A k \in DOMAIN q \ {"at"} : r[k] = q[k]
  BY <1>1, <1>2
<1>5. OwnIds(AllDated(T, now))
  BY <1>4 DEF OwnIds
<1> QED BY <1>2, <1>3, <1>4, <1>5 DEF AreRows

LEMMA FixtureParts ==
  ASSUME NEW f, IsFixture(f), NEW now
  PROVE  /\ LoadFixture(f, now).accounts = Normal(f).accounts /\ LoadFixture(f, now).next = Normal(f).next
         /\ \A t \in FixtureTables : LoadFixture(f, now)[t] = AllDated(Normal(f)[t], now)
         /\ LoadFixture(f, now).challenge = NormalChallenge(f.challenge, now)
<1>1. f = [accounts |-> f.accounts, projects |-> f.projects, proposals |-> f.proposals,
           events |-> f.events, upvotes |-> f.upvotes, reviews |-> f.reviews,
           auditLogs |-> f.auditLogs, challenge |-> f.challenge, next |-> f.next]
  BY DEF IsFixture
<1> QED BY <1>1 DEF LoadFixture, Normal, FixtureTables

LEMMA FixtureLoaded == ASSUME NEW f, IsFixture(f), NEW now PROVE Loaded(LoadFixture(f, now))
<1> DEFINE l == LoadFixture(f, now)
           n == Normal(f)
<1>1. /\ l.accounts = n.accounts /\ l.next = n.next
      /\ \A t \in FixtureTables : l[t] = AllDated(n[t], now)
  BY FixtureParts
<1>2. Loaded(n)
  BY NormalLoaded
<1> HIDE DEF l, n
<1>3. ASSUME NEW t \in FixtureTables
      PROVE  /\ AreRows(l[t]) /\ OwnIds(l[t])
             /\ \A r \in l[t] : \E q \in n[t] : DOMAIN r = DOMAIN q
  BY <1>1, <1>2, DatedRows DEF Loaded
<1>4. \A t \in FixtureTables \ {"projects", "auditLogs"} : \A r \in l[t] : "projectId" \in DOMAIN r
  <2>1. \A t \in FixtureTables \ {"projects", "auditLogs"} : \A r \in n[t] : "projectId" \in DOMAIN r
    BY <1>2 DEF Loaded
  <2> QED BY <1>3, <2>1
<1>5. /\ \A r \in n.upvotes : "email" \in DOMAIN r
      /\ \A p \in n.projects : "userId" \in DOMAIN p /\ {"matchCount", "committed"} \cap DOMAIN p = {}
      /\ n.accounts \in Seq(Account) /\ n.next \in [DataTables -> Nat]
  BY <1>2 DEF Loaded
<1>6. /\ \A r \in l.upvotes : \E q \in n.upvotes : DOMAIN r = DOMAIN q
      /\ \A r \in l.projects : \E q \in n.projects : DOMAIN r = DOMAIN q
  BY <1>3 DEF FixtureTables
<1>7. /\ \A r \in l.upvotes : "email" \in DOMAIN r
      /\ \A p \in l.projects : "userId" \in DOMAIN p /\ {"matchCount", "committed"} \cap DOMAIN p = {}
  BY <1>5, <1>6
<1> QED BY <1>1, <1>3, <1>4, <1>5, <1>7 DEF Loaded, l

------------------------------------------------------------------------------
(* seed() of seed-test-data.mjs.                                              *)

Acc(s, f)        == SeedUsers(s, f.accounts)
OwnedOf(s, f)    == UNION {Owned(p, Acc(s, f).users) : p \in f.projects}
ProjectsOf(s, f) == UpsertById(s.rows["projects"], OwnedOf(s, f))
Incoming(s, f, t) ==
  IF t = "auditLogs" THEN f[t]
  ELSE IF t = "upvotes" THEN VoteCandidates(Candidates(f[t], ProjectsOf(s, f)), s.rows[t])
  ELSE Candidates(f[t], ProjectsOf(s, f))
MergedOf(s, f) ==
  [t \in DataTables |-> CASE t = "users"    -> Acc(s, f).users
                          [] t = "projects" -> ProjectsOf(s, f)
                          [] OTHER          -> UpsertById(s.rows[t], Incoming(s, f, t))]
SeededRows(s, f) ==
  [MergedOf(s, f) EXCEPT !["projects"] = Reconcile(@, MergedOf(s, f)["proposals"])]
OtherTables == DataTables \ {"users", "projects"}

LEMMA SeedDataUnfolded ==
  ASSUME NEW s, NEW f
  PROVE  SeedData(s, f).state =
           [rows |-> SeededRows(s, f),
            challenge |-> IF f.challenge # NoChallenge THEN f.challenge ELSE s.challenge,
            next |-> [t \in DataTables |->
              NextId(SeededRows(s, f)[t], IF t = "users" THEN Acc(s, f).next ELSE s.next[t], f.next[t])]]
BY DEF SeedData, SeededRows, MergedOf, Incoming, ProjectsOf, OwnedOf, Acc

LEMMA SeededRowsOf == ASSUME NEW s, NEW f PROVE SeedData(s, f).state.rows = SeededRows(s, f)
<1> DEFINE rows == SeededRows(s, f)
           next1 == [t \in DataTables |->
             NextId(rows[t], IF t = "users" THEN Acc(s, f).next ELSE s.next[t], f.next[t])]
           challenge1 == IF f.challenge # NoChallenge THEN f.challenge ELSE s.challenge
           x == SeedData(s, f).state
<1>1. x = [rows |-> rows, challenge |-> challenge1, next |-> next1]
  BY SeedDataUnfolded
<1> HIDE DEF next1, challenge1, rows, x
<1>2. x.rows = rows
  BY <1>1
<1> QED BY <1>2 DEF rows, x

LEMMA SeededChallenge ==
  ASSUME NEW s, NEW f
  PROVE  SeedData(s, f).state.challenge = IF f.challenge # NoChallenge THEN f.challenge ELSE s.challenge
<1> DEFINE challenge1 == IF f.challenge # NoChallenge THEN f.challenge ELSE s.challenge
           next1 == [t \in DataTables |->
             NextId(SeededRows(s, f)[t], IF t = "users" THEN Acc(s, f).next ELSE s.next[t], f.next[t])]
           x == SeedData(s, f).state
<1>1. x = [rows |-> SeededRows(s, f), challenge |-> challenge1, next |-> next1]
  BY SeedDataUnfolded
<1> HIDE DEF next1, challenge1, x
<1>2. x.challenge = challenge1
  BY <1>1
<1> QED BY <1>2 DEF challenge1, x

LEMMA SeededTables ==
  ASSUME NEW s, NEW f
  PROVE  /\ SeededRows(s, f) = [t \in DataTables |-> SeededRows(s, f)[t]]
         /\ SeededRows(s, f)["users"] = Acc(s, f).users
         /\ SeededRows(s, f)["projects"] = Reconcile(ProjectsOf(s, f), SeededRows(s, f)["proposals"])
         /\ \A t \in OtherTables : SeededRows(s, f)[t] = UpsertById(s.rows[t], Incoming(s, f, t))
<1> DEFINE m == MergedOf(s, f)
<1>1. {"users", "projects", "proposals"} \subseteq DataTables
  BY DEF DataTables, Tables
<1>2. /\ m["users"] = Acc(s, f).users /\ m["projects"] = ProjectsOf(s, f)
      /\ \A t \in OtherTables : m[t] = UpsertById(s.rows[t], Incoming(s, f, t))
      /\ m = [t \in DataTables |-> m[t]]
  BY <1>1 DEF MergedOf, OtherTables
<1> HIDE DEF m
<1>3. SeededRows(s, f) = [m EXCEPT !["projects"] = Reconcile(@, m["proposals"])]
  BY DEF SeededRows, m
<1> QED BY <1>1, <1>2, <1>3 DEF OtherTables

\* Counting again changes nothing.
LEMMA ReconciledRow ==
  ASSUME NEW p, IsRow(p), NEW q
  PROVE  LET r == ReconcileProject(p, q)
         IN  /\ IsRow(r) /\ r.id = p.id /\ ReconcileProject(r, q) = r
             /\ "userId" \in DOMAIN p => "userId" \in DOMAIN r /\ r.userId = p.userId
             /\ DOMAIN r = (DOMAIN p \ {"ownerEmail"}) \cup {"matchCount", "committed"}
             /\ \A n \in DOMAIN p \ {"ownerEmail", "matchCount", "committed"} : r[n] = p[n]
<1> DEFINE mine(x) == {v \in q : v.projectId = x.id}
           of(x, range) == Cardinality({v \in mine(x) : v.fundingRangeId = range})
           count(x) == Cardinality(mine(x))
           sum(x) == of(x, "small") * Amount.small + of(x, "large") * Amount.large
           r == ReconcileProject(p, q)
<1>1. \A x : ReconcileProject(x, q) = Over([matchCount |-> count(x), committed |-> sum(x)],
                                          [n \in DOMAIN x \ {"ownerEmail"} |-> x[n]])
  BY DEF ReconcileProject
<1>2. \A x : x.id = p.id => count(x) = count(p) /\ sum(x) = sum(p)
  OBVIOUS
<1> HIDE DEF count, sum
<1>3. /\ DOMAIN r = (DOMAIN p \ {"ownerEmail"}) \cup {"matchCount", "committed"}
      /\ r = [n \in DOMAIN r |-> r[n]]
      /\ r.matchCount = count(p) /\ r.committed = sum(p)
      /\ \A n \in DOMAIN p \ {"ownerEmail", "matchCount", "committed"} : r[n] = p[n]
  <2> DEFINE a == [matchCount |-> count(p), committed |-> sum(p)]
             b == [n \in DOMAIN p \ {"ownerEmail"} |-> p[n]]
  <2>1. /\ DOMAIN a = {"matchCount", "committed"} /\ a["matchCount"] = count(p)
        /\ a["committed"] = sum(p)
    OBVIOUS
  <2>2. DOMAIN b = DOMAIN p \ {"ownerEmail"} /\ \A n \in DOMAIN b : b[n] = p[n]
    OBVIOUS
  <2>3. r = Over(a, b)
    BY <1>1
  <2> HIDE DEF a, b, r
  <2> QED BY <2>1, <2>2, <2>3 DEF Over
<1>4. "id" \in DOMAIN p \ {"ownerEmail", "matchCount", "committed"}
  BY DEF IsRow
<1> HIDE DEF r
<1>5. r.id = p.id
  BY <1>3, <1>4
<1>6. count(r) = count(p) /\ sum(r) = sum(p)
  BY <1>2, <1>5
<1>7. Over([matchCount |-> count(p), committed |-> sum(p)], [n \in DOMAIN r \ {"ownerEmail"} |-> r[n]]) = r
  BY <1>3 DEF Over
<1>8. ReconcileProject(r, q) = r
  BY <1>1, <1>6, <1>7
<1>9. "userId" \in DOMAIN p => "userId" \in DOMAIN r /\ r.userId = p.userId
  BY <1>3
<1>10. IsRow(r)
  BY <1>3, <1>4 DEF IsRow
<1> QED BY <1>3, <1>5, <1>8, <1>9, <1>10 DEF r

LEMMA ReconciledRows ==
  ASSUME NEW P, AreRows(P), OwnIds(P), NEW q
  PROVE  AreRows(Reconcile(P, q)) /\ OwnIds(Reconcile(P, q)) /\ Ids(Reconcile(P, q)) = Ids(P)
<1> DEFINE F == [p \in P |-> ReconcileProject(p, q)]
           R == {F[p] : p \in P}
<1>1. \A p \in P : IsRow(F[p]) /\ F[p].id = p.id /\ p.id \in Nat \ {0}
  BY ReconciledRow DEF AreRows
<1>2. Reconcile(P, q) = R
  BY DEF Reconcile
<1> HIDE DEF F
<1>3. IsFiniteSet(R)
  BY FiniteImage DEF AreRows
<1>4. \A r \in R : \E p \in P : r = F[p] /\ r.id = p.id /\ IsRow(r) /\ r.id \in Nat \ {0}
  BY <1>1
<1>5. \A p \in P : \E r \in R : r.id = p.id
  BY <1>1
<1> HIDE DEF R
<1>6. AreRows(R)
  BY <1>3, <1>4 DEF AreRows
<1>7. OwnIds(R)
  BY <1>4 DEF OwnIds
<1>8. Ids(R) = Ids(P)
  BY <1>4, <1>5 DEF Ids
<1> QED BY <1>2, <1>6, <1>7, <1>8

LEMMA OwnedRows ==
  ASSUME NEW acc, UsersFit(acc), NEW f, Loaded(f)
  PROVE  LET owned == UNION {Owned(p, acc.users) : p \in f.projects}
         IN  /\ AreRows(owned) /\ OwnIds(owned)
             /\ \A p \in owned : /\ "userId" \in DOMAIN p /\ p.userId \in Ids(acc.users)
                                 /\ {"matchCount", "committed"} \cap DOMAIN p = {}
<1> DEFINE U == acc.users
           of(p) == Owned(p, U)
           owned == UNION {of(p) : p \in f.projects}
           T == {p \in f.projects : of(p) # {}}
           F == [p \in T |-> CHOOSE o \in of(p) : TRUE]
<1>1. AreRows(f.projects) /\ OwnIds(f.projects)
      /\ \A p \in f.projects : "userId" \in DOMAIN p /\ {"matchCount", "committed"} \cap DOMAIN p = {}
  BY DEF Loaded, FixtureTables
<1>2. ASSUME NEW p \in f.projects
      PROVE  /\ \A o \in of(p) : /\ IsRow(o) /\ o.id = p.id /\ o.id \in Nat \ {0}
                                 /\ "userId" \in DOMAIN o /\ o.userId \in Ids(U)
                                 /\ {"matchCount", "committed"} \cap DOMAIN o = {}
             /\ \A o, x \in of(p) : o = x
  <2>1. /\ p = [n \in DOMAIN p |-> p[n]] /\ {"id", "userId"} \subseteq DOMAIN p /\ p.id \in Nat \ {0}
        /\ {"matchCount", "committed"} \cap DOMAIN p = {}
    BY <1>1 DEF AreRows, IsRow
  <2>2. CASE p.userId \in Ids(U)
    <3>1. of(p) = {p}
      BY <2>2 DEF Owned
    <3> QED BY <2>1, <2>2, <3>1 DEF IsRow
  <2>3. CASE p.userId \notin Ids(U)
    <3> DEFINE V == {v \in U : "ownerEmail" \in DOMAIN p /\ v.email = p.ownerEmail}
    <3>1. of(p) = {[p EXCEPT !.userId = u.id] : u \in V}
      BY <2>3 DEF Owned
    <3>2. \A u, v \in V : u = v
      BY DEF UsersFit
    <3>3. \A u \in V : u.id \in Ids(U)
      BY DEF Ids
    <3> HIDE DEF V, of
    <3>4. ASSUME NEW u \in V, NEW o, o = [p EXCEPT !.userId = u.id]
          PROVE  /\ IsRow(o) /\ o.id = p.id /\ "userId" \in DOMAIN o /\ o.userId = u.id
                 /\ {"matchCount", "committed"} \cap DOMAIN o = {}
      BY <2>1, <3>4 DEF IsRow
    <3>5. \A o \in of(p) : \E u \in V : o = [p EXCEPT !.userId = u.id]
      BY <3>1
    <3>6. \A o, x \in of(p) : o = x
      BY <3>2, <3>5
    <3>7. ASSUME NEW o \in of(p)
          PROVE  /\ IsRow(o) /\ o.id = p.id /\ o.id \in Nat \ {0}
                 /\ "userId" \in DOMAIN o /\ o.userId \in Ids(U)
                 /\ {"matchCount", "committed"} \cap DOMAIN o = {}
      <4>1. PICK u \in V : o = [p EXCEPT !.userId = u.id]
        BY <3>5
      <4> QED BY <2>1, <3>3, <3>4, <4>1
    <3> QED BY <3>6, <3>7
  <2> QED BY <2>2, <2>3
<1> HIDE DEF of
<1>3. \A o \in owned : \E p \in T : o \in of(p) /\ o = F[p] /\ o.id = p.id
  BY <1>2
<1>4. owned = {F[p] : p \in T}
  <2>1. \A p \in T : F[p] \in of(p) /\ p \in f.projects
    OBVIOUS
  <2> HIDE DEF F
  <2>2. \A p \in T : F[p] \in owned
    BY <2>1
  <2> QED BY <1>3, <2>2
<1>5. IsFiniteSet(T)
  BY <1>1, FS_Subset DEF AreRows
<1>6. \A o \in owned : \E p \in f.projects : o \in of(p)
  OBVIOUS
<1>7. T \subseteq f.projects
  OBVIOUS
<1> HIDE DEF F, T, owned
<1>8. IsFiniteSet(owned)
  BY <1>4, <1>5, FiniteImage
<1>9. OwnIds(owned)
  BY <1>1, <1>3, <1>7 DEF OwnIds
<1>10. AreRows(owned)
  BY <1>2, <1>6, <1>8 DEF AreRows
<1>11. \A p \in owned : /\ "userId" \in DOMAIN p /\ p.userId \in Ids(U)
                        /\ {"matchCount", "committed"} \cap DOMAIN p = {}
  BY <1>2, <1>6
<1> QED BY <1>9, <1>10, <1>11 DEF owned, of

\* A sound store, taken apart table by table.
LEMMA SoundTables ==
  ASSUME NEW s, NEW known, Sound(s, known)
  PROVE  /\ s.rows = [t \in known |-> s.rows[t]] /\ s.next \in [known -> Nat \ {0}]
         /\ \A t \in known : /\ AreRows(s.rows[t]) /\ OwnIds(s.rows[t])
                             /\ \A r \in s.rows[t] : r.id < s.next[t]
BY DEF Sound, IsStore, FreshIds, AreRows, OwnIds, IsRow

LEMMA UsersOfSound ==
  ASSUME NEW s, NEW known, Sound(s, known), "users" \in known
  PROVE  UsersFit(UsersOf(s))
<1>1. /\ AreRows(s.rows["users"]) /\ OwnIds(s.rows["users"]) /\ s.next["users"] \in Nat \ {0}
      /\ \A u \in s.rows["users"] : u.id < s.next["users"]
  BY SoundTables
<1>2. /\ \A u \in s.rows["users"] : "email" \in DOMAIN u
      /\ \A u, v \in s.rows["users"] : u.email = v.email => u = v
  BY DEF Sound, IsStore, RowsAgree
<1> QED BY <1>1, <1>2 DEF UsersFit, UsersOf

LEMMA AccFits ==
  ASSUME NEW s, Sound(s, DataTables), NEW f, Loaded(f)
  PROVE  UsersFit(Acc(s, f)) /\ Ids(s.rows["users"]) \subseteq Ids(Acc(s, f).users)
<1>1. "users" \in DataTables
  BY DEF DataTables, Tables
<1>2. f.accounts \in Seq(Account) /\ Len(f.accounts) \in 0..Len(f.accounts)
  BY DEF Loaded
<1> QED BY <1>1, <1>2, UsersOfSound, StepsFit, SeedUsersUnfolded DEF Acc

LEMMA ProjectsFit ==
  ASSUME NEW s, Sound(s, DataTables), NEW f, Loaded(f)
  PROVE  /\ AreRows(ProjectsOf(s, f)) /\ OwnIds(ProjectsOf(s, f))
         /\ Ids(s.rows["projects"]) \subseteq Ids(ProjectsOf(s, f))
         /\ \A p \in ProjectsOf(s, f) : "userId" \in DOMAIN p /\ p.userId \in Ids(Acc(s, f).users)
<1> DEFINE old == s.rows["projects"]
           owned == OwnedOf(s, f)
<1>1. "projects" \in DataTables
  BY DEF DataTables, Tables
<1>2. AreRows(old) /\ OwnIds(old)
  BY <1>1, SoundTables
<1>3. /\ AreRows(owned) /\ OwnIds(owned)
      /\ \A p \in owned : "userId" \in DOMAIN p /\ p.userId \in Ids(Acc(s, f).users)
  BY AccFits, OwnedRows DEF OwnedOf
<1>4. \A p \in old : "userId" \in DOMAIN p /\ p.userId \in Ids(Acc(s, f).users)
  <2>1. \A p \in old : "userId" \in DOMAIN p /\ p.userId \in Ids(s.rows["users"])
    BY DEF Sound, IsStore, References
  <2> QED BY <2>1, AccFits
<1> HIDE DEF old, owned
<1>5. ProjectsOf(s, f) = UpsertById(old, owned)
  BY DEF ProjectsOf, old, owned
<1>6. ASSUME NEW p \in UpsertById(old, owned)
      PROVE  "userId" \in DOMAIN p /\ p.userId \in Ids(Acc(s, f).users)
  <2>1. CASE p \in old \/ p \in owned
    BY <1>3, <1>4, <2>1
  <2>2. CASE \E n \in owned : \E o \in old : o.id = n.id /\ p = Over(n, o)
    <3>1. PICK n \in owned, o \in old : p = Over(n, o)
      BY <2>2
    <3>2. "userId" \in DOMAIN n /\ n.userId \in Ids(Acc(s, f).users)
      BY <1>3
    <3>3. p.userId = n.userId /\ "userId" \in DOMAIN p
      BY <3>1, <3>2 DEF Over
    <3> QED BY <3>2, <3>3
  <2> QED BY <1>2, <2>1, <2>2, UpsertedRow
<1>7. /\ AreRows(UpsertById(old, owned)) /\ OwnIds(UpsertById(old, owned))
      /\ Ids(UpsertById(old, owned)) = Ids(old) \cup Ids(owned)
  BY <1>2, <1>3, Upserted
<1> QED BY <1>5, <1>6, <1>7 DEF old

LEMMA IncomingFits ==
  ASSUME NEW s, NEW f, Loaded(f), NEW t \in OtherTables
  PROVE  /\ AreRows(Incoming(s, f, t)) /\ OwnIds(Incoming(s, f, t)) /\ Incoming(s, f, t) \subseteq f[t]
         /\ t # "auditLogs" => \A r \in Incoming(s, f, t) : /\ "projectId" \in DOMAIN r
                                                            /\ r.projectId \in Ids(ProjectsOf(s, f))
<1>1. t \in FixtureTables \ {"projects"}
  BY DEF OtherTables, DataTables, Tables, FixtureTables
<1>2. AreRows(f[t]) /\ OwnIds(f[t]) /\ (t # "auditLogs" => \A r \in f[t] : "projectId" \in DOMAIN r)
  BY <1>1 DEF Loaded
<1>3. /\ Incoming(s, f, t) \subseteq f[t]
      /\ t # "auditLogs" => \A r \in Incoming(s, f, t) : r.projectId \in Ids(ProjectsOf(s, f))
  BY DEF Incoming, Candidates, VoteCandidates
<1>4. IsFiniteSet(Incoming(s, f, t))
  BY <1>2, <1>3, FS_Subset DEF AreRows
<1> QED BY <1>2, <1>3, <1>4 DEF AreRows, OwnIds

LEMMA OtherTablesFit ==
  ASSUME NEW s, Sound(s, DataTables), NEW f, Loaded(f), NEW t \in OtherTables
  PROVE  LET U == UpsertById(s.rows[t], Incoming(s, f, t))
         IN  /\ AreRows(U) /\ OwnIds(U)
             /\ t # "auditLogs" => \A r \in U : r.projectId \in Ids(ProjectsOf(s, f))
<1> DEFINE old == s.rows[t]
           new == Incoming(s, f, t)
<1>1. AreRows(old) /\ OwnIds(old)
  BY SoundTables DEF OtherTables
<1>2. AreRows(new) /\ OwnIds(new)
  BY IncomingFits
<1>3. t # "auditLogs" => \A r \in old : r.projectId \in Ids(ProjectsOf(s, f))
  <2>1. t # "auditLogs" => t \in DataTables \cap {"proposals", "events", "upvotes", "reviews", "logEntries"}
    BY DEF OtherTables, DataTables, Tables
  <2>2. t # "auditLogs" => \A r \in old : r.projectId \in Ids(s.rows["projects"])
    BY <2>1 DEF Sound, References
  <2> QED BY <2>2, ProjectsFit
<1>4. t # "auditLogs" => \A r \in new : "projectId" \in DOMAIN r /\ r.projectId \in Ids(ProjectsOf(s, f))
  BY IncomingFits
<1> HIDE DEF old, new
<1>5. ASSUME t # "auditLogs", NEW r \in UpsertById(old, new)
      PROVE  r.projectId \in Ids(ProjectsOf(s, f))
  <2>1. CASE r \in old \/ r \in new
    BY <1>3, <1>4, <1>5, <2>1
  <2>2. CASE \E n \in new : \E o \in old : o.id = n.id /\ r = Over(n, o)
    <3>1. PICK n \in new, o \in old : r = Over(n, o)
      BY <2>2
    <3>2. "projectId" \in DOMAIN n /\ n.projectId \in Ids(ProjectsOf(s, f))
      BY <1>4, <1>5
    <3>3. r.projectId = n.projectId
      BY <3>1, <3>2 DEF Over
    <3> QED BY <3>2, <3>3
  <2> QED BY <1>1, <2>1, <2>2, UpsertedRow
<1>6. AreRows(UpsertById(old, new)) /\ OwnIds(UpsertById(old, new))
  BY <1>1, <1>2, Upserted
<1> QED BY <1>5, <1>6 DEF old, new

\* One vote for one address and project, whichever ids the votes came under.
LEMMA VotesFit ==
  ASSUME NEW s, Sound(s, DataTables), NEW f, Loaded(f),
         NEW v \in UpsertById(s.rows["upvotes"], Incoming(s, f, "upvotes")),
         NEW w \in UpsertById(s.rows["upvotes"], Incoming(s, f, "upvotes")), Key(v) = Key(w)
  PROVE  v = w
<1> DEFINE old == s.rows["upvotes"]
           new == Incoming(s, f, "upvotes")
<1>1. "upvotes" \in OtherTables /\ "upvotes" \in DataTables
  BY DEF OtherTables, DataTables, Tables
<1>2. AreRows(old) /\ OwnIds(old)
  BY <1>1, SoundTables
<1>3. AreRows(new) /\ OwnIds(new) /\ \A n \in new : "projectId" \in DOMAIN n /\ "email" \in DOMAIN n
  <2>1. \A n \in f.upvotes : "email" \in DOMAIN n
    BY DEF Loaded
  <2> QED BY <1>1, <2>1, IncomingFits
<1>4. \A n \in new : \A o \in old : Key(o) # Key(n)
  BY DEF Incoming, VoteCandidates
<1>5. \A n, m \in new : Key(n) = Key(m) => n = m
  <2> DEFINE votes == Candidates(f["upvotes"], ProjectsOf(s, f))
  <2>1. new = VoteCandidates(votes, old)
    BY DEF Incoming
  <2>2. new \subseteq votes /\ \A n \in new : \A m \in votes : Key(m) = Key(n) => n.id <= m.id
    BY <2>1 DEF VoteCandidates
  <2> HIDE DEF new, votes
  <2>3. \A n \in new : n.id \in Nat
    BY <1>3 DEF AreRows
  <2>4. \A n, m \in new : Key(n) = Key(m) => n.id = m.id
    BY <2>2, <2>3
  <2> QED BY <1>3, <2>4 DEF OwnIds
<1>6. \A o, x \in old : Key(o) = Key(x) => o = x
  BY <1>1 DEF Sound, RowsAgree
<1> HIDE DEF old, new
<1>7. ASSUME NEW n \in new, NEW o PROVE Key(Over(n, o)) = Key(n)
  <2>1. "projectId" \in DOMAIN n /\ "email" \in DOMAIN n
    BY <1>3
  <2>2. Over(n, o).projectId = n.projectId /\ Over(n, o).email = n.email
    BY <2>1 DEF Over
  <2> QED BY <2>2 DEF Key
<1>8. ASSUME NEW u \in UpsertById(old, new)
      PROVE  u \in old \/ \E n \in new : /\ Key(u) = Key(n) /\ u.id = n.id
  <2>1. CASE \E n \in new : \E o \in old : o.id = n.id /\ u = Over(n, o)
    <3>1. PICK n \in new, o \in old : u = Over(n, o)
      BY <2>1
    <3>2. "id" \in DOMAIN n
      BY <1>3 DEF AreRows, IsRow
    <3>3. u.id = n.id
      BY <3>1, <3>2 DEF Over
    <3> QED BY <1>7, <3>1, <3>3
  <2> QED BY <1>2, <2>1, UpsertedRow
<1>9. OwnIds(UpsertById(old, new))
  BY <1>2, <1>3, Upserted
<1>10. v \in UpsertById(old, new) /\ w \in UpsertById(old, new)
  BY DEF old, new
<1>11. CASE v \in old /\ w \in old
  BY <1>6, <1>11
<1>12. CASE v \in old /\ w \notin old
  <2>1. PICK n \in new : Key(w) = Key(n)
    BY <1>8, <1>10, <1>12
  <2> QED BY <1>4, <1>12, <2>1
<1>13. CASE v \notin old /\ w \in old
  <2>1. PICK n \in new : Key(v) = Key(n)
    BY <1>8, <1>10, <1>13
  <2> QED BY <1>4, <1>13, <2>1
<1>14. CASE v \notin old /\ w \notin old
  <2>1. PICK n \in new : Key(v) = Key(n) /\ v.id = n.id
    BY <1>8, <1>10, <1>14
  <2>2. PICK m \in new : Key(w) = Key(m) /\ w.id = m.id
    BY <1>8, <1>10, <1>14
  <2>3. n = m
    BY <1>5, <2>1, <2>2
  <2> QED BY <1>9, <1>10, <2>1, <2>2, <2>3 DEF OwnIds
<1> QED BY <1>11, <1>12, <1>13, <1>14

LEMMA SeededIsSound ==
  ASSUME NEW s, Sound(s, DataTables), NEW f, Loaded(f)
  PROVE  Sound(SeedData(s, f).state, DataTables)
<1> DEFINE x == SeedData(s, f).state
           rows == SeededRows(s, f)
           users == Acc(s, f).users
           known(t) == IF t = "users" THEN Acc(s, f).next ELSE s.next[t]
<1>1. {"users", "projects", "proposals", "upvotes"} \subseteq DataTables
      /\ \A t \in DataTables : t \in OtherTables \cup {"users", "projects"}
      /\ {"proposals", "upvotes"} \subseteq OtherTables
  BY DEF DataTables, Tables, OtherTables
<1>2. /\ x.rows = rows /\ x.next = [t \in DataTables |-> NextId(rows[t], known(t), f.next[t])]
      /\ x = [rows |-> x.rows, next |-> x.next, challenge |-> x.challenge]
  <2> DEFINE next1 == [t \in DataTables |-> NextId(rows[t], known(t), f.next[t])]
             challenge1 == IF f.challenge # NoChallenge THEN f.challenge ELSE s.challenge
  <2>1. x = [rows |-> rows, challenge |-> challenge1, next |-> next1]
    BY SeedDataUnfolded
  <2> HIDE DEF next1, challenge1, rows, x
  <2>2. x.rows = rows /\ x.next = next1 /\ x = [rows |-> x.rows, next |-> x.next, challenge |-> x.challenge]
    BY <2>1
  <2> QED BY <2>2 DEF next1
<1>3. /\ rows = [t \in DataTables |-> rows[t]] /\ rows["users"] = users
      /\ rows["projects"] = Reconcile(ProjectsOf(s, f), rows["proposals"])
      /\ \A t \in OtherTables : rows[t] = UpsertById(s.rows[t], Incoming(s, f, t))
  BY SeededTables
<1>4. UsersFit(Acc(s, f)) /\ Ids(s.rows["users"]) \subseteq Ids(users)
  BY AccFits
<1> HIDE DEF x, rows
<1>5. /\ AreRows(rows["projects"]) /\ OwnIds(rows["projects"])
      /\ Ids(rows["projects"]) = Ids(ProjectsOf(s, f))
  BY <1>3, ProjectsFit, ReconciledRows
<1>6. ASSUME NEW t \in DataTables PROVE AreRows(rows[t]) /\ OwnIds(rows[t])
  <2>1. CASE t = "users"
    BY <1>3, <1>4, <2>1 DEF UsersFit
  <2>2. CASE t = "projects"
    BY <1>5, <2>2
  <2>3. CASE t \in OtherTables
    BY <1>3, <2>3, OtherTablesFit
  <2> QED BY <1>1, <2>1, <2>2, <2>3
<1>7. ASSUME NEW t \in DataTables
      PROVE  x.next[t] \in Nat \ {0} /\ \A r \in rows[t] : r.id < x.next[t]
  <2>1. known(t) \in Nat
    <3>1. s.next \in [DataTables -> Nat \ {0}]
      BY SoundTables
    <3>2. Acc(s, f).next \in Nat
      BY <1>4 DEF UsersFit
    <3> QED BY <3>1, <3>2
  <2>2. f.next[t] \in Nat
    BY DEF Loaded
  <2>3. x.next[t] = NextId(rows[t], known(t), f.next[t])
    BY <1>2
  <2> HIDE DEF known
  <2> QED BY <1>6, <2>1, <2>2, <2>3, CounterIsAhead
<1>8. ASSUME NEW p \in rows["projects"]
      PROVE  /\ "userId" \in DOMAIN p /\ p.userId \in Ids(users)
             /\ ReconcileProject(p, rows["proposals"]) = p
  <2>1. PICK q \in ProjectsOf(s, f) : p = ReconcileProject(q, rows["proposals"])
    BY <1>3 DEF Reconcile
  <2>2. IsRow(q) /\ "userId" \in DOMAIN q /\ q.userId \in Ids(users)
    BY ProjectsFit DEF AreRows
  <2> QED BY <2>1, <2>2, ReconciledRow
<1>9. IsStore(x, DataTables)
  <2>1. x.next \in [DataTables -> Nat \ {0}]
    BY <1>2, <1>7
  <2>2. \A u \in rows["users"] : "email" \in DOMAIN u
    BY <1>3, <1>4 DEF UsersFit
  <2>3. \A t \in DataTables : IsFiniteSet(rows[t]) /\ \A r \in rows[t] : IsRow(r) /\ r.id \in Nat \ {0}
    BY <1>6 DEF AreRows
  <2> QED BY <1>2, <1>3, <1>8, <2>1, <2>2, <2>3 DEF IsStore, IsRow
<1>10. FreshIds(x, DataTables)
  BY <1>2, <1>6, <1>7 DEF FreshIds, OwnIds
<1>11. References(x, DataTables)
  <2>1. ASSUME NEW t \in DataTables \cap {"proposals", "events", "upvotes", "reviews", "logEntries"},
               NEW r \in rows[t]
        PROVE  r.projectId \in Ids(rows["projects"])
    <3>1. t \in OtherTables /\ t # "auditLogs"
      BY DEF OtherTables
    <3> QED BY <1>3, <1>5, <3>1, OtherTablesFit
  <2> QED BY <1>2, <1>3, <1>8, <2>1 DEF References
<1>12. RowsAgree(x, DataTables)
  <2>1. \A u, v \in rows["users"] : u.email = v.email => u = v
    BY <1>3, <1>4 DEF UsersFit
  <2>2. \A v, w \in rows["upvotes"] : Key(v) = Key(w) => v = w
    BY <1>1, <1>3, VotesFit
  <2> QED BY <1>2, <1>8, <2>1, <2>2 DEF RowsAgree
<1> QED BY <1>9, <1>10, <1>11, <1>12 DEF Sound, x

------------------------------------------------------------------------------
(* Reading, writing and the script of the accounts.                           *)

\* The tables of a store and their counters, whatever the rows say.
Tabled(x, known) ==
  /\ x = [rows |-> x.rows, next |-> x.next, challenge |-> x.challenge]
  /\ x.rows = [t \in known |-> x.rows[t]] /\ x.next \in [known -> Nat \ {0}]
  /\ \A t \in known : /\ AreRows(x.rows[t]) /\ OwnIds(x.rows[t])
                      /\ \A r \in x.rows[t] : r.id < x.next[t]
Owners(x) ==
  /\ \A u \in x.rows["users"] : "email" \in DOMAIN u
  /\ \A p \in x.rows["projects"] : "userId" \in DOMAIN p

LEMMA SoundParts ==
  ASSUME NEW x, NEW known
  PROVE  Sound(x, known) <=> /\ Tabled(x, known) /\ Owners(x)
                             /\ References(x, known) /\ RowsAgree(x, known)
BY DEF Sound, Tabled, Owners, IsStore, FreshIds, AreRows, OwnIds, IsRow

\* Fewer tables, or more of them, empty.
LEMMA OtherTablesAreSound ==
  ASSUME NEW s, NEW known, Sound(s, known), NEW x, NEW wanted,
         known \subseteq wanted \/ wanted \subseteq known,
         {"users", "projects", "proposals"} \subseteq known \cap wanted,
         x = [rows |-> x.rows, next |-> x.next, challenge |-> x.challenge],
         x.rows = [t \in wanted |-> IF t \in known THEN s.rows[t] ELSE {}],
         x.next = [t \in wanted |-> IF t \in known THEN s.next[t] ELSE 1]
  PROVE  Sound(x, wanted)
<1>1. Tabled(s, known) /\ Owners(s) /\ References(s, known) /\ RowsAgree(s, known)
  BY SoundParts
<1>2. AreRows({}) /\ OwnIds({})
  BY FS_EmptySet DEF AreRows, OwnIds
<1>3. \A t \in wanted : \/ t \in known /\ x.rows[t] = s.rows[t] /\ x.next[t] = s.next[t]
                        \/ x.rows[t] = {} /\ x.next[t] = 1
  OBVIOUS
<1>4. x.rows["users"] = s.rows["users"] /\ x.rows["projects"] = s.rows["projects"]
      /\ x.rows["proposals"] = s.rows["proposals"]
  OBVIOUS
<1>5. x.next \in [wanted -> Nat \ {0}]
  <2>1. \A t \in known : s.next[t] \in Nat \ {0}
    BY <1>1 DEF Tabled
  <2> QED BY <2>1
<1>6. x.rows = [t \in wanted |-> x.rows[t]]
  OBVIOUS
<1>7. Tabled(x, wanted)
  BY <1>1, <1>2, <1>3, <1>5, <1>6 DEF Tabled
<1>8. Owners(x)
  BY <1>1, <1>4 DEF Owners
<1>9. References(x, wanted)
  BY <1>1, <1>3, <1>4 DEF References
<1>10. RowsAgree(x, wanted)
  <2>1. "upvotes" \in wanted => \A v, w \in x.rows["upvotes"] : Key(v) = Key(w) => v = w
    BY <1>1, <1>3 DEF RowsAgree
  <2> QED BY <1>1, <1>4, <2>1 DEF RowsAgree
<1> QED BY <1>7, <1>8, <1>9, <1>10, SoundParts

KnownTables == {Tables, DataTables, AccountTables}

LEMMA KnownBasics ==
  ASSUME NEW known \in KnownTables
  PROVE  known \subseteq Tables /\ {"users", "projects", "proposals"} \subseteq known
BY DEF KnownTables, Tables, DataTables, AccountTables

\* What is written is read back.
LEMMA ReadBack ==
  ASSUME NEW s, NEW known \in KnownTables, Sound(s, known)
  PROVE  Sound(Deserialize(s), Tables)
<1> DEFINE x == Deserialize(s)
<1>1. DOMAIN s.rows = known /\ DOMAIN s.next = known
  <2>1. s.rows = [t \in known |-> s.rows[t]] /\ s.next \in [known -> Nat \ {0}]
    BY DEF Sound, IsStore
  <2> QED BY <2>1
<1>2. /\ x = [rows |-> x.rows, next |-> x.next, challenge |-> x.challenge]
      /\ x.rows = [t \in Tables |-> IF t \in known THEN s.rows[t] ELSE {}]
      /\ x.next = [t \in Tables |-> IF t \in known THEN s.next[t] ELSE 1]
  BY <1>1 DEF Deserialize, RowsIn, NextIn
<1> HIDE DEF x
<1>3. "users" \in Tables /\ "projects" \in Tables /\ "proposals" \in Tables
  BY DEF Tables
<1>4. Sound(x, Tables)
  BY <1>2, <1>3, KnownBasics, OtherTablesAreSound
<1> QED BY <1>4 DEF x

\* The scripts read fewer tables than the server.
LEMMA ScriptsRead ==
  ASSUME NEW raw, Sound(Deserialize(raw), Tables)
  PROVE  Sound(LoadData(raw), DataTables) /\ Sound(LoadAccounts(raw), AccountTables)
<1> DEFINE s == Deserialize(raw)
<1>1. /\ \A t \in Tables : s.rows[t] = (IF t \in DOMAIN raw.rows THEN raw.rows[t] ELSE {})
      /\ \A t \in Tables : s.next[t] = (IF t \in DOMAIN raw.next THEN raw.next[t] ELSE 1)
  BY DEF Deserialize, RowsIn, NextIn
<1> HIDE DEF s
<1>2. ASSUME NEW known \in KnownTables, NEW x,
             x = [rows |-> x.rows, next |-> x.next, challenge |-> x.challenge],
             x.rows = RowsIn(raw, known), x.next = NextIn(raw, known)
      PROVE  Sound(x, known)
  <2>1. known \subseteq Tables /\ {"users", "projects", "proposals"} \subseteq Tables \cap known
    BY KnownBasics DEF Tables
  <2>2. x.rows = [t \in known |-> IF t \in Tables THEN s.rows[t] ELSE {}]
    BY <1>1, <1>2, <2>1 DEF RowsIn
  <2>3. x.next = [t \in known |-> IF t \in Tables THEN s.next[t] ELSE 1]
    BY <1>1, <1>2, <2>1 DEF NextIn
  <2> QED BY <1>2, <2>1, <2>2, <2>3, OtherTablesAreSound DEF s
<1>3. Sound(LoadData(raw), DataTables)
  <2> DEFINE x == LoadData(raw)
  <2>1. /\ x = [rows |-> x.rows, next |-> x.next, challenge |-> x.challenge]
        /\ x.rows = RowsIn(raw, DataTables) /\ x.next = NextIn(raw, DataTables)
    BY DEF LoadData
  <2> HIDE DEF x
  <2>2. Sound(x, DataTables)
    BY <1>2, <2>1 DEF KnownTables
  <2> QED BY <2>2 DEF x
<1>4. Sound(LoadAccounts(raw), AccountTables)
  <2> DEFINE x == LoadAccounts(raw)
  <2>1. /\ x = [rows |-> x.rows, next |-> x.next, challenge |-> x.challenge]
        /\ x.rows = RowsIn(raw, AccountTables) /\ x.next = NextIn(raw, AccountTables)
    BY DEF LoadAccounts
  <2> HIDE DEF x
  <2>2. Sound(x, AccountTables)
    BY <1>2, <2>1 DEF KnownTables
  <2> QED BY <2>2 DEF x
<1> QED BY <1>3, <1>4

LEMMA EmptyIsSound == Sound(Empty, Tables) /\ Sound(Deserialize(Empty), Tables)
<1>1. /\ Empty = [rows |-> Empty.rows, next |-> Empty.next, challenge |-> Empty.challenge]
      /\ Empty.rows = [t \in Tables |-> Empty.rows[t]] /\ Empty.next \in [Tables -> Nat \ {0}]
      /\ \A t \in Tables : Empty.rows[t] = {}
  BY DEF Empty
<1>2. Empty.rows["users"] = {} /\ Empty.rows["projects"] = {} /\ Empty.rows["upvotes"] = {}
  BY DEF Empty, Tables
<1>3. AreRows({}) /\ OwnIds({})
  BY FS_EmptySet DEF AreRows, OwnIds
<1>4. Tabled(Empty, Tables)
  BY <1>1, <1>3 DEF Tabled
<1>5. Owners(Empty) /\ References(Empty, Tables) /\ RowsAgree(Empty, Tables)
  BY <1>1, <1>2 DEF Owners, References, RowsAgree
<1>6. Sound(Empty, Tables)
  BY <1>4, <1>5, SoundParts
<1> QED BY <1>6, ReadBack DEF KnownTables

\* seedAccounts of seed-test-accounts.mjs.
LEMMA AccountsAreSound ==
  ASSUME NEW s, Sound(s, AccountTables), NEW accounts \in Seq(Account)
  PROVE  Sound(SeedAccounts(s, accounts).state, AccountTables)
<1> DEFINE acc == AllSteps("accounts", s, accounts)[Len(accounts)]
           n == NextId(acc.users, acc.next, 1)
           x == SeedAccounts(s, accounts).state
<1>1. "users" \in AccountTables
  BY DEF AccountTables
<1>2. Len(accounts) \in 0..Len(accounts)
  OBVIOUS
<1>3. UsersFit(acc) /\ Ids(s.rows["users"]) \subseteq Ids(acc.users)
  BY <1>1, <1>2, UsersOfSound, StepsFit
<1>4. x = [s EXCEPT !.rows["users"] = acc.users, !.next["users"] = n]
  BY SeedAccountsUnfolded
<1> HIDE DEF acc, x
<1>5. n \in Nat \ {0} /\ \A u \in acc.users : u.id < n
  <2>1. AreRows(acc.users) /\ acc.next \in Nat
    BY <1>3 DEF UsersFit
  <2> QED BY <2>1, CounterIsAhead
<1> HIDE DEF n
<1>6. Tabled(s, AccountTables) /\ Owners(s) /\ References(s, AccountTables) /\ RowsAgree(s, AccountTables)
  BY SoundParts
<1>7. /\ x = [rows |-> x.rows, next |-> x.next, challenge |-> x.challenge]
      /\ x.rows = [s.rows EXCEPT !["users"] = acc.users]
      /\ x.next = [s.next EXCEPT !["users"] = n]
  BY <1>4, <1>6 DEF Tabled
<1>8. /\ x.rows["users"] = acc.users /\ x.next["users"] = n
      /\ \A t \in AccountTables \ {"users"} : x.rows[t] = s.rows[t] /\ x.next[t] = s.next[t]
  BY <1>1, <1>6, <1>7 DEF Tabled
<1>9. Tabled(x, AccountTables)
  <2>1. x.rows = [t \in AccountTables |-> x.rows[t]] /\ x.next \in [AccountTables -> Nat \ {0}]
    BY <1>5, <1>6, <1>7 DEF Tabled
  <2>2. AreRows(acc.users) /\ OwnIds(acc.users)
    BY <1>3 DEF UsersFit
  <2> QED BY <1>5, <1>6, <1>7, <1>8, <2>1, <2>2 DEF Tabled
<1>10. x.rows["projects"] = s.rows["projects"] /\ x.rows["proposals"] = s.rows["proposals"]
  BY <1>8 DEF AccountTables
<1>11. Owners(x)
  BY <1>3, <1>6, <1>8, <1>10 DEF Owners, UsersFit
<1>12. References(x, AccountTables)
  <2>1. \A p \in x.rows["projects"] : p.userId \in Ids(x.rows["users"])
    BY <1>3, <1>6, <1>8, <1>10 DEF References
  <2> QED BY <1>6, <1>8, <1>10, <2>1 DEF References
<1>13. RowsAgree(x, AccountTables)
  <2>1. "upvotes" \notin AccountTables
    BY DEF AccountTables
  <2>2. \A u, v \in acc.users : u.email = v.email => u = v
    BY <1>3 DEF UsersFit
  <2> QED BY <1>6, <1>8, <1>10, <2>1, <2>2 DEF RowsAgree
<1>14. Sound(x, AccountTables)
  BY <1>9, <1>11, <1>12, <1>13, SoundParts
<1> QED BY <1>14 DEF x

------------------------------------------------------------------------------
(* What the server's handlers make of its memory.                             *)

\* A row of its own id, pushed on its table.
NewRow(row) == row = [k \in DOMAIN row |-> row[k]] /\ "id" \notin DOMAIN row

LEMMA PushedRow ==
  ASSUME NEW n, NEW row, NewRow(row)
  PROVE  LET r == Over([id |-> n], row)
         IN  /\ IsRow(r) /\ r.id = n /\ DOMAIN r = DOMAIN row \cup {"id"}
             /\ \A k \in DOMAIN row : r[k] = row[k]
BY DEF Over, IsRow, NewRow

LEMMA PushedTables ==
  ASSUME Tabled(mem, Tables), NEW t \in Tables, NEW row, NewRow(row)
  PROVE  LET x == Push(t, row)
             r == Over([id |-> mem.next[t]], row)
         IN  /\ Tabled(x, Tables)
             /\ x.rows[t] = mem.rows[t] \cup {r}
             /\ \A k \in Tables \ {t} : x.rows[k] = mem.rows[k]
             /\ \A q \in mem.rows[t] : q.id < mem.next[t] /\ q.id \in Nat
<1> DEFINE x == Push(t, row)
           r == Over([id |-> mem.next[t]], row)
           n == mem.next[t]
<1>1. /\ mem = [rows |-> mem.rows, next |-> mem.next, challenge |-> mem.challenge]
      /\ mem.rows = [k \in Tables |-> mem.rows[k]] /\ mem.next \in [Tables -> Nat \ {0}]
      /\ \A k \in Tables : /\ AreRows(mem.rows[k]) /\ OwnIds(mem.rows[k])
                           /\ \A q \in mem.rows[k] : q.id < mem.next[k]
  BY DEF Tabled
<1>2. x = [mem EXCEPT !.rows[t] = @ \cup {r}, !.next[t] = @ + 1]
  BY DEF Push
<1>3. IsRow(r) /\ r.id = n
  BY PushedRow
<1> HIDE DEF x, r
<1>4. /\ x = [rows |-> x.rows, next |-> x.next, challenge |-> x.challenge]
      /\ x.rows = [mem.rows EXCEPT ![t] = @ \cup {r}]
      /\ x.next = [mem.next EXCEPT ![t] = @ + 1]
  BY <1>1, <1>2
<1>5. /\ x.rows[t] = mem.rows[t] \cup {r} /\ x.next[t] = n + 1
      /\ \A k \in Tables \ {t} : x.rows[k] = mem.rows[k] /\ x.next[k] = mem.next[k]
      /\ x.rows = [k \in Tables |-> x.rows[k]]
  BY <1>1, <1>4
<1>6. n \in Nat /\ n # 0
  BY <1>1
<1>7. \A q \in mem.rows[t] : q.id < n /\ q.id \in Nat
  BY <1>1 DEF AreRows
<1> HIDE DEF n
<1>8. x.next \in [Tables -> Nat \ {0}]
  <2>1. \A k \in Tables : x.next[k] \in Nat \ {0}
    BY <1>1, <1>5, <1>6
  <2> QED BY <1>1, <1>4, <2>1
<1>9. AreRows(x.rows[t])
  <2>1. IsFiniteSet(mem.rows[t] \cup {r})
    BY <1>1, FS_AddElement DEF AreRows
  <2> QED BY <1>1, <1>3, <1>5, <1>6, <2>1 DEF AreRows
<1>10. OwnIds(x.rows[t])
  <2>1. \A q \in mem.rows[t] : q.id # n
    BY <1>6, <1>7
  <2> QED BY <1>1, <1>3, <1>5, <2>1 DEF OwnIds
<1>11. \A q \in x.rows[t] : q.id < x.next[t]
  BY <1>3, <1>5, <1>6, <1>7
<1>12. Tabled(x, Tables)
  BY <1>1, <1>4, <1>5, <1>8, <1>9, <1>10, <1>11 DEF Tabled
<1> QED BY <1>4, <1>5, <1>6, <1>7, <1>12 DEF x, r, n

\* What a push leaves: the row under its own id, and the other tables.
Pushed(x, t, row, r) ==
  /\ IsRow(r) /\ DOMAIN r = DOMAIN row \cup {"id"} /\ \A k \in DOMAIN row : r[k] = row[k]
  /\ r.id \notin Ids(mem.rows[t])
  /\ Tabled(x, Tables) /\ x.rows[t] = mem.rows[t] \cup {r}
  /\ \A k \in Tables \ {t} : x.rows[k] = mem.rows[k]

LEMMA AfterPush ==
  ASSUME Tabled(mem, Tables), NEW t \in Tables, NEW row, NewRow(row)
  PROVE  \E r : Pushed(Push(t, row), t, row, r)
<1> DEFINE r == Over([id |-> mem.next[t]], row)
           x == Push(t, row)
<1>1. /\ IsRow(r) /\ r.id = mem.next[t] /\ DOMAIN r = DOMAIN row \cup {"id"}
      /\ \A k \in DOMAIN row : r[k] = row[k]
  BY PushedRow
<1>2. /\ Tabled(x, Tables) /\ x.rows[t] = mem.rows[t] \cup {r}
      /\ \A k \in Tables \ {t} : x.rows[k] = mem.rows[k]
      /\ \A q \in mem.rows[t] : q.id < mem.next[t] /\ q.id \in Nat
  BY PushedTables
<1> HIDE DEF r, x
<1>3. r.id \notin Ids(mem.rows[t])
  BY <1>1, <1>2 DEF Ids
<1>4. Pushed(x, t, row, r)
  BY <1>1, <1>2, <1>3 DEF Pushed
<1> QED BY <1>4 DEF x

\* The tables in which a row is about a project.
AboutTables == {"proposals", "events", "upvotes", "reviews", "logEntries"}

LEMMA MemParts ==
  ASSUME Sound(mem, Tables)
  PROVE  /\ Tabled(mem, Tables) /\ Owners(mem)
         /\ \A p \in mem.rows["projects"] : p.userId \in Ids(mem.rows["users"])
         /\ \A t \in AboutTables : \A r \in mem.rows[t] : r.projectId \in Ids(mem.rows["projects"])
         /\ \A u, v \in mem.rows["users"] : u.email = v.email => u = v
         /\ \A v, w \in mem.rows["upvotes"] : Key(v) = Key(w) => v = w
         /\ \A p \in mem.rows["projects"] : ReconcileProject(p, mem.rows["proposals"]) = p
<1>1. AboutTables \subseteq Tables
  BY DEF AboutTables, Tables
<1>2. "upvotes" \in Tables
  BY DEF Tables
<1> QED BY <1>1, <1>2, SoundParts DEF References, RowsAgree, AboutTables

LEMMA SoundByParts ==
  ASSUME NEW x, Tabled(x, Tables), Owners(x),
         \A p \in x.rows["projects"] : p.userId \in Ids(x.rows["users"]),
         \A t \in AboutTables : \A r \in x.rows[t] : r.projectId \in Ids(x.rows["projects"]),
         \A u, v \in x.rows["users"] : u.email = v.email => u = v,
         \A v, w \in x.rows["upvotes"] : Key(v) = Key(w) => v = w,
         \A p \in x.rows["projects"] : ReconcileProject(p, x.rows["proposals"]) = p
  PROVE  Sound(x, Tables)
<1>1. References(x, Tables)
  BY DEF References, AboutTables
<1>2. RowsAgree(x, Tables)
  BY DEF RowsAgree
<1> QED BY <1>1, <1>2, SoundParts

\* The figures of a project, spelt out.
Mine(p, q) == {v \in q : v.projectId = p.id}
Of(p, q, range) == Cardinality({v \in Mine(p, q) : v.fundingRangeId = range})
Sum(p, q) == Of(p, q, "small") * 1 + Of(p, q, "large") * 3

LEMMA Reconciled ==
  ASSUME NEW p, IsRow(p), NEW q
  PROVE  ReconcileProject(p, q) = p <=>
           /\ {"matchCount", "committed"} \subseteq DOMAIN p /\ "ownerEmail" \notin DOMAIN p
           /\ p.matchCount = Cardinality(Mine(p, q)) /\ p.committed = Sum(p, q)
<1> DEFINE c == Cardinality(Mine(p, q))
           s == Sum(p, q)
           a == [matchCount |-> c, committed |-> s]
           b == [n \in DOMAIN p \ {"ownerEmail"} |-> p[n]]
           r == ReconcileProject(p, q)
<1>1. r = Over(a, b)
  BY DEF ReconcileProject, Mine, Of, Sum, Amount
<1>2. DOMAIN a = {"matchCount", "committed"} /\ a["matchCount"] = c /\ a["committed"] = s
  OBVIOUS
<1>3. DOMAIN b = DOMAIN p \ {"ownerEmail"} /\ \A n \in DOMAIN b : b[n] = p[n]
  OBVIOUS
<1> HIDE DEF a, b, r, c, s
<1>4. /\ DOMAIN r = (DOMAIN p \ {"ownerEmail"}) \cup {"matchCount", "committed"}
      /\ r = [n \in DOMAIN r |-> r[n]] /\ r.matchCount = c /\ r.committed = s
      /\ \A n \in DOMAIN p \ {"ownerEmail", "matchCount", "committed"} : r[n] = p[n]
  BY <1>1, <1>2, <1>3 DEF Over
<1>5. ASSUME r = p
      PROVE  /\ {"matchCount", "committed"} \subseteq DOMAIN p /\ "ownerEmail" \notin DOMAIN p
             /\ p.matchCount = c /\ p.committed = s
  BY <1>4, <1>5
<1>6. ASSUME {"matchCount", "committed"} \subseteq DOMAIN p, "ownerEmail" \notin DOMAIN p,
             p.matchCount = c, p.committed = s
      PROVE  r = p
  <2>1. DOMAIN r = DOMAIN p
    BY <1>4, <1>6
  <2>2. \A n \in DOMAIN p : r[n] = p[n]
    BY <1>4, <1>6
  <2>3. p = [n \in DOMAIN p |-> p[n]]
    BY DEF IsRow
  <2> QED BY <1>4, <2>1, <2>2, <2>3
<1> QED BY <1>5, <1>6 DEF r, c, s

LEMMA SoundAtRegister == ASSUME Sound(mem, Tables), Register PROVE Sound(mem', Tables)
<1>1. PICK e \in Emails :
        /\ \A u \in mem.rows["users"] : u.email # e
        /\ mem' = Push("users", [email |-> e, role |-> "member", name |-> "own"])
  BY DEF Register, Change
<1> DEFINE row == [email |-> e, role |-> "member", name |-> "own"]
<1>2. /\ NewRow(row)
      /\ "email" \in DOMAIN row /\ row["email"] = e
  BY DEF NewRow
<1> HIDE DEF row
<1>4. "users" \in Tables /\ \A t \in AboutTables \cup {"projects"} : t \in Tables \ {"users"}
  BY DEF Tables, AboutTables
<1>14. PICK r : Pushed(Push("users", row), "users", row, r)
  BY <1>2, <1>4, AfterPush, MemParts
<1>15. Pushed(mem', "users", row, r)
  BY <1>1, <1>14 DEF row
<1>3. IsRow(r) /\ r.email = e /\ "email" \in DOMAIN r
  BY <1>2, <1>15 DEF Pushed
<1>5. /\ Tabled(mem', Tables) /\ mem'.rows["users"] = mem.rows["users"] \cup {r}
      /\ \A k \in Tables \ {"users"} : mem'.rows[k] = mem.rows[k]
  BY <1>15 DEF Pushed
<1>6. Ids(mem.rows["users"]) \subseteq Ids(mem'.rows["users"])
  BY <1>5 DEF Ids
<1>7. mem'.rows["upvotes"] = mem.rows["upvotes"] /\ mem'.rows["proposals"] = mem.rows["proposals"]
      /\ mem'.rows["projects"] = mem.rows["projects"]
  BY <1>4, <1>5 DEF AboutTables
<1>8. Owners(mem')
  BY <1>3, <1>5, <1>7, MemParts DEF Owners
<1>9. \A u, v \in mem'.rows["users"] : u.email = v.email => u = v
  BY <1>1, <1>3, <1>5, MemParts
<1>10. \A p \in mem'.rows["projects"] : p.userId \in Ids(mem'.rows["users"])
  BY <1>6, <1>7, MemParts
<1>11. \A t \in AboutTables : \A q \in mem'.rows[t] : q.projectId \in Ids(mem'.rows["projects"])
  BY <1>4, <1>5, <1>7, MemParts
<1>12. \A v, w \in mem'.rows["upvotes"] : Key(v) = Key(w) => v = w
  BY <1>7, MemParts
<1>13. \A p \in mem'.rows["projects"] : ReconcileProject(p, mem'.rows["proposals"]) = p
  BY <1>7, MemParts
<1> QED BY <1>5, <1>8, <1>9, <1>10, <1>11, <1>12, <1>13, SoundByParts

LEMMA SoundAtSubmit == ASSUME Sound(mem, Tables), Submit PROVE Sound(mem', Tables)
<1>1. PICK u \in mem.rows["users"] :
        mem' = Push("projects", [userId |-> u.id, title |-> "own", matchCount |-> 0, committed |-> 0, at |-> ServerDate])
  BY DEF Submit, Change
<1> DEFINE row == [userId |-> u.id, title |-> "own", matchCount |-> 0, committed |-> 0, at |-> ServerDate]
<1>2. /\ NewRow(row) /\ DOMAIN row = {"userId", "title", "matchCount", "committed", "at"}
      /\ row["userId"] = u.id /\ row["matchCount"] = 0 /\ row["committed"] = 0
  BY DEF NewRow
<1> HIDE DEF row
<1>4. "projects" \in Tables /\ \A t \in AboutTables \cup {"users"} : t \in Tables \ {"projects"}
  BY DEF Tables, AboutTables
<1>14. PICK r : Pushed(Push("projects", row), "projects", row, r)
  BY <1>2, <1>4, AfterPush, MemParts
<1>15. Pushed(mem', "projects", row, r)
  BY <1>1, <1>14 DEF row
<1>3. /\ IsRow(r) /\ {"userId", "matchCount", "committed"} \subseteq DOMAIN r
      /\ "ownerEmail" \notin DOMAIN r /\ r.userId = u.id /\ r.matchCount = 0 /\ r.committed = 0
  BY <1>2, <1>15 DEF Pushed
<1>5. /\ Tabled(mem', Tables) /\ mem'.rows["projects"] = mem.rows["projects"] \cup {r}
      /\ \A k \in Tables \ {"projects"} : mem'.rows[k] = mem.rows[k]
      /\ r.id \notin Ids(mem.rows["projects"])
  BY <1>15 DEF Pushed
<1>6. Ids(mem.rows["projects"]) \subseteq Ids(mem'.rows["projects"])
  BY <1>5 DEF Ids
<1>7. mem'.rows["upvotes"] = mem.rows["upvotes"] /\ mem'.rows["proposals"] = mem.rows["proposals"]
      /\ mem'.rows["users"] = mem.rows["users"]
  BY <1>4, <1>5 DEF AboutTables
<1>8. Owners(mem')
  BY <1>3, <1>5, <1>7, MemParts DEF Owners
<1>9. \A p \in mem'.rows["projects"] : p.userId \in Ids(mem'.rows["users"])
  <2>1. u.id \in Ids(mem.rows["users"])
    BY DEF Ids
  <2> QED BY <1>3, <1>5, <1>7, <2>1, MemParts
<1>10. \A t \in AboutTables : \A q \in mem'.rows[t] : q.projectId \in Ids(mem'.rows["projects"])
  BY <1>4, <1>5, <1>6, MemParts
<1>11. ReconcileProject(r, mem.rows["proposals"]) = r
  <2> DEFINE q == mem.rows["proposals"]
  <2>1. \A v \in q : v.projectId \in Ids(mem.rows["projects"])
    BY MemParts DEF AboutTables
  <2>2. r.id \notin Ids(mem.rows["projects"])
    BY <1>5
  <2>3. Mine(r, q) = {}
    BY <1>3, <2>1, <2>2 DEF Mine
  <2>4. Cardinality({}) = 0
    BY FS_EmptySet
  <2>5. Cardinality(Mine(r, q)) = 0 /\ Of(r, q, "small") = 0 /\ Of(r, q, "large") = 0
    BY <2>3, <2>4 DEF Of
  <2>6. Sum(r, q) = 0
    BY <2>5 DEF Sum
  <2> QED BY <1>3, <2>5, <2>6, Reconciled
<1>12. \A p \in mem'.rows["projects"] : ReconcileProject(p, mem'.rows["proposals"]) = p
  BY <1>5, <1>7, <1>11, MemParts
<1>13. /\ \A a, b \in mem'.rows["users"] : a.email = b.email => a = b
       /\ \A v, w \in mem'.rows["upvotes"] : Key(v) = Key(w) => v = w
  BY <1>7, MemParts
<1> QED BY <1>5, <1>8, <1>9, <1>10, <1>12, <1>13, SoundByParts

\* A row about a project that exists is added to a table other than the
\* proposals; a vote must be the first of its key.
LEMMA SoundWithRow ==
  ASSUME Sound(mem, Tables), NEW t \in AboutTables \ {"proposals"}, NEW row, NEW r, NEW x,
         Pushed(x, t, row, r), r.projectId \in Ids(mem.rows["projects"]),
         t = "upvotes" => \A v \in mem.rows["upvotes"] : Key(v) # Key(r)
  PROVE  Sound(x, Tables)
<1>1. /\ Tabled(x, Tables) /\ x.rows[t] = mem.rows[t] \cup {r}
      /\ \A k \in Tables \ {t} : x.rows[k] = mem.rows[k]
  BY DEF Pushed
<1>2. AboutTables \subseteq Tables /\ \A k \in {"users", "projects", "proposals"} : k \in Tables \ {t}
  BY DEF AboutTables, Tables
<1>3. /\ x.rows["users"] = mem.rows["users"] /\ x.rows["projects"] = mem.rows["projects"]
      /\ x.rows["proposals"] = mem.rows["proposals"]
  BY <1>1, <1>2
<1>4. Owners(x)
  BY <1>3, MemParts DEF Owners
<1>5. \A k \in AboutTables : \A q \in x.rows[k] : q.projectId \in Ids(x.rows["projects"])
  BY <1>1, <1>2, <1>3, MemParts
<1>6. \A v, w \in x.rows["upvotes"] : Key(v) = Key(w) => v = w
  <2>1. CASE t = "upvotes"
    BY <1>1, <2>1, MemParts
  <2>2. CASE t # "upvotes"
    <3>1. "upvotes" \in Tables \ {t}
      BY <2>2 DEF Tables
    <3> QED BY <1>1, <3>1, MemParts
  <2> QED BY <2>1, <2>2
<1>7. /\ \A p \in x.rows["projects"] : p.userId \in Ids(x.rows["users"])
      /\ \A u, v \in x.rows["users"] : u.email = v.email => u = v
      /\ \A p \in x.rows["projects"] : ReconcileProject(p, x.rows["proposals"]) = p
  BY <1>3, MemParts
<1> QED BY <1>1, <1>4, <1>5, <1>6, <1>7, SoundByParts

LEMMA SoundAtWriteLog == ASSUME Sound(mem, Tables), WriteLog PROVE Sound(mem', Tables)
<1>1. PICK p \in mem.rows["projects"] : mem' = Push("logEntries", [projectId |-> p.id, at |-> ServerDate])
  BY DEF WriteLog, Change
<1> DEFINE row == [projectId |-> p.id, at |-> ServerDate]
<1>2. NewRow(row) /\ "projectId" \in DOMAIN row /\ row["projectId"] = p.id
  BY DEF NewRow
<1> HIDE DEF row
<1>3. "logEntries" \in Tables /\ "logEntries" \in AboutTables \ {"proposals"}
  BY DEF Tables, AboutTables
<1>4. PICK r : Pushed(Push("logEntries", row), "logEntries", row, r)
  BY <1>2, <1>3, AfterPush, MemParts
<1>5. Pushed(mem', "logEntries", row, r)
  BY <1>1, <1>4 DEF row
<1>6. r.projectId \in Ids(mem.rows["projects"])
  BY <1>2, <1>5 DEF Pushed, Ids
<1> QED BY <1>3, <1>5, <1>6, SoundWithRow

LEMMA SoundAtUpvote == ASSUME Sound(mem, Tables), Upvote PROVE Sound(mem', Tables)
<1>1. PICK u \in mem.rows["users"], p \in mem.rows["projects"] :
        LET mine == {v \in mem.rows["upvotes"] : Key(v) = <<p.id, u.email>>}
        IN IF mine # {} THEN mem' = [mem EXCEPT !.rows["upvotes"] = @ \ mine]
                        ELSE mem' = Push("upvotes", [projectId |-> p.id, email |-> u.email, at |-> ServerDate])
  BY DEF Upvote, Change
<1> DEFINE mine == {v \in mem.rows["upvotes"] : Key(v) = <<p.id, u.email>>}
           row  == [projectId |-> p.id, email |-> u.email, at |-> ServerDate]
<1>2. "upvotes" \in Tables /\ "upvotes" \in AboutTables \ {"proposals"}
      /\ \A k \in {"users", "projects", "proposals"} : k \in Tables \ {"upvotes"}
      /\ AboutTables \subseteq Tables
  BY DEF Tables, AboutTables
<1>3. CASE mine # {}
  <2>1. mem' = [mem EXCEPT !.rows["upvotes"] = @ \ mine]
    BY <1>1, <1>3
  <2> HIDE DEF mine
  <2>2. /\ mem = [rows |-> mem.rows, next |-> mem.next, challenge |-> mem.challenge]
        /\ mem.rows = [t \in Tables |-> mem.rows[t]] /\ mem.next \in [Tables -> Nat \ {0}]
        /\ \A t \in Tables : /\ AreRows(mem.rows[t]) /\ OwnIds(mem.rows[t])
                             /\ \A r \in mem.rows[t] : r.id < mem.next[t]
    BY MemParts DEF Tabled
  <2>3. /\ mem' = [rows |-> mem'.rows, next |-> mem'.next, challenge |-> mem'.challenge]
        /\ mem'.rows = [mem.rows EXCEPT !["upvotes"] = @ \ mine] /\ mem'.next = mem.next
    BY <2>1, <2>2
  <2>4. /\ mem'.rows["upvotes"] = mem.rows["upvotes"] \ mine
        /\ \A k \in Tables \ {"upvotes"} : mem'.rows[k] = mem.rows[k]
        /\ mem'.rows = [t \in Tables |-> mem'.rows[t]]
    BY <1>2, <2>2, <2>3
  <2>5. AreRows(mem'.rows["upvotes"]) /\ OwnIds(mem'.rows["upvotes"])
    <3>1. AreRows(mem.rows["upvotes"]) /\ OwnIds(mem.rows["upvotes"])
      BY <1>2, <2>2
    <3>2. mem'.rows["upvotes"] \subseteq mem.rows["upvotes"]
      BY <2>4
    <3> QED BY <3>1, <3>2, FS_Subset DEF AreRows, OwnIds
  <2>6. ASSUME NEW t \in Tables
        PROVE  /\ AreRows(mem'.rows[t]) /\ OwnIds(mem'.rows[t])
               /\ \A r \in mem'.rows[t] : r.id < mem'.next[t]
    BY <2>2, <2>3, <2>4, <2>5
  <2>7. Tabled(mem', Tables)
    BY <2>2, <2>3, <2>4, <2>6 DEF Tabled
  <2>8. /\ mem'.rows["users"] = mem.rows["users"] /\ mem'.rows["projects"] = mem.rows["projects"]
        /\ mem'.rows["proposals"] = mem.rows["proposals"]
    BY <1>2, <2>4
  <2>9. Owners(mem')
    BY <2>8, MemParts DEF Owners
  <2>10. \A k \in AboutTables : mem'.rows[k] \subseteq mem.rows[k]
    BY <1>2, <2>4
  <2>11. /\ \A q \in mem'.rows["projects"] : q.userId \in Ids(mem'.rows["users"])
         /\ \A a, b \in mem'.rows["users"] : a.email = b.email => a = b
         /\ \A q \in mem'.rows["projects"] : ReconcileProject(q, mem'.rows["proposals"]) = q
         /\ \A v, w \in mem'.rows["upvotes"] : Key(v) = Key(w) => v = w
    BY <2>4, <2>8, MemParts
  <2>12. \A k \in AboutTables : \A q \in mem'.rows[k] : q.projectId \in Ids(mem'.rows["projects"])
    BY <2>8, <2>10, MemParts
  <2> QED BY <2>7, <2>9, <2>11, <2>12, SoundByParts
<1>4. CASE mine = {}
  <2>1. mem' = Push("upvotes", row)
    BY <1>1, <1>4
  <2>2. /\ NewRow(row) /\ {"projectId", "email"} \subseteq DOMAIN row
        /\ row["projectId"] = p.id /\ row["email"] = u.email
    BY DEF NewRow
  <2> HIDE DEF row
  <2>3. PICK r : Pushed(Push("upvotes", row), "upvotes", row, r)
    BY <1>2, <2>2, AfterPush, MemParts
  <2>4. Pushed(mem', "upvotes", row, r)
    BY <2>1, <2>3
  <2>5. r.projectId = p.id /\ r.email = u.email
    BY <2>2, <2>4 DEF Pushed
  <2>6. r.projectId \in Ids(mem.rows["projects"])
    BY <2>5 DEF Ids
  <2>7. \A v \in mem.rows["upvotes"] : Key(v) # Key(r)
    BY <1>4, <2>5 DEF Key
  <2> QED BY <1>2, <2>4, <2>6, <2>7, SoundWithRow
<1> QED BY <1>3, <1>4

\* One more large proposal, counted at its project and nowhere else.
LEMMA OneMore ==
  ASSUME NEW Q, IsFiniteSet(Q), NEW r, r \notin Q, r.fundingRangeId = "large", NEW p
  PROVE  /\ r.projectId # p.id => /\ Cardinality(Mine(p, Q \cup {r})) = Cardinality(Mine(p, Q))
                                  /\ Sum(p, Q \cup {r}) = Sum(p, Q)
         /\ r.projectId = p.id => /\ Cardinality(Mine(p, Q \cup {r})) = Cardinality(Mine(p, Q)) + 1
                                  /\ Sum(p, Q \cup {r}) = Sum(p, Q) + 3
         /\ Cardinality(Mine(p, Q)) \in Nat /\ Sum(p, Q) \in Nat
<1> DEFINE S == {v \in Mine(p, Q) : v.fundingRangeId = "small"}
           L == {v \in Mine(p, Q) : v.fundingRangeId = "large"}
           R == Q \cup {r}
<1>1. IsFiniteSet(Mine(p, Q)) /\ IsFiniteSet(S) /\ IsFiniteSet(L)
  <2>1. Mine(p, Q) \subseteq Q /\ S \subseteq Q /\ L \subseteq Q
    BY DEF Mine
  <2> QED BY <2>1, FS_Subset
<1>2. Cardinality(Mine(p, Q)) \in Nat /\ Cardinality(S) \in Nat /\ Cardinality(L) \in Nat
  <2> HIDE DEF S, L
  <2> QED BY <1>1, FS_CardinalityType
<1>3. Sum(p, Q) = Cardinality(S) * 1 + Cardinality(L) * 3
  BY DEF Sum, Of
<1>4. CASE r.projectId # p.id
  <2>1. Mine(p, R) = Mine(p, Q)
    BY <1>4 DEF Mine
  <2>2. Sum(p, R) = Sum(p, Q)
    BY <2>1 DEF Sum, Of
  <2> QED BY <1>2, <1>3, <1>4, <2>1, <2>2
<1>5. CASE r.projectId = p.id
  <2>1. Mine(p, R) = Mine(p, Q) \cup {r} /\ r \notin Mine(p, Q)
    BY <1>5 DEF Mine
  <2>2. {v \in Mine(p, R) : v.fundingRangeId = "small"} = S
    BY <2>1
  <2>3. {v \in Mine(p, R) : v.fundingRangeId = "large"} = L \cup {r} /\ r \notin L
    BY <2>1
  <2>4. Sum(p, R) = Cardinality(S) * 1 + Cardinality(L \cup {r}) * 3
    BY <2>2, <2>3 DEF Sum, Of
  <2> HIDE DEF S, L
  <2>5. /\ Cardinality(L \cup {r}) = Cardinality(L) + 1
        /\ Cardinality(Mine(p, Q) \cup {r}) = Cardinality(Mine(p, Q)) + 1
    BY <1>1, <2>1, <2>3, FS_AddElement
  <2>6. Sum(p, R) = Sum(p, Q) + 3 /\ Sum(p, Q) \in Nat
    <3>1. \A a, b \in Nat : a * 1 + (b + 1) * 3 = (a * 1 + b * 3) + 3 /\ a * 1 + b * 3 \in Nat
      OBVIOUS
    <3> QED BY <1>2, <1>3, <2>4, <2>5, <3>1
  <2>7. Cardinality(Mine(p, R)) = Cardinality(Mine(p, Q)) + 1
    BY <2>1, <2>5
  <2> QED BY <1>2, <1>5, <2>6, <2>7
<1> QED BY <1>4, <1>5

LEMMA SoundAtPropose == ASSUME Sound(mem, Tables), Propose PROVE Sound(mem', Tables)
<1>1. PICK p \in mem.rows["projects"] :
        mem' = [Push("proposals", [projectId |-> p.id, fundingRangeId |-> "large", at |-> ServerDate])
                  EXCEPT !.rows["projects"] = {Counted(q, p) : q \in @}]
  BY DEF Propose, Change
<1> DEFINE row == [projectId |-> p.id, fundingRangeId |-> "large", at |-> ServerDate]
           x == Push("proposals", row)
           P == mem.rows["projects"]
           Q == mem.rows["proposals"]
           F == [q \in P |-> Counted(q, p)]
<1>2. /\ NewRow(row) /\ {"projectId", "fundingRangeId"} \subseteq DOMAIN row
      /\ row["projectId"] = p.id /\ row["fundingRangeId"] = "large"
  BY DEF NewRow
<1>3. mem' = [x EXCEPT !.rows["projects"] = {Counted(q, p) : q \in @}]
  BY <1>1
<1> HIDE DEF row, x
<1>4. /\ {"users", "projects", "proposals", "upvotes"} \subseteq Tables
      /\ \A k \in {"users", "projects", "upvotes"} : k \in Tables \ {"proposals"}
      /\ \A k \in {"users", "proposals", "upvotes"} : k \in Tables \ {"projects"}
      /\ AboutTables \subseteq Tables \ {"projects"}
      /\ "proposals" \in AboutTables
  BY DEF Tables, AboutTables
<1>5. PICK r : Pushed(x, "proposals", row, r)
  BY <1>2, <1>4, AfterPush, MemParts DEF x
<1>6. /\ r.projectId = p.id /\ r.fundingRangeId = "large" /\ r.id \notin Ids(Q)
      /\ Tabled(x, Tables) /\ x.rows["proposals"] = Q \cup {r}
      /\ \A k \in Tables \ {"proposals"} : x.rows[k] = mem.rows[k]
  BY <1>2, <1>5 DEF Pushed
<1>7. x.rows["projects"] = P /\ x.rows["users"] = mem.rows["users"]
      /\ x.rows["upvotes"] = mem.rows["upvotes"]
  BY <1>4, <1>6
<1>8. /\ x = [rows |-> x.rows, next |-> x.next, challenge |-> x.challenge]
      /\ x.rows = [t \in Tables |-> x.rows[t]] /\ x.next \in [Tables -> Nat \ {0}]
      /\ \A t \in Tables : /\ AreRows(x.rows[t]) /\ OwnIds(x.rows[t])
                           /\ \A q \in x.rows[t] : q.id < x.next[t]
  BY <1>6 DEF Tabled
<1> DEFINE C == {F[q] : q \in P}
<1>9. /\ mem' = [rows |-> mem'.rows, next |-> mem'.next, challenge |-> mem'.challenge]
      /\ mem'.rows = [x.rows EXCEPT !["projects"] = C] /\ mem'.next = x.next
  <2>1. {Counted(q, p) : q \in x.rows["projects"]} = C
    BY <1>7
  <2> HIDE DEF C
  <2> QED BY <1>3, <1>8, <2>1
<1>10. AreRows(P) /\ OwnIds(P) /\ AreRows(Q)
  BY <1>4, MemParts DEF Tabled
<1>11. r \notin Q
  BY <1>6 DEF Ids
<1>12. \A q \in P : F[q] = Counted(q, p)
  OBVIOUS
<1>13. ASSUME NEW q \in P
       PROVE  /\ IsRow(F[q]) /\ F[q].id = q.id
              /\ "userId" \in DOMAIN F[q] /\ F[q].userId = q.userId
              /\ ReconcileProject(F[q], Q \cup {r}) = F[q]
  <2>1. IsRow(q) /\ "userId" \in DOMAIN q /\ ReconcileProject(q, Q) = q
    BY <1>10, MemParts DEF AreRows, Owners
  <2>2. /\ {"matchCount", "committed"} \subseteq DOMAIN q /\ "ownerEmail" \notin DOMAIN q
        /\ q.matchCount = Cardinality(Mine(q, Q)) /\ q.committed = Sum(q, Q)
    BY <2>1, Reconciled
  <2>3. IsFiniteSet(Q)
    BY <1>10 DEF AreRows
  <2>4. CASE q.id # p.id
    <3>1. F[q] = q
      BY <1>12, <2>4 DEF Counted
    <3>2. Cardinality(Mine(q, Q \cup {r})) = Cardinality(Mine(q, Q)) /\ Sum(q, Q \cup {r}) = Sum(q, Q)
      BY <1>6, <1>11, <2>3, <2>4, OneMore
    <3>3. ReconcileProject(q, Q \cup {r}) = q
      BY <2>1, <2>2, <3>2, Reconciled
    <3> QED BY <2>1, <3>1, <3>3
  <2>5. CASE q.id = p.id
    <3> DEFINE c == [q EXCEPT !.matchCount = @ + 1, !.committed = @ + 3]
    <3>1. F[q] = c
      BY <1>12, <2>5 DEF Counted, Amount
    <3>2. /\ Cardinality(Mine(q, Q \cup {r})) = Cardinality(Mine(q, Q)) + 1
          /\ Sum(q, Q \cup {r}) = Sum(q, Q) + 3
      BY <1>6, <1>11, <2>3, <2>5, OneMore
    <3>3. /\ c = [n \in DOMAIN c |-> c[n]] /\ DOMAIN c = DOMAIN q
          /\ c.matchCount = q.matchCount + 1 /\ c.committed = q.committed + 3
          /\ \A n \in DOMAIN q \ {"matchCount", "committed"} : c[n] = q[n]
      BY <2>1, <2>2 DEF IsRow
    <3> HIDE DEF c
    <3>4. "id" \in DOMAIN q \ {"matchCount", "committed"} /\ "userId" \in DOMAIN q \ {"matchCount", "committed"}
      BY <2>1 DEF IsRow
    <3>5. IsRow(c) /\ c.id = q.id /\ c.userId = q.userId /\ "userId" \in DOMAIN c
      BY <3>3, <3>4 DEF IsRow
    <3>6. Mine(c, Q \cup {r}) = Mine(q, Q \cup {r}) /\ Sum(c, Q \cup {r}) = Sum(q, Q \cup {r})
      BY <3>5 DEF Mine, Sum, Of
    <3>7. ReconcileProject(c, Q \cup {r}) = c
      BY <2>2, <3>2, <3>3, <3>5, <3>6, Reconciled
    <3> QED BY <3>1, <3>5, <3>7
  <2> QED BY <2>4, <2>5
<1>14. IsFiniteSet(C)
  <2> HIDE DEF F
  <2> QED BY <1>10, FiniteImage DEF AreRows
<1>15. \A c \in C : \E q \in P : c = F[q]
  OBVIOUS
<1>16. \A q \in P : F[q] \in C
  OBVIOUS
<1> HIDE DEF F, C
<1>17. AreRows(C) /\ OwnIds(C) /\ Ids(C) = Ids(P)
  <2>1. AreRows(C)
    BY <1>10, <1>13, <1>14, <1>15 DEF AreRows
  <2>2. OwnIds(C)
    BY <1>10, <1>13, <1>15 DEF OwnIds
  <2>3. Ids(C) = Ids(P)
    BY <1>13, <1>15, <1>16 DEF Ids
  <2> QED BY <2>1, <2>2, <2>3
<1>18. /\ mem'.rows["projects"] = C
       /\ \A k \in Tables \ {"projects"} : mem'.rows[k] = x.rows[k]
       /\ mem'.rows = [t \in Tables |-> mem'.rows[t]]
  BY <1>4, <1>8, <1>9
<1>19. mem'.rows["proposals"] = Q \cup {r} /\ mem'.rows["users"] = mem.rows["users"]
       /\ mem'.rows["upvotes"] = mem.rows["upvotes"]
  BY <1>4, <1>6, <1>7, <1>18
<1>20. \A c \in C : c.id < mem'.next["projects"]
  <2>1. \A q \in P : q.id < x.next["projects"]
    BY <1>4, <1>7, <1>8
  <2> QED BY <1>9, <1>13, <1>15, <2>1
<1>21. Tabled(mem', Tables)
  <2>1. ASSUME NEW t \in Tables
        PROVE  /\ AreRows(mem'.rows[t]) /\ OwnIds(mem'.rows[t])
               /\ \A q \in mem'.rows[t] : q.id < mem'.next[t]
    BY <1>8, <1>9, <1>17, <1>18, <1>20
  <2> QED BY <1>8, <1>9, <1>18, <2>1 DEF Tabled
<1>22. Owners(mem')
  BY <1>13, <1>15, <1>18, <1>19, MemParts DEF Owners
<1>23. \A c \in mem'.rows["projects"] : c.userId \in Ids(mem'.rows["users"])
  BY <1>13, <1>15, <1>18, <1>19, MemParts
<1>24. \A k \in AboutTables : \A q \in mem'.rows[k] : q.projectId \in Ids(mem'.rows["projects"])
  <2> SUFFICES ASSUME NEW k \in AboutTables, NEW q \in mem'.rows[k]
               PROVE  q.projectId \in Ids(P)
    BY <1>17, <1>18
  <2>1. \A v \in mem.rows[k] : v.projectId \in Ids(P)
    BY MemParts
  <2>2. p.id \in Ids(P)
    BY DEF Ids
  <2>3. CASE k = "proposals"
    BY <1>6, <1>19, <2>1, <2>2, <2>3
  <2>4. CASE k # "proposals"
    <3>1. k \in Tables \ {"projects"} /\ k \in Tables \ {"proposals"}
      BY <1>4, <2>4
    <3> QED BY <1>6, <1>18, <2>1, <3>1
  <2> QED BY <2>3, <2>4
<1>25. \A c \in mem'.rows["projects"] : ReconcileProject(c, mem'.rows["proposals"]) = c
  BY <1>13, <1>15, <1>18, <1>19
<1>26. /\ \A a, b \in mem'.rows["users"] : a.email = b.email => a = b
       /\ \A v, w \in mem'.rows["upvotes"] : Key(v) = Key(w) => v = w
  BY <1>19, MemParts
<1> QED BY <1>21, <1>22, <1>23, <1>24, <1>25, <1>26, SoundByParts

------------------------------------------------------------------------------
(* Seeding again.                                                             *)

\* A row that has every field of another.
Laid(n, u) == DOMAIN n \subseteq DOMAIN u /\ \A k \in DOMAIN n : u[k] = n[k]

LEMMA LaidOver == ASSUME NEW n, NEW o PROVE Laid(n, Over(n, o))
BY DEF Laid, Over

LEMMA LaidAgain == ASSUME NEW n, NEW u, IsRow(u), Laid(n, u) PROVE Over(n, u) = u
BY DEF Laid, Over, IsRow

LEMMA LaidByUpsert ==
  ASSUME NEW T, NEW N, AreRows(T), OwnIds(T), AreRows(N), OwnIds(N),
         NEW u \in UpsertById(T, N), NEW n \in N, u.id = n.id
  PROVE  Laid(n, u)
<1>1. n.id \in Ids(N)
  BY DEF Ids
<1>2. CASE u \in N
  <2>1. u = n
    BY <1>2 DEF OwnIds
  <2> QED BY <2>1 DEF Laid
<1>3. CASE \E m \in N : \E o \in T : o.id = m.id /\ u = Over(m, o)
  <2>1. PICK m \in N, o \in T : u = Over(m, o)
    BY <1>3
  <2>2. "id" \in DOMAIN m
    BY DEF AreRows, IsRow
  <2>3. u.id = m.id
    BY <2>1, <2>2 DEF Over
  <2>4. m = n
    BY <2>3 DEF OwnIds
  <2> QED BY <2>1, <2>4, LaidOver
<1> QED BY <1>1, <1>2, <1>3, UpsertedRow

\* What an upsert makes of rows that all the incoming ones have a row among.
LEMMA UpsertedOver ==
  ASSUME NEW X, NEW N, OwnIds(X), Ids(N) \subseteq Ids(X)
  PROVE  /\ \A y \in UpsertById(X, N) :
              \/ y \in X /\ y.id \notin Ids(N)
              \/ \E n \in N : \E x \in X : x.id = n.id /\ y = Over(n, x)
         /\ \A x \in X : x.id \notin Ids(N) => x \in UpsertById(X, N)
         /\ \A x \in X : \A n \in N : x.id = n.id => Over(n, x) \in UpsertById(X, N)
<1>1. \A n \in N : n.id \in Ids(X)
  BY DEF Ids
<1>2. \A x \in X : \A n \in N : x.id = n.id => RowOf(X, n.id) = x
  BY RowFound
<1>3. \A n \in N : Over(n, RowOf(X, n.id)) \in UpsertById(X, N)
  BY <1>1 DEF UpsertById
<1>4. \A x \in X : x.id \notin Ids(N) => x \in UpsertById(X, N)
  BY DEF UpsertById
<1> QED BY <1>1, <1>2, <1>3, <1>4, UpsertedRow

LEMMA UpsertTwice ==
  ASSUME NEW T, NEW N, AreRows(T), OwnIds(T), AreRows(N), OwnIds(N)
  PROVE  UpsertById(UpsertById(T, N), N) = UpsertById(T, N)
<1> DEFINE U == UpsertById(T, N)
<1>1. AreRows(U) /\ OwnIds(U) /\ Ids(N) \subseteq Ids(U)
  BY Upserted
<1>2. \A u \in U : \A n \in N : u.id = n.id => Over(n, u) = u
  BY <1>1, LaidByUpsert, LaidAgain DEF AreRows
<1> HIDE DEF U
<1>3. \A u \in U : u.id \in Ids(N) => \E n \in N : n.id = u.id
  BY DEF Ids
<1>4. U \subseteq UpsertById(U, N)
  BY <1>1, <1>2, <1>3, UpsertedOver
<1>5. UpsertById(U, N) \subseteq U
  BY <1>1, <1>2, UpsertedOver
<1> QED BY <1>4, <1>5 DEF U

\* The same with the figures counted after every upsert.
LEMMA ReconciledOver ==
  ASSUME NEW q, NEW x, IsRow(x), ReconcileProject(x, q) = x, NEW n, n.id = x.id,
         "id" \in DOMAIN n, {"matchCount", "committed"} \cap DOMAIN n = {},
         \A k \in DOMAIN n \ {"ownerEmail"} : k \in DOMAIN x /\ x[k] = n[k]
  PROVE  ReconcileProject(Over(n, x), q) = x
<1> DEFINE y == Over(n, x)
           r == ReconcileProject(y, q)
<1>1. /\ IsRow(y) /\ y.id = x.id /\ DOMAIN y = DOMAIN n \cup DOMAIN x
      /\ \A k \in DOMAIN x \ {"ownerEmail"} : y[k] = x[k]
  BY DEF Over, IsRow
<1> HIDE DEF y
<1>2. /\ IsRow(r) /\ r.id = y.id /\ ReconcileProject(r, q) = r
      /\ DOMAIN r = (DOMAIN y \ {"ownerEmail"}) \cup {"matchCount", "committed"}
      /\ \A k \in DOMAIN y \ {"ownerEmail", "matchCount", "committed"} : r[k] = y[k]
  BY <1>1, ReconciledRow
<1> HIDE DEF r
<1>3. /\ r.matchCount = Cardinality(Mine(r, q)) /\ r.committed = Sum(r, q)
  BY <1>2, Reconciled
<1>4. /\ {"matchCount", "committed"} \subseteq DOMAIN x /\ "ownerEmail" \notin DOMAIN x
      /\ x.matchCount = Cardinality(Mine(x, q)) /\ x.committed = Sum(x, q)
  BY Reconciled
<1>5. Mine(r, q) = Mine(x, q) /\ Sum(r, q) = Sum(x, q)
  BY <1>1, <1>2 DEF Mine, Sum, Of
<1>6. DOMAIN r = DOMAIN x
  BY <1>1, <1>2, <1>4
<1>7. \A k \in DOMAIN x : r[k] = x[k]
  BY <1>1, <1>2, <1>3, <1>4, <1>5
<1>8. r = [k \in DOMAIN r |-> r[k]] /\ x = [k \in DOMAIN x |-> x[k]]
  BY <1>2 DEF IsRow
<1>9. r = x
  BY <1>6, <1>7, <1>8
<1> QED BY <1>9 DEF r, y

LEMMA ProjectsTwice ==
  ASSUME NEW T, NEW N, NEW q, AreRows(T), OwnIds(T), AreRows(N), OwnIds(N),
         \A n \in N : {"matchCount", "committed"} \cap DOMAIN n = {}
  PROVE  LET X == Reconcile(UpsertById(T, N), q)
         IN  Reconcile(UpsertById(X, N), q) = X /\ Ids(UpsertById(X, N)) = Ids(UpsertById(T, N))
<1> DEFINE U == UpsertById(T, N)
           X == Reconcile(U, q)
           Y == UpsertById(X, N)
<1>1. AreRows(U) /\ OwnIds(U) /\ Ids(U) = Ids(T) \cup Ids(N)
  BY Upserted
<1>2. \A u \in U : \A n \in N : u.id = n.id => Laid(n, u)
  BY LaidByUpsert
<1> HIDE DEF U
<1>3. AreRows(X) /\ OwnIds(X) /\ Ids(X) = Ids(U)
  BY <1>1, ReconciledRows
<1>4. \A x \in X : \E u \in U : x = ReconcileProject(u, q)
  BY DEF Reconcile
<1> HIDE DEF X
<1>5. ASSUME NEW x \in X
      PROVE  /\ IsRow(x) /\ ReconcileProject(x, q) = x
             /\ \A n \in N : x.id = n.id => ReconcileProject(Over(n, x), q) = x
  <2>1. PICK u \in U : x = ReconcileProject(u, q)
    BY <1>4
  <2>2. IsRow(u)
    BY <1>1 DEF AreRows
  <2>3. /\ IsRow(x) /\ x.id = u.id /\ ReconcileProject(x, q) = x
        /\ DOMAIN x = (DOMAIN u \ {"ownerEmail"}) \cup {"matchCount", "committed"}
        /\ \A k \in DOMAIN u \ {"ownerEmail", "matchCount", "committed"} : x[k] = u[k]
    BY <2>1, <2>2, ReconciledRow
  <2>4. ASSUME NEW n \in N, x.id = n.id PROVE ReconcileProject(Over(n, x), q) = x
    <3>1. Laid(n, u)
      BY <1>2, <2>3, <2>4
    <3>2. \A k \in DOMAIN n \ {"ownerEmail"} : k \in DOMAIN x /\ x[k] = n[k]
      BY <2>3, <3>1 DEF Laid
    <3>3. "id" \in DOMAIN n /\ {"matchCount", "committed"} \cap DOMAIN n = {}
      BY DEF AreRows, IsRow
    <3> QED BY <2>3, <2>4, <3>2, <3>3, ReconciledOver
  <2> QED BY <2>3, <2>4
<1>6. Ids(N) \subseteq Ids(X)
  BY <1>1, <1>3
<1>7. \A y \in Y : ReconcileProject(y, q) \in X
  BY <1>3, <1>5, <1>6, UpsertedOver
<1>8. \A x \in X : \E y \in Y : x = ReconcileProject(y, q)
  <2>1. \A x \in X : x.id \in Ids(N) => \E n \in N : n.id = x.id
    BY DEF Ids
  <2> QED BY <1>3, <1>5, <1>6, <2>1, UpsertedOver
<1>9. Ids(Y) = Ids(X) \cup Ids(N)
  BY <1>3, Upserted
<1> HIDE DEF Y
<1>10. Reconcile(Y, q) = X
  BY <1>7, <1>8 DEF Reconcile
<1> QED BY <1>1, <1>3, <1>9, <1>10 DEF U, X, Y

\* The accounts, one by one: what the last of an address says is what stays.
Patch(a)         == [role |-> a.role, name |-> a.name]
HasAccount(u, a) == {"role", "name"} \subseteq DOMAIN u /\ u.role = a.role /\ u.name = a.name
LastAt(accounts, k, n, e) ==
  k \in 1..n /\ accounts[k].email = e /\ \A j \in 1..n : k < j => accounts[j].email # e
Given(accounts, n, U) ==
  \A k \in 1..n : \E u \in U :
     /\ u.email = accounts[k].email
     /\ LastAt(accounts, k, n, u.email) => HasAccount(u, accounts[k])

LEMMA SeedUserGives ==
  ASSUME NEW acc, UsersFit(acc), NEW a \in Account
  PROVE  /\ \E u \in SeedUser(acc, a).users : u.email = a.email /\ HasAccount(u, a)
         /\ \A u \in acc.users : u.email # a.email => u \in SeedUser(acc, a).users
         /\ (\E u \in acc.users : u.email = a.email) =>
              /\ \A w \in SeedUser(acc, a).users : \E u \in acc.users :
                   w = IF u.email = a.email THEN Over(Patch(a), u) ELSE u
              /\ \A u \in acc.users :
                   (IF u.email = a.email THEN Over(Patch(a), u) ELSE u) \in SeedUser(acc, a).users
<1> DEFINE same == {u \in acc.users : u.email = a.email}
<1>1. acc = [users |-> acc.users, next |-> acc.next]
  BY DEF UsersFit
<1>2. CASE same # {}
  <2>1. SeedUser(acc, a).users = (acc.users \ same) \cup {Over(Patch(a), u) : u \in same}
    <3>1. SeedUser(acc, a) = [acc EXCEPT !.users = (@ \ same) \cup {Over(Patch(a), u) : u \in same}]
      BY <1>2 DEF SeedUser, Patch
    <3> DEFINE V == {Over(Patch(a), u) : u \in same}
    <3> HIDE DEF same, V
    <3>2. SeedUser(acc, a) = [acc EXCEPT !.users = (@ \ same) \cup V]
      BY <3>1 DEF V
    <3> QED BY <1>1, <3>2 DEF V
  <2>2. ASSUME NEW u \in same
        PROVE  Over(Patch(a), u).email = a.email /\ HasAccount(Over(Patch(a), u), a)
    <3>1. "email" \in DOMAIN u /\ u.email = a.email
      BY DEF UsersFit
    <3> QED BY <3>1 DEF Over, Patch, HasAccount
  <2> QED BY <1>2, <2>1, <2>2
<1>3. CASE same = {}
  <2>1. \E i, n : SeedUser(acc, a) = [users |-> acc.users \cup {[a EXCEPT !.id = i]}, next |-> n]
    BY <1>3 DEF SeedUser
  <2>2. PICK i, n : SeedUser(acc, a) = [users |-> acc.users \cup {[a EXCEPT !.id = i]}, next |-> n]
    BY <2>1
  <2> DEFINE b == [a EXCEPT !.id = i]
  <2>3. b.email = a.email /\ HasAccount(b, a)
    BY DEF Account, HasAccount
  <2> HIDE DEF b
  <2>4. SeedUser(acc, a).users = acc.users \cup {b}
    BY <2>2 DEF b
  <2> QED BY <1>3, <2>3, <2>4
<1> QED BY <1>2, <1>3

LEMMA FirstRun ==
  ASSUME NEW s, NEW accounts \in Seq(Account), UsersFit(UsersOf(s)), NEW n \in 0..Len(accounts)
  PROVE  Given(accounts, n, AllSteps("data", s, accounts)[n].users)
<1> DEFINE g == AllSteps("data", s, accounts)
           Fit(k) == Given(accounts, k, g[k].users)
           T == {k \in Nat : k <= Len(accounts) => Fit(k)}
<1>1. \A k \in 0..Len(accounts) : k # 0 => g[k] = SeedUser(g[k - 1], accounts[k])
  BY EveryStep DEF OneStep, Step
<1>2. \A k \in 0..Len(accounts) : UsersFit(g[k])
  BY StepsFit
<1> HIDE DEF g
<1>3. Len(accounts) \in Nat
  OBVIOUS
<1>4. 0 \in T
  BY DEF Given
<1>5. ASSUME NEW k \in T PROVE k + 1 \in T
  <2> SUFFICES ASSUME k + 1 <= Len(accounts) PROVE Fit(k + 1)
    OBVIOUS
  <2>1. k \in Nat /\ k <= Len(accounts)
    <3>1. k \in Nat
      OBVIOUS
    <3> HIDE DEF T
    <3> QED BY <1>3, <3>1
  <2>2. Fit(k)
    BY <2>1
  <2> DEFINE a == accounts[k + 1]
             U == g[k].users
             V == g[k + 1].users
  <2>3. a \in Account /\ UsersFit(g[k]) /\ g[k + 1] = SeedUser(g[k], a)
    <3>1. k + 1 \in 0..Len(accounts) /\ k + 1 # 0 /\ (k + 1) - 1 = k /\ k \in 0..Len(accounts)
          /\ k + 1 \in 1..Len(accounts)
      BY <1>3, <2>1
    <3> QED BY <1>1, <1>2, <3>1
  <2>4. /\ \E u \in V : u.email = a.email /\ HasAccount(u, a)
        /\ \A u \in U : u.email # a.email => u \in V
    BY <2>3, SeedUserGives
  <2>5. Given(accounts, k, U)
    BY <2>2
  <2> HIDE DEF U, V, T, Fit
  <2>6. ASSUME NEW i \in 1..k + 1
        PROVE  \E u \in V : /\ u.email = accounts[i].email
                            /\ LastAt(accounts, i, k + 1, u.email) => HasAccount(u, accounts[i])
    <3>1. CASE i = k + 1
      BY <2>4, <3>1
    <3>2. CASE i # k + 1 /\ accounts[i].email = a.email
      <4>1. PICK u \in V : u.email = a.email
        BY <2>4
      <4>2. ~LastAt(accounts, i, k + 1, u.email)
        BY <2>1, <3>2, <4>1 DEF LastAt
      <4> QED BY <3>2, <4>1, <4>2
    <3>3. CASE i # k + 1 /\ accounts[i].email # a.email
      <4>1. i \in 1..k
        BY <2>1, <3>3
      <4>2. PICK u \in U : /\ u.email = accounts[i].email
                           /\ LastAt(accounts, i, k, u.email) => HasAccount(u, accounts[i])
        BY <2>5, <4>1 DEF Given
      <4>3. LastAt(accounts, i, k + 1, u.email) => LastAt(accounts, i, k, u.email)
        <5>1. \A j \in 1..k : j \in 1..k + 1
          BY <2>1
        <5> QED BY <4>1, <5>1 DEF LastAt
      <4> QED BY <2>4, <3>3, <4>2, <4>3
    <3> QED BY <3>1, <3>2, <3>3
  <2>7. Given(accounts, k + 1, V)
    BY <2>6 DEF Given
  <2> QED BY <2>7 DEF Fit, V
<1>6. T \in SUBSET Nat
  OBVIOUS
<1> HIDE DEF T, Fit
<1>7. n \in T /\ n <= Len(accounts)
  <2>1. T = Nat
    BY <1>4, <1>5, <1>6, NaturalsBySuccessor
  <2>2. n \in Nat /\ n <= Len(accounts)
    BY <1>3
  <2> QED BY <2>1, <2>2
<1>8. Fit(n)
  BY <1>7 DEF T
<1> QED BY <1>8 DEF Fit, g

\* What a second run has made of a user so far.
Stamped(w, u, accounts, n) ==
  \/ w = u /\ \A k \in 1..n : accounts[k].email # u.email
  \/ \E k \in 1..n : LastAt(accounts, k, n, u.email) /\ w = Over(Patch(accounts[k]), u)
AllStamped(W, X, accounts, n) ==
  /\ \A w \in W : \E u \in X : Stamped(w, u, accounts, n)
  /\ \A u \in X : \E w \in W : Stamped(w, u, accounts, n)

LEMMA StampedAddress ==
  ASSUME NEW u, "email" \in DOMAIN u, NEW w, NEW accounts, NEW n, Stamped(w, u, accounts, n)
  PROVE  w.email = u.email
<1>1. \A a : Over(Patch(a), u).email = u.email
  BY DEF Over, Patch
<1> QED BY <1>1 DEF Stamped

LEMMA PatchedTwice ==
  ASSUME NEW a, NEW b, NEW u PROVE Over(Patch(a), Over(Patch(b), u)) = Over(Patch(a), u)
BY DEF Over, Patch

LEMMA NextStamp ==
  ASSUME NEW accounts, NEW n \in Nat, NEW u, "email" \in DOMAIN u, NEW w, Stamped(w, u, accounts, n)
  PROVE  LET a == accounts[n + 1]
         IN  Stamped(IF w.email = a.email THEN Over(Patch(a), w) ELSE w, u, accounts, n + 1)
<1> DEFINE a == accounts[n + 1]
<1>1. w.email = u.email
  BY StampedAddress
<1>2. \A j \in 1..n + 1 : j \in 1..n \/ j = n + 1
  OBVIOUS
<1>3. \A j \in 1..n : j \in 1..n + 1
  OBVIOUS
<1>4. CASE w.email = a.email
  <2>1. LastAt(accounts, n + 1, n + 1, u.email)
    BY <1>1, <1>4 DEF LastAt
  <2>2. Over(Patch(a), w) = Over(Patch(a), u)
    BY PatchedTwice DEF Stamped
  <2>3. n + 1 \in 1..n + 1
    OBVIOUS
  <2> QED BY <1>4, <2>1, <2>2, <2>3 DEF Stamped
<1>5. CASE w.email # a.email
  <2>1. CASE w = u /\ \A k \in 1..n : accounts[k].email # u.email
    <3>1. \A k \in 1..n + 1 : accounts[k].email # u.email
      BY <1>1, <1>2, <1>5, <2>1
    <3> QED BY <1>5, <2>1, <3>1 DEF Stamped
  <2>2. CASE \E k \in 1..n : LastAt(accounts, k, n, u.email) /\ w = Over(Patch(accounts[k]), u)
    <3>1. PICK k \in 1..n : LastAt(accounts, k, n, u.email) /\ w = Over(Patch(accounts[k]), u)
      BY <2>2
    <3>2. LastAt(accounts, k, n + 1, u.email)
      BY <1>1, <1>2, <1>3, <1>5, <3>1 DEF LastAt
    <3>3. k \in 1..n + 1
      BY <1>3
    <3> QED BY <1>5, <3>1, <3>2, <3>3 DEF Stamped
  <2> QED BY <2>1, <2>2 DEF Stamped
<1> QED BY <1>4, <1>5

LEMMA SecondRun ==
  ASSUME NEW x, NEW accounts \in Seq(Account), UsersFit(UsersOf(x)),
         Given(accounts, Len(accounts), x.rows["users"]), NEW n \in 0..Len(accounts)
  PROVE  AllStamped(AllSteps("data", x, accounts)[n].users, x.rows["users"], accounts, n)
<1> DEFINE g == AllSteps("data", x, accounts)
           X == x.rows["users"]
           Fit(k) == AllStamped(g[k].users, X, accounts, k)
           T == {k \in Nat : k <= Len(accounts) => Fit(k)}
<1>1. \A k \in 0..Len(accounts) :
        g[k] = IF k = 0 THEN UsersOf(x) ELSE SeedUser(g[k - 1], accounts[k])
  BY EveryStep DEF OneStep, Step
<1>2. \A k \in 0..Len(accounts) : UsersFit(g[k])
  BY StepsFit
<1>3. \A u \in X : "email" \in DOMAIN u
  BY DEF UsersFit, UsersOf
<1> HIDE DEF g
<1>4. Len(accounts) \in Nat
  OBVIOUS
<1>5. 0 \in T
  <2>1. g[0].users = X
    BY <1>1, <1>4 DEF UsersOf
  <2> HIDE DEF X
  <2>2. \A u \in X : Stamped(u, u, accounts, 0)
    BY DEF Stamped
  <2> QED BY <2>1, <2>2 DEF AllStamped
<1>6. ASSUME NEW k \in T PROVE k + 1 \in T
  <2> SUFFICES ASSUME k + 1 <= Len(accounts) PROVE Fit(k + 1)
    OBVIOUS
  <2>1. k \in Nat /\ k <= Len(accounts)
    <3>1. k \in Nat
      OBVIOUS
    <3> HIDE DEF T
    <3> QED BY <1>4, <3>1
  <2>2. AllStamped(g[k].users, X, accounts, k)
    BY <2>1
  <2> DEFINE a == accounts[k + 1]
             U == g[k].users
             V == g[k + 1].users
             touch(w) == IF w.email = a.email THEN Over(Patch(a), w) ELSE w
  <2>3. a \in Account /\ UsersFit(g[k]) /\ g[k + 1] = SeedUser(g[k], a) /\ k + 1 \in 1..Len(accounts)
    <3>1. k + 1 \in 0..Len(accounts) /\ k + 1 # 0 /\ (k + 1) - 1 = k /\ k \in 0..Len(accounts)
          /\ k + 1 \in 1..Len(accounts)
      BY <1>4, <2>1
    <3> QED BY <1>1, <1>2, <3>1
  <2>4. \E w \in U : w.email = a.email
    <3>1. PICK u \in X : u.email = a.email
      BY <2>3 DEF Given
    <3>2. PICK w \in U : Stamped(w, u, accounts, k)
      BY <2>2 DEF AllStamped
    <3> QED BY <1>3, <3>1, <3>2, StampedAddress
  <2>5. /\ \A v \in V : \E w \in U : v = touch(w)
        /\ \A w \in U : touch(w) \in V
    BY <2>3, <2>4, SeedUserGives
  <2>6. ASSUME NEW w, NEW u \in X, Stamped(w, u, accounts, k)
        PROVE  Stamped(touch(w), u, accounts, k + 1)
    BY <1>3, <2>1, <2>6, NextStamp
  <2> HIDE DEF U, V, touch, X, a
  <2>7. AllStamped(V, X, accounts, k + 1)
    BY <2>2, <2>5, <2>6 DEF AllStamped, U
  <2> QED BY <2>7 DEF V
<1>7. T \in SUBSET Nat
  OBVIOUS
<1> HIDE DEF T, Fit
<1>8. n \in T /\ n <= Len(accounts)
  <2>1. T = Nat
    BY <1>5, <1>6, <1>7, NaturalsBySuccessor
  <2>2. n \in Nat /\ n <= Len(accounts)
    BY <1>4
  <2> QED BY <2>1, <2>2
<1>9. Fit(n)
  BY <1>8 DEF T
<1> QED BY <1>9 DEF Fit, g

LEMMA UsersTwice ==
  ASSUME NEW x, NEW accounts \in Seq(Account), UsersFit(UsersOf(x)),
         Given(accounts, Len(accounts), x.rows["users"])
  PROVE  SeedUsers(x, accounts).users = x.rows["users"]
<1> DEFINE X == x.rows["users"]
           L == Len(accounts)
           W == SeedUsers(x, accounts).users
<1>1. L \in 0..L /\ L \in Nat
  OBVIOUS
<1>2. AllStamped(W, X, accounts, L)
  BY <1>1, SecondRun, SeedUsersUnfolded
<1>3. \A u \in X : IsRow(u) /\ "email" \in DOMAIN u
  BY DEF UsersFit, UsersOf, AreRows
<1>4. \A u, v \in X : u.email = v.email => u = v
  BY DEF UsersFit, UsersOf
<1>5. Given(accounts, L, X)
  OBVIOUS
<1> HIDE DEF X, L, W
<1>6. ASSUME NEW w, NEW u \in X, Stamped(w, u, accounts, L) PROVE w = u
  <2>1. ASSUME NEW k \in 1..L, LastAt(accounts, k, L, u.email) PROVE Over(Patch(accounts[k]), u) = u
    <3>1. accounts[k].email = u.email
      BY <2>1 DEF LastAt
    <3>2. PICK v \in X : /\ v.email = accounts[k].email
                         /\ LastAt(accounts, k, L, v.email) => HasAccount(v, accounts[k])
      BY <1>5 DEF Given
    <3>3. v = u
      BY <1>4, <3>1, <3>2
    <3>4. HasAccount(u, accounts[k])
      BY <2>1, <3>2, <3>3
    <3>5. Laid(Patch(accounts[k]), u)
      BY <3>4 DEF Laid, Patch, HasAccount
    <3> QED BY <1>3, <3>5, LaidAgain
  <2> QED BY <1>6, <2>1 DEF Stamped
<1>7. W = X
  <2>1. /\ \A w \in W : \E u \in X : Stamped(w, u, accounts, L)
        /\ \A u \in X : \E w \in W : Stamped(w, u, accounts, L)
    BY <1>2 DEF AllStamped
  <2>2. \A w \in W : w \in X
    BY <1>6, <2>1
  <2>3. \A u \in X : u \in W
    BY <1>6, <2>1
  <2> QED BY <2>2, <2>3
<1> QED BY <1>7 DEF W, X

\* The same fixture into what it was seeded into.
LEMMA SeededTwice ==
  ASSUME NEW s, Sound(s, DataTables), NEW f, Loaded(f), NEW x, x = SeedData(s, f).state
  PROVE  \A t \in DataTables \ {"upvotes"} : SeedData(LoadData(x), f).state.rows[t] = x.rows[t]
<1> DEFINE y == LoadData(x)
           N == OwnedOf(s, f)
           rows == SeededRows(s, f)
           again == SeededRows(y, f)
<1>1. Sound(x, DataTables)
  BY SeededIsSound
<1>2. Sound(y, DataTables)
  BY <1>1, ReadBack, ScriptsRead DEF KnownTables
<1>3. x.rows = rows
  <2> HIDE DEF rows
  <2> QED BY SeededRowsOf DEF rows
<1>4. SeedData(y, f).state.rows = again
  <2> HIDE DEF y
  <2> QED BY SeededRowsOf
<1>5. /\ rows["users"] = Acc(s, f).users
      /\ rows["projects"] = Reconcile(ProjectsOf(s, f), rows["proposals"])
      /\ \A t \in OtherTables : rows[t] = UpsertById(s.rows[t], Incoming(s, f, t))
  BY SeededTables
<1>6. /\ again["users"] = Acc(y, f).users
      /\ again["projects"] = Reconcile(ProjectsOf(y, f), again["proposals"])
      /\ \A t \in OtherTables : again[t] = UpsertById(y.rows[t], Incoming(y, f, t))
  BY SeededTables
<1>7. \A t \in DataTables : y.rows[t] = rows[t]
  <2>1. DOMAIN x.rows = DataTables
    <3>1. x.rows = [t \in DataTables |-> x.rows[t]]
      BY <1>1 DEF Sound, IsStore
    <3> QED BY <3>1
  <2>2. y.rows = [t \in DataTables |-> x.rows[t]]
    BY <2>1 DEF LoadData, RowsIn
  <2> HIDE DEF y, rows
  <2> QED BY <1>3, <2>2
<1> HIDE DEF y, rows, again, N
<1>8. /\ {"users", "projects"} \subseteq DataTables /\ "proposals" \in OtherTables
      /\ \A t \in DataTables : t \in OtherTables \cup {"users", "projects"}
      /\ \A t \in OtherTables : t \in DataTables
      /\ "proposals" # "upvotes" /\ "proposals" # "auditLogs"
  BY DEF DataTables, Tables, OtherTables
<1>9. Acc(y, f).users = rows["users"]
  <2>1. f.accounts \in Seq(Account) /\ Len(f.accounts) \in 0..Len(f.accounts)
    BY DEF Loaded
  <2>2. UsersFit(UsersOf(s)) /\ UsersFit(UsersOf(y))
    BY <1>2, <1>8, UsersOfSound
  <2>3. Given(f.accounts, Len(f.accounts), AllSteps("data", s, f.accounts)[Len(f.accounts)].users)
    BY <2>1, <2>2, FirstRun
  <2>4. AllSteps("data", s, f.accounts)[Len(f.accounts)].users = rows["users"]
    BY <1>5, SeedUsersUnfolded DEF Acc
  <2>5. Given(f.accounts, Len(f.accounts), y.rows["users"])
    BY <1>7, <1>8, <2>3, <2>4
  <2>6. SeedUsers(y, f.accounts).users = y.rows["users"]
    BY <2>1, <2>2, <2>5, UsersTwice
  <2> QED BY <1>7, <1>8, <2>6 DEF Acc
<1>10. OwnedOf(y, f) = N
  BY <1>5, <1>9 DEF OwnedOf, N
<1>11. /\ AreRows(N) /\ OwnIds(N)
       /\ \A n \in N : {"matchCount", "committed"} \cap DOMAIN n = {}
  BY AccFits, OwnedRows DEF OwnedOf, N
<1>12. AreRows(s.rows["projects"]) /\ OwnIds(s.rows["projects"])
  BY <1>8, SoundTables
<1>13. ProjectsOf(s, f) = UpsertById(s.rows["projects"], N)
  BY DEF ProjectsOf, N
<1>14. ProjectsOf(y, f) = UpsertById(rows["projects"], N)
  BY <1>7, <1>8, <1>10 DEF ProjectsOf
<1>15. /\ Reconcile(ProjectsOf(y, f), rows["proposals"]) = rows["projects"]
       /\ Ids(ProjectsOf(y, f)) = Ids(ProjectsOf(s, f))
  BY <1>5, <1>11, <1>12, <1>13, <1>14, ProjectsTwice
<1>16. ASSUME NEW t \in OtherTables \ {"upvotes"} PROVE again[t] = rows[t]
  <2>1. Incoming(y, f, t) = Incoming(s, f, t)
    BY <1>15 DEF Incoming, Candidates
  <2>2. AreRows(s.rows[t]) /\ OwnIds(s.rows[t])
    BY <1>8, SoundTables
  <2>3. AreRows(Incoming(s, f, t)) /\ OwnIds(Incoming(s, f, t))
    BY IncomingFits
  <2>4. again[t] = UpsertById(UpsertById(s.rows[t], Incoming(s, f, t)), Incoming(s, f, t))
    BY <1>5, <1>6, <1>7, <1>8, <2>1
  <2> QED BY <1>5, <2>2, <2>3, <2>4, UpsertTwice
<1>17. again["proposals"] = rows["proposals"]
  BY <1>8, <1>16
<1>18. again["projects"] = rows["projects"]
  BY <1>6, <1>15, <1>17
<1>19. again["users"] = rows["users"]
  BY <1>6, <1>9
<1>20. \A t \in DataTables \ {"upvotes"} : again[t] = rows[t]
  BY <1>8, <1>16, <1>18, <1>19
<1> QED BY <1>3, <1>4, <1>20 DEF y

------------------------------------------------------------------------------
(* The same fixture loaded at two times: its rows are alike but for the dates *)
(* it leaves out, and so is what they make of a store.  W holds the ids of    *)
(* those rows, D the fields that they all have.                               *)

Like(a, b, W, D) ==
  \/ a = b
  \/ /\ a.id \in W /\ a.id = b.id /\ DOMAIN a = DOMAIN b /\ D \subseteq DOMAIN a
     /\ IsRow(a) /\ IsRow(b) /\ \A k \in DOMAIN a \ {"at"} : a[k] = b[k]
Alike(A, B, W, D) ==
  /\ \A a \in A : \E b \in B : Like(a, b, W, D)
  /\ \A b \in B : \E a \in A : Like(b, a, W, D)
KeysOf(t) ==
  IF t = "projects" THEN {"id", "userId"}
  ELSE IF t = "auditLogs" THEN {"id"}
  ELSE IF t = "proposals" THEN {"id", "projectId", "fundingRangeId"}
  ELSE {"id", "projectId"}

LEMMA LikeKeys ==
  ASSUME NEW a, NEW b, NEW W, NEW D, Like(a, b, W, D), "id" \in D, "at" \notin D
  PROVE  /\ a.id = b.id /\ Struck(a, W) = Struck(b, W) /\ Like(b, a, W, D)
         /\ \A k \in D : a[k] = b[k]
<1>1. CASE a = b
  BY <1>1 DEF Like
<1>2. CASE a # b
  <2>1. /\ a.id \in W /\ a.id = b.id /\ DOMAIN a = DOMAIN b /\ D \subseteq DOMAIN a
        /\ IsRow(a) /\ IsRow(b) /\ \A k \in DOMAIN a \ {"at"} : a[k] = b[k]
    BY <1>2 DEF Like
  <2>2. Like(b, a, W, D)
    BY <2>1 DEF Like
  <2>3. \A k \in D : k \in DOMAIN a \ {"at"}
    BY <2>1
  <2>4. Struck(a, W) = [a EXCEPT !.at = 0] /\ Struck(b, W) = [b EXCEPT !.at = 0]
    BY <2>1 DEF Struck
  <2>5. [a EXCEPT !.at = 0] = [k \in DOMAIN a |-> IF k = "at" THEN 0 ELSE a[k]]
    OBVIOUS
  <2>6. [b EXCEPT !.at = 0] = [k \in DOMAIN b |-> IF k = "at" THEN 0 ELSE b[k]]
    OBVIOUS
  <2>7. Struck(a, W) = Struck(b, W)
    BY <2>1, <2>4, <2>5, <2>6
  <2> QED BY <2>1, <2>2, <2>3, <2>7
<1> QED BY <1>1, <1>2

LEMMA AlikeStruck ==
  ASSUME NEW A, NEW B, NEW W, NEW D, Alike(A, B, W, D), "id" \in D, "at" \notin D
  PROVE  WithoutDates(A, W) = WithoutDates(B, W) /\ Ids(A) = Ids(B)
<1>1. \A a \in A : \E b \in B : a.id = b.id /\ Struck(a, W) = Struck(b, W)
  BY LikeKeys DEF Alike
<1>2. \A b \in B : \E a \in A : a.id = b.id /\ Struck(a, W) = Struck(b, W)
  BY LikeKeys DEF Alike
<1> QED BY <1>1, <1>2 DEF WithoutDates, Ids

LEMMA LikeOver ==
  ASSUME NEW a, NEW b, NEW o, NEW W, NEW D, Like(a, b, W, D), "id" \in D
  PROVE  Like(Over(a, o), Over(b, o), W, D)
<1>1. CASE a = b
  BY <1>1 DEF Like
<1>2. CASE a # b
  <2>1. /\ a.id \in W /\ a.id = b.id /\ DOMAIN a = DOMAIN b /\ D \subseteq DOMAIN a
        /\ \A k \in DOMAIN a \ {"at"} : a[k] = b[k]
    BY <1>2 DEF Like
  <2> DEFINE x == Over(a, o)
             y == Over(b, o)
  <2>2. /\ DOMAIN x = DOMAIN a \cup DOMAIN o /\ DOMAIN y = DOMAIN b \cup DOMAIN o
        /\ x = [k \in DOMAIN x |-> x[k]] /\ y = [k \in DOMAIN y |-> y[k]]
        /\ \A k \in DOMAIN x : x[k] = IF k \in DOMAIN a THEN a[k] ELSE o[k]
        /\ \A k \in DOMAIN y : y[k] = IF k \in DOMAIN b THEN b[k] ELSE o[k]
    BY DEF Over
  <2>3. "id" \in DOMAIN a
    BY <2>1
  <2> HIDE DEF x, y
  <2>4. x.id = a.id /\ y.id = b.id /\ "id" \in DOMAIN x /\ DOMAIN x = DOMAIN y
    BY <2>1, <2>2, <2>3
  <2>5. \A k \in DOMAIN x \ {"at"} : x[k] = y[k]
    BY <2>1, <2>2, <2>4
  <2>6. IsRow(x) /\ IsRow(y) /\ D \subseteq DOMAIN x
    BY <2>1, <2>2, <2>4 DEF IsRow
  <2>7. Like(x, y, W, D)
    BY <2>1, <2>4, <2>5, <2>6 DEF Like
  <2> QED BY <2>7 DEF x, y
<1> QED BY <1>1, <1>2

\* One half of what an upsert makes of rows that are alike, and the whole.
LEMMA LikeUpsert ==
  ASSUME NEW T, NEW A, NEW B, NEW W, NEW D, OwnIds(T), Alike(A, B, W, D), "id" \in D, "at" \notin D
  PROVE  \A x \in UpsertById(T, A) : \E y \in UpsertById(T, B) : Like(x, y, W, D)
<1>1. Ids(A) = Ids(B)
  BY AlikeStruck
<1> TAKE x \in UpsertById(T, A)
<1>2. CASE x \in T /\ x.id \notin Ids(A)
  <2>1. x \in UpsertById(T, B)
    BY <1>1, <1>2 DEF UpsertById
  <2> QED BY <2>1 DEF Like
<1>3. CASE x \in A /\ x.id \notin Ids(T)
  <2>1. PICK b \in B : Like(x, b, W, D)
    BY <1>3 DEF Alike
  <2>2. b.id = x.id
    BY <2>1, LikeKeys
  <2>3. b \in UpsertById(T, B)
    BY <1>3, <2>2 DEF UpsertById
  <2> QED BY <2>1, <2>3
<1>4. CASE \E n \in A : \E o \in T : o.id = n.id /\ x = Over(n, o)
  <2>1. PICK n \in A, o \in T : o.id = n.id /\ x = Over(n, o)
    BY <1>4
  <2>2. PICK b \in B : Like(n, b, W, D)
    BY DEF Alike
  <2>3. b.id = o.id
    BY <2>1, <2>2, LikeKeys
  <2>4. RowOf(T, b.id) = o /\ b.id \in Ids(T)
    BY <2>3, RowFound DEF Ids
  <2>5. Over(b, o) \in UpsertById(T, B)
    BY <2>4 DEF UpsertById
  <2> QED BY <2>1, <2>2, <2>5, LikeOver
<1> QED BY <1>2, <1>3, <1>4, UpsertedRow

LEMMA AlikeSwapped ==
  ASSUME NEW A, NEW B, NEW W, NEW D, Alike(A, B, W, D) PROVE Alike(B, A, W, D)
BY DEF Alike

LEMMA UpsertAlike ==
  ASSUME NEW T, NEW A, NEW B, NEW W, NEW D, OwnIds(T), Alike(A, B, W, D), "id" \in D, "at" \notin D
  PROVE  Alike(UpsertById(T, A), UpsertById(T, B), W, D)
<1>1. Alike(B, A, W, D)
  BY AlikeSwapped
<1>2. \A x \in UpsertById(T, A) : \E y \in UpsertById(T, B) : Like(x, y, W, D)
  BY LikeUpsert
<1>3. \A x \in UpsertById(T, B) : \E y \in UpsertById(T, A) : Like(x, y, W, D)
  BY <1>1, LikeUpsert
<1> QED BY <1>2, <1>3 DEF Alike

\* What decides whether a row is taken is no date.
LEMMA CandidatesAlike ==
  ASSUME NEW A, NEW B, NEW W, NEW D, Alike(A, B, W, D), {"id", "projectId"} \subseteq D, "at" \notin D,
         NEW P, NEW Q, Ids(P) = Ids(Q)
  PROVE  Alike(Candidates(A, P), Candidates(B, Q), W, D)
<1>1. ASSUME NEW X, NEW Y, Alike(X, Y, W, D), NEW R, NEW S, Ids(R) = Ids(S)
      PROVE  \A a \in Candidates(X, R) : \E b \in Candidates(Y, S) : Like(a, b, W, D)
  <2> TAKE a \in Candidates(X, R)
  <2>1. a \in X /\ a.projectId \in Ids(R)
    BY DEF Candidates
  <2>2. PICK b \in Y : Like(a, b, W, D)
    BY <1>1, <2>1 DEF Alike
  <2>3. b.projectId = a.projectId
    BY <2>2, LikeKeys
  <2>4. b \in Candidates(Y, S)
    BY <1>1, <2>1, <2>3 DEF Candidates
  <2> QED BY <2>2, <2>4
<1>2. Alike(B, A, W, D)
  BY AlikeSwapped
<1>3. \A a \in Candidates(A, P) : \E b \in Candidates(B, Q) : Like(a, b, W, D)
  BY <1>1
<1>4. \A b \in Candidates(B, Q) : \E a \in Candidates(A, P) : Like(b, a, W, D)
  BY <1>1, <1>2
<1> QED BY <1>3, <1>4 DEF Alike

\* Nor is what decides who owns a project.
LEMMA OwnedAlike ==
  ASSUME NEW A, NEW B, NEW W, NEW U, Alike(A, B, W, KeysOf("projects")),
         \A p \in A \cup B : IsRow(p) /\ {"id", "userId"} \subseteq DOMAIN p
  PROVE  Alike(UNION {Owned(p, U) : p \in A}, UNION {Owned(p, U) : p \in B}, W, KeysOf("projects"))
<1> DEFINE D == KeysOf("projects")
<1>1. D = {"id", "userId"}
  BY DEF KeysOf
<1> HIDE DEF D
<1>2. ASSUME NEW p, NEW q, Like(p, q, W, D), IsRow(p), IsRow(q), {"id", "userId"} \subseteq DOMAIN p,
             NEW o \in Owned(p, U)
      PROVE  \E x \in Owned(q, U) : Like(o, x, W, D)
  <2>1. CASE p = q
    BY <2>1 DEF Like
  <2>2. CASE p # q
    <3>1. /\ p.id \in W /\ p.id = q.id /\ DOMAIN p = DOMAIN q
          /\ \A k \in DOMAIN p \ {"at"} : p[k] = q[k]
      BY <1>2, <2>2 DEF Like
    <3>2. p.userId = q.userId
      BY <1>2, <3>1
    <3>3. CASE p.userId \in Ids(U)
      <4>1. Owned(p, U) = {p} /\ Owned(q, U) = {q}
        BY <3>2, <3>3 DEF Owned
      <4>2. o = p /\ q \in Owned(q, U)
        BY <4>1
      <4> QED BY <1>2, <4>2
    <3>4. CASE p.userId \notin Ids(U)
      <4>1. /\ Owned(p, U) = {[p EXCEPT !.userId = u.id] :
                                u \in {v \in U : "ownerEmail" \in DOMAIN p /\ v.email = p.ownerEmail}}
            /\ Owned(q, U) = {[q EXCEPT !.userId = u.id] :
                                u \in {v \in U : "ownerEmail" \in DOMAIN q /\ v.email = q.ownerEmail}}
        BY <3>2, <3>4 DEF Owned
      <4>2. PICK u \in U : /\ "ownerEmail" \in DOMAIN p /\ u.email = p.ownerEmail
                           /\ o = [p EXCEPT !.userId = u.id]
        BY <4>1
      <4> DEFINE x == [q EXCEPT !.userId = u.id]
      <4>3. q.ownerEmail = p.ownerEmail /\ "ownerEmail" \in DOMAIN q
        BY <3>1, <4>2
      <4>4. x \in Owned(q, U)
        BY <4>1, <4>2, <4>3
      <4>5. /\ DOMAIN o = DOMAIN p /\ DOMAIN x = DOMAIN q /\ IsRow(o) /\ IsRow(x)
            /\ \A k \in DOMAIN p : o[k] = IF k = "userId" THEN u.id ELSE p[k]
            /\ \A k \in DOMAIN q : x[k] = IF k = "userId" THEN u.id ELSE q[k]
        BY <1>2, <4>2 DEF IsRow
      <4> HIDE DEF x
      <4>6. o.id = p.id /\ x.id = q.id
        BY <1>2, <3>1, <4>5
      <4>7. \A k \in DOMAIN o \ {"at"} : o[k] = x[k]
        BY <3>1, <4>5
      <4>8. Like(o, x, W, D)
        BY <1>1, <1>2, <3>1, <4>5, <4>6, <4>7 DEF Like
      <4> QED BY <4>4, <4>8
    <3> QED BY <3>3, <3>4
  <2> QED BY <2>1, <2>2
<1>3. ASSUME NEW X \in {A, B}, NEW Y \in {A, B}, Alike(X, Y, W, D)
      PROVE  \A o \in UNION {Owned(p, U) : p \in X} : \E x \in UNION {Owned(p, U) : p \in Y} : Like(o, x, W, D)
  <2> TAKE o \in UNION {Owned(p, U) : p \in X}
  <2>1. PICK p \in X : o \in Owned(p, U)
    OBVIOUS
  <2>2. PICK q \in Y : Like(p, q, W, D)
    BY <1>3 DEF Alike
  <2>3. IsRow(p) /\ IsRow(q) /\ {"id", "userId"} \subseteq DOMAIN p
    OBVIOUS
  <2>4. PICK x \in Owned(q, U) : Like(o, x, W, D)
    BY <1>2, <2>1, <2>2, <2>3
  <2> QED BY <2>4
<1>4. Alike(A, B, W, D) /\ Alike(B, A, W, D)
  BY AlikeSwapped DEF D
<1>5. \A o \in UNION {Owned(p, U) : p \in A} : \E x \in UNION {Owned(p, U) : p \in B} : Like(o, x, W, D)
  BY <1>3, <1>4
<1>6. \A o \in UNION {Owned(p, U) : p \in B} : \E x \in UNION {Owned(p, U) : p \in A} : Like(o, x, W, D)
  BY <1>3, <1>4
<1> QED BY <1>5, <1>6 DEF Alike, D

\* As many rows as they have ids.
LEMMA CountedByIds ==
  ASSUME NEW S, IsFiniteSet(S), OwnIds(S) PROVE Cardinality(S) = Cardinality(Ids(S))
<1> DEFINE g == [r \in S |-> r.id]
<1>1. g \in Surjection(S, Ids(S))
  BY DEF Surjection, Ids
<1>2. g \in Injection(S, Ids(S))
  <2>1. g \in [S -> Ids(S)] /\ \A r \in S : g[r] = r.id
    BY DEF Ids
  <2> HIDE DEF g
  <2>2. \A r, q \in S : g[r] = g[q] => r = q
    BY <2>1 DEF OwnIds
  <2> QED BY <2>1, <2>2 DEF Injection, IsInjective
<1> QED BY <1>1, <1>2, FS_Surjection

LEMMA CountsAlike ==
  ASSUME NEW A, NEW B, NEW W, Alike(A, B, W, KeysOf("proposals")),
         AreRows(A), AreRows(B), OwnIds(A), OwnIds(B), NEW p
  PROVE  Cardinality(Mine(p, A)) = Cardinality(Mine(p, B)) /\ Sum(p, A) = Sum(p, B)
<1> DEFINE D == KeysOf("proposals")
<1>1. {"id", "projectId", "fundingRangeId"} \subseteq D /\ "at" \notin D
  BY DEF KeysOf
<1>2. \A a, b : Like(a, b, W, D) =>
        a.id = b.id /\ a.projectId = b.projectId /\ a.fundingRangeId = b.fundingRangeId
  BY <1>1, LikeKeys
<1>3. /\ \A a \in A : \E b \in B : a.id = b.id /\ a.projectId = b.projectId /\ a.fundingRangeId = b.fundingRangeId
      /\ \A b \in B : \E a \in A : a.id = b.id /\ a.projectId = b.projectId /\ a.fundingRangeId = b.fundingRangeId
  BY <1>2 DEF Alike
<1>4. Ids(Mine(p, A)) = Ids(Mine(p, B))
  BY <1>3 DEF Mine, Ids
<1>5. ASSUME NEW range
      PROVE  Ids({v \in Mine(p, A) : v.fundingRangeId = range}) = Ids({v \in Mine(p, B) : v.fundingRangeId = range})
  BY <1>3 DEF Mine, Ids
<1>6. ASSUME NEW X \in {A, B}, NEW S \in SUBSET X PROVE Cardinality(S) = Cardinality(Ids(S))
  <2>1. IsFiniteSet(S)
    BY FS_Subset DEF AreRows
  <2>2. OwnIds(S)
    BY DEF OwnIds
  <2> QED BY <2>1, <2>2, CountedByIds
<1>7. Cardinality(Mine(p, A)) = Cardinality(Mine(p, B))
  <2>1. Mine(p, A) \in SUBSET A /\ Mine(p, B) \in SUBSET B
    BY DEF Mine
  <2> QED BY <1>4, <1>6, <2>1
<1>8. ASSUME NEW range PROVE Of(p, A, range) = Of(p, B, range)
  <2>1. /\ {v \in Mine(p, A) : v.fundingRangeId = range} \in SUBSET A
        /\ {v \in Mine(p, B) : v.fundingRangeId = range} \in SUBSET B
    BY DEF Mine
  <2> QED BY <1>5, <1>6, <2>1 DEF Of
<1>9. Sum(p, A) = Sum(p, B)
  BY <1>8 DEF Sum
<1> QED BY <1>7, <1>9

LEMMA ReconcileAlike ==
  ASSUME NEW A, NEW B, NEW W, Alike(A, B, W, KeysOf("projects")), AreRows(A), AreRows(B),
         NEW q, NEW r, NEW V, Alike(q, r, V, KeysOf("proposals")),
         AreRows(q), AreRows(r), OwnIds(q), OwnIds(r)
  PROVE  Alike(Reconcile(A, q), Reconcile(B, r), W, KeysOf("projects"))
<1> DEFINE D == KeysOf("projects")
<1>1. D = {"id", "userId"}
  BY DEF KeysOf
<1> HIDE DEF D
<1>2. \A p : ReconcileProject(p, q) = ReconcileProject(p, r)
  <2>1. ASSUME NEW p PROVE ReconcileProject(p, q) = ReconcileProject(p, r)
    <3>1. Cardinality(Mine(p, q)) = Cardinality(Mine(p, r)) /\ Sum(p, q) = Sum(p, r)
      BY CountsAlike
    <3>2. \A x : ReconcileProject(p, x) = Over([matchCount |-> Cardinality(Mine(p, x)), committed |-> Sum(p, x)],
                                               [n \in DOMAIN p \ {"ownerEmail"} |-> p[n]])
      BY DEF ReconcileProject, Mine, Sum, Of, Amount
    <3> QED BY <3>1, <3>2
  <2> QED BY <2>1
<1>3. ASSUME NEW p, NEW x, Like(p, x, W, D), IsRow(p), IsRow(x)
      PROVE  Like(ReconcileProject(p, r), ReconcileProject(x, r), W, D)
  <2>1. CASE p = x
    BY <2>1 DEF Like
  <2>2. CASE p # x
    <3>1. /\ p.id \in W /\ p.id = x.id /\ DOMAIN p = DOMAIN x /\ D \subseteq DOMAIN p
          /\ \A k \in DOMAIN p \ {"at"} : p[k] = x[k]
      BY <1>3, <2>2 DEF Like
    <3> DEFINE a == ReconcileProject(p, r)
               b == ReconcileProject(x, r)
    <3>2. /\ IsRow(a) /\ a.id = p.id /\ DOMAIN a = (DOMAIN p \ {"ownerEmail"}) \cup {"matchCount", "committed"}
          /\ \A n \in DOMAIN p \ {"ownerEmail", "matchCount", "committed"} : a[n] = p[n]
          /\ ReconcileProject(a, r) = a
      BY <1>3, ReconciledRow
    <3>3. /\ IsRow(b) /\ b.id = x.id /\ DOMAIN b = (DOMAIN x \ {"ownerEmail"}) \cup {"matchCount", "committed"}
          /\ \A n \in DOMAIN x \ {"ownerEmail", "matchCount", "committed"} : b[n] = x[n]
          /\ ReconcileProject(b, r) = b
      BY <1>3, ReconciledRow
    <3> HIDE DEF a, b
    <3>4. /\ a.matchCount = Cardinality(Mine(a, r)) /\ a.committed = Sum(a, r)
          /\ b.matchCount = Cardinality(Mine(b, r)) /\ b.committed = Sum(b, r)
      BY <3>2, <3>3, Reconciled
    <3>5. Mine(a, r) = Mine(b, r) /\ Sum(a, r) = Sum(b, r)
      BY <3>1, <3>2, <3>3 DEF Mine, Sum, Of
    <3>6. \A k \in DOMAIN a \ {"at"} : a[k] = b[k]
      BY <3>1, <3>2, <3>3, <3>4, <3>5
    <3>7. D \subseteq DOMAIN a /\ DOMAIN a = DOMAIN b
      BY <1>1, <3>1, <3>2, <3>3
    <3>8. Like(a, b, W, D)
      BY <3>1, <3>2, <3>3, <3>6, <3>7 DEF Like
    <3> QED BY <3>8 DEF a, b
  <2> QED BY <2>1, <2>2
<1>4. /\ \A p \in A : \E x \in B : Like(p, x, W, D) /\ IsRow(p) /\ IsRow(x)
      /\ \A x \in B : \E p \in A : Like(x, p, W, D) /\ IsRow(p) /\ IsRow(x)
  BY DEF Alike, AreRows, D
<1>5. Reconcile(A, q) = {ReconcileProject(p, r) : p \in A} /\ Reconcile(B, r) = {ReconcileProject(p, r) : p \in B}
  BY <1>2 DEF Reconcile
<1>6. /\ \A y \in Reconcile(A, q) : \E p \in A : y = ReconcileProject(p, r)
      /\ \A p \in A : ReconcileProject(p, r) \in Reconcile(A, q)
      /\ \A y \in Reconcile(B, r) : \E p \in B : y = ReconcileProject(p, r)
      /\ \A p \in B : ReconcileProject(p, r) \in Reconcile(B, r)
  BY <1>5
<1>7. \A y \in Reconcile(A, q) : \E z \in Reconcile(B, r) : Like(y, z, W, D)
  BY <1>3, <1>4, <1>6
<1>8. \A y \in Reconcile(B, r) : \E z \in Reconcile(A, q) : Like(y, z, W, D)
  BY <1>3, <1>4, <1>6
<1>9. Alike(Reconcile(A, q), Reconcile(B, r), W, D)
  BY <1>7, <1>8 DEF Alike
<1> QED BY <1>9 DEF D

\* The rows that a fixture leaves undated are all that two times tell apart.
LEMMA LoadedAlike ==
  ASSUME NEW f, IsFixture(f), NEW t \in FixtureTables, NEW t1, NEW t2
  PROVE  Alike(LoadFixture(f, t1)[t], LoadFixture(f, t2)[t], Undated(f, t), KeysOf(t))
<1> DEFINE N == Normal(f)[t]
           W == Undated(f, t)
           D == KeysOf(t)
<1>1. AreRows(N) /\ \A r \in N : \E q \in f[t] : "at" \in DOMAIN r /\ r.id = q.id /\ r.at = q.at
  BY NormalLoaded DEF Loaded
<1>2. \A now : LoadFixture(f, now)[t] = {Dated(r, now) : r \in N}
  BY FixtureParts DEF AllDated
<1>3. \A r \in N : D \subseteq DOMAIN r
  <2>1. /\ \A k \in {"proposals", "events", "upvotes", "reviews"} : \A r \in Normal(f)[k] : "projectId" \in DOMAIN r
        /\ \A r \in Normal(f)["projects"] : "userId" \in DOMAIN r
    BY NormalLoaded DEF Loaded, FixtureTables
  <2>2. \A r \in Normal(f)["proposals"] : "fundingRangeId" \in DOMAIN r
    <3>1. /\ Normal(f)["proposals"] \subseteq f["proposals"]
          /\ f["proposals"] \subseteq [id : Nat, projectId : Nat, fundingRangeId : STRING, at : Nat]
      BY DEF Normal, NormalProposals, About, IsFixture, FixtureRows
    <3> QED BY <3>1
  <2>3. \A r \in N : "id" \in DOMAIN r
    BY <1>1 DEF AreRows, IsRow
  <2> QED BY <2>1, <2>2, <2>3 DEF KeysOf, FixtureTables
<1>4. \A q \in f[t] : q.at = 0 => q.id \in W
  BY DEF Undated, FixtureTables, FixtureRows
<1> HIDE DEF N, W, D
<1>5. ASSUME NEW r \in N, NEW a, NEW b PROVE Like(Dated(r, a), Dated(r, b), W, D)
  <2>1. IsRow(r) /\ D \subseteq DOMAIN r /\ (r.at = 0 => r.id \in W)
    BY <1>1, <1>3, <1>4 DEF AreRows
  <2>2. CASE r.at = 0
    <3>1. Dated(r, a) = [r EXCEPT !.at = a] /\ Dated(r, b) = [r EXCEPT !.at = b]
      BY <2>2 DEF Dated
    <3> QED BY <2>1, <2>2, <3>1 DEF Like, IsRow
  <2>3. CASE r.at # 0
    BY <2>3 DEF Dated, Like
  <2> QED BY <2>2, <2>3
<1>6. Alike({Dated(r, t1) : r \in N}, {Dated(r, t2) : r \in N}, W, D)
  BY <1>5 DEF Alike
<1> QED BY <1>2, <1>6 DEF W, D

\* A store after two loadings of a fixture: the same rows but for those dates.
LEMMA SeededAlike ==
  ASSUME NEW y, Sound(y, DataTables), NEW f, IsFixture(f), NEW t1, NEW t2, NEW t \in DataTables \ {"upvotes"}
  PROVE  WithoutDates(SeededRows(y, LoadFixture(f, t1))[t], Undated(f, t))
           = WithoutDates(SeededRows(y, LoadFixture(f, t2))[t], Undated(f, t))
<1> DEFINE f1 == LoadFixture(f, t1)
           f2 == LoadFixture(f, t2)
           R1 == SeededRows(y, f1)
           R2 == SeededRows(y, f2)
           W(k) == Undated(f, k)
           U == Acc(y, f1).users
<1>1. Loaded(f1) /\ Loaded(f2)
  BY FixtureLoaded
<1>2. f1.accounts = f2.accounts
  BY FixtureParts
<1>3. \A k \in FixtureTables : Alike(f1[k], f2[k], W(k), KeysOf(k))
  BY LoadedAlike
<1>4. /\ "projects" \in FixtureTables /\ "proposals" \in OtherTables /\ "projects" \in DataTables
      /\ \A k \in OtherTables : k \in FixtureTables \ {"projects"} /\ k \in DataTables
      /\ t \in OtherTables \ {"upvotes"} \/ t = "users" \/ t = "projects"
      /\ "proposals" # "upvotes"
  BY DEF FixtureTables, OtherTables, DataTables, Tables
<1>5. /\ R1["users"] = Acc(y, f1).users
      /\ R1["projects"] = Reconcile(ProjectsOf(y, f1), R1["proposals"])
      /\ \A k \in OtherTables : R1[k] = UpsertById(y.rows[k], Incoming(y, f1, k))
  BY SeededTables
<1>6. /\ R2["users"] = Acc(y, f2).users
      /\ R2["projects"] = Reconcile(ProjectsOf(y, f2), R2["proposals"])
      /\ \A k \in OtherTables : R2[k] = UpsertById(y.rows[k], Incoming(y, f2, k))
  BY SeededTables
<1>7. \A k \in DataTables : AreRows(y.rows[k]) /\ OwnIds(y.rows[k])
  BY SoundTables
<1>8. Acc(y, f2) = Acc(y, f1)
  BY <1>2 DEF Acc
<1>9. /\ AreRows(ProjectsOf(y, f1)) /\ AreRows(ProjectsOf(y, f2))
  BY <1>1, ProjectsFit
<1>10. Alike(ProjectsOf(y, f1), ProjectsOf(y, f2), W("projects"), KeysOf("projects"))
  <2>1. \A p \in f1.projects \cup f2.projects : IsRow(p) /\ {"id", "userId"} \subseteq DOMAIN p
    <3>1. /\ AreRows(f1.projects) /\ AreRows(f2.projects)
          /\ \A p \in f1.projects \cup f2.projects : "userId" \in DOMAIN p
      BY <1>1, <1>4 DEF Loaded
    <3> QED BY <3>1 DEF AreRows, IsRow
  <2>2. Alike(f1.projects, f2.projects, W("projects"), KeysOf("projects"))
    BY <1>3, <1>4
  <2>3. Alike(UNION {Owned(p, U) : p \in f1.projects}, UNION {Owned(p, U) : p \in f2.projects},
              W("projects"), KeysOf("projects"))
    BY <2>1, <2>2, OwnedAlike
  <2>4. OwnedOf(y, f1) = UNION {Owned(p, U) : p \in f1.projects}
        /\ OwnedOf(y, f2) = UNION {Owned(p, U) : p \in f2.projects}
    BY <1>8 DEF OwnedOf
  <2>5. "id" \in KeysOf("projects") /\ "at" \notin KeysOf("projects")
    BY DEF KeysOf
  <2> HIDE DEF U, f1, f2, W
  <2>6. Alike(OwnedOf(y, f1), OwnedOf(y, f2), W("projects"), KeysOf("projects"))
    BY <2>3, <2>4
  <2>7. OwnIds(y.rows["projects"])
    BY <1>4, <1>7
  <2> QED BY <2>5, <2>6, <2>7, UpsertAlike DEF ProjectsOf
<1> HIDE DEF f1, f2, R1, R2, W, U
<1>11. Ids(ProjectsOf(y, f1)) = Ids(ProjectsOf(y, f2))
  <2>1. "id" \in KeysOf("projects") /\ "at" \notin KeysOf("projects")
    BY DEF KeysOf
  <2> QED BY <1>10, <2>1, AlikeStruck
<1>12. ASSUME NEW k \in OtherTables \ {"upvotes"} PROVE Alike(R1[k], R2[k], W(k), KeysOf(k))
  <2>1. Alike(f1[k], f2[k], W(k), KeysOf(k))
    BY <1>3, <1>4
  <2>2. "id" \in KeysOf(k) /\ "at" \notin KeysOf(k)
    BY DEF KeysOf
  <2>3. Alike(Incoming(y, f1, k), Incoming(y, f2, k), W(k), KeysOf(k))
    <3>1. CASE k = "auditLogs"
      BY <2>1, <3>1 DEF Incoming
    <3>2. CASE k # "auditLogs"
      <4>1. {"id", "projectId"} \subseteq KeysOf(k)
        BY <1>4, <3>2 DEF KeysOf
      <4>2. Alike(Candidates(f1[k], ProjectsOf(y, f1)), Candidates(f2[k], ProjectsOf(y, f2)), W(k), KeysOf(k))
        BY <1>11, <2>1, <2>2, <4>1, CandidatesAlike
      <4> QED BY <3>2, <4>2 DEF Incoming
    <3> QED BY <3>1, <3>2
  <2>4. OwnIds(y.rows[k])
    BY <1>4, <1>7
  <2>5. Alike(UpsertById(y.rows[k], Incoming(y, f1, k)), UpsertById(y.rows[k], Incoming(y, f2, k)), W(k), KeysOf(k))
    BY <2>2, <2>3, <2>4, UpsertAlike
  <2> QED BY <1>5, <1>6, <2>5
<1>13. Alike(R1["projects"], R2["projects"], W("projects"), KeysOf("projects"))
  <2>1. Alike(R1["proposals"], R2["proposals"], W("proposals"), KeysOf("proposals"))
    BY <1>4, <1>12
  <2>2. /\ AreRows(R1["proposals"]) /\ OwnIds(R1["proposals"])
        /\ AreRows(R2["proposals"]) /\ OwnIds(R2["proposals"])
    BY <1>1, <1>4, <1>5, <1>6, OtherTablesFit
  <2> QED BY <1>5, <1>6, <1>9, <1>10, <2>1, <2>2, ReconcileAlike
<1>14. WithoutDates(R1[t], W(t)) = WithoutDates(R2[t], W(t))
  <2>1. CASE t = "users"
    BY <1>5, <1>6, <1>8, <2>1
  <2>2. CASE t # "users"
    <3>1. Alike(R1[t], R2[t], W(t), KeysOf(t))
      BY <1>4, <1>12, <1>13, <2>2
    <3>2. "id" \in KeysOf(t) /\ "at" \notin KeysOf(t)
      BY DEF KeysOf
    <3> QED BY <3>1, <3>2, AlikeStruck
  <2> QED BY <2>1, <2>2
<1> QED BY <1>14 DEF R1, R2, f1, f2, W

LEMMA SeededAgain ==
  ASSUME NEW s, Sound(s, DataTables), NEW f, IsFixture(f), NEW t1, NEW t2,
         NEW x, x = SeedData(s, LoadFixture(f, t1)).state
  PROVE  LET again == SeedData(LoadData(x), LoadFixture(f, t2)).state
         IN  /\ \A t \in DataTables \ {"upvotes"} :
                  WithoutDates(again.rows[t], Undated(f, t)) = WithoutDates(x.rows[t], Undated(f, t))
             /\ f.challenge.at # 0 => again.challenge = x.challenge
<1> DEFINE f1 == LoadFixture(f, t1)
           f2 == LoadFixture(f, t2)
           y == LoadData(x)
           a1 == SeedData(y, f1).state
           a2 == SeedData(y, f2).state
<1>1. Loaded(f1) /\ Loaded(f2)
  BY FixtureLoaded
<1>2. Sound(y, DataTables)
  <2>1. Sound(x, DataTables)
    BY <1>1, SeededIsSound
  <2> QED BY <2>1, ReadBack, ScriptsRead DEF KnownTables
<1>3. \A t \in DataTables \ {"upvotes"} : a1.rows[t] = x.rows[t]
  BY <1>1, SeededTwice
<1>4. a1.rows = SeededRows(y, f1) /\ a2.rows = SeededRows(y, f2)
  BY SeededRowsOf
<1>5. \A t \in DataTables \ {"upvotes"} :
        WithoutDates(SeededRows(y, f1)[t], Undated(f, t)) = WithoutDates(SeededRows(y, f2)[t], Undated(f, t))
  BY <1>2, SeededAlike
<1>6. y.challenge = x.challenge
  BY DEF LoadData
<1>7. \A st, g : SeedData(st, g).state.challenge = IF g.challenge # NoChallenge THEN g.challenge ELSE st.challenge
  BY SeededChallenge
<1>8. f1.challenge = NormalChallenge(f.challenge, t1) /\ f2.challenge = NormalChallenge(f.challenge, t2)
  BY FixtureParts
<1>9. f.challenge.at # 0 => f1.challenge = f2.challenge
  BY <1>8 DEF NormalChallenge, Dated
<1> HIDE DEF y, a1, f1, f2
<1>10. f.challenge.at # 0 => a2.challenge = x.challenge
  BY <1>6, <1>7, <1>9 DEF f1
<1> HIDE DEF a2
<1>11. \A t \in DataTables \ {"upvotes"} :
         WithoutDates(a2.rows[t], Undated(f, t)) = WithoutDates(x.rows[t], Undated(f, t))
  BY <1>3, <1>4, <1>5
<1> QED BY <1>10, <1>11 DEF a2, y, f2

------------------------------------------------------------------------------
(* The inductive invariant.  The file and memory are sound stores, and so is  *)
(* what a script is about to write, which it made of a sound store.           *)

FixturesFit == \A f \in Fixtures : \A now : Loaded(LoadFixture(f, now))
SoundFile(x) == x.at = "store" => x = Holds(x.store) /\ Sound(Deserialize(x.store), Tables)
SeededFrom(x, f) == \E s, now : Sound(s, DataTables) /\ x = SeedData(s, LoadFixture(f, now)).state

FileInv ==
  /\ file.at \in {"none", "damaged", "store"} /\ SoundFile(file)
  /\ Sound(mem, Tables) /\ {serving, writing} \subseteq BOOLEAN
  /\ script # Idle => /\ script.at = "read" /\ Sound(Deserialize(script.result), Tables)
                      /\ script.kind \in {"data", "reset"} =>
                           /\ script.fixture \in Fixtures
                           /\ SeededFrom(script.result, script.fixture)
  /\ last.by \in {"data", "reset"} => /\ file.at = "store" /\ last.fixture \in Fixtures
                                      /\ SeededFrom(file.store, last.fixture)

LEMMA AllLoaded == FixturesFit
BY FixturesAssumption, FixtureLoaded DEF FixturesFit

LEMMA HoldsFacts ==
  ASSUME NEW s
  PROVE  Holds(s).at = "store" /\ Holds(s).store = s /\ Holds(s) = Holds(Holds(s).store)
BY DEF Holds

LEMMA SoundFileHolds == ASSUME NEW s, Sound(Deserialize(s), Tables) PROVE SoundFile(Holds(s))
BY HoldsFacts DEF SoundFile

LEMMA InvAtInit == ASSUME FileInit PROVE FileInv
<1>1. file.at \in {"none", "damaged", "store"} /\ SoundFile(file)
  <2>1. CASE file \in {NoFile, Damaged}
    BY <2>1 DEF NoFile, Damaged, SoundFile
  <2>2. CASE file = Holds(file.store) /\ Sound(Deserialize(file.store), Tables)
    <3>1. file.at = "store"
      BY <2>2, HoldsFacts
    <3> QED BY <2>2, <3>1 DEF SoundFile
  <2> QED BY <2>1, <2>2, FilesAssumption DEF FileInit
<1>2. Sound(mem, Tables) /\ {serving, writing} \subseteq BOOLEAN /\ script = Idle
  BY EmptyIsSound DEF FileInit
<1>3. last.by \notin {"data", "reset"}
  BY DEF FileInit, Nobody
<1> QED BY <1>1, <1>2, <1>3 DEF FileInv

\* The parts of the invariant that a step leaves alone.
LEMMA InvAtChange ==
  ASSUME FileInv, Sound(mem', Tables), UNCHANGED <<file, script, last>>,
         {serving', writing'} \subseteq BOOLEAN
  PROVE  FileInv'
BY DEF FileInv, SoundFile, SeededFrom

LEMMA ChangesAreSound ==
  ASSUME FileInv, Register \/ Submit \/ Propose \/ Upvote \/ WriteLog
  PROVE  FileInv'
<1>1. Sound(mem', Tables)
  BY SoundAtRegister, SoundAtSubmit, SoundAtPropose, SoundAtUpvote, SoundAtWriteLog DEF FileInv
<1>2. UNCHANGED <<file, script, last, serving>> /\ writing' = TRUE
  BY DEF Register, Submit, Propose, Upvote, WriteLog, Change, WriteTemporary
<1>3. {serving', writing'} \subseteq BOOLEAN
  BY <1>2 DEF FileInv
<1> QED BY <1>1, <1>2, <1>3, InvAtChange

LEMMA InvAtBoot == ASSUME FileInv, Boot PROVE FileInv'
<1>1. Sound(mem', Tables)
  BY EmptyIsSound DEF FileInv, Boot, SoundFile
<1>2. UNCHANGED <<file, script, last, writing>> /\ serving' = TRUE
  BY DEF Boot
<1>3. {serving', writing'} \subseteq BOOLEAN
  BY <1>2 DEF FileInv
<1> QED BY <1>1, <1>2, <1>3, InvAtChange

LEMMA InvAtRename == ASSUME FileInv, Rename PROVE FileInv'
<1>1. /\ writing' = FALSE /\ file' = Holds(mem) /\ last' = Nobody
      /\ UNCHANGED <<mem, serving, script>>
  BY DEF Rename
<1>2. Sound(Deserialize(mem), Tables)
  BY ReadBack DEF FileInv, KnownTables
<1>3. file'.at = "store" /\ SoundFile(file')
  BY <1>1, <1>2, HoldsFacts, SoundFileHolds
<1>4. last'.by \notin {"data", "reset"}
  BY <1>1 DEF Nobody
<1> QED BY <1>1, <1>3, <1>4 DEF FileInv, SoundFile, SeededFrom

LEMMA InvAtCrash == ASSUME FileInv, WriteFails \/ Crash PROVE FileInv'
<1>1. Sound(mem', Tables)
  BY EmptyIsSound DEF FileInv, WriteFails, Crash
<1>2. UNCHANGED <<file, script, last>> /\ {serving', writing'} \subseteq BOOLEAN
  BY DEF WriteFails, Crash, FileInv
<1> QED BY <1>1, <1>2, InvAtChange

\* A script that starts has made a sound store of a sound store.
LEMMA ReadIsSound ==
  ASSUME FileInv
  PROVE  Sound(Deserialize(ReadFile), Tables) /\ Sound(Deserialize(Empty), Tables)
BY EmptyIsSound DEF FileInv, ReadFile, SoundFile

LEMMA InvAtStart ==
  ASSUME FileInv, NEW kind, NEW f, NEW result, NEW write, Start(kind, f, result, write),
         Sound(Deserialize(result.state), Tables),
         kind \in {"data", "reset"} => f \in Fixtures /\ SeededFrom(result.state, f)
  PROVE  FileInv'
<1>1. /\ script' = [at |-> "read", kind |-> kind, fixture |-> f, read |-> file,
                    result |-> result.state, write |-> write]
      /\ UNCHANGED <<file, mem, serving, writing, last>>
  BY DEF Start
<1>2. /\ script'.at = "read" /\ script'.kind = kind /\ script'.fixture = f
      /\ script'.result = result.state
  BY <1>1
<1> QED BY <1>1, <1>2 DEF FileInv, SoundFile, SeededFrom

LEMMA InvAtSeedTestData == ASSUME FileInv, SeedTestData PROVE FileInv'
<1>1. PICK f \in Fixtures, reset \in BOOLEAN, dryRun \in BOOLEAN :
        LET before == LoadData(IF reset THEN Empty ELSE ReadFile)
            result == SeedData(before, LoadFixture(f, Now))
        IN Start(IF reset THEN "reset" ELSE "data", f, result, ~dryRun /\ (result.changed \/ reset))
  BY DEF SeedTestData
<1> DEFINE raw == IF reset THEN Empty ELSE ReadFile
           before == LoadData(raw)
           result == SeedData(before, LoadFixture(f, Now))
           kind == IF reset THEN "reset" ELSE "data"
           write == ~dryRun /\ (result.changed \/ reset)
<1>2. Start(kind, f, result, write)
  BY <1>1
<1>3. Sound(before, DataTables)
  BY ReadIsSound, ScriptsRead
<1>4. Loaded(LoadFixture(f, Now))
  BY AllLoaded DEF FixturesFit
<1> HIDE DEF before
<1>5. Sound(result.state, DataTables) /\ SeededFrom(result.state, f)
  BY <1>3, <1>4, SeededIsSound DEF SeededFrom
<1>6. Sound(Deserialize(result.state), Tables)
  BY <1>5, ReadBack DEF KnownTables
<1> HIDE DEF result, kind, write
<1> QED BY <1>2, <1>5, <1>6, InvAtStart

LEMMA InvAtSeedTestAccounts == ASSUME FileInv, SeedTestAccounts PROVE FileInv'
<1>1. PICK f \in Fixtures, dryRun \in BOOLEAN :
        LET accounts == NormalAccounts(f.accounts, {"maker", "investor"})
            result   == SeedAccounts(LoadAccounts(ReadFile), accounts)
        IN Start("accounts", f, result, ~dryRun /\ result.changed)
  BY DEF SeedTestAccounts
<1> DEFINE accounts == NormalAccounts(f.accounts, {"maker", "investor"})
           before == LoadAccounts(ReadFile)
           result == SeedAccounts(before, accounts)
           write == ~dryRun /\ result.changed
<1>2. Start("accounts", f, result, write)
  BY <1>1
<1>3. Sound(before, AccountTables)
  BY ReadIsSound, ScriptsRead
<1>4. accounts \in Seq(Account)
  <2> DEFINE A == [id : Nat, email : STRING, role : STRING, name : STRING]
  <2>1. f.accounts \in Seq(A)
    BY FixturesAssumption DEF IsFixture
  <2>2. A \subseteq Account
    BY DEF Account
  <2> HIDE DEF A
  <2>3. f.accounts \in Seq(Account)
    BY <2>1, <2>2
  <2> QED BY <2>3, AccountsLoaded
<1> HIDE DEF before, accounts
<1>5. Sound(result.state, AccountTables)
  BY <1>3, <1>4, AccountsAreSound
<1>6. Sound(Deserialize(result.state), Tables)
  BY <1>5, ReadBack DEF KnownTables
<1> HIDE DEF result, write
<1> QED BY <1>2, <1>6, InvAtStart

LEMMA InvAtScript == ASSUME FileInv, ScriptWrites \/ ScriptEnds PROVE FileInv'
<1>1. CASE ScriptWrites
  <2>1. /\ script.at = "read" /\ file' = Holds(script.result) /\ script' = Idle
        /\ last' = [by |-> script.kind, fixture |-> script.fixture, over |-> script.read]
        /\ UNCHANGED <<mem, serving, writing>>
    BY <1>1 DEF ScriptWrites
  <2>2. script # Idle
    BY <2>1 DEF Idle
  <2>3. Sound(Deserialize(script.result), Tables)
    BY <2>2 DEF FileInv
  <2>4. file'.at = "store" /\ SoundFile(file') /\ file'.store = script.result
    BY <2>1, <2>3, HoldsFacts, SoundFileHolds
  <2>5. last'.by = script.kind /\ last'.fixture = script.fixture
    BY <2>1
  <2>6. script.kind \in {"data", "reset"} =>
          script.fixture \in Fixtures /\ SeededFrom(script.result, script.fixture)
    BY <2>2 DEF FileInv
  <2> QED BY <2>1, <2>4, <2>5, <2>6 DEF FileInv, SoundFile, SeededFrom
<1>2. CASE ScriptEnds
  BY <1>2 DEF ScriptEnds, FileInv, SoundFile, SeededFrom
<1> QED BY <1>1, <1>2

\* Every step of the server and of the scripts keeps the invariant.
THEOREM FileInvariance == FileSpec => []FileInv
<1>1. FileInit => FileInv
  BY InvAtInit
<1>2. FileInv /\ [FileNext]_fileVars => FileInv'
  <2> SUFFICES ASSUME FileInv, [FileNext]_fileVars PROVE FileInv'
    OBVIOUS
  <2>1. CASE Register \/ Submit \/ Propose \/ Upvote \/ WriteLog
    BY <2>1, ChangesAreSound
  <2>2. CASE Boot
    BY <2>2, InvAtBoot
  <2>3. CASE Rename
    BY <2>3, InvAtRename
  <2>4. CASE WriteFails \/ Crash
    BY <2>4, InvAtCrash
  <2>5. CASE SeedTestData
    BY <2>5, InvAtSeedTestData
  <2>6. CASE SeedTestAccounts
    BY <2>6, InvAtSeedTestAccounts
  <2>7. CASE ScriptWrites \/ ScriptEnds
    BY <2>7, InvAtScript
  <2>8. CASE UNCHANGED fileVars
    BY <2>8 DEF fileVars, FileInv, SoundFile, SeededFrom
  <2> QED BY <2>1, <2>2, <2>3, <2>4, <2>5, <2>6, <2>7, <2>8 DEF FileNext
<1> QED BY <1>1, <1>2, PTL DEF FileSpec

LEMMA HeldIsSound == ASSUME FileInv, NEW s \in Held PROVE Sound(s, Tables)
BY DEF FileInv, Held, SoundFile

\* Type correctness of the store file, memory and the scripts.
THEOREM FileTypeCorrect == FileSpec => []FileTypeOK
<1>1. FileInv => FileTypeOK
  <2> SUFFICES ASSUME FileInv PROVE FileTypeOK
    OBVIOUS
  <2>1. \A s \in Held : IsStore(s, Tables)
    BY HeldIsSound DEF Sound
  <2>2. script.at \in {"idle", "read"}
    BY DEF FileInv, Idle
  <2> QED BY <2>1, <2>2 DEF FileInv, FileTypeOK
<1> QED BY <1>1, FileInvariance, PTL

\* No id is given away twice, whoever wrote the file last.
THEOREM IdsStayFresh == FileSpec => []IdsAreFresh
<1>1. FileInv => IdsAreFresh
  BY HeldIsSound DEF Sound, IdsAreFresh
<1> QED BY <1>1, FileInvariance, PTL

\* No row refers to a user or a project that is not there.
THEOREM ReferencesAlwaysHold == FileSpec => []ReferencesHold
<1>1. FileInv => ReferencesHold
  BY HeldIsSound DEF Sound, ReferencesHold
<1> QED BY <1>1, FileInvariance, PTL

\* Users, votes and the figures of the projects agree, also after a seeding.
THEOREM SeededRowsAlwaysAgree == FileSpec => []SeededRowsAgree
<1>1. FileInv => SeededRowsAgree
  BY HeldIsSound DEF Sound, SeededRowsAgree
<1> QED BY <1>1, FileInvariance, PTL

\* Seeding a fixture again, at any later time, changes nothing but the dates the
\* fixture leaves out (seed() of seed-test-data.mjs; upvotes excepted).
THEOREM SeedingIsIdempotent == FileSpec => []SeedAgainIsTheSame
<1>1. FileInv => SeedAgainIsTheSame
  <2> SUFFICES ASSUME FileInv, last.by \in {"data", "reset"} PROVE SeedAgainIsTheSame
    BY DEF SeedAgainIsTheSame
  <2>1. last.fixture \in Fixtures /\ SeededFrom(file.store, last.fixture)
    BY DEF FileInv
  <2>2. PICK s, t1 : Sound(s, DataTables) /\ file.store = SeedData(s, LoadFixture(last.fixture, t1)).state
    BY <2>1 DEF SeededFrom
  <2>3. IsFixture(last.fixture)
    BY <2>1, FixturesAssumption
  <2> QED BY <2>2, <2>3, SeededAgain DEF SeedAgainIsTheSame
<1> QED BY <1>1, FileInvariance, PTL

\* Until a script writes, the file is as the last answered change left it.
THEOREM AckedStaysDurable == FileSpec => []AckedIsDurable
<1> DEFINE Inv == AckedIsDurable /\ (script # Idle => script.kind \in {"data", "reset", "accounts"})
<1>1. FileInit => Inv
  BY DEF FileInit, AckedIsDurable
<1>2. Inv /\ [FileNext]_fileVars => Inv'
  <2> SUFFICES ASSUME Inv, [FileNext]_fileVars PROVE Inv'
    OBVIOUS
  <2>1. CASE Rename
    BY <2>1 DEF Rename, AckedIsDurable
  <2>2. CASE ScriptWrites
    <3>1. script # Idle /\ last'.by = script.kind /\ script' = Idle
      BY <2>2 DEF ScriptWrites, Idle
    <3>2. last' # Nobody
      BY <3>1 DEF Nobody
    <3> QED BY <3>1, <3>2 DEF AckedIsDurable
  <2>3. CASE Register \/ Submit \/ Propose \/ Upvote \/ WriteLog
    <3>1. UNCHANGED <<file, acked, last, script>>
      BY <2>3 DEF Register, Submit, Propose, Upvote, WriteLog, Change, WriteTemporary
    <3> QED BY <3>1 DEF AckedIsDurable
  <2>4. CASE Boot \/ WriteFails \/ Crash
    BY <2>4 DEF Boot, WriteFails, Crash, AckedIsDurable
  <2>5. CASE SeedTestData
    <3>1. UNCHANGED <<file, acked, last>> /\ script'.kind \in {"data", "reset", "accounts"}
      BY <2>5 DEF SeedTestData, Start
    <3> QED BY <3>1 DEF AckedIsDurable
  <2>6. CASE SeedTestAccounts
    <3>1. UNCHANGED <<file, acked, last>> /\ script'.kind \in {"data", "reset", "accounts"}
      BY <2>6 DEF SeedTestAccounts, Start
    <3> QED BY <3>1 DEF AckedIsDurable
  <2>7. CASE ScriptEnds
    BY <2>7 DEF ScriptEnds, AckedIsDurable
  <2>8. CASE UNCHANGED fileVars
    BY <2>8 DEF fileVars, AckedIsDurable
  <2> QED BY <2>1, <2>2, <2>3, <2>4, <2>5, <2>6, <2>7, <2>8 DEF FileNext
<1>3. Inv => AckedIsDurable
  OBVIOUS
<1> HIDE DEF Inv
<1> QED BY <1>1, <1>2, <1>3, PTL DEF FileSpec
==============================================================================
