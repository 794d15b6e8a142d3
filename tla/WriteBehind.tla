----------------------------- MODULE WriteBehind -----------------------------
(***************************************************************************)
(* The write-behind Postgres drivers of apps/api: the whole state lives in *)
(* the memory of the service; a change calls save(), which remembers the   *)
(* latest state and arms a 150 ms timer; the timer drains the state into a *)
(* promise chain of transactions, each of which serialises its state when  *)
(* it STARTS and replaces the whole content of the database.               *)
(*                                                                         *)
(* Two services use this pattern and differ in what they pass to save().   *)
(* ProjectsService.persist() builds an object that SHARES the service's    *)
(* arrays but COPIES its id counters (Driver = "projects"): most arrays    *)
(* are changed in place, upvotes is replaced when one is taken back, and   *)
(* users is not copied by serializeState either, so that the transaction   *)
(* reads it later than the rest.  CommunityService passes its one state    *)
(* object, which is turned into one text at once (Driver = "community");   *)
(* the same kinds of change stand for its own.                             *)
(*                                                                         *)
(* Four tables stand for the nine: users, projects, upvotes, and events    *)
(* for the six others that only grow, each row naming a project.  A row is *)
(* its id, the number of the change that created it, so that two rows with *)
(* one id can be told apart, and the id of the row it names.  Arrays are   *)
(* mutable objects: `arrays' lists those of each table in this process,    *)
(* the last is the one in use, and a snapshot names one by its position.   *)
(***************************************************************************)
EXTENDS Integers, Sequences

CONSTANTS
  Driver,    \* "projects" or "community"
  NoState,   \* no state, where a driver field is null
  MaxOps,    \* bound: changes made to memory in one behaviour
  MaxChain   \* bound: states in the chain when a request saves no change

ASSUME DriverAssumption == Driver \in {"projects", "community"}
ASSUME BoundsAssumption == MaxOps \in Nat /\ MaxChain \in Nat

VARIABLES
  arrays,    \* array objects of each table: [rows, ver], ver its last change
  next,      \* next<Entity>Id
  ver,       \* the last change in memory (history)
  clock,     \* changes made so far, lost ones included (history)
  dirty,     \* memory changed since the last save() (history)
  sweeping,  \* refreshAllProjects is between two of its awaits
  latest,    \* driver: state of the last save() not yet drained
  timer,     \* driver: debounce timer armed
  queue,     \* driver: states waiting in the promise chain
  tx,        \* driver: the serialised state of the running transaction
  reading,   \* driver: the users array that transaction has still to read, or 0
  failed,    \* the last transaction failed, nothing behind it (history)
  durable,   \* what a load() would read
  flush,     \* flush(): "no", or its await: "drained" (the first), "chain"
  ahead,     \* transactions flush() still waits for
  up,        \* the process runs
  past       \* states memory went through since boot (history)

memVars == <<arrays, next, ver, clock, past>>
driverVars == <<latest, timer, queue, tx, reading>>
vars == <<memVars, driverVars, dirty, sweeping, failed, durable, flush, ahead, up>>

------------------------------------------------------------------------------
Table == {"users", "projects", "events", "upvotes"}

Row == [id : Nat, op : Nat, ref : Nat]
ArrayObject == [rows : SUBSET Row, ver : Nat]
Stored == [tables : [Table -> ArrayObject], next : [Table -> Nat], ver : Nat]
Snapshot == [arr : [Table -> Nat], next : [Table -> Nat]]

ASSUME NoStateAssumption == NoState \notin Snapshot /\ NoState \notin Stored

Current(t) == arrays[t][Len(arrays[t])]

\* The state of the service as a value.
Mem == [tables |-> [t \in Table |-> Current(t)], next |-> next, ver |-> ver]

\* serializeState at the start of a transaction, on the object persist() built:
\* the arrays are read through their references now, the counters are copies.
\* What it says of the users is overwritten by UsersRead.
SerialiseProjects(s) ==
  [tables |-> [t \in Table |-> arrays[t][s.arr[t]]], next |-> s.next, ver |-> ver]

\* serializeCommunityState and JSON.stringify on the service's own state object.
SerialiseCommunity == Mem

Serialise(s) ==
  IF Driver = "projects" THEN SerialiseProjects(s) ELSE SerialiseCommunity

\* persist() up to its first await: `...state' leaves the users a reference.
Begin(s) ==
  /\ tx' = Serialise(s)
  /\ reading' = IF Driver = "projects" THEN s.arr["users"] ELSE 0

\* Integer primary keys: a transaction that inserts one id twice is rejected.
Insertable(s) ==
  \A t \in Table : \A r, q \in s.tables[t].rows : r.id = q.id => r = q

\* What the database holds at the first boot: nothing, or a registered project
\* with an upvote.
Holding(rows) ==
  [tables |-> [t \in Table |-> [rows |-> rows[t], ver |-> 0]],
   next |-> [t \in Table |-> IF rows[t] = {} THEN 1 ELSE 2], ver |-> 0]

NothingStored == Holding([t \in Table |-> {}])

Registered ==
  Holding([t \in Table |-> {[id |-> 1, op |-> 0, ref |-> IF t = "users" THEN 0 ELSE 1]}])

Init ==
  /\ durable \in {NothingStored, Registered}
  /\ arrays = [t \in Table |-> <<durable.tables[t]>>]
  /\ next = durable.next
  /\ ver = 0
  /\ clock = 0
  /\ dirty = FALSE
  /\ sweeping = FALSE
  /\ latest = NoState
  /\ timer = FALSE
  /\ queue = <<>>
  /\ tx = NoState
  /\ reading = 0
  /\ failed = FALSE
  /\ flush = "no"
  /\ ahead = 0
  /\ up = TRUE
  /\ past = {durable}

------------------------------------------------------------------------------
(* Changes of memory made by request handlers.                             *)

Saved == [arr |-> [t \in Table |-> Len(arrays'[t])], next |-> next']

\* Mutant of Save: the timer is left to somebody else.
SaveUnarmed ==
  /\ latest' = Saved
  /\ dirty' = FALSE
  /\ failed' = FALSE
  /\ UNCHANGED timer

\* ProjectsService.persist() / CommunityService's save(this.state), after the
\* change, in the same synchronous step.
Save ==
  /\ latest' = Saved
  /\ timer' = TRUE
  /\ dirty' = FALSE
  /\ failed' = FALSE

\* One more change of memory.
Changed ==
  /\ clock < MaxOps
  /\ clock' = clock + 1
  /\ ver' = clock + 1
  /\ past' = past \cup {Mem'}

\* The array of table t with one more row, which names ref.
With(t, ref) ==
  [rows |-> Current(t).rows \cup {[id |-> next[t], op |-> clock + 1, ref |-> ref]},
   ver |-> clock + 1]

NextIds(refs) ==
  [t \in Table |-> IF t \in DOMAIN refs THEN next[t] + 1 ELSE next[t]]

\* Mutant of PushRows: the users are replaced, not changed in place.
PushUsersAnew(refs) ==
  /\ arrays' = [t \in Table |->
       IF t \notin DOMAIN refs THEN arrays[t]
       ELSE IF t = "users" THEN Append(arrays[t], With(t, refs[t]))
       ELSE [arrays[t] EXCEPT ![Len(arrays[t])] = With(t, refs[t])]]
  /\ next' = NextIds(refs)
  /\ Changed

\* this.<table>.push({ id: this.next<Entity>Id++, ... }), in one table or more.
PushRows(refs) ==
  /\ arrays' = [t \in Table |->
       IF t \in DOMAIN refs
       THEN [arrays[t] EXCEPT ![Len(arrays[t])] = With(t, refs[t])]
       ELSE arrays[t]]
  /\ next' = NextIds(refs)
  /\ Changed

Served == UNCHANGED <<sweeping, queue, tx, reading, durable, flush, ahead, up>>

\* The first login of an account.
Login ==
  /\ up
  /\ PushRows([t \in {"users"} |-> 0])
  /\ Save
  /\ Served

\* A registration by somebody new (upsertMaker), or by the user u.
SubmitProject ==
  /\ up
  /\ PushRows([t \in {"users", "projects", "events"} |->
            CASE t = "users"    -> 0
              [] t = "projects" -> next["users"]
              [] t = "events"   -> next["projects"]])
  /\ Save
  /\ Served

SubmitAgain(u) ==
  /\ up
  /\ PushRows([t \in {"projects", "events"} |->
            IF t = "projects" THEN u.id ELSE next["projects"]])
  /\ Save
  /\ Served

\* toggleUpvote: an upvote of the project p, and a notice to its maker.
AddUpvote(p) ==
  /\ up
  /\ PushRows([t \in {"upvotes", "events"} |-> p.id])
  /\ Save
  /\ Served

\* toggleUpvote on an existing upvote: `filter' makes a new array of upvotes, the
\* states already given to the driver keep the old one beside all other tables.
TakeBack(v) ==
  /\ up
  /\ arrays' = [arrays EXCEPT !["upvotes"] =
       Append(@, [rows |-> {r \in Current("upvotes").rows : r.id # v.id},
                  ver |-> clock + 1])]
  /\ UNCHANGED next
  /\ Changed
  /\ Save
  /\ Served

\* A request that saves and changes no row: setProjectFeatured on a project that
\* is featured already; it may come again and again, and lengthen the chain for
\* ever, by at most MaxChain states at a time.
Resave ==
  /\ up
  /\ Len(queue) < MaxChain
  /\ UNCHANGED memVars
  /\ Save
  /\ Served

\* refreshAllProjects records one refresh event after each awaited probe and
\* saves only after the last one.
SweepStep(p) ==
  /\ up
  /\ Driver = "projects"
  /\ PushRows([t \in {"events"} |-> p.id])
  /\ sweeping' = TRUE
  /\ dirty' = TRUE
  /\ UNCHANGED <<driverVars, failed, durable, flush, ahead, up>>

SweepEnd ==
  /\ up
  /\ sweeping
  /\ sweeping' = FALSE
  /\ UNCHANGED <<memVars, queue, tx, reading, durable, flush, ahead, up>>
  /\ Save

------------------------------------------------------------------------------
(* The driver.                                                             *)

\* Mutant of Drain: a flag says that a transaction runs, and the state is dropped.
DrainDropsWhenBusy ==
  /\ latest' = NoState
  /\ IF latest # NoState /\ tx = NoState
     THEN Begin(latest) ELSE UNCHANGED <<tx, reading>>
  /\ UNCHANGED queue

\* drain(): hand the latest state to the chain; an idle chain serialises at once.
Drain ==
  /\ latest' = NoState
  /\ IF latest = NoState
     THEN UNCHANGED <<queue, tx, reading>>
     ELSE IF tx = NoState
          THEN Begin(latest) /\ UNCHANGED queue
          ELSE queue' = Append(queue, latest) /\ UNCHANGED <<tx, reading>>

TimerFires ==
  /\ up
  /\ timer
  /\ timer' = FALSE
  /\ Drain
  /\ UNCHANGED <<memVars, dirty, sweeping, failed, durable, flush, ahead, up>>

\* s.users.map in the transaction, two answers of the database after its start.
UsersRead ==
  /\ up
  /\ reading # 0
  /\ tx' = [tx EXCEPT !.tables["users"] = arrays["users"][reading]]
  /\ reading' = 0
  /\ UNCHANGED <<memVars, latest, timer, queue, dirty, sweeping, failed, durable,
                 flush, ahead, up>>

\* Mutant of Advance: the newest state first.
AdvanceNewestFirst ==
  IF queue = <<>>
  THEN tx' = NoState /\ reading' = 0 /\ UNCHANGED queue
  ELSE Begin(queue[Len(queue)]) /\ queue' = SubSeq(queue, 1, Len(queue) - 1)

\* The running transaction settles: the chain starts the next one.
Advance ==
  IF queue = <<>>
  THEN tx' = NoState /\ reading' = 0 /\ UNCHANGED queue
  ELSE Begin(Head(queue)) /\ queue' = Tail(queue)

\* The transactions of the chain that have not settled.
Links(q, s) == Len(q) + (IF s = NoState THEN 0 ELSE 1)

Waiting == flush # "no"

\* Mutant of FlushWaits: it waits until the chain is empty.
FlushWaitsForIdle ==
  /\ flush' = IF Links(queue', tx') = 0 THEN "no" ELSE flush
  /\ UNCHANGED ahead

\* A promise flush() awaits is that of the chain when the await began: links added
\* since are not waited for, except that there are two awaits.
FlushWaits ==
  LET left == IF ahead > 1 THEN ahead - 1
              ELSE IF flush = "drained" THEN Links(queue', tx') ELSE 0
  IN  IF Waiting
      THEN /\ ahead' = left
           /\ flush' = IF left = 0 THEN "no"
                       ELSE IF ahead > 1 THEN flush ELSE "chain"
      ELSE UNCHANGED <<flush, ahead>>

Commit ==
  /\ up
  /\ tx # NoState
  /\ reading = 0
  /\ Insertable(tx)
  /\ durable' = tx
  /\ Advance
  /\ FlushWaits
  /\ UNCHANGED <<memVars, dirty, sweeping, latest, timer, failed, up>>

\* What the database makes of a transaction whose answer never comes.
MayCommit ==
  \/ durable' = durable
  \/ tx # NoState /\ reading = 0 /\ Insertable(tx) /\ durable' = tx

\* A rejected transaction is logged and its state dropped; a connection lost at
\* COMMIT is a rejection for the driver only.
Fail ==
  /\ up
  /\ tx # NoState
  /\ MayCommit
  /\ failed' = (queue = <<>> /\ latest = NoState)
  /\ Advance
  /\ FlushWaits
  /\ UNCHANGED <<memVars, dirty, sweeping, latest, timer, up>>

\* flush(): cancel the timer, drain, wait for the chain.  Its caller is
\* onModuleDestroy, when app.close() is called: before the server is closed, so
\* that requests and sweeps go on meanwhile, and may after it has returned.
FlushBegin ==
  /\ up
  /\ flush = "no"
  /\ timer' = FALSE
  /\ Drain
  /\ ahead' = Links(queue', tx')
  /\ flush' = IF ahead' = 0 THEN "no" ELSE "drained"
  /\ UNCHANGED <<memVars, dirty, sweeping, failed, durable, up>>

------------------------------------------------------------------------------
(* The process.                                                            *)

\* The process ends.  main.ts installs no shutdown hooks: a termination signal
\* is no better than a crash, and only app.close() runs onModuleDestroy first.
Stop ==
  /\ up
  /\ up' = FALSE
  /\ MayCommit
  /\ latest' = NoState
  /\ timer' = FALSE
  /\ queue' = <<>>
  /\ tx' = NoState
  /\ reading' = 0
  /\ sweeping' = FALSE
  /\ flush' = "no"
  /\ ahead' = 0
  /\ UNCHANGED <<memVars, dirty, failed>>

\* Boot: hydrate(await store.load()).
Restart ==
  /\ ~up
  /\ up' = TRUE
  /\ arrays' = [t \in Table |-> <<durable.tables[t]>>]
  /\ next' = durable.next
  /\ ver' = durable.ver
  /\ dirty' = FALSE
  /\ failed' = FALSE
  /\ past' = {durable}
  /\ UNCHANGED <<clock, sweeping, driverVars, durable, flush, ahead>>

Next ==
  \/ Login
  \/ SubmitProject
  \/ \E u \in Current("users").rows : SubmitAgain(u)
  \/ \E p \in Current("projects").rows : AddUpvote(p)
  \/ \E v \in Current("upvotes").rows : TakeBack(v)
  \/ Resave
  \/ \E p \in Current("projects").rows : SweepStep(p)
  \/ SweepEnd
  \/ TimerFires
  \/ UsersRead
  \/ Commit
  \/ Fail
  \/ FlushBegin
  \/ Stop
  \/ Restart

\* The event loop runs an expired timer, and Postgres answers every statement
\* with a result or an error.  Requests, signals and restarts are not fair.
Fairness ==
  /\ WF_vars(TimerFires)
  /\ WF_vars(UsersRead)
  /\ WF_vars(Commit \/ Fail)

Spec == Init /\ [][Next]_vars
LiveSpec == Spec /\ Fairness

------------------------------------------------------------------------------
(* Properties.                                                             *)

\* Types of the driver's fields: in particular nothing but saved states waits in
\* the chain, although latest is null most of the time.
TypeOK ==
  /\ arrays \in [Table -> Seq(ArrayObject)]
  /\ \A t \in Table : Len(arrays[t]) > 0
  /\ next \in [Table -> Nat]
  /\ ver \in Nat
  /\ clock \in Nat
  /\ dirty \in BOOLEAN
  /\ sweeping \in BOOLEAN
  /\ latest \in Snapshot \cup {NoState}
  /\ timer \in BOOLEAN
  /\ queue \in Seq(Snapshot)
  /\ tx \in Stored \cup {NoState}
  /\ reading \in Nat
  /\ failed \in BOOLEAN
  /\ durable \in Stored
  /\ flush \in {"no", "drained", "chain"}
  /\ ahead \in Nat
  /\ up \in BOOLEAN
  /\ past \in SUBSET Stored

\* What the end of the pipeline will make durable of table t if nothing fails: a
\* state still to be serialised will read the array it names.
Covered(t) ==
  IF latest # NoState THEN latest.arr[t] = Len(arrays[t]) /\ timer
  ELSE IF queue # <<>> THEN queue[Len(queue)].arr[t] = Len(arrays[t])
  ELSE IF tx # NoState
       THEN IF t = "users" /\ reading # 0 THEN reading = Len(arrays[t])
            ELSE tx.tables[t].ver = Current(t).ver
  ELSE durable.tables[t].ver = Current(t).ver

\* Coalescing forgets nothing: as long as no transaction failed and every
\* change was followed by save(), the newest change of every table is durable or
\* some part of the driver (armed timer, chain, transaction) still holds it.
NothingForgotten == up /\ ~dirty /\ ~failed => \A t \in Table : Covered(t)

\* Every table is written at least as the change v left it.
Written(v) ==
  \A s \in past : s.ver = v =>
    \A t \in Table : durable.tables[t].ver >= s.tables[t].ver

\* A saved change becomes durable, unless its transaction fails with nothing
\* behind it, transactions go on failing for ever, or the process ends first.
EventuallyDurable ==
  \/ []<><<Fail>>_vars
  \/ \A v \in 1 .. MaxOps :
       (up /\ ver = v /\ latest # NoState) ~> (Written(v) \/ failed \/ ~up)

\* flush() returns, whatever the transactions it waits for do, and although
\* requests may go on saving for ever and lengthen the chain.
FlushReturns == Waiting ~> ~Waiting

\* Rows name rows that are there.
Whole(s) ==
  /\ \A p \in s.tables["projects"].rows : \E u \in s.tables["users"].rows : u.id = p.ref
  /\ \A t \in {"events", "upvotes"} : \A r \in s.tables[t].rows :
       \E p \in s.tables["projects"].rows : p.id = r.ref

\* What a restart loads may be a mixture: users of a later moment than the
\* projects, upvotes of an earlier one (persist() reads the users after the start
\* of the transaction, toggleUpvote leaves it the array of the time of save()).
\* But never one in which a project names a user, or an upvote, a notice or an
\* event a project, that is not there.
ReferencesDurable == Whole(durable)

\* README.md:165, "다음 ID가 유지됩니다" after a restart: the counters that a
\* restart will load are ahead of every id it will load.
NextIdAhead ==
  \A t \in Table : \A r \in durable.tables[t].rows : r.id < durable.next[t]

------------------------------------------------------------------------------
Store == INSTANCE DurableStore
           WITH Tables <- {"state"}, Contents <- Stored,
                mem <- [t \in {"state"} |-> Mem], past <- [t \in {"state"} |-> past],
                disk <- [t \in {"state"} |-> durable], running <- up

\* The community driver is a store with delayed writes of one table, the whole
\* state: what is durable is always a state the service has been in since its
\* boot, counters included, later and later ones, and a boot resumes from it.
StoreSpec == Store!DSSpec

Rows == INSTANCE DurableStore
          WITH Tables <- Table, Contents <- ArrayObject,
               mem <- [t \in Table |-> Current(t)],
               past <- [t \in Table |-> {s.tables[t] : s \in past}],
               disk <- durable.tables, running <- up

\* Both drivers are such a store for each table by itself: no transaction, however
\* late it starts or reads and through whatever array, makes a content durable
\* that the table never had, or an older one than the database holds, and a boot
\* resumes from those rows.  The tables need not be of one moment (see
\* ReferencesDurable), and the counters of the project driver are another matter:
\* NextIdAhead.
TablesSpec == Rows!DSSpec
==============================================================================
