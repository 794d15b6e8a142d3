----------------------------- MODULE FileStore -----------------------------
(* The JSON store of apps/api and everybody who writes it: the server, which  *)
(* holds the whole store in memory, reads the file once at boot and writes    *)
(* all of it after every change (to a temporary file that is then renamed),   *)
(* and the seed scripts, processes of their own that read the file, merge a    *)
(* fixture and write it back, whether or not the server is running.           *)
EXTENDS Seeding

NoFile  == [at |-> "none"]
Damaged == [at |-> "damaged"]
Half    == [at |-> "half"]
Holds(s) == [at |-> "store", store |-> s]

CONSTANTS Fixtures,     \* what the fixture files may hold
          Emails,       \* addresses people register with
          Files,        \* what the store file may hold before the first start
          MaxChanges,   \* bound on the changes made through the server
          MaxScripts    \* bound on the runs of the scripts

ASSUME FileStoreAssumption == {MaxChanges, MaxScripts} \subseteq Nat /\ Fixtures # {}
ASSUME FixturesAssumption  == \A f \in Fixtures : IsFixture(f)
ASSUME FilesAssumption ==
  \A f \in Files : \/ f \in {NoFile, Damaged}
                   \/ f = Holds(f.store) /\ Sound(Deserialize(f.store), Tables)

VARIABLES file,      \* the store file: none, damaged, half written, or a store
          mem, serving,   \* the server
          writing,   \* the server wrote the temporary file, not renamed it yet
          script,    \* the script that runs: what it read and what it will write
          acked,     \* the file as the last answered change left it (history)
          last,      \* who wrote the file last, with what (history)
          changes, runs
fileVars == <<file, mem, serving, writing, script, acked, last, changes, runs>>

Idle    == [at |-> "idle"]
Nobody  == [by |-> "nobody"]

FileInit ==
  /\ file \in Files /\ acked = file /\ last = Nobody
  /\ mem = Empty /\ serving = FALSE /\ writing = FALSE /\ script = Idle
  /\ changes = 0 /\ runs = 0
-----------------------------------------------------------------------------
(* Boot: JsonProjectsStore.read throws on a damaged file and the server ends. *)
Boot ==
  /\ ~serving /\ file.at \in {"none", "store"}
  /\ serving' = TRUE /\ mem' = IF file.at = "none" THEN Empty ELSE Deserialize(file.store)
  /\ UNCHANGED <<file, writing, script, acked, last, changes, runs>>

(* A handler changes memory and calls persist(): JsonProjectsStore.write puts *)
(* the whole store into a temporary file beside the store.                    *)
\* Mutant of WriteTemporary: the store file itself is written.
WriteInPlace == writing' = TRUE /\ file' = Half

WriteTemporary == writing' = TRUE /\ UNCHANGED file

(* The date of a run of a script, which tells it from the other runs; nothing *)
(* tells the dates apart that the server gives.                               *)
Now        == runs + 1
ServerDate == 9

Change(s) ==
  /\ serving /\ ~writing /\ changes < MaxChanges
  /\ mem' = s /\ changes' = changes + 1
  /\ WriteTemporary
  /\ UNCHANGED <<serving, script, acked, last, runs>>

Push(t, row) ==
  [mem EXCEPT !.rows[t] = @ \cup {Over([id |-> mem.next[t]], row)}, !.next[t] = @ + 1]

Register == \E e \in Emails :
  /\ \A u \in mem.rows["users"] : u.email # e
  /\ Change(Push("users", [email |-> e, role |-> "member", name |-> "own"]))

Submit == \E u \in mem.rows["users"] :
  /\ u.role = "maker"
  /\ Change(Push("projects", [userId |-> u.id, title |-> "own", matchCount |-> 0,
                              committed |-> 0, at |-> ServerDate]))

Counted(q, p) ==
  IF q.id = p.id THEN [q EXCEPT !.matchCount = @ + 1, !.committed = @ + Amount.large] ELSE q
Propose == \E u \in mem.rows["users"], p \in mem.rows["projects"] :
  /\ u.role = "investor"
  /\ Change([Push("proposals", [projectId |-> p.id, fundingRangeId |-> "large", at |-> ServerDate])
               EXCEPT !.rows["projects"] = {Counted(q, p) : q \in @}])

Upvote == \E u \in mem.rows["users"], p \in mem.rows["projects"] :
  LET mine == {v \in mem.rows["upvotes"] : Key(v) = <<p.id, u.email>>}
  IN IF mine # {} THEN Change([mem EXCEPT !.rows["upvotes"] = @ \ mine])
                  ELSE Change(Push("upvotes", [projectId |-> p.id, email |-> u.email, at |-> ServerDate]))

WriteLog == \E p \in mem.rows["projects"] : Change(Push("logEntries", [projectId |-> p.id, at |-> ServerDate]))

(* The rename, after which the request is answered.                           *)
Rename ==
  /\ writing /\ writing' = FALSE
  /\ file' = Holds(mem) /\ acked' = Holds(mem) /\ last' = Nobody
  /\ UNCHANGED <<mem, serving, script, changes, runs>>

(* Writing fails (no space, no permission): the request fails, memory keeps   *)
(* the change.                                                                *)
WriteFails ==
  /\ writing /\ writing' = FALSE
  /\ UNCHANGED <<file, mem, serving, script, acked, last, changes, runs>>

Crash ==
  /\ serving /\ serving' = FALSE /\ writing' = FALSE /\ mem' = Empty
  /\ UNCHANGED <<file, script, acked, last, changes, runs>>
-----------------------------------------------------------------------------
(* The scripts.  A damaged file reads as an empty store.                      *)
ReadFile == IF file.at = "store" THEN file.store ELSE Empty

Start(kind, f, result, write) ==
  /\ script = Idle /\ runs < MaxScripts /\ runs' = runs + 1
  /\ script' = [at |-> "read", kind |-> kind, fixture |-> f, read |-> file,
                result |-> result.state, write |-> write]
  /\ UNCHANGED <<file, mem, serving, writing, acked, last, changes>>

SeedTestData == \E f \in Fixtures, reset, dryRun \in BOOLEAN :
  LET before == LoadData(IF reset THEN Empty ELSE ReadFile)
      result == SeedData(before, LoadFixture(f, Now))
  IN /\ Usable(f)
     /\ Start(IF reset THEN "reset" ELSE "data", f, result, ~dryRun /\ (result.changed \/ reset))

SeedTestAccounts == \E f \in Fixtures, dryRun \in BOOLEAN :
  LET accounts == NormalAccounts(f.accounts, {"maker", "investor"})
      result   == SeedAccounts(LoadAccounts(ReadFile), accounts)
  IN accounts # <<>> /\ Start("accounts", f, result, ~dryRun /\ result.changed)

ScriptWrites ==
  /\ script.at = "read" /\ script.write
  /\ file' = Holds(script.result)
  /\ last' = [by |-> script.kind, fixture |-> script.fixture, over |-> script.read]
  /\ script' = Idle
  /\ UNCHANGED <<mem, serving, writing, acked, changes, runs>>

(* Nothing to write, a dry run, or the script is stopped before it writes.    *)
ScriptEnds ==
  /\ script.at = "read" /\ script' = Idle
  /\ UNCHANGED <<file, mem, serving, writing, acked, last, changes, runs>>

FileNext == \/ Boot \/ Register \/ Submit \/ Propose \/ Upvote \/ WriteLog
        \/ Rename \/ WriteFails \/ Crash
        \/ SeedTestData \/ SeedTestAccounts \/ ScriptWrites \/ ScriptEnds
FileSpec == FileInit /\ [][FileNext]_fileVars
-----------------------------------------------------------------------------
Held == (IF file.at = "store" THEN {Deserialize(file.store)} ELSE {}) \cup (IF serving THEN {mem} ELSE {})

FileTypeOK ==
  /\ file.at \in {"none", "damaged", "half", "store"}
  /\ \A s \in Held : IsStore(s, Tables)
  /\ {serving, writing} \subseteq BOOLEAN /\ script.at \in {"idle", "read"}

(* In every store, on file or in memory, ids are unique in their table and    *)
(* below the counter that hands out the next one, whoever wrote the file      *)
(* last: the server after a seeding must not give an id away twice            *)
(* (seed-test-data.mjs updateNextIdsFromItems, deserializeState).             *)
IdsAreFresh == \A s \in Held : FreshIds(s, Tables)

(* Every project has an owner and every other row a project that exists, also *)
(* when a fixture is merged into a store whose ids it knows nothing of        *)
(* (seed() of seed-test-data.mjs filters what it takes from the fixture).     *)
ReferencesHold == \A s \in Held : References(s, Tables)

(* An address has one user, "upvotes are one person one vote"                 *)
(* (seed-test-data.mjs:842) and the counts of a project are those of its      *)
(* proposals, even where a fixture row took the place of a row of another     *)
(* project.                                                                   *)
SeededRowsAgree == \A s \in Held : RowsAgree(s, Tables)

(* Until a script writes, the file is the store as the last answered change   *)
(* left it, whenever the server crashes or fails to write: never half of one  *)
(* (JsonProjectsStore.write: temporary file, then rename).                    *)
AckedIsDurable == last = Nobody => file = acked

(* Seeding the same fixture again, later, leaves every row where and what it   *)
(* is, in whatever store it was merged into, but for the dates that the       *)
(* fixture itself leaves out, which are those of the latest run; upvotes      *)
(* excepted, where a vote that lost its id to another comes back with the     *)
(* second run.  A challenge that the fixture dates stays, too.                *)
SeedAgainIsTheSame ==
  last.by \in {"data", "reset"} =>
    LET f     == last.fixture
        again == SeedData(LoadData(file.store), LoadFixture(f, Now)).state
    IN /\ \A t \in DataTables \ {"upvotes"} :
            WithoutDates(again.rows[t], Undated(f, t)) = WithoutDates(file.store.rows[t], Undated(f, t))
       /\ f.challenge.at # 0 => again.challenge = file.store.challenge
=============================================================================
