---------------------------- MODULE DurableStore ----------------------------
(***************************************************************************)
(* What a store with delayed writes promises of each of its tables: the    *)
(* durable content is always a content the table has really had since the  *)
(* last boot, it only moves forward in time while the service runs, and a  *)
(* boot resumes from it exactly.  Nothing is said of the moments of two    *)
(* tables: a store that writes everything at once has a single table.      *)
(***************************************************************************)
EXTENDS Integers

CONSTANTS
  Tables,
  Contents    \* contents of a table: records with a version, ver

VARIABLES
  mem,     \* content of each table in the service
  past,    \* contents each table went through since boot
  disk,    \* durable content of each table
  running

absVars == <<mem, past, disk, running>>

DSInit ==
  /\ mem \in [Tables -> Contents]
  /\ past = [t \in Tables |-> {mem[t]}]
  /\ disk = mem
  /\ running = TRUE

\* A request changes some of the tables.
Change ==
  /\ running
  /\ mem' \in [Tables -> Contents]
  /\ \A t \in Tables : mem'[t] = mem[t] \/ mem'[t].ver > mem[t].ver
  /\ past' = [t \in Tables |-> past[t] \cup {mem'[t]}]
  /\ UNCHANGED <<disk, running>>

\* Each table is left as it was, or is given a younger content.
Forward ==
  /\ disk' \in [Tables -> Contents]
  /\ \A t \in Tables : disk'[t] \in past[t] /\ disk'[t].ver >= disk[t].ver

Sync ==
  /\ running
  /\ Forward
  /\ UNCHANGED <<mem, past, running>>

\* The process ends; a write on its way may still arrive.
Down ==
  /\ running
  /\ running' = FALSE
  /\ disk' = disk \/ Forward
  /\ UNCHANGED <<mem, past>>

Boot ==
  /\ ~running
  /\ running' = TRUE
  /\ mem' = disk
  /\ past' = [t \in Tables |-> {disk[t]}]
  /\ UNCHANGED disk

DSNext == Change \/ Sync \/ Down \/ Boot

DSSpec == DSInit /\ [][DSNext]_absVars
==============================================================================
