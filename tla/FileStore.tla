----------------------------- MODULE FileStore -----------------------------
(***************************************************************************)
(* The cache backend of Risk Guard on disk (FilesystemBackend of           *)
(* src/lib/common/cache/filesystem.go) and the way every cached fetch of   *)
(* the program uses it: look an entry up, serve it, or fetch and store it. *)
(*                                                                         *)
(* Any number of fetches share the files, within a run and across runs.    *)
(* Get looks at a file and reads it in two steps, so a writer may replace  *)
(* the file between them.  Set writes a temporary file and renames it, so  *)
(* a run that dies leaves the entry alone.  A fetch is a task: `pc' says   *)
(* where it is, `got' what it has read or fetched.                         *)
(***************************************************************************)
EXTENDS Integers

CONSTANTS
  Tasks       \* every fetch there may be, a record

VARIABLES
  clock,      \* the time, in units in which entries age
  store,      \* the files by key: their data, "torn" or "whole", and ModTime
  temp,       \* the temporary file of the task's Set
  pc,         \* where the task is
  got         \* the data the task read or fetched

storeVars == <<clock, store, temp>>
taskVars == <<pc, got>>

\* What a task holds: nothing yet, or one thing.
NoData == <<>>
Holds(t, data) == got' = [got EXCEPT ![t] = <<data>>]
Held(t) == got[t][1]
Ended == {"done", "failed", "dead"}
\* A task that uses the disk alone, which takes no time that counts.
OnDisk == {"read", "extract", "archive", "store", "write", "rename"}
Phases == Ended \cup OnDisk \cup {"idle", "lookup", "fetch", "checkout"}

Goto(t, where) == pc' = [pc EXCEPT ![t] = where]

-----------------------------------------------------------------------------
(* FilesystemBackend.Get *)

\* A bug: the age of the entry is not looked at.
UsableAtAnyAge(k, maxAge) == k \in DOMAIN store

\* os.Stat finds a file that is not older than maxAge.
Usable(k, maxAge) ==
  /\ k \in DOMAIN store
  /\ clock - store[k].at <= maxAge

\* Stat decides between a hit and a miss; it does not read yet.
Lookup(t, k, maxAge) ==
  /\ pc[t] = "lookup"
  /\ Goto(t, IF Usable(k, maxAge) THEN "read" ELSE "fetch")
  /\ UNCHANGED <<storeVars, got>>

\* ReadFile reads what is there by now.  A torn file does not parse or
\* unpack, which every caller returns as an error and never as a miss.
ReadEntry(t, k, next) ==
  /\ pc[t] = "read"
  /\ Holds(t, store[k].data)
  /\ Goto(t, IF store[k].form = "whole" THEN next ELSE "failed")
  /\ UNCHANGED storeVars

-----------------------------------------------------------------------------
(* FilesystemBackend.Set *)

WithEntry(k, file) ==
  [x \in DOMAIN store \cup {k} |-> IF x = k THEN file ELSE store[x]]

\* A bug: the entry is written in place, as os.WriteFile does.
CreateInPlace(t, k) ==
  /\ pc[t] = "store"
  /\ store' = WithEntry(k, [data |-> Held(t), form |-> "torn", at |-> clock])
  /\ temp' = [temp EXCEPT ![t] = "torn"]
  /\ Goto(t, "write")
  /\ UNCHANGED <<clock, got>>

CreateTemp(t, k) ==
  /\ pc[t] = "store"
  /\ temp' = [temp EXCEPT ![t] = "torn"]
  /\ Goto(t, "write")
  /\ UNCHANGED <<clock, store, got>>

WriteTemp(t) ==
  /\ pc[t] = "write"
  /\ temp' = [temp EXCEPT ![t] = "whole"]
  /\ Goto(t, "rename")
  /\ UNCHANGED <<clock, store, got>>

\* The rename publishes the file; Set was the last thing the task had to do.
Publish(t, k) ==
  /\ pc[t] = "rename"
  /\ store' = WithEntry(k, [data |-> Held(t), form |-> temp[t], at |-> clock])
  /\ temp' = [temp EXCEPT ![t] = "none"]
  /\ Goto(t, "done")
  /\ UNCHANGED <<clock, got>>

\* A failing step of Set removes the temporary file and fails the fetch,
\* although what it fetched was complete.
SetFails(t) ==
  /\ pc[t] \in {"store", "write", "rename"}
  /\ temp' = [temp EXCEPT ![t] = "none"]
  /\ Goto(t, "failed")
  /\ UNCHANGED <<clock, store, got>>

=============================================================================
