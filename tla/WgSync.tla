-------------------------------- MODULE WgSync --------------------------------
(***************************************************************************)
(* wireguard.sync_from_db step by step: the query, the [Interface] block   *)
(* read from wg0.conf, the temporary file that replaces it, and the helper *)
(* that loads it into the kernel (app/services/wireguard.py).  AutoEnroll  *)
(* has the same steps at the grain of "the peers in the file"; here the    *)
(* table is a version number and the file system is in full.               *)
(*                                                                         *)
(* Syncs run in the web process (one per enrollment) and in the command    *)
(* `wg sync': nothing makes one wait for another.                          *)
(***************************************************************************)
EXTENDS Integers

CONSTANTS
    Runs,        \* calls of sync_from_db
    Temps,       \* names of temporary files
    MaxTable,    \* bound: how often the peers in the table change
    MaxEdits,    \* bound: how often an operator edits the [Interface] block
    Part,        \* content of a file that is being written
    None         \* no file, no value

ASSUME BoundsAssumption == MaxTable \in Nat /\ MaxEdits \in Nat

\* A whole configuration.
Config  == [iface : 0 .. MaxEdits, peers : 0 .. MaxTable]
Content == Config \cup {Part}

ASSUME NoneAssumption == None \notin Temps \cup Content
ASSUME PartAssumption == Part \notin Config

VARIABLES
    table,   \* version of the active peers in Postgres
    edits,   \* version of the operator's [Interface] block
    file,    \* wg0.conf
    temp,    \* the temporary files next to it
    kernel,  \* what the helper loaded last
    pc,      \* where a run is
    peers,   \* the version a run has fetched
    block,   \* the block a run has read
    name,    \* the temporary file a run writes
    loading, \* what a run's helper has read
    alone,   \* no other run or change has overlapped this run so far (history)
    contended \* a sync was under way when the last edit was saved (history)

disk  == <<file, temp, kernel>>
vars  == <<table, edits, file, temp, kernel, pc, peers, block, name, loading,
           alone, contended>>

Labels == {"idle", "fetch", "block", "create", "fill", "rename", "strip",
           "load", "done", "failed", "gone"}
Ended  == {"done", "failed", "gone"}
Active == {p \in Runs : pc[p] \notin Ended \cup {"idle"}}

Goto(p, label) == pc' = [pc EXCEPT ![p] = label]

Init ==
    /\ table = 0
    /\ edits = 0
    /\ file = [iface |-> 0, peers |-> 0]
    /\ temp = [t \in Temps |-> None]
    /\ kernel = [iface |-> 0, peers |-> 0]
    /\ pc = [p \in Runs |-> "idle"]
    /\ peers = [p \in Runs |-> 0]
    /\ block = [p \in Runs |-> 0]
    /\ name = [p \in Runs |-> None]
    /\ loading = [p \in Runs |-> None]
    /\ alone = [p \in Runs |-> FALSE]
    /\ contended = FALSE

-----------------------------------------------------------------------------
Start(p) ==
    /\ pc[p] = "idle"
    /\ alone' = [q \in Runs |-> IF q = p THEN Active = {}
                               ELSE alone[q] /\ q \notin Active]
    /\ Goto(p, "fetch")
    /\ UNCHANGED <<table, edits, disk, peers, block, name, loading, contended>>

\* Mutant: the peers the kernel has now, not those of the table.
FetchKernel(p) ==
    /\ pc[p] = "fetch"
    /\ peers' = [peers EXCEPT ![p] = kernel.peers]
    /\ Goto(p, "block")
    /\ UNCHANGED <<table, edits, disk, block, name, loading, alone, contended>>

Fetch(p) ==
    /\ pc[p] = "fetch"
    /\ peers' = [peers EXCEPT ![p] = table]
    /\ Goto(p, "block")
    /\ UNCHANGED <<table, edits, disk, block, name, loading, alone, contended>>

\* Mutant: the block is generated afresh.
ReadBlockFresh(p) ==
    /\ pc[p] = "block"
    /\ file \in Config
    /\ block' = [block EXCEPT ![p] = 0]
    /\ Goto(p, "create")
    /\ UNCHANGED <<table, edits, disk, peers, name, loading, alone, contended>>

\* The file up to the marker or the first [Peer]; a missing file is an error.
ReadBlock(p) ==
    /\ pc[p] = "block"
    /\ file \in Config
    /\ block' = [block EXCEPT ![p] = file.iface]
    /\ Goto(p, "create")
    /\ UNCHANGED <<table, edits, disk, peers, name, loading, alone, contended>>

Rendered(p) == [iface |-> block[p], peers |-> peers[p]]

\* Mutant: one well-known temporary name.
FreshNameFixed(p) == {CHOOSE t \in Temps : TRUE}

\* mkstemp gives a name that no file has.
FreshName(p) == {t \in Temps : temp[t] = None}

Create(p) ==
    /\ pc[p] = "create"
    /\ \E t \in FreshName(p) :
         /\ temp' = [temp EXCEPT ![t] = Part]
         /\ name' = [name EXCEPT ![p] = t]
    /\ Goto(p, "fill")
    /\ UNCHANGED <<table, edits, file, kernel, peers, block, loading, alone, contended>>

\* The text is written and the descriptor closed; mode and owner are set.
Fill(p) ==
    /\ pc[p] = "fill"
    /\ temp' = [temp EXCEPT ![name[p]] = Rendered(p)]
    /\ Goto(p, "rename")
    /\ UNCHANGED <<table, edits, file, kernel, peers, block, name, loading, alone, contended>>

Rename(p) ==
    /\ pc[p] = "rename"
    /\ temp[name[p]] # None
    /\ file' = temp[name[p]]
    /\ temp' = [temp EXCEPT ![name[p]] = None]
    /\ name' = [name EXCEPT ![p] = None]
    /\ Goto(p, "strip")
    /\ UNCHANGED <<table, edits, kernel, peers, block, loading, alone, contended>>

\* Mutant: the exception leaves the temporary file behind.
WriteFailsUntidy(p) ==
    /\ pc[p] \in {"fill", "rename"}
    /\ name' = [name EXCEPT ![p] = None]
    /\ Goto(p, "failed")
    /\ UNCHANGED <<table, edits, disk, peers, block, loading, alone, contended>>

\* Mutant: the exception removes wg0.conf.
WriteFailsHard(p) ==
    /\ pc[p] \in {"fill", "rename"}
    /\ temp' = [temp EXCEPT ![name[p]] = None]
    /\ file' = None
    /\ name' = [name EXCEPT ![p] = None]
    /\ Goto(p, "failed")
    /\ UNCHANGED <<table, edits, kernel, peers, block, loading, alone, contended>>

\* write, chmod, chown or replace raises: the temporary file is unlinked.
WriteFails(p) ==
    /\ pc[p] \in {"fill", "rename"}
    /\ temp' = [temp EXCEPT ![name[p]] = None]
    /\ name' = [name EXCEPT ![p] = None]
    /\ Goto(p, "failed")
    /\ UNCHANGED <<table, edits, file, kernel, peers, block, loading, alone, contended>>

\* The query, the read of the block, mkstemp or the helper fails.
StepFails(p) ==
    /\ pc[p] \in {"fetch", "block", "create", "strip", "load"}
    /\ Goto(p, "failed")
    /\ UNCHANGED <<table, edits, disk, peers, block, name, loading, alone, contended>>

\* Mutant: the helper is handed what this run has rendered.
StripRendered(p) ==
    /\ pc[p] = "strip"
    /\ loading' = [loading EXCEPT ![p] = Rendered(p)]
    /\ Goto(p, "load")
    /\ UNCHANGED <<table, edits, disk, peers, block, name, alone, contended>>

\* The helper: wg syncconf wg0 <(wg-quick strip wg0).
Strip(p) ==
    /\ pc[p] = "strip"
    /\ loading' = [loading EXCEPT ![p] = file]
    /\ Goto(p, "load")
    /\ UNCHANGED <<table, edits, disk, peers, block, name, alone, contended>>

Load(p) ==
    /\ pc[p] = "load"
    /\ kernel' = loading[p]
    /\ loading' = [loading EXCEPT ![p] = None]
    /\ Goto(p, "done")
    /\ UNCHANGED <<table, edits, file, temp, peers, block, name, alone, contended>>

-----------------------------------------------------------------------------
\* An enrollment or an operator changes the active peers.
ChangeTable ==
    /\ table < MaxTable
    /\ table' = table + 1
    /\ alone' = [p \in Runs |-> FALSE]
    /\ UNCHANGED <<edits, disk, pc, peers, block, name, loading, contended>>

\* An operator edits the [Interface] block.
EditBlock ==
    /\ edits < MaxEdits
    /\ edits' = edits + 1
    /\ file' = [file EXCEPT !.iface = edits + 1]
    /\ contended' = (Active # {})
    /\ alone' = [p \in Runs |-> FALSE]
    /\ UNCHANGED <<table, temp, kernel, pc, peers, block, name, loading>>

\* The process dies: its temporary file stays.
Crash(p) ==
    /\ p \in Active
    /\ name' = [name EXCEPT ![p] = None]
    /\ loading' = [loading EXCEPT ![p] = None]
    /\ Goto(p, "gone")
    /\ UNCHANGED <<table, edits, disk, peers, block, alone, contended>>

Step(p) ==
    \/ Fetch(p) \/ ReadBlock(p) \/ Create(p) \/ Fill(p) \/ Rename(p)
    \/ Strip(p) \/ Load(p) \/ WriteFails(p) \/ StepFails(p)

Finished == (\A p \in Runs : pc[p] \in Ended) /\ UNCHANGED vars

Next ==
    \/ \E p \in Runs : Start(p) \/ Step(p) \/ Crash(p)
    \/ ChangeTable \/ EditBlock \/ Finished

Spec == Init /\ [][Next]_vars

-----------------------------------------------------------------------------
TypeOK ==
    /\ table \in 0 .. MaxTable
    /\ edits \in 0 .. MaxEdits
    /\ file \in Content
    /\ temp \in [Temps -> Content \cup {None}]
    /\ kernel \in Content
    /\ pc \in [Runs -> Labels]
    /\ peers \in [Runs -> 0 .. MaxTable]
    /\ block \in [Runs -> 0 .. MaxEdits]
    /\ name \in [Runs -> Temps \cup {None}]
    /\ loading \in [Runs -> Content \cup {None}]
    /\ alone \in [Runs -> BOOLEAN]
    /\ contended \in BOOLEAN

\* Whenever it is read, by another sync, by the helper or after a sync has been
\* killed at any point, wg0.conf is a whole configuration (_write_atomic).  That
\* is not said of a loss of power: nothing is synced to the disk ahead of the rename.
FileWhole == file \in Config /\ kernel \in Config

\* A sync that ends, whether well or with an error, leaves no temporary file.
\* Only one that was killed does.
NoStrayFiles ==
    \A t \in Temps :
        temp[t] # None =>
            \/ \E p \in Active : name[p] = t
            \/ \E p \in Runs : pc[p] = "gone"

\* Syncs carry the operator's [Interface] block over (wireguard.py:74-77), through
\* every overlap, failure and kill: the file has the block of the last edit, unless
\* that was saved while a sync was under way, which may then put an older one back.
BlockSticks == ~contended => file.iface = edits

\* A sync that ran alone brings the file and the kernel to the table as it
\* is, whatever crashed or overlapping syncs left there before.
SoloSyncRepairs ==
    \A p \in Runs :
        pc[p] = "done" /\ alone[p] /\ Active = {} =>
            file.peers = table /\ kernel = file

-----------------------------------------------------------------------------
(* The promise.                                                            *)

\* The four steps of a sync at the grain of module AutoEnroll.
At(p) ==
    IF pc[p] \in {"block", "create", "fill", "rename"} THEN "write"
    ELSE IF pc[p] = "strip" THEN "load"
    ELSE IF pc[p] = "load" THEN "apply"
    ELSE "out"

Image(p) ==
    IF At(p) = "write" THEN peers[p]
    ELSE IF At(p) = "apply" THEN loading[p].peers
    ELSE None

Mirrored == INSTANCE Mirror WITH
    Tables <- 0 .. MaxTable, Nothing <- None, conf <- file.peers,
    kernel <- kernel.peers, at <- [p \in Runs |-> At(p)], image <- [p \in Runs |-> Image(p)]

\* With the block that is carried over, the temporary files, failures and kills
\* at any point, the peers go from the table to the file in one step, and from
\* the file to the kernel in two: no run ever renames what another has written.
MirrorsTable == Mirrored!Spec
=============================================================================
