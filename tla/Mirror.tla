-------------------------------- MODULE Mirror --------------------------------
(***************************************************************************)
(* What the synchronisation of wg0 promises, however many runs of it       *)
(* overlap, fail or die: the file has what one reading of the table gave,  *)
(* and the kernel what was in the file at one moment, each whole, and a    *)
(* run that does not come to its end has changed neither, or the file.     *)
(***************************************************************************)
CONSTANTS
    Runs,
    Tables,     \* what the table may hold
    Nothing     \* what a run has that has read nothing

VARIABLES
    table,
    conf,       \* the file
    kernel,
    at,         \* a run is out, or about to write, to load or to apply
    image       \* what it will write or apply

vars == <<table, conf, kernel, at, image>>

Init ==
    /\ table \in Tables
    /\ conf = table
    /\ kernel = table
    /\ at = [p \in Runs |-> "out"]
    /\ image = [p \in Runs |-> Nothing]

Move(p, from, to, held) ==
    /\ at[p] = from
    /\ at' = [at EXCEPT ![p] = to]
    /\ image' = [image EXCEPT ![p] = held]

Fetch(p) ==
    /\ Move(p, "out", "write", table)
    /\ UNCHANGED <<table, conf, kernel>>

Write(p) ==
    /\ Move(p, "write", "load", Nothing)
    /\ conf' = image[p]
    /\ UNCHANGED <<table, kernel>>

Read(p) ==
    /\ Move(p, "load", "apply", conf)
    /\ UNCHANGED <<table, conf, kernel>>

Apply(p) ==
    /\ Move(p, "apply", "out", Nothing)
    /\ kernel' = image[p]
    /\ UNCHANGED <<table, conf>>

\* Some fail or die.
Leave(P) ==
    /\ at' = [p \in Runs |-> IF p \in P THEN "out" ELSE at[p]]
    /\ image' = [p \in Runs |-> IF p \in P THEN Nothing ELSE image[p]]

Stop(P) == Leave(P) /\ UNCHANGED <<table, conf, kernel>>

\* The kernel begins with the file.
Restart ==
    /\ Leave(Runs)
    /\ kernel' = conf
    /\ UNCHANGED <<table, conf>>

Change ==
    /\ UNCHANGED <<conf, kernel, at, image>>
    /\ table' \in Tables

Next ==
    \/ Change
    \/ \E p \in Runs : Fetch(p) \/ Write(p) \/ Read(p) \/ Apply(p)
    \/ \E P \in SUBSET Runs : Stop(P)
    \/ Restart

Spec == Init /\ [][Next]_vars
===============================================================================
