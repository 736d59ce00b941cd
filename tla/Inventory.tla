------------------------------ MODULE Inventory ------------------------------
(***************************************************************************)
(* What enrollment promises, whatever requests, failures and crashes do:   *)
(* an inventory of devices.  An enrolled device has one address for good,  *)
(* a status that only an operator changes, and one valid credential, which *)
(* only its next enrollment replaces.                                      *)
(***************************************************************************)
CONSTANTS
    Devices,
    Addresses,
    ServerAddress,      \* an address that no device gets
    Credentials,
    Statuses,
    FirstStatuses,      \* the statuses a device may begin with
    AdminStatuses       \* the statuses an operator may give it

VARIABLES
    record,     \* the address and status of each enrolled device
    valid,      \* the valid credentials of a device
    used        \* the credentials that are or have been valid

vars == <<record, valid, used>>

Record == [address : Addresses, status : Statuses]

Init ==
    /\ record \in [{} -> Record]
    /\ valid = [d \in Devices |-> {}]
    /\ used = {}

Taken == {record[d].address : d \in DOMAIN record}

\* A fresh credential replaces the valid one, with the record, or not at all.
\* A device keeps its record; the first one has an address of its own.
Enroll(d, c, new) ==
    /\ c \notin used
    /\ IF d \in DOMAIN record
       THEN new = record[d]
       ELSE new.address \notin Taken \cup {ServerAddress} /\ new.status \in FirstStatuses
    /\ record' = [e \in DOMAIN record \cup {d} |-> IF e = d THEN new ELSE record[e]]
    /\ valid' = [valid EXCEPT ![d] = {c}]
    /\ used' = used \cup {c}

SetStatus(d, status) ==
    /\ d \in DOMAIN record
    /\ record' = [record EXCEPT ![d].status = status]
    /\ UNCHANGED <<valid, used>>

Next ==
    \/ \E d \in Devices, c \in Credentials, new \in Record : Enroll(d, c, new)
    \/ \E d \in Devices, status \in AdminStatuses : SetStatus(d, status)

Spec == Init /\ [][Next]_vars
=============================================================================
