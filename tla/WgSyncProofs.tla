----------------------------- MODULE WgSyncProofs -----------------------------
(* Proofs about WgSync, for any number of overlapping syncs.               *)
EXTENDS WgSync, TLAPS

Writing == {"fill", "rename"}
HasRead == {"create"} \cup Writing
Fetched == {"block"} \cup HasRead

\* The file and the kernel are whole, and so is what a helper is loading.
Whole ==
    /\ file \in Config
    /\ kernel \in Config
    /\ \A p \in Runs : pc[p] = "load" => loading[p] \in Config

\* A run that writes has a temporary file to itself.
Names ==
    /\ \A p \in Runs : name[p] # None <=> pc[p] \in Writing
    /\ \A p, q \in Runs : p # q /\ name[p] # None => name[p] # name[q]
    /\ \A p \in Runs : pc[p] \in Writing => temp[name[p]] # None
    /\ \A p \in Runs : pc[p] = "rename" => temp[name[p]] = Rendered(p)

\* An edit that was saved between syncs is what every sync reads and carries.
Edited ==
    ~contended =>
        /\ file.iface = edits
        /\ \A p \in Runs : pc[p] \in HasRead => block[p] = edits

\* A sync that is alone has what it needs of the table as it is.
Solo(p) ==
    alone[p] =>
        /\ p \in Active => Active = {p}
        /\ pc[p] \in Fetched => peers[p] = table
        /\ pc[p] \in {"strip", "load"} => file.peers = table
        /\ pc[p] = "load" => loading[p] = file

\* Once one has ended well, those that follow, alone or not, change nothing
\* until the table or the block does.
Settled ==
    (\E p \in Runs : pc[p] = "done" /\ alone[p]) =>
        /\ file.peers = table
        /\ kernel = file
        /\ \A q \in Runs : /\ pc[q] \in Fetched => peers[q] = table
                           /\ pc[q] \in HasRead => block[q] = file.iface
                           /\ pc[q] = "load" => loading[q] = file

IInv ==
    /\ TypeOK /\ Whole /\ Names /\ NoStrayFiles /\ Edited
    /\ \A p \in Runs : Solo(p)
    /\ Settled

USE BoundsAssumption, NoneAssumption, PartAssumption

-----------------------------------------------------------------------------
LEMMA RenderedWhole ==
    ASSUME TypeOK, NEW p \in Runs
    PROVE  Rendered(p) \in Config /\ Rendered(p) # None /\ Rendered(p) # Part
BY DEF TypeOK, Rendered, Config, Content

LEMMA BasicStep ==
    ASSUME TypeOK, Whole, Names, NoStrayFiles, [Next]_vars
    PROVE  TypeOK' /\ Whole' /\ Names' /\ NoStrayFiles'
<1> DEFINE Goal == TypeOK' /\ Whole' /\ Names' /\ NoStrayFiles'
<1> USE DEF Goto, disk, Labels, Ended, Writing
<1>0. SUFFICES Goal
  OBVIOUS
<1>1. ASSUME NEW p \in Runs, Start(p) \/ Fetch(p) \/ ReadBlock(p)
      PROVE  Goal
  <2>1. TypeOK'
    <3>1. CASE Start(p)
      BY <3>1 DEF TypeOK, Start
    <3>2. CASE Fetch(p)
      BY <3>2 DEF TypeOK, Fetch
    <3>3. CASE ReadBlock(p)
      <4>1. file.iface \in 0 .. MaxEdits
        BY <3>3 DEF ReadBlock, Config
      <4> QED
        BY <3>3, <4>1 DEF TypeOK, ReadBlock
    <3> QED
      BY <1>1, <3>1, <3>2, <3>3
  <2>2. Whole'
    BY <1>1 DEF TypeOK, Whole, Start, Fetch, ReadBlock
  <2>3. Names'
    BY <1>1 DEF TypeOK, Names, Start, Fetch, ReadBlock, Rendered
  <2>4. NoStrayFiles'
    BY <1>1 DEF TypeOK, NoStrayFiles, Active, Start, Fetch, ReadBlock
  <2> QED
    BY <2>1, <2>2, <2>3, <2>4
<1>2. ASSUME NEW p \in Runs, Create(p)
      PROVE  Goal
  <2>1. PICK t \in Temps : /\ temp[t] = None
                           /\ temp' = [temp EXCEPT ![t] = Part]
                           /\ name' = [name EXCEPT ![p] = t]
    BY <1>2 DEF Create, FreshName
  <2>2. TypeOK' /\ Whole'
    BY <1>2, <2>1 DEF TypeOK, Whole, Create, Content
  <2>3. Names'
    BY <1>2, <2>1 DEF TypeOK, Names, Create, Content, Rendered
  <2>4. NoStrayFiles'
    <3>1. /\ name[p] = None /\ name'[p] = t /\ p \in Active'
          /\ \A q \in Runs \ {p} : name'[q] = name[q] /\ pc'[q] = pc[q]
          /\ pc[p] # "gone" /\ \A u \in Temps \ {t} : temp'[u] = temp[u]
      BY <1>2, <2>1 DEF TypeOK, Names, Create, Active
    <3>2. \A u \in Temps \ {t} : (\E q \in Active : name[q] = u)
                                  => \E q \in Active' : name'[q] = u
      BY <3>1 DEF Active
    <3> QED
      BY <3>1, <3>2 DEF NoStrayFiles
  <2> QED
    BY <2>2, <2>3, <2>4
<1>3. ASSUME NEW p \in Runs, Fill(p)
      PROVE  Goal
  <2>1. Rendered(p) \in Config /\ name[p] \in Temps
    BY <1>3, RenderedWhole DEF TypeOK, Names, Fill
  <2>2. TypeOK' /\ Whole'
    BY <1>3, <2>1 DEF TypeOK, Whole, Fill, Content
  <2>3. Names'
    BY <1>3, <2>1, RenderedWhole DEF TypeOK, Names, Fill, Rendered
  <2>4. NoStrayFiles'
    BY <1>3, <2>1 DEF TypeOK, NoStrayFiles, Active, Fill, Names
  <2> QED
    BY <2>2, <2>3, <2>4
<1>4. ASSUME NEW p \in Runs, Rename(p)
      PROVE  Goal
  <2>1. temp[name[p]] = Rendered(p) /\ Rendered(p) \in Config /\ name[p] \in Temps
    BY <1>4, RenderedWhole DEF TypeOK, Names, Rename
  <2>2. TypeOK' /\ Whole'
    BY <1>4, <2>1 DEF TypeOK, Whole, Rename, Content
  <2>3. Names'
    BY <1>4, <2>1 DEF TypeOK, Names, Rename, Rendered
  <2>4. NoStrayFiles'
    BY <1>4, <2>1 DEF TypeOK, NoStrayFiles, Active, Rename, Names
  <2> QED
    BY <2>2, <2>3, <2>4
<1>5. ASSUME NEW p \in Runs, WriteFails(p)
      PROVE  Goal
  <2>1. name[p] \in Temps
    BY <1>5 DEF TypeOK, Names, WriteFails
  <2>2. TypeOK' /\ Whole'
    BY <1>5, <2>1 DEF TypeOK, Whole, WriteFails
  <2>3. Names'
    BY <1>5, <2>1 DEF TypeOK, Names, WriteFails, Rendered
  <2>4. NoStrayFiles'
    BY <1>5, <2>1 DEF TypeOK, NoStrayFiles, Active, WriteFails, Names
  <2> QED
    BY <2>2, <2>3, <2>4
<1>6. ASSUME NEW p \in Runs, StepFails(p) \/ Strip(p) \/ Load(p)
      PROVE  Goal
  <2>1. TypeOK' /\ Whole'
    BY <1>6 DEF TypeOK, Whole, StepFails, Strip, Load, Content
  <2>2. Names'
    BY <1>6 DEF TypeOK, Names, StepFails, Strip, Load, Rendered
  <2>3. NoStrayFiles'
    BY <1>6 DEF TypeOK, NoStrayFiles, Active, StepFails, Strip, Load, Names
  <2> QED
    BY <2>1, <2>2, <2>3
<1>7. ASSUME NEW p \in Runs, Crash(p)
      PROVE  Goal
  <2>1. TypeOK' /\ Whole'
    BY <1>7 DEF TypeOK, Whole, Crash, Active
  <2>2. Names'
    BY <1>7 DEF TypeOK, Names, Crash, Rendered
  <2>3. NoStrayFiles'
    BY <1>7 DEF TypeOK, NoStrayFiles, Active, Crash
  <2> QED
    BY <2>1, <2>2, <2>3
<1>8. CASE ChangeTable
  BY <1>8 DEF TypeOK, Whole, Names, NoStrayFiles, Active, ChangeTable, Rendered
<1>9. CASE EditBlock
  <2>1. file' \in Config /\ edits' \in 0 .. MaxEdits
    BY <1>9 DEF TypeOK, Whole, EditBlock, Config
  <2>2. TypeOK' /\ Whole'
    BY <1>9, <2>1 DEF TypeOK, Whole, EditBlock, Content
  <2> QED
    BY <1>9, <2>2 DEF Names, NoStrayFiles, Active, EditBlock, Rendered
<1>10. CASE UNCHANGED vars
  BY <1>10 DEF vars, TypeOK, Whole, Names, NoStrayFiles, Active, Rendered
<1> HIDE DEF Goal
<1> QED
  BY <1>1, <1>2, <1>3, <1>4, <1>5, <1>6, <1>7, <1>8, <1>9, <1>10
     DEF Next, Step, Finished

LEMMA EditedStep ==
    ASSUME TypeOK, Whole, Names, Edited, [Next]_vars
    PROVE  Edited'
<1> USE DEF Goto, disk, Labels, Ended, Writing, HasRead
<1>1. ASSUME NEW p \in Runs, Start(p) \/ Fetch(p) \/ ReadBlock(p)
      PROVE  Edited'
  BY <1>1 DEF TypeOK, Edited, Start, Fetch, ReadBlock
<1>2. ASSUME NEW p \in Runs, Create(p) \/ Fill(p)
      PROVE  Edited'
  BY <1>2 DEF TypeOK, Edited, Create, Fill
<1>3. ASSUME NEW p \in Runs, Rename(p)
      PROVE  Edited'
  <2>1. file' = Rendered(p)
    BY <1>3 DEF Names, Rename
  <2> QED
    BY <1>3, <2>1 DEF TypeOK, Edited, Rename, Rendered
<1>4. ASSUME NEW p \in Runs, WriteFails(p) \/ StepFails(p) \/ Strip(p) \/ Load(p)
      PROVE  Edited'
  BY <1>4 DEF TypeOK, Edited, WriteFails, StepFails, Strip, Load
<1>5. ASSUME NEW p \in Runs, Crash(p)
      PROVE  Edited'
  BY <1>5 DEF TypeOK, Edited, Crash
<1>6. CASE ChangeTable
  BY <1>6 DEF Edited, ChangeTable
<1>7. CASE EditBlock
  <2>1. file'.iface = edits'
    BY <1>7 DEF Whole, EditBlock, Config
  <2> QED
    BY <1>7, <2>1 DEF Edited, EditBlock, Active
<1>8. CASE UNCHANGED vars
  BY <1>8 DEF vars, Edited
<1> QED
  BY <1>1, <1>2, <1>3, <1>4, <1>5, <1>6, <1>7, <1>8 DEF Next, Step, Finished

LEMMA SoloStep ==
    ASSUME TypeOK, Whole, Names, NEW p \in Runs, Solo(p), [Next]_vars
    PROVE  Solo(p)'
<1> USE DEF Goto, disk, Labels, Ended, Writing, HasRead, Fetched
<1>1. ASSUME NEW q \in Runs, Start(q)
      PROVE  Solo(p)'
  <2>1. CASE p = q
    BY <1>1, <2>1 DEF TypeOK, Solo, Start, Active
  <2>2. CASE p # q
    BY <1>1, <2>2 DEF TypeOK, Solo, Start, Active
  <2> QED
    BY <2>1, <2>2
<1>2. ASSUME NEW q \in Runs, Fetch(q) \/ ReadBlock(q) \/ Create(q) \/ Fill(q) \/ Strip(q)
      PROVE  Solo(p)'
  BY <1>2 DEF TypeOK, Solo, Active, Fetch, ReadBlock, Create, Fill, Strip
<1>3. ASSUME NEW q \in Runs, Rename(q)
      PROVE  Solo(p)'
  <2>1. file' = Rendered(q)
    BY <1>3 DEF Names, Rename
  <2> QED
    BY <1>3, <2>1 DEF TypeOK, Solo, Active, Rename, Rendered
<1>4. ASSUME NEW q \in Runs, WriteFails(q) \/ StepFails(q) \/ Load(q) \/ Crash(q)
      PROVE  Solo(p)'
  BY <1>4 DEF TypeOK, Solo, Active, WriteFails, StepFails, Load, Crash
<1>5. CASE ChangeTable \/ EditBlock
  BY <1>5 DEF Solo, ChangeTable, EditBlock
<1>6. CASE UNCHANGED vars
  BY <1>6 DEF vars, Solo, Active
<1> QED
  BY <1>1, <1>2, <1>3, <1>4, <1>5, <1>6 DEF Next, Step, Finished

LEMMA SettledStep ==
    ASSUME TypeOK, Whole, Names, \A p \in Runs : Solo(p), Settled, [Next]_vars
    PROVE  Settled'
<1> USE DEF Goto, disk, Labels, Ended, Writing, HasRead, Fetched
<1>1. ASSUME NEW q \in Runs, Start(q)
      PROVE  Settled'
  BY <1>1 DEF TypeOK, Settled, Start
<1>2. ASSUME NEW q \in Runs, Fetch(q) \/ ReadBlock(q)
      PROVE  Settled'
  BY <1>2 DEF TypeOK, Settled, Fetch, ReadBlock
<1>3. ASSUME NEW q \in Runs, Create(q) \/ Fill(q) \/ Strip(q)
      PROVE  Settled'
  BY <1>3 DEF TypeOK, Settled, Create, Fill, Strip
<1>4. ASSUME NEW q \in Runs, Rename(q)
      PROVE  Settled'
  <2>1. file' = Rendered(q)
    BY <1>4 DEF Names, Rename
  <2>2. CASE \E p \in Runs : pc[p] = "done" /\ alone[p]
    <3>1. file' = file
      BY <1>4, <2>1, <2>2 DEF Settled, Rename, Rendered, Whole, Config
    <3> QED
      BY <1>4, <2>2, <3>1 DEF TypeOK, Settled, Rename
  <2>3. CASE ~\E p \in Runs : pc[p] = "done" /\ alone[p]
    BY <1>4, <2>3 DEF TypeOK, Settled, Rename
  <2> QED
    BY <2>2, <2>3
<1>5. ASSUME NEW q \in Runs, WriteFails(q) \/ StepFails(q) \/ Crash(q)
      PROVE  Settled'
  BY <1>5 DEF TypeOK, Settled, WriteFails, StepFails, Crash
<1>6. ASSUME NEW q \in Runs, Load(q)
      PROVE  Settled'
  <2>1. CASE \E p \in Runs : pc[p] = "done" /\ alone[p]
    BY <1>6, <2>1 DEF TypeOK, Settled, Load
  <2>2. CASE alone[q]
    <3>1. Active = {q} /\ file.peers = table /\ loading[q] = file
      BY <1>6, <2>2 DEF Solo, Load, Active
    <3>2. \A p \in Runs : pc'[p] \in Ended \cup {"idle"}
      BY <1>6, <3>1 DEF TypeOK, Load, Active
    <3> QED
      BY <1>6, <3>1, <3>2 DEF Settled, Load
  <2>3. CASE ~alone[q] /\ ~\E p \in Runs : pc[p] = "done" /\ alone[p]
    BY <1>6, <2>3 DEF TypeOK, Settled, Load
  <2> QED
    BY <2>1, <2>2, <2>3
<1>7. CASE ChangeTable \/ EditBlock
  BY <1>7 DEF Settled, ChangeTable, EditBlock
<1>8. CASE UNCHANGED vars
  BY <1>8 DEF vars, Settled
<1> QED
  BY <1>1, <1>2, <1>3, <1>4, <1>5, <1>6, <1>7, <1>8 DEF Next, Step, Finished

\* The inductive invariant of the syncs.
THEOREM Inductive == Spec => []IInv
<1>1. Init => IInv
  <2> SUFFICES ASSUME Init
               PROVE  IInv
    OBVIOUS
  <2>1. [iface |-> 0, peers |-> 0] \in Config
    BY DEF Config
  <2>2. TypeOK /\ Whole
    <3>1. 0 \in 0 .. MaxTable /\ 0 \in 0 .. MaxEdits
      OBVIOUS
    <3> QED
      BY <2>1, <3>1 DEF Init, TypeOK, Whole, Content, Labels
  <2>4. Names /\ NoStrayFiles
    BY DEF Init, Names, NoStrayFiles, Writing
  <2>3. Edited /\ Settled /\ \A p \in Runs : Solo(p)
    BY DEF Init, Edited, Settled, Solo, HasRead, Writing
  <2> QED
    BY <2>2, <2>3, <2>4 DEF IInv
<1>2. IInv /\ [Next]_vars => IInv'
  BY BasicStep, EditedStep, SoloStep, SettledStep DEF IInv
<1> QED
  BY <1>1, <1>2, PTL DEF Spec

-----------------------------------------------------------------------------
\* Every variable of the syncs has its type.
THEOREM TypeCorrect == Spec => []TypeOK
<1>1. IInv => TypeOK
  BY DEF IInv
<1> QED
  BY <1>1, Inductive, PTL

\* wireguard.py:102-126: whoever reads wg0.conf, and whenever, finds it whole.
THEOREM FileIsWhole == Spec => []FileWhole
<1>1. IInv => FileWhole
  BY DEF IInv, Whole, FileWhole
<1> QED
  BY <1>1, Inductive, PTL

\* wireguard.py:124-126: a sync that ends cleans up after itself.
THEOREM NoFilesStray == Spec => []NoStrayFiles
<1>1. IInv => NoStrayFiles
  BY DEF IInv
<1> QED
  BY <1>1, Inductive, PTL

\* wireguard.py:71-91: the operator's [Interface] block outlives every sync that
\* it was not edited under.
THEOREM BlockStays == Spec => []BlockSticks
<1>1. IInv => BlockSticks
  BY DEF IInv, Edited, BlockSticks
<1> QED
  BY <1>1, Inductive, PTL

\* wireguard.py:249-270: a sync that ran alone repairs file and kernel.
THEOREM SoloRepairs == Spec => []SoloSyncRepairs
<1>1. IInv => SoloSyncRepairs
  BY DEF IInv, Settled, SoloSyncRepairs
<1> QED
  BY <1>1, Inductive, PTL

-----------------------------------------------------------------------------
(* The promise of module Mirror.                                           *)

\* Steps that change nothing of what is promised.
LEMMA HiddenStep ==
    ASSUME UNCHANGED <<table, file.peers, kernel.peers>>,
           \A q \in Runs : At(q)' = At(q) /\ Image(q)' = Image(q)
    PROVE  UNCHANGED Mirrored!vars
BY DEF Mirrored!vars

LEMMA LeaveStep ==
    ASSUME UNCHANGED <<table, file, kernel, peers>>, TypeOK, NEW p \in Runs,
           NEW label \in Ended, Goto(p, label),
           \A q \in Runs \ {p} : loading'[q] = loading[q]
    PROVE  Mirrored!Next
<1>1. At(p)' = "out" /\ Image(p)' = None
  BY DEF Goto, TypeOK, At, Image, Ended
<1>2. \A q \in Runs \ {p} : At(q)' = At(q) /\ Image(q)' = Image(q)
  BY DEF Goto, TypeOK, At, Image
<1>3. Mirrored!Leave({p})
  BY <1>1, <1>2 DEF Mirrored!Leave
<1>4. Mirrored!Stop({p})
  BY <1>3 DEF Mirrored!Stop
<1> QED
  BY <1>4 DEF Mirrored!Next

LEMMA MoveStep ==
    ASSUME NEW p \in Runs, NEW from, NEW to, NEW held,
           At(p) = from, At(p)' = to, Image(p)' = held,
           \A q \in Runs \ {p} : At(q)' = At(q) /\ Image(q)' = Image(q)
    PROVE  Mirrored!Move(p, from, to, held)
BY DEF Mirrored!Move

LEMMA MirrorStep ==
    ASSUME IInv, [Next]_vars
    PROVE  [Mirrored!Next]_(Mirrored!vars)
<1> DEFINE Goal == Mirrored!Next \/ UNCHANGED Mirrored!vars
<1> USE DEF Goto, disk
<1>0. SUFFICES Goal
  OBVIOUS
<1>t. TypeOK /\ Whole /\ Names
  BY DEF IInv
<1>1. ASSUME NEW p \in Runs, Start(p) \/ ReadBlock(p) \/ Create(p) \/ Fill(p)
      PROVE  Goal
  <2>1. \A q \in Runs : At(q)' = At(q) /\ Image(q)' = Image(q)
    BY <1>1, <1>t DEF TypeOK, Start, ReadBlock, Create, Fill, At, Image
  <2> QED
    BY <1>1, <2>1, HiddenStep DEF Start, ReadBlock, Create, Fill
<1>2. ASSUME NEW p \in Runs, Fetch(p)
      PROVE  Goal
  <2>1. Mirrored!Move(p, "out", "write", table)
    <3>1. At(p) = "out" /\ At(p)' = "write" /\ Image(p)' = table
      BY <1>2, <1>t DEF TypeOK, Fetch, At, Image
    <3>2. \A q \in Runs \ {p} : At(q)' = At(q) /\ Image(q)' = Image(q)
      BY <1>2, <1>t DEF TypeOK, Fetch, At, Image
    <3> QED
      BY <3>1, <3>2, MoveStep
  <2>2. Mirrored!Fetch(p)
    BY <1>2, <2>1 DEF Mirrored!Fetch, Fetch
  <2> QED
    BY <2>2 DEF Mirrored!Next
<1>3. ASSUME NEW p \in Runs, Rename(p)
      PROVE  Goal
  <2>1. file'.peers = Image(p)
    <3>1. file' = Rendered(p)
      BY <1>3, <1>t DEF Names, Rename
    <3> QED
      BY <1>3, <3>1 DEF Rendered, Rename, At, Image
  <2>2. Mirrored!Move(p, "write", "load", None)
    <3>1. At(p) = "write" /\ At(p)' = "load" /\ Image(p)' = None
      BY <1>3, <1>t DEF TypeOK, Rename, At, Image
    <3>2. \A q \in Runs \ {p} : At(q)' = At(q) /\ Image(q)' = Image(q)
      BY <1>3, <1>t DEF TypeOK, Rename, At, Image
    <3> QED
      BY <3>1, <3>2, MoveStep
  <2>3. Mirrored!Write(p)
    BY <1>3, <2>1, <2>2 DEF Mirrored!Write, Rename
  <2> QED
    BY <2>3 DEF Mirrored!Next
<1>4. ASSUME NEW p \in Runs, Strip(p)
      PROVE  Goal
  <2>1. Mirrored!Move(p, "load", "apply", file.peers)
    <3>1. At(p) = "load" /\ At(p)' = "apply" /\ Image(p)' = file.peers
      BY <1>4, <1>t DEF TypeOK, Strip, At, Image
    <3>2. \A q \in Runs \ {p} : At(q)' = At(q) /\ Image(q)' = Image(q)
      BY <1>4, <1>t DEF TypeOK, Strip, At, Image
    <3> QED
      BY <3>1, <3>2, MoveStep
  <2>2. Mirrored!Read(p)
    BY <1>4, <2>1 DEF Mirrored!Read, Strip
  <2> QED
    BY <2>2 DEF Mirrored!Next
<1>5. ASSUME NEW p \in Runs, Load(p)
      PROVE  Goal
  <2>1. kernel'.peers = Image(p)
    BY <1>5 DEF Load, At, Image
  <2>2. Mirrored!Move(p, "apply", "out", None)
    <3>1. At(p) = "apply" /\ At(p)' = "out" /\ Image(p)' = None
      BY <1>5, <1>t DEF TypeOK, Load, At, Image
    <3>2. \A q \in Runs \ {p} : At(q)' = At(q) /\ Image(q)' = Image(q)
      BY <1>5, <1>t DEF TypeOK, Load, At, Image
    <3> QED
      BY <3>1, <3>2, MoveStep
  <2>3. Mirrored!Apply(p)
    BY <1>5, <2>1, <2>2 DEF Mirrored!Apply, Load
  <2> QED
    BY <2>3 DEF Mirrored!Next
<1>6. ASSUME NEW p \in Runs, WriteFails(p) \/ StepFails(p) \/ Crash(p)
      PROVE  Goal
  <2>1. PICK label \in Ended : Goto(p, label)
    BY <1>6 DEF WriteFails, StepFails, Crash, Ended
  <2>2. /\ UNCHANGED <<table, file, kernel, peers>>
        /\ \A q \in Runs \ {p} : loading'[q] = loading[q]
    BY <1>6, <1>t DEF WriteFails, StepFails, Crash, TypeOK
  <2> QED
    BY <1>t, <2>1, <2>2, LeaveStep
<1>7. CASE ChangeTable
  <2>1. table' \in 0 .. MaxTable
    BY <1>7, <1>t DEF ChangeTable, TypeOK
  <2>2. \A q \in Runs : At(q)' = At(q) /\ Image(q)' = Image(q)
    BY <1>7 DEF ChangeTable, At, Image
  <2>3. Mirrored!Change
    BY <1>7, <2>1, <2>2 DEF ChangeTable, Mirrored!Change
  <2> QED
    BY <2>3 DEF Mirrored!Next
<1>8. CASE EditBlock
  <2>1. file'.peers = file.peers
    BY <1>8, <1>t DEF EditBlock, Whole, Config
  <2>2. \A q \in Runs : At(q)' = At(q) /\ Image(q)' = Image(q)
    BY <1>8 DEF EditBlock, At, Image
  <2> QED
    BY <1>8, <2>1, <2>2, HiddenStep DEF EditBlock
<1>9. CASE UNCHANGED vars
  <2>1. \A q \in Runs : At(q)' = At(q) /\ Image(q)' = Image(q)
    BY <1>9 DEF vars, At, Image
  <2> QED
    BY <1>9, <2>1, HiddenStep DEF vars
<1> HIDE DEF Goal
<1> QED
  BY <1>1, <1>2, <1>3, <1>4, <1>5, <1>6, <1>7, <1>8, <1>9 DEF Next, Step, Finished

\* wireguard.py:94-126, 249-270: block, temporary file and rename are one step of
\* the peers from the table to the file, whatever overlaps, fails or dies.
THEOREM TableIsMirrored == Spec => MirrorsTable
<1>1. Init => Mirrored!Init
  <2> SUFFICES ASSUME Init
               PROVE  Mirrored!Init
    OBVIOUS
  <2>1. \A p \in Runs : At(p) = "out" /\ Image(p) = None
    BY DEF Init, At, Image
  <2>2. table \in 0 .. MaxTable /\ file.peers = table /\ kernel.peers = table
    BY DEF Init
  <2> QED
    BY <2>1, <2>2 DEF Mirrored!Init
<1>2. IInv /\ [Next]_vars => [Mirrored!Next]_(Mirrored!vars)
  BY MirrorStep
<1> QED
  BY <1>1, <1>2, Inductive, PTL DEF Spec, MirrorsTable, Mirrored!Spec
===============================================================================
