------------------------- MODULE AttachmentsProofs -------------------------
(***************************************************************************)
(* Proofs about Attachments: for every set of nodes, ports and bridges,    *)
(* any cabling, overlapping outages, and a daemon that fails anywhere.     *)
(***************************************************************************)
EXTENDS Attachments, TLAPS

(***************************************************************************)
(* The inductive invariant                                                 *)
(***************************************************************************)
\* The membership the caller wants of a port, under its container's present ID.
Membership(p) == [port |-> p, id |-> id[Host[p]], master |-> wanted[p]]

\* A port whose far end is another node; an outage of that node may detach it.
Exposed(p) == FarEnd[p] # Host[p]

\* What the operation in hand knows.
OpInv ==
    /\ op.at # "idle" => op.kind # "none"
    /\ op.at \in {"snapshot", "write", "park"} => op.kind \in Outage
    /\ op.at \notin {"write", "restore"} => op.set = {}
    /\ op.at \in {"snapshot", "write", "park", "restore"} \/ op.kind \in Outage \union {"start"} =>
            op.node \in Node
    /\ op.at = "write" => ~Pending(op.node) /\ op.set # {}
    /\ op.at = "restore" => op.set \subseteq journal[op.node]
    /\ op.at = "idle" => op = Idle

\* An attached port exists, in a node that runs, and is where its caller wants it.
AttachedInv ==
    \A p \in Port : master[p] # NoBridge =>
        /\ p \in cable /\ state[Host[p]] = "running"
        /\ p \notin waived => master[p] = wanted[p]

\* An entry names a container of the past, or the present one and the membership
\* that its caller wants still.
Truthful(e) ==
    /\ e.id <= id[Host[e.port]]
    /\ e.id = id[Host[e.port]] /\ e.port \notin waived => e.master = wanted[e.port]
EntryInv ==
    /\ \A n \in Node : \A e \in journal[n] : Truthful(e)
    /\ \A e \in op.set : Truthful(e)

\* The journal of the far end has the membership of a port, or there is none and
\* the port is attached.
Covered(p) ==
    IF Exposed(p)
    THEN \/ wanted[p] = NoBridge
         \/ Membership(p) \in journal[FarEnd[p]]
         \/ master[p] = wanted[p] /\ ~Pending(FarEnd[p])
    ELSE wanted[p] \in {NoBridge, master[p]}
CoverInv == \A p \in Port \ waived : Covered(p)

\* Before a node is taken down, and before its journal is removed.
SafeToTakeDown ==
    \A p \in Port \ waived : Exposed(p) /\ FarEnd[p] = op.node =>
        wanted[p] = NoBridge \/ Membership(p) \in journal[op.node]
HandInv ==
    /\ op.at = "write" => \A p \in Port \ waived : Exposed(p) /\ FarEnd[p] = op.node =>
            wanted[p] = NoBridge \/ Membership(p) \in op.set
    /\ op.at \in {"park", "native"} /\ op.kind \in Outage => SafeToTakeDown
    /\ op.at = "restore" => \A p \in Port \ waived : Exposed(p) /\ FarEnd[p] = op.node =>
            wanted[p] \in {NoBridge, master[p]} \/ Membership(p) \in op.set

IInv == TypeOK /\ op \in Op /\ OpInv /\ AttachedInv /\ EntryInv /\ CoverInv /\ HandInv


LEMMA InitInv == Init => IInv
<1> SUFFICES ASSUME Init PROVE IInv
  OBVIOUS
<1> USE PortAssumption, NoneAssumption DEF Init, Idle
<1>1. TypeOK /\ op \in Op
  BY DEF TypeOK, Op, Outage
<1>2. OpInv
  BY DEF OpInv, Outage
<1>3. AttachedInv /\ EntryInv /\ CoverInv /\ HandInv
  BY DEF AttachedInv, EntryInv, CoverInv, HandInv, Covered
<1> QED
  BY <1>1, <1>2, <1>3 DEF IInv

(***************************************************************************)
(* What the runtime does                                                   *)
(***************************************************************************)
\* An outage of the node in hand keeps what is said of ports and journals.
LEMMA DownKeeps ==
    ASSUME IInv, SafeToTakeDown, op.node \in Node, GoesDown(op.node),
           op.set = {}, journal' = journal, op'.set = {}
    PROVE  AttachedInv' /\ EntryInv' /\ CoverInv'
<1>1. PICK s \in {"stopped", "gone"}, Lost \in SUBSET CablesOf(op.node) :
        /\ state' = [state EXCEPT ![op.node] = s]
        /\ cable' = cable \ Lost
        /\ master' = [p \in Port |-> IF p \in Lost \/ Host[p] = op.node THEN NoBridge ELSE master[p]]
        /\ wanted' = [p \in Port |-> IF Host[p] = op.node THEN NoBridge ELSE wanted[p]]
        /\ waived' = waived \union {p \in Port : Host[p] = op.node /\ \E m \in Node : Pending(m)}
        /\ id' = id
  BY DEF GoesDown
<1> USE PortAssumption, NoneAssumption DEF IInv, TypeOK
<1>2. AttachedInv'
  BY <1>1 DEF AttachedInv
<1>3. EntryInv'
  <2> SUFFICES ASSUME NEW n \in Node, NEW e \in journal[n] PROVE Truthful(e)'
    BY DEF EntryInv
  <2>1. Pending(n) /\ e \in Entry /\ Truthful(e)
    BY DEF EntryInv, Pending
  <2> QED
    BY <1>1, <2>1 DEF Truthful, Entry
<1>4. CoverInv'
  <2> SUFFICES ASSUME NEW p \in Port, p \notin waived' PROVE Covered(p)'
    BY DEF CoverInv
  <2>1. p \notin waived /\ Covered(p)
    BY <1>1 DEF CoverInv
  <2>2. CASE Host[p] = op.node
    BY <1>1, <2>2 DEF Covered, Exposed
  <2>3. CASE Host[p] # op.node
    <3>1. wanted'[p] = wanted[p] /\ Membership(p)' = Membership(p)
      BY <1>1, <2>3 DEF Membership
    <3>2. CASE p \in Lost
      BY <1>1, <2>1, <2>3, <3>1, <3>2 DEF Covered, Exposed, CablesOf, SafeToTakeDown
    <3>3. CASE p \notin Lost
      BY <1>1, <2>1, <2>3, <3>1, <3>3 DEF Covered, Exposed, Pending
    <3> QED
      BY <3>2, <3>3
  <2> QED
    BY <2>2, <2>3
<1> QED
  BY <1>2, <1>3, <1>4

\* So does the creation of new containers, whichever of them it reaches.
LEMMA RecreateKeeps ==
    ASSUME IInv, NEW New \in SUBSET Node, Recreate(New), op.set = {}, journal' = journal,
           op'.set = {}, cable \subseteq cable',
           \A n \in Node : state[n] = "running" => state'[n] = "running"
    PROVE  AttachedInv' /\ EntryInv' /\ CoverInv'
<1> USE PortAssumption, NoneAssumption DEF IInv, TypeOK
<1>1. /\ id' = [n \in Node |-> IF n \in New THEN id[n] + 1 ELSE id[n]]
      /\ \A p \in Port : Host[p] \in New => master'[p] = NoBridge /\ wanted'[p] = NoBridge
      /\ \A p \in Port : FarEnd[p] \in New => master'[p] = NoBridge
      /\ \A p \in Port : Host[p] \notin New => wanted'[p] = wanted[p]
      /\ \A p \in Port : Host[p] \notin New /\ FarEnd[p] \notin New => master'[p] = master[p]
      /\ \A p \in Port : p \notin waived' =>
            \/ Host[p] \in New
            \/ p \notin waived /\ (FarEnd[p] \in New => Pending(FarEnd[p]))
  BY DEF Recreate, CablesOf
<1>2. AttachedInv'
  BY <1>1 DEF AttachedInv
<1>3. EntryInv'
  <2> SUFFICES ASSUME NEW n \in Node, NEW e \in journal[n] PROVE Truthful(e)'
    BY DEF EntryInv
  <2>1. e \in Entry /\ Truthful(e)
    BY DEF EntryInv
  <2> QED
    BY <1>1, <2>1 DEF Truthful, Entry
<1>4. CoverInv'
  <2> SUFFICES ASSUME NEW p \in Port, p \notin waived' PROVE Covered(p)'
    BY DEF CoverInv
  <2>1. CASE Host[p] \in New
    BY <1>1, <2>1 DEF Covered
  <2>2. CASE Host[p] \notin New
    <3>1. wanted'[p] = wanted[p] /\ Membership(p)' = Membership(p)
      BY <1>1, <2>2 DEF Membership
    <3>2. p \notin waived /\ Covered(p)
      BY <1>1, <2>2 DEF CoverInv
    <3> QED
      BY <1>1, <2>2, <3>1, <3>2 DEF Covered, Exposed, Pending
  <2> QED
    BY <2>1, <2>2
<1> QED
  BY <1>2, <1>3, <1>4

(***************************************************************************)
(* What the operations do                                                  *)
(***************************************************************************)
\* A step that changes neither the runtime nor a journal, and takes nothing in
\* hand that no journal has, keeps what is said of ports and journals.
LEMMA QuietKeeps ==
    ASSUME IInv, UNCHANGED <<runtime, history, journal>>, \A e \in op'.set : Truthful(e)
    PROVE  AttachedInv' /\ EntryInv' /\ CoverInv'
<1> USE DEF IInv, runtime, history
<1>1. AttachedInv'
  BY DEF AttachedInv
<1>2. EntryInv'
  BY DEF EntryInv, Truthful
<1>3. CoverInv'
  BY DEF CoverInv, Covered, Exposed, Membership, Pending
<1> QED
  BY <1>1, <1>2, <1>3

\* Every step keeps the types.
LEMMA StepType ==
    ASSUME IInv, Next
    PROVE  TypeOK' /\ op' \in Op
<1> USE PortAssumption, NoneAssumption DEF IInv, TypeOK, Op, runtime, history, Outage
<1>1. CASE Snapshot
  <2>1. AttachmentsOf(op.node) \subseteq Entry
    BY DEF AttachmentsOf, Entry, linuxPeers
  <2>2. CASE Pending(op.node) \/ AttachmentsOf(op.node) = {}
    BY <1>1, <2>2 DEF Snapshot, Goto, AfterSave
  <2>3. CASE ~(Pending(op.node) \/ AttachmentsOf(op.node) = {})
    <3>1. op' = [op EXCEPT !.set = AttachmentsOf(op.node), !.at = "write"]
      BY <1>1, <2>3 DEF Snapshot
    <3> QED
      BY <1>1, <2>1, <3>1 DEF Snapshot
  <2> QED
    BY <2>2, <2>3
<1>2. CASE WriteJournal
  BY <1>2 DEF WriteJournal, AfterSave, OpInv
<1>3. CASE ParkEndpoints
  BY <1>3 DEF ParkEndpoints, Goto, Return, Idle
<1>4. CASE TakeDown
  <2>1. op' \in Op
    BY <1>4 DEF TakeDown, Return, Idle
  <2>2. op.node \in Node /\ GoesDown(op.node)
    BY <1>4 DEF TakeDown, OpInv
  <2> QED
    BY <1>4, <2>1, <2>2 DEF TakeDown, GoesDown
<1>5. CASE Start
  <2>1. op' \in Op /\ op.node \in Node
    BY <1>5 DEF Start, Goto, OpInv
  <2> QED
    BY <1>5, <2>1 DEF Start, ComesUp, CablesOf
<1>6. CASE Deploy
  <2>1. op' \in Op
    BY <1>6 DEF Deploy, Goto
  <2> QED
    BY <1>6, <2>1 DEF Deploy, Recreate
<1>7. ASSUME NEW n \in Node, ReadJournal(n) PROVE TypeOK' /\ op' \in Op
  BY <1>7 DEF ReadJournal, Idle
<1>8. ASSUME NEW e \in op.set, RestorePort(e) PROVE TypeOK' /\ op' \in Op
  BY <1>8 DEF RestorePort, Entry
<1>9. ASSUME NEW e \in op.set, RestoreRefused(e) PROVE TypeOK' /\ op' \in Op
  BY <1>9 DEF RestoreRefused, Return, Idle
<1>10. CASE RemoveJournal
  <2>1. op' \in Op
    BY <1>10 DEF RemoveJournal, Return, Goto, Idle
  <2> QED
    BY <1>10, <2>1 DEF RemoveJournal
<1>11. CASE Cut
  <2>1. op' \in Op /\ trouble' \in Nat /\ UNCHANGED journal
    BY <1>11 DEF Cut, Return, Idle, Trouble
  <2>2. CASE UNCHANGED <<runtime, history>>
    BY <2>1, <2>2
  <2>3. CASE op.at = "native" /\ op.kind \in Outage /\ GoesDown(op.node)
    <3>1. op.node \in Node
      BY <2>3 DEF OpInv
    <3> QED
      BY <2>1, <2>3, <3>1 DEF GoesDown
  <2>4. ASSUME NEW New \in SUBSET Node, Recreate(New),
               state' = [n \in Node |-> IF n \in New THEN "running" ELSE state[n]],
               cable' = cable \union UNION {CablesOf(n) : n \in New}
        PROVE  TypeOK' /\ op' \in Op
    BY <2>1, <2>4 DEF Recreate, CablesOf
  <2> QED
    BY <1>11, <2>2, <2>3, <2>4 DEF Cut
<1>12. CASE ApplyTopology
  BY <1>12 DEF ApplyTopology, Trouble
<1>13. ASSUME NEW n \in Node, NEW kind \in Outage \union {"start"}, Lifecycle(n, kind)
       PROVE  TypeOK' /\ op' \in Op
  BY <1>13 DEF Lifecycle, Trouble
<1>14. ASSUME NEW p \in Port, NEW b \in Bridge \union {NoBridge}, Rewire(p, b)
       PROVE  TypeOK' /\ op' \in Op
  BY <1>14 DEF Rewire
<1> QED
  BY <1>1, <1>2, <1>3, <1>4, <1>5, <1>6, <1>7, <1>8, <1>9, <1>10, <1>11, <1>12, <1>13, <1>14
     DEF Next, Steps

Ports == AttachedInv /\ EntryInv /\ CoverInv

LEMMA SnapshotKeeps ==
    ASSUME IInv, Snapshot
    PROVE  OpInv' /\ Ports' /\ HandInv'
<1> USE PortAssumption, NoneAssumption DEF IInv, TypeOK, Op, runtime, history, Outage
<1>0. /\ op.node \in Node /\ op.kind \in Outage /\ op.set = {}
      /\ UNCHANGED <<runtime, history, journal>>
  BY DEF Snapshot, OpInv
\* A journal or, without one, the attachment has the membership.
<1>1. ASSUME NEW p \in Port, p \notin waived, Exposed(p), FarEnd[p] = op.node,
             wanted[p] # NoBridge
      PROVE  \/ Membership(p) \in journal[op.node]
             \/ ~Pending(op.node) /\ Membership(p) \in AttachmentsOf(op.node)
  <2>1. CASE master[p] = wanted[p] /\ ~Pending(op.node)
    <3>1. p \in cable /\ Host[p] \in linuxPeers(op.node)
      BY <1>1, <2>1 DEF AttachedInv, linuxPeers, Exposed
    <3> QED
      BY <1>1, <2>1, <3>1 DEF AttachmentsOf, Membership
  <2> QED
    BY <1>1, <2>1 DEF CoverInv, Covered
<1>2. CASE Pending(op.node) \/ AttachmentsOf(op.node) = {}
  <2>1. op' = [op EXCEPT !.at = AfterSave]
    BY <1>2 DEF Snapshot, Goto
  <2>2. OpInv'
    BY <1>0, <2>1 DEF OpInv, AfterSave
  <2>3. Ports'
    BY <1>0, <2>1, QuietKeeps DEF Ports
  <2>4. HandInv'
    BY <1>0, <1>1, <1>2, <2>1 DEF HandInv, SafeToTakeDown, AfterSave, Exposed, Membership
  <2> QED
    BY <2>2, <2>3, <2>4
<1>3. CASE ~(Pending(op.node) \/ AttachmentsOf(op.node) = {})
  <2>1. op' = [op EXCEPT !.set = AttachmentsOf(op.node), !.at = "write"]
    BY <1>3 DEF Snapshot
  <2>2. OpInv'
    BY <1>0, <1>3, <2>1 DEF OpInv, Pending
  <2>3. \A e \in AttachmentsOf(op.node) : Truthful(e)
    BY DEF AttachmentsOf, Truthful, AttachedInv
  <2>4. Ports'
    BY <1>0, <2>1, <2>3, QuietKeeps DEF Ports
  <2>5. HandInv'
    BY <1>0, <1>1, <1>3, <2>1 DEF HandInv, Pending, Exposed, Membership
  <2> QED
    BY <2>2, <2>4, <2>5
<1> QED
  BY <1>2, <1>3

LEMMA WriteKeeps ==
    ASSUME IInv, WriteJournal
    PROVE  OpInv' /\ Ports' /\ HandInv'
<1> USE PortAssumption, NoneAssumption DEF IInv, TypeOK, Op, runtime, history, Outage
<1>0. /\ op.node \in Node /\ op.kind \in Outage /\ ~Pending(op.node) /\ op.at = "write"
      /\ UNCHANGED <<runtime, history>>
      /\ journal' = [journal EXCEPT ![op.node] = op.set]
      /\ op' = [op EXCEPT !.set = {}, !.at = AfterSave]
  BY DEF WriteJournal, OpInv
<1>1. OpInv'
  BY <1>0 DEF OpInv, AfterSave
<1>2. AttachedInv'
  BY <1>0 DEF AttachedInv
<1>3. EntryInv'
  BY <1>0 DEF EntryInv, Truthful
<1>4. ASSUME NEW p \in Port, p \notin waived, Exposed(p), FarEnd[p] = op.node
      PROVE  wanted[p] = NoBridge \/ Membership(p) \in op.set
  BY <1>0, <1>4 DEF HandInv
<1>5. CoverInv'
  BY <1>0, <1>4 DEF CoverInv, Covered, Exposed, Membership, Pending
<1>6. HandInv'
  BY <1>0, <1>4 DEF HandInv, SafeToTakeDown, AfterSave, Exposed, Membership
<1> QED
  BY <1>1, <1>2, <1>3, <1>5, <1>6 DEF Ports

LEMMA TakeDownKeeps ==
    ASSUME IInv, TakeDown
    PROVE  OpInv' /\ Ports' /\ HandInv'
<1> USE DEF IInv, TypeOK, Op, Outage
<1>1. /\ op.node \in Node /\ op.set = {} /\ SafeToTakeDown
      /\ GoesDown(op.node) /\ journal' = journal
  BY DEF TakeDown, OpInv, HandInv
<1>2. op' = Idle \/ op' = [op EXCEPT !.kind = "start"]
  BY DEF TakeDown, Return
<1>3. OpInv' /\ op'.set = {}
  BY <1>1, <1>2 DEF TakeDown, OpInv, Idle
<1>4. HandInv'
  BY <1>2 DEF TakeDown, HandInv, Idle
<1> QED
  BY <1>1, <1>3, <1>4, DownKeeps DEF Ports

LEMMA StartKeeps ==
    ASSUME IInv, Start
    PROVE  OpInv' /\ Ports' /\ HandInv'
<1> USE DEF IInv, TypeOK, Op, Outage
<1>1. /\ op.node \in Node /\ op.set = {}
      /\ op' = [op EXCEPT !.at = "read"]
      /\ UNCHANGED <<id, bridges, master, history, journal>>
      /\ cable \subseteq cable'
      /\ \A n \in Node : state[n] = "running" => state'[n] = "running"
  BY DEF Start, OpInv, ComesUp, Goto, runtime, history
<1>2. OpInv'
  BY <1>1 DEF Start, OpInv
<1>3. AttachedInv' /\ EntryInv'
  BY <1>1, PortAssumption DEF AttachedInv, EntryInv, Truthful, history
<1>4. CoverInv'
  BY <1>1 DEF CoverInv, Covered, Exposed, Membership, Pending, history
<1>5. HandInv'
  BY <1>1 DEF HandInv
<1> QED
  BY <1>2, <1>3, <1>4, <1>5 DEF Ports

LEMMA DeployKeeps ==
    ASSUME IInv, Deploy
    PROVE  OpInv' /\ Ports' /\ HandInv'
<1> USE DEF IInv, TypeOK, Op, Outage
<1>1. PICK New \in SUBSET Node : Recreate(New)
  BY DEF Deploy
<1>2. /\ op.set = {} /\ op' = [op EXCEPT !.at = "read"] /\ op.kind = "apply"
      /\ journal' = journal /\ cable \subseteq cable'
      /\ \A n \in Node : state'[n] = "running"
  BY DEF Deploy, OpInv, Goto
<1>3. OpInv' /\ HandInv' /\ op'.set = {}
  BY <1>2 DEF OpInv, HandInv
<1> QED
  BY <1>1, <1>2, <1>3, RecreateKeeps DEF Ports

LEMMA ReadKeeps ==
    ASSUME IInv, NEW n \in Node, ReadJournal(n)
    PROVE  OpInv' /\ Ports' /\ HandInv'
<1> USE DEF IInv, TypeOK, Op, Outage
<1>0. op.set = {} /\ op.at = "read" /\ UNCHANGED <<runtime, history, journal>>
  BY DEF ReadJournal, OpInv
<1>1. CASE Pending(n)
  <2>1. op' = [op EXCEPT !.node = n, !.rest = op.rest \ {n}, !.set = journal[n], !.at = "restore"]
    BY <1>1 DEF ReadJournal
  <2>2. OpInv'
    BY <1>0, <2>1 DEF OpInv
  <2>3. Ports'
    BY <1>0, <2>1, QuietKeeps DEF Ports, EntryInv
  <2>4. HandInv'
    BY <1>0, <1>1, <2>1 DEF HandInv, CoverInv, Covered, Membership, Exposed, runtime, history
  <2> QED
    BY <2>2, <2>3, <2>4
<1>2. CASE ~Pending(n)
  <2>1. op' = Idle \/ op' = [op EXCEPT !.rest = op.rest \ {n}]
    BY <1>2 DEF ReadJournal
  <2>2. OpInv' /\ HandInv' /\ op'.set = {}
    BY <1>0, <2>1 DEF OpInv, HandInv, Idle
  <2> QED
    BY <1>0, <2>2, QuietKeeps DEF Ports
<1> QED
  BY <1>1, <1>2

\* The entry that is restored is what the caller of its port wants, unless waived.
LEMMA RestorePortKeeps ==
    ASSUME IInv, NEW e \in op.set, RestorePort(e)
    PROVE  OpInv' /\ Ports' /\ HandInv'
<1> USE PortAssumption, NoneAssumption DEF IInv, TypeOK, Op, Outage
<1>0. /\ op.at = "restore" /\ op.node \in Node /\ e \in Entry /\ Restorable(e)
      /\ op.set \subseteq journal[op.node]
      /\ UNCHANGED <<state, id, bridges, cable, journal, wanted, waived>>
      /\ op' = [op EXCEPT !.set = op.set \ {e}]
      /\ master' = [master EXCEPT ![e.port] = e.master]
  BY DEF RestorePort, OpInv, history
<1>1. /\ e.port \in cable /\ state[Host[e.port]] = "running"
      /\ e.id = id[Host[e.port]] /\ e.master # NoBridge
      /\ e.port \notin waived => e.master = wanted[e.port]
      /\ e = [port |-> e.port, id |-> e.id, master |-> e.master]
  BY <1>0 DEF Restorable, linuxPeers, EntryInv, Truthful, Entry
<1>2. OpInv'
  BY <1>0 DEF OpInv
<1>3. AttachedInv'
  BY <1>0, <1>1 DEF AttachedInv, Entry
<1>4. EntryInv'
  BY <1>0 DEF EntryInv, Truthful
<1>5. ASSUME NEW p \in Port, p \notin waived
      PROVE  /\ Membership(p)' = Membership(p)
             /\ master'[p] # master[p] => master'[p] = wanted[p]
             /\ e = Membership(p) => master'[p] = wanted[p]
  BY <1>0, <1>1, <1>5 DEF Membership, Entry
<1>6. CoverInv'
  BY <1>0, <1>5 DEF CoverInv, Covered, Exposed, Pending
<1>7. HandInv'
  <2> SUFFICES ASSUME NEW p \in Port, p \notin waived, Exposed(p), FarEnd[p] = op.node
               PROVE  wanted[p] \in {NoBridge, master'[p]} \/ Membership(p) \in op.set \ {e}
    BY <1>0, <1>5 DEF HandInv, Exposed
  <2> QED
    BY <1>0, <1>5 DEF HandInv
<1> QED
  BY <1>2, <1>3, <1>4, <1>6, <1>7 DEF Ports

LEMMA RemoveKeeps ==
    ASSUME IInv, RemoveJournal
    PROVE  OpInv' /\ Ports' /\ HandInv'
<1> USE DEF IInv, TypeOK, Op, Outage
<1>0. /\ op.at = "restore" /\ op.node \in Node /\ op.set = {}
      /\ UNCHANGED <<runtime, history>>
      /\ journal' = [journal EXCEPT ![op.node] = {}]
      /\ op' = Idle \/ op' = [op EXCEPT !.at = "read"]
  BY DEF RemoveJournal, OpInv, Return, Goto
<1>1. OpInv' /\ HandInv' /\ op'.set = {}
  BY <1>0 DEF OpInv, HandInv, Idle
<1>2. AttachedInv' /\ EntryInv'
  BY <1>0, <1>1 DEF AttachedInv, EntryInv, Truthful, runtime, history
<1>3. CoverInv'
  <2> SUFFICES ASSUME NEW p \in Port, p \notin waived PROVE Covered(p)'
    BY <1>0 DEF CoverInv, history
  <2>1. Covered(p) /\ (Exposed(p) /\ FarEnd[p] = op.node => wanted[p] \in {NoBridge, master[p]})
    BY <1>0 DEF CoverInv, HandInv
  <2> QED
    BY <1>0, <2>1, PortAssumption DEF Covered, Exposed, Membership, Pending, runtime, history
<1> QED
  BY <1>1, <1>2, <1>3 DEF Ports

LEMMA CutKeeps ==
    ASSUME IInv, Cut
    PROVE  OpInv' /\ Ports' /\ HandInv'
<1>0. op' = Idle /\ op'.set = {} /\ journal' = journal
  BY DEF Cut, Return, Idle
<1>1. OpInv' /\ HandInv'
  BY <1>0 DEF OpInv, HandInv, Idle, Outage
<1>2. CASE UNCHANGED <<runtime, history>>
  BY <1>0, <1>1, <1>2, QuietKeeps DEF Ports, runtime, history
<1>3. CASE op.at = "native" /\ op.kind \in Outage /\ GoesDown(op.node)
  <2>1. op.node \in Node /\ op.set = {} /\ SafeToTakeDown
    BY <1>3 DEF IInv, OpInv, HandInv
  <2> QED
    BY <1>0, <1>1, <1>3, <2>1, DownKeeps DEF Ports
<1>4. ASSUME NEW New \in SUBSET Node, Recreate(New), op.at = "native",
             state' = [n \in Node |-> IF n \in New THEN "running" ELSE state[n]],
             cable' = cable \union UNION {CablesOf(n) : n \in New}
      PROVE  Ports'
  <2>1. op.set = {} /\ cable \subseteq cable'
    BY <1>4 DEF IInv, OpInv
  <2>2. \A n \in Node : state[n] = "running" => state'[n] = "running"
    BY <1>4
  <2> QED
    BY <1>0, <1>4, <2>1, <2>2, RecreateKeeps DEF Ports
<1> QED
  BY <1>1, <1>2, <1>3, <1>4 DEF Cut

\* A caller that rewires a port waives the recoveries that are pending for it.
LEMMA RewireKeeps ==
    ASSUME IInv, NEW p \in Port, NEW b \in Bridge \union {NoBridge}, Rewire(p, b)
    PROVE  OpInv' /\ Ports' /\ HandInv'
<1> USE PortAssumption, NoneAssumption DEF IInv, TypeOK, Op, Outage
<1>0. /\ state[Host[p]] = "running" /\ p \in cable
      /\ master' = [master EXCEPT ![p] = b] /\ wanted' = [wanted EXCEPT ![p] = b]
      /\ UNCHANGED <<state, id, cable, journal, op>>
      /\ waived' = IF op # Idle \/ \E n \in Node : Pending(n) THEN waived \union {p} ELSE waived \ {p}
  BY DEF Rewire
<1>1. OpInv'
  BY <1>0 DEF OpInv, Pending
<1>2. AttachedInv'
  BY <1>0 DEF AttachedInv
<1>3. EntryInv'
  <2>1. ASSUME NEW e \in Entry, Truthful(e), op # Idle \/ \E n \in Node : Pending(n)
        PROVE  Truthful(e)'
    BY <1>0, <2>1 DEF Truthful, Entry
  <2>2. ASSUME NEW n \in Node, NEW e \in journal[n] PROVE Truthful(e)'
    BY <2>1, <2>2 DEF EntryInv, Pending
  <2>3. ASSUME NEW e \in op.set PROVE Truthful(e)'
    BY <2>1, <2>3 DEF EntryInv, Idle
  <2> QED
    BY <1>0, <2>2, <2>3 DEF EntryInv
<1>4. ASSUME NEW q \in Port, q # p
      PROVE  /\ wanted'[q] = wanted[q] /\ master'[q] = master[q]
             /\ Membership(q)' = Membership(q)
             /\ q \in waived' <=> q \in waived
  BY <1>0, <1>4 DEF Membership
<1>5. p \notin waived' => op = Idle /\ wanted'[p] = master'[p] /\ \A n \in Node : ~Pending(n)
  BY <1>0
<1>6. CoverInv'
  BY <1>0, <1>4, <1>5 DEF CoverInv, Covered, Exposed, Pending
<1>7. HandInv'
  <2>1. CASE op = Idle
    BY <1>0, <2>1 DEF HandInv, Idle
  <2>2. CASE op # Idle
    <3>1. p \in waived'
      BY <1>0, <2>2
    <3> QED
      BY <1>0, <1>4, <3>1 DEF HandInv, SafeToTakeDown, Exposed
  <2> QED
    BY <2>1, <2>2
<1> QED
  BY <1>1, <1>2, <1>3, <1>6, <1>7 DEF Ports

LEMMA StepInv == IInv /\ [Next]_vars => IInv'
<1> SUFFICES ASSUME IInv, [Next]_vars PROVE IInv'
  OBVIOUS
<1> USE DEF runtime, history
<1>1. CASE UNCHANGED vars
  <2>1. TypeOK' /\ (op \in Op)' /\ OpInv'
    BY <1>1 DEF vars, IInv, TypeOK, OpInv, Pending
  <2>2. Ports'
    BY <1>1, QuietKeeps DEF vars, Ports, IInv, EntryInv
  <2>3. HandInv'
    BY <1>1 DEF vars, IInv, HandInv, SafeToTakeDown, Exposed, Membership
  <2> QED
    BY <2>1, <2>2, <2>3 DEF IInv, Ports
<1>2. ASSUME Next PROVE OpInv' /\ Ports' /\ HandInv'
  <2>1. CASE ParkEndpoints
    <3>1. /\ op.at = "park" /\ (op' = Idle \/ op' = [op EXCEPT !.at = "native"])
          /\ UNCHANGED <<runtime, history, journal>>
      BY <2>1 DEF ParkEndpoints, Goto, Return
    <3>2. OpInv' /\ op'.set = {}
      BY <2>1, <3>1 DEF IInv, Op, OpInv, Idle, Outage, ParkEndpoints
    <3>3. HandInv'
      BY <2>1, <3>1
         DEF IInv, Op, HandInv, Idle, Outage, ParkEndpoints, SafeToTakeDown, Exposed, Membership
    <3> QED
      BY <3>1, <3>2, <3>3, QuietKeeps DEF Ports
  <2>2. ASSUME NEW e \in op.set, RestoreRefused(e) PROVE OpInv' /\ Ports' /\ HandInv'
    <3>1. op' = Idle /\ UNCHANGED <<runtime, history, journal>>
      BY <2>2 DEF RestoreRefused, Return
    <3>2. OpInv' /\ HandInv' /\ op'.set = {}
      BY <3>1 DEF OpInv, HandInv, Idle, Outage
    <3> QED
      BY <3>1, <3>2, QuietKeeps DEF Ports
  <2>3. CASE ApplyTopology
    <3>1. OpInv' /\ HandInv' /\ op'.set = {}
      BY <2>3 DEF ApplyTopology, OpInv, HandInv, Outage
    <3> QED
      BY <2>3, <3>1, QuietKeeps DEF ApplyTopology, Ports
  <2>4. ASSUME NEW n \in Node, NEW kind \in Outage \union {"start"}, Lifecycle(n, kind)
        PROVE  OpInv' /\ Ports' /\ HandInv'
    <3>1. OpInv' /\ HandInv' /\ op'.set = {}
      BY <2>4 DEF Lifecycle, OpInv, HandInv, Outage
    <3> QED
      BY <2>4, <3>1, QuietKeeps DEF Lifecycle, Ports
  <2> QED
    BY <1>2, <2>1, <2>2, <2>3, <2>4, SnapshotKeeps, WriteKeeps, TakeDownKeeps, StartKeeps,
       DeployKeeps, ReadKeeps, RestorePortKeeps, RemoveKeeps, CutKeeps, RewireKeeps DEF Next, Steps
<1>3. ASSUME Next PROVE TypeOK' /\ (op \in Op)'
  BY <1>3, StepType
<1> QED
  BY <1>1, <1>2, <1>3 DEF IInv, Ports

(***************************************************************************)
(* Theorems                                                                *)
(***************************************************************************)
\* Overlapping outages, failed restores and a daemon that dies anywhere lose no
\* bridge membership (saveAttachments, restoreAttachments).
THEOREM Recoverable == Spec => []MembershipRecoverable
<1>1. IInv => MembershipRecoverable
  <2> SUFFICES ASSUME IInv, NEW p \in Port \ waived, wanted[p] \notin {NoBridge, master[p]}
               PROVE  \E n \in Node : Pending(n) /\ Membership(p) \in journal[n]
    BY DEF MembershipRecoverable, Membership
  <2>1. Membership(p) \in journal[FarEnd[p]]
    BY DEF IInv, CoverInv, Covered
  <2> QED
    BY <2>1, PortAssumption DEF Pending
<1> QED
  BY <1>1, InitInv, StepInv, PTL DEF Spec

\* A recovery attaches a port to nothing but what its caller wants, and leaves the
\* ports of containers alone that were created after the journal was written.
THEOREM Wanted == Spec => RestoresWanted
<1>1. ASSUME IInv, [Next]_vars
      PROVE  [\A p \in Port \ waived : op.at = "restore" /\ master'[p] # master[p] => master'[p] = wanted'[p]]_vars
  <2> SUFFICES ASSUME Next, NEW p \in Port, p \notin waived, op.at = "restore", master'[p] # master[p]
               PROVE  master'[p] = wanted'[p]
    BY <1>1
  <2> USE DEF runtime, history
  <2>1. ASSUME NEW e \in op.set, RestorePort(e) PROVE master'[p] = wanted'[p]
    BY <1>1, <2>1 DEF RestorePort, Restorable, IInv, TypeOK, EntryInv, Truthful, Entry
  <2>2. ASSUME NEW q \in Port, NEW b \in Bridge \union {NoBridge}, Rewire(q, b)
        PROVE  master'[p] = wanted'[p]
    BY <1>1, <2>2 DEF Rewire, IInv, TypeOK
  <2>3. CASE master' = master
    BY <2>3
  <2> QED
    BY <2>1, <2>2, <2>3
       DEF Next, Steps, Snapshot, WriteJournal, ParkEndpoints, TakeDown, Start, Deploy,
       ReadJournal, RestoreRefused, RemoveJournal, Cut, ApplyTopology, Lifecycle
<1> QED
  BY <1>1, InitInv, StepInv, PTL DEF Spec, RestoresWanted

\* Every variable keeps its type.
THEOREM TypeCorrect == Spec => []TypeOK
<1>1. IInv => TypeOK
  BY DEF IInv
<1> QED
  BY <1>1, InitInv, StepInv, PTL DEF Spec

=============================================================================
