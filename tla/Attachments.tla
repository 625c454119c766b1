---------------------------- MODULE Attachments ----------------------------
(***************************************************************************)
(* The attachment journal of the Containerlab backend.  A node that goes   *)
(* down takes the cables of its links with it, and a Linux peer's bridge   *)
(* forgets the ports those cables ended in.  Lifecycle and RemoveNode      *)
(* write the bridge memberships of all peers to a journal of the node      *)
(* first; a start, a restart or an apply puts them back, and removes the   *)
(* journal once all of them are back.                                      *)
(*                                                                         *)
(* One operation runs at a time (Server.mu).  Callers rewire the bridges   *)
(* through Exec, which does not take the mutex, at any moment.             *)
(***************************************************************************)
EXTENDS Naturals, FiniteSets

CONSTANTS
    Node,         \* nodes of one topology
    Linux,        \* the ones of kind linux, whose bridges are looked at
    Port,         \* interfaces of Linux nodes
    Host,         \* port -> the node it is on
    FarEnd,       \* port -> the node at the other end of its cable
    Bridge,       \* names of bridges
    NoBridge,     \* the port has no master
    NoNode,       \* no node in hand
    MaxTrouble    \* bound on outages, applications and failing calls together

ASSUME PortAssumption ==
    Linux \subseteq Node /\ Host \in [Port -> Linux] /\ FarEnd \in [Port -> Node]
ASSUME NoneAssumption == NoBridge \notin Bridge /\ NoNode \notin Node
ASSUME BoundAssumption == MaxTrouble \in Nat

\* peerAttachment: the container is named by its immutable ID, here the number
\* of times the node was created.
Entry == [port : Port, id : Nat, master : Bridge]

VARIABLES
    state,     \* container of each node: "running", "stopped" or "gone"
    id,        \* container ID of each node
    bridges,   \* bridges that exist in each node
    cable,     \* ports that exist
    master,    \* bridge each port is attached to
    journal,   \* attachments-<hash>.json of each node; {} when there is no file,
               \* a file with no attachment is never written
    op,        \* the operation in progress
    wanted,    \* history: the bridge the caller last attached each port to
    waived,    \* history: ports rewired while a recovery was pending, or whose
               \* cable an approved plan replaced
    trouble    \* outages, applications and failing calls so far

runtime == <<state, id, bridges, cable, master>>
history == <<wanted, waived>>
vars == <<runtime, journal, op, history, trouble>>

Outage == {"crash", "stop", "restart", "remove"}

\* node is the one in hand, rest the ones whose journal is still to be restored,
\* set the attachments read from the peers or from a journal.
Op == [kind : Outage \union {"none", "start", "apply"}, node : Node \union {NoNode}, rest : SUBSET Node,
       at : {"idle", "snapshot", "write", "park", "native", "read", "restore"}, set : SUBSET Entry]
Idle == [kind |-> "none", node |-> NoNode, rest |-> {}, at |-> "idle", set |-> {}]

TypeOK ==
    /\ state \in [Node -> {"running", "stopped", "gone"}]
    /\ id \in [Node -> Nat]
    /\ bridges \in [Node -> SUBSET Bridge]
    /\ cable \subseteq Port
    /\ master \in [Port -> Bridge \union {NoBridge}]
    /\ journal \in [Node -> SUBSET Entry]
    /\ op.kind \in Outage \union {"none", "start", "apply"}
    /\ op.node \in Node \union {NoNode} /\ op.rest \subseteq Node
    /\ op.at \in {"idle", "snapshot", "write", "park", "native", "read", "restore"}
    /\ op.set \subseteq Entry
    /\ wanted \in [Port -> Bridge \union {NoBridge}]
    /\ waived \subseteq Port
    /\ trouble \in Nat

Init ==
    /\ state = [n \in Node |-> "running"]
    /\ id = [n \in Node |-> 0]
    /\ bridges = [n \in Node |-> {}]
    /\ cable = Port
    /\ master = [p \in Port |-> NoBridge]
    /\ journal = [n \in Node |-> {}]
    /\ op = Idle
    /\ wanted = [p \in Port |-> NoBridge] /\ waived = {}
    /\ trouble = 0

Pending(n) == journal[n] # {}

-----------------------------------------------------------------------------
(***************************************************************************)
(* The container runtime and the callers (external)                        *)
(***************************************************************************)

CablesOf(n) == {p \in Port : n \in {Host[p], FarEnd[p]}}

\* Node n goes down: its bridges are gone, and with them what the caller
\* configured there.  Parked endpoints keep their cables, others lose them.
GoesDown(n) ==
    \E s \in {"stopped", "gone"}, Lost \in SUBSET CablesOf(n) :
        /\ state' = [state EXCEPT ![n] = s]
        /\ bridges' = [bridges EXCEPT ![n] = {}]
        /\ cable' = cable \ Lost
        /\ master' = [p \in Port |-> IF p \in Lost \/ Host[p] = n THEN NoBridge ELSE master[p]]
        /\ wanted' = [p \in Port |-> IF Host[p] = n THEN NoBridge ELSE wanted[p]]
        /\ waived' = waived \union {p \in Port : Host[p] = n /\ \E m \in Node : Pending(m)}
        /\ UNCHANGED id

\* Node n runs again, and the runtime makes some of its missing cables anew.
ComesUp(n) ==
    /\ state[n] # "gone"
    /\ state' = [state EXCEPT ![n] = "running"]
    /\ \E Made \in SUBSET CablesOf(n) : cable' = cable \union Made
    /\ UNCHANGED <<id, bridges, master, history>>

\* The nodes in New are created anew, with new cables attached to nothing.
\* Nothing is journaled here: the caller has approved what the plan recreates.
Recreate(New) ==
    LET Lost == UNION {CablesOf(n) : n \in New}
    IN /\ id' = [n \in Node |-> IF n \in New THEN id[n] + 1 ELSE id[n]]
       /\ bridges' = [n \in Node |-> IF n \in New THEN {} ELSE bridges[n]]
       /\ master' = [p \in Port |-> IF p \in Lost THEN NoBridge ELSE master[p]]
       /\ wanted' = [p \in Port |-> IF Host[p] \in New THEN NoBridge ELSE wanted[p]]
       /\ waived' = (waived \ {p \in Port : Host[p] \in New})
                        \union {p \in Port : FarEnd[p] \in New /\ ~Pending(FarEnd[p])}

\* A caller attaches a port to a bridge or detaches it, with ip link.
Rewire(p, b) ==
    /\ state[Host[p]] = "running" /\ p \in cable /\ master[p] # b
    /\ master' = [master EXCEPT ![p] = b]
    /\ bridges' = [bridges EXCEPT ![Host[p]] = @ \union ({b} \ {NoBridge})]
    /\ wanted' = [wanted EXCEPT ![p] = b]
    /\ waived' = IF op # Idle \/ \E n \in Node : Pending(n) THEN waived \union {p} ELSE waived \ {p}
    /\ UNCHANGED <<state, id, cable, journal, op, trouble>>

-----------------------------------------------------------------------------
(***************************************************************************)
(* Operations of the backend                                               *)
(***************************************************************************)

\* One more outage, application or failure.
Trouble == trouble < MaxTrouble /\ trouble' = trouble + 1

Goto(point) == op' = [op EXCEPT !.at = point]
Return == op' = Idle

Lifecycle(n, kind) ==
    /\ op = Idle
    /\ op' = [kind |-> kind, node |-> n, rest |-> {n}, set |-> {},
              at |-> IF kind \in Outage THEN "snapshot" ELSE "native"]
    /\ IF kind \in Outage THEN Trouble ELSE UNCHANGED trouble
    /\ UNCHANGED <<runtime, journal, history>>

\* ApplyTopology from its Deploy on; what leads to it is the subject of Nodes.
ApplyTopology ==
    /\ op = Idle /\ Trouble
    /\ op' = [kind |-> "apply", node |-> NoNode, rest |-> Node, at |-> "native", set |-> {}]
    /\ UNCHANGED <<runtime, journal, history>>

\* The Linux nodes of the session, without the node itself, that run.
linuxPeers(n) == {h \in Linux \ {n} : state[h] = "running"}

AttachmentsOf(n) ==
    {[port |-> p, id |-> id[Host[p]], master |-> master[p]] : p \in
        {q \in cable : Host[q] \in linuxPeers(n) /\ master[q] # NoBridge}}

AfterSave == IF op.kind = "crash" THEN "park" ELSE "native"

\* Mutant: a pending journal is replaced.
SnapshotAgain ==
    /\ op.at = "snapshot"
    /\ LET saved == AttachmentsOf(op.node)
       IN op' = [op EXCEPT !.set = saved, !.at = IF saved = {} THEN AfterSave ELSE "write"]
    /\ UNCHANGED <<runtime, journal, history, trouble>>

\* saveAttachments up to the read of the peers: a pending journal stays as it
\* is, and without any membership there is nothing to write.
Snapshot ==
    /\ op.at = "snapshot"
    /\ LET saved == AttachmentsOf(op.node)
       IN IF Pending(op.node) \/ saved = {} THEN Goto(AfterSave)
          ELSE op' = [op EXCEPT !.set = saved, !.at = "write"]
    /\ UNCHANGED <<runtime, journal, history, trouble>>

\* The synced temporary file is renamed.
WriteJournal ==
    /\ op.at = "write"
    /\ journal' = [journal EXCEPT ![op.node] = op.set]
    /\ op' = [op EXCEPT !.set = {}, !.at = AfterSave]
    /\ UNCHANGED <<runtime, history, trouble>>

\* crash: exactly one running container, whose endpoints the helper parks once
\* it has checked its identity.
ParkEndpoints ==
    /\ op.at = "park"
    /\ IF state[op.node] = "running" THEN Goto("native") ELSE Return
    /\ UNCHANGED <<runtime, journal, history, trouble>>

\* The kill, the stop or the removal; a restart goes on to start the node.
TakeDown ==
    /\ op.at = "native" /\ op.kind \in Outage
    /\ GoesDown(op.node)
    /\ IF op.kind = "restart" THEN op' = [op EXCEPT !.kind = "start"] ELSE Return
    /\ UNCHANGED <<journal, trouble>>

\* A native start; one that finds no container may still report success.
Start ==
    /\ op.at = "native" /\ op.kind = "start"
    /\ ComesUp(op.node) \/ (state[op.node] = "gone" /\ UNCHANGED <<runtime, history>>)
    /\ Goto("read")
    /\ UNCHANGED <<journal, trouble>>

\* Every node runs afterwards, the ones that were gone as new containers.
Deploy ==
    /\ op.at = "native" /\ op.kind = "apply"
    /\ \E New \in SUBSET Node : {n \in Node : state[n] = "gone"} \subseteq New /\ Recreate(New)
    /\ state' = [n \in Node |-> "running"]
    /\ cable' = Port
    /\ Goto("read")
    /\ UNCHANGED <<journal, trouble>>

\* restoreAttachments reads a journal; an apply goes through all nodes.
ReadJournal(n) ==
    /\ op.at = "read" /\ n \in op.rest
    /\ op' = IF Pending(n) THEN [op EXCEPT !.node = n, !.rest = @ \ {n}, !.set = journal[n], !.at = "restore"]
             ELSE IF op.rest = {n} THEN Idle
                  ELSE [op EXCEPT !.rest = @ \ {n}]
    /\ UNCHANGED <<runtime, journal, history, trouble>>

\* Mutant: the peer is found by its name.
RestorableByName(e) ==
    /\ Host[e.port] \in linuxPeers(op.node)
    /\ e.port \in cable /\ e.master \in bridges[Host[e.port]]

\* The peer is the same running container; ip link finds the port and the bridge.
Restorable(e) ==
    /\ Host[e.port] \in linuxPeers(op.node) /\ id[Host[e.port]] = e.id
    /\ e.port \in cable /\ e.master \in bridges[Host[e.port]]

RestorePort(e) ==
    /\ op.at = "restore" /\ e \in op.set
    /\ Restorable(e)
    /\ master' = [master EXCEPT ![e.port] = e.master]
    /\ op' = [op EXCEPT !.set = @ \ {e}]
    /\ UNCHANGED <<state, id, bridges, cable, journal, history, trouble>>

\* The operation fails and the journal stays.
RestoreRefused(e) ==
    /\ op.at = "restore" /\ e \in op.set
    /\ ~Restorable(e)
    /\ Return
    /\ UNCHANGED <<runtime, journal, history, trouble>>

\* Mutant: the journal is left behind.
KeepJournal ==
    /\ op.at = "restore" /\ op.set = {}
    /\ IF op.rest = {} THEN Return ELSE Goto("read")
    /\ UNCHANGED <<runtime, journal, history, trouble>>

RemoveJournal ==
    /\ op.at = "restore" /\ op.set = {}
    /\ journal' = [journal EXCEPT ![op.node] = {}]
    /\ IF op.rest = {} THEN Return ELSE Goto("read")
    /\ UNCHANGED <<runtime, history, trouble>>

\* Any call may fail, and the daemon may die, at any point.  The native command
\* may have done its work all the same, a deploy some part of it; a failed kill
\* has its endpoints restored if the node still runs.
Cut ==
    /\ op # Idle /\ Trouble
    /\ \/ UNCHANGED <<runtime, history>>
       \/ op.at = "native" /\ op.kind \in Outage /\ GoesDown(op.node)
       \/ /\ op.at = "native" /\ op.kind = "apply"
          /\ \E New \in SUBSET Node :
                /\ Recreate(New)
                /\ state' = [n \in Node |-> IF n \in New THEN "running" ELSE state[n]]
                /\ cable' = cable \union UNION {CablesOf(n) : n \in New}
    /\ Return
    /\ UNCHANGED journal

-----------------------------------------------------------------------------
Steps == \/ Snapshot \/ WriteJournal \/ ParkEndpoints \/ TakeDown \/ Start \/ Deploy
         \/ \E n \in Node : ReadJournal(n)
         \/ \E e \in op.set : RestorePort(e) \/ RestoreRefused(e)
         \/ RemoveJournal

Next ==
    \/ Steps \/ Cut \/ ApplyTopology
    \/ \E n \in Node, kind \in Outage \union {"start"} : Lifecycle(n, kind)
    \/ \E p \in Port, b \in Bridge \union {NoBridge} : Rewire(p, b)

Spec == Init /\ [][Next]_vars

\* The daemon finishes what it has begun, and the caller retries the start of a
\* node whose journal is pending, as the documentation of the journal asks.
Fairness ==
    /\ WF_vars(Steps)
    /\ \A n \in Node : SF_vars(Pending(n) /\ Lifecycle(n, "start"))

LiveSpec == Spec /\ Fairness

(***************************************************************************)
(* Properties                                                              *)
(***************************************************************************)

\* Overlapping outages, failed restores and a daemon that dies anywhere lose no
\* bridge membership: a port the caller attached is attached, or some journal
\* still holds that membership under the ID of the port's container.
MembershipRecoverable ==
    \A p \in Port \ waived : wanted[p] \in {NoBridge, master[p]} \/ \E n \in Node :
        Pending(n) /\ [port |-> p, id |-> id[Host[p]], master |-> wanted[p]] \in journal[n]

\* A recovery gives a port back to the bridge its caller wants it on, and touches
\* no port of a container that was created after the journal was written.
RestoresWanted ==
    [][\A p \in Port \ waived : op.at = "restore" /\ master'[p] # master[p] => master'[p] = wanted'[p]]_vars

\* What keeps a restore of n from succeeding: the node or a peer is gone or was
\* recreated, or a cable or a bridge is missing.
Blocked(n) == state[n] = "gone" \/ (Pending(n) /\ \E e \in journal[n] :
    \/ state[Host[e.port]] # "running" \/ id[Host[e.port]] # e.id
    \/ e.port \notin cable \/ e.master \notin bridges[Host[e.port]])

\* Retrying is enough: once nothing blocks it for good, a node's journal is used
\* up, whatever was pending for other nodes at the same time.
RetryRecovers == \A n \in Node : <>[]~Blocked(n) => []<>~Pending(n)

=============================================================================
