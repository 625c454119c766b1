------------------------------- MODULE Nodes -------------------------------
(***************************************************************************)
(* The nodes of one session: lifecycle actions, preparation of a           *)
(* replacement, and reconciliation of the lab with a proposed topology.    *)
(* Each handler runs under Server.mu and changes, one after another, the   *)
(* topology file, the session record, the runtime and the disks; an error  *)
(* or a crash leaves what was done so far.                                 *)
(***************************************************************************)
EXTENDS Naturals

CONSTANTS
    Node,         \* node names
    Qga,          \* nodes with a guest agent, which may get disks and bootstrap data
    Created,      \* topologies with which the session may have been created
    Isolated,     \* nodes whose isolation the runtime must prove
    Failures,     \* calls that may fail
    CrashPoints,  \* values of at at which the daemon may die
    MaxRequests,  \* bound on the requests of clients
    Torn,         \* the topology file while it is written in place
    None          \* nothing

\* "native": Containerlab and docker; "write": the write of the topology in
\* place; "restore": the write that takes a draft back.
FailureKinds == {"save", "native", "validate", "bootstrap", "write", "disks", "restore"}

\* Where the holder of Server.mu stands; "idle" when nobody holds it.
Points == {"idle", "acted", "removed", "pending", "truncated", "booted", "reset",
           "replaced", "draft", "reconcile", "deployed"}

ASSUME NodeAssumption == Isolated \subseteq Node /\ Qga \subseteq Node
ASSUME BoundAssumption == MaxRequests \in Nat
ASSUME FailuresAssumption == Failures \subseteq FailureKinds
ASSUME CrashPointsAssumption == CrashPoints \subseteq Points

\* The nodes, and which of them labcontainers gives disks and bootstrap data.
Topology == [nodes : SUBSET Node, disk : SUBSET Node, boot : SUBSET Node]

\* diskPlan and bootstrapPlan refuse attachments of nodes without a guest agent.
DiskPlan(t) == t.disk \subseteq t.nodes \intersect Qga
BootstrapPlan(t) == t.boot \subseteq t.nodes \intersect Qga

ASSUME CreatedAssumption ==
    Created \subseteq {t \in Topology : DiskPlan(t) /\ BootstrapPlan(t)}

\* What Containerlab would do to the containers of the lab.
Impact == [create : SUBSET Node, remove : SUBSET Node, recreate : SUBSET Node]

NodeState == {"absent", "created", "running", "stopped", "unknown", "replacement-pending"}
Record == [state : {"running", "reconciling", "reconcile-failed"},
           nodes : [Node -> NodeState], disk : SUBSET Node, boot : SUBSET Node]

Actions == {"crash", "stop", "start", "restart"}
Work == [node : Node, action : Actions \union {"replace"}, flag : BOOLEAN]
        \union [action : {"apply"}, flag : BOOLEAN]

ASSUME TornAssumption == Torn \notin Topology
ASSUME NoneAssumption ==
    None \notin Topology \union {Torn} /\ None \notin Impact /\ None \notin Work

VARIABLES
    topo,      \* the topology file
    rec,       \* session.json: the session's state, its nodes, their attachments
    faults,    \* the nodes with active faults in session.json
    box,       \* the container of each node
    made,      \* the attachments the containers were created with
    disk,      \* the content of the attached disk of each node
    plan,      \* a plan that a client has reviewed and not used
    requests,  \* requests so far, those that only read not counted
    at,        \* where the holder of Server.mu stands
    work,      \* its node, its action and whether it failed or brings bootstrap data
    draft,     \* the topology it writes
    before,    \* the topology file it found
    approved   \* the plan in its request

files == <<topo, rec, faults>>
runtime == <<box, made, disk>>
locals == <<work, draft, before, approved>>
vars == <<topo, rec, faults, box, made, disk, plan, requests, at, work, draft, before, approved>>

TypeOK ==
    /\ topo \in Topology \union {Torn}
    /\ rec \in Record
    /\ faults \in SUBSET Node
    /\ box \in [Node -> {"none", "stopped", "running"}]
    /\ made \in [disk : SUBSET Node, boot : SUBSET Node]
    /\ disk \in [Node -> {"fresh", "used"}]
    /\ plan \in Impact \union {None}
    /\ requests \in Nat
    /\ at \in Points
    /\ work \in Work \union {None}
    /\ draft \in Topology \union {None}
    /\ before \in Topology \union {Torn, None}
    /\ approved \in Impact \union {None}

Known == {n \in Node : rec.nodes[n] # "absent"}
There == {n \in Node : box[n] # "none"}

\* A session as CreateSession leaves it.
Init ==
    /\ topo \in Created
    /\ rec = [state |-> "running", disk |-> topo.disk, boot |-> topo.boot,
              nodes |-> [n \in Node |-> IF n \in topo.nodes THEN "running" ELSE "absent"]]
    /\ box = [n \in Node |-> IF n \in topo.nodes THEN "running" ELSE "none"]
    /\ made = [disk |-> topo.disk, boot |-> topo.boot]
    /\ disk = [n \in Node |-> IF n \in topo.disk THEN "used" ELSE "fresh"]
    /\ faults = {}
    /\ plan = None /\ requests = 0
    /\ at = "idle"
    /\ work = None /\ draft = None /\ before = None /\ approved = None

\* A handler gets Server.mu.
Enter ==
    /\ at = "idle"
    /\ requests < MaxRequests /\ requests' = requests + 1

\* The handler returns.
Return ==
    /\ at' = "idle"
    /\ work' = None /\ draft' = None /\ before' = None /\ approved' = None

\* Store.Save; most callers drop its error.
Save(r) == rec' = r \/ ("save" \in Failures /\ UNCHANGED rec)
SetState(n, s) == [rec EXCEPT !.nodes = [@ EXCEPT ![n] = s]]

\* The containers become b, and are made of m if they are there.  A guest that
\* runs writes to its disk.
Containers(b, m) ==
    /\ box' = b
    /\ made' = [disk |-> {n \in m.disk : b[n] # "none"}, boot |-> {n \in m.boot : b[n] # "none"}]
    /\ disk' = [n \in Node |-> IF b[n] = "running" /\ n \in m.disk THEN "used" ELSE disk[n]]

(***************************************************************************)
(* Lifecycle                                                               *)
(***************************************************************************)
\* What a command that reports success may have made of the container: a VM that
\* stops may be removed, and a start that succeeds may have started nothing.
CrashOutcomes(n) == IF box[n] = "running" THEN {"stopped", "none"} ELSE {}

Outcomes(n, a) ==
    IF a = "crash" THEN CrashOutcomes(n)
    ELSE IF topo = Torn THEN {}
    ELSE {"none"} \union (IF box[n] = "none" THEN {}
                         ELSE IF a = "stop" THEN {"stopped"} ELSE {"running", "stopped"})

Lifecycle(n, a) ==
    /\ Enter /\ n \in Known
    /\ \E failed \in BOOLEAN : \E b \in Outcomes(n, a) \union {box[n]} :
        /\ IF failed THEN "native" \in Failures \/ Outcomes(n, a) = {} ELSE b \in Outcomes(n, a)
        /\ Containers([box EXCEPT ![n] = b], made)
        /\ work' = [node |-> n, action |-> a, flag |-> failed]
    /\ at' = "acted"
    /\ UNCHANGED <<files, plan, draft, before, approved>>

\* verifyRunningNode: a container runs, and its isolation is proved.
Verified(n) == box[n] = "running" /\ topo # Torn

LifecycleDone ==
    /\ at = "acted"
    /\ \/ /\ ~work.flag /\ work.action \in {"crash", "stop"}
          /\ Save(SetState(work.node, "stopped"))
       \/ /\ ~work.flag /\ work.action \in {"start", "restart"} /\ Verified(work.node)
          /\ Save(SetState(work.node, "running"))
       \/ /\ \/ work.flag
             \/ work.action \in {"start", "restart"} /\ (Verified(work.node) => "native" \in Failures)
          /\ Save(SetState(work.node, "unknown"))
    /\ Return
    /\ UNCHANGED <<topo, faults, runtime, plan, requests>>

(***************************************************************************)
(* Lifecycle with REPLACE                                                  *)
(***************************************************************************)
\* Mutant: the exit status of the removal is trusted.
RemovalTrusting(n, failed) ==
    \E left \in {"none", box[n]} :
        /\ failed \/ left # "none" => "native" \in Failures \/ topo = Torn
        /\ failed \/ topo # Torn
        /\ Containers([box EXCEPT ![n] = left], made)

\* RemoveNode of the engine succeeds when the command does and no container is left.
Removal(n, failed) ==
    \E left \in {"none", box[n]} :
        /\ IF failed THEN "native" \in Failures \/ topo = Torn
                     ELSE left = "none" /\ topo # Torn
        /\ Containers([box EXCEPT ![n] = left], made)

RemoveNode(n, boot) ==
    /\ Enter /\ n \in Known /\ faults = {} /\ (boot => n \in Qga)
    /\ \E failed \in BOOLEAN :
        /\ Removal(n, failed)
        /\ IF failed
           THEN Save(SetState(n, "unknown")) /\ Return
           ELSE /\ at' = "removed"
                /\ work' = [node |-> n, action |-> "replace", flag |-> boot]
                /\ UNCHANGED <<rec, draft, before, approved>>
    /\ UNCHANGED <<topo, faults, plan>>

\* The save before the disks are touched, with the state to go on in.
SaveRemoved(state) ==
    /\ at = "removed"
    /\ \/ /\ rec' = SetState(work.node, state)
          /\ at' = IF work.flag THEN "pending" ELSE "reset"
          /\ UNCHANGED locals
       \/ "save" \in Failures /\ UNCHANGED rec /\ Return
    /\ UNCHANGED <<topo, faults, runtime, plan, requests>>

SavePending == SaveRemoved("replacement-pending")

\* configureBootstrap: the data, and for a node without it a bind of the topology
\* file, which is truncated and written in place.
ConfigureBootstrap ==
    /\ at = "pending"
    /\ \/ /\ work.node \in rec.boot
          /\ at' = "booted"
          /\ UNCHANGED <<topo, locals>>
       \/ /\ work.node \notin rec.boot /\ topo # Torn /\ work.node \in topo.nodes
          /\ draft' = [topo EXCEPT !.boot = @ \union {work.node}]
          /\ topo' = Torn
          /\ at' = "truncated"
          /\ UNCHANGED <<work, before, approved>>
       \/ /\ \/ "bootstrap" \in Failures
             \/ work.node \notin rec.boot /\ (topo = Torn \/ work.node \notin topo.nodes)
          /\ Return /\ UNCHANGED topo
    /\ UNCHANGED <<rec, faults, runtime, plan, requests>>

BootstrapWritten ==
    /\ at = "truncated"
    /\ \/ topo' = draft /\ at' = "booted" /\ UNCHANGED locals
       \/ "write" \in Failures /\ Return /\ UNCHANGED topo
    /\ UNCHANGED <<rec, faults, runtime, plan, requests>>

ValidateUpdated ==
    /\ at = "booted"
    /\ \/ topo # Torn /\ at' = "reset" /\ UNCHANGED locals
       \/ (topo = Torn \/ "validate" \in Failures) /\ Return
    /\ UNCHANGED <<files, runtime, plan, requests>>

ResetDisks ==
    /\ at = "reset"
    /\ \/ /\ disk' = [disk EXCEPT ![work.node] = IF work.node \in rec.disk THEN "fresh" ELSE @]
          /\ at' = "replaced"
          /\ UNCHANGED locals
       \/ "disks" \in Failures /\ Return /\ UNCHANGED disk
    /\ UNCHANGED <<files, box, made, plan, requests>>

ReplaceDone ==
    /\ at = "replaced"
    /\ Save([rec EXCEPT !.boot = IF work.flag THEN @ \union {work.node} ELSE @])
    /\ Return
    /\ UNCHANGED <<topo, faults, runtime, plan, requests>>

(***************************************************************************)
(* PlanTopology and ApplyTopology                                          *)
(***************************************************************************)
\* Containerlab's dry run: nodes without a container are created, containers of
\* other nodes removed, and those with other binds than the topology's recreated.
ImpactOf(t) ==
    [create |-> t.nodes \ There,
     remove |-> There \ t.nodes,
     recreate |-> {n \in t.nodes \intersect There :
                      (n \in made.disk) # (n \in t.disk) \/ (n \in made.boot) # (n \in t.boot)}]

\* Mutant: a proposal comes without the bootstrap data of its nodes.
PrepareDisksOnly(nodes) == [nodes |-> nodes, disk |-> rec.disk \intersect nodes, boot |-> {}]

\* A proposal keeps the attachments that the record has of its nodes.
PrepareDraft(nodes) ==
    [nodes |-> nodes, disk |-> rec.disk \intersect nodes, boot |-> rec.boot \intersect nodes]

\* The topologies a request may stand for: the current one, or a proposal.
Requested == {PrepareDraft(nodes) : nodes \in SUBSET Node \ {{}}} \union ({topo} \ {Torn})

PlanTopology ==
    /\ at = "idle"
    /\ \E t \in Requested : plan' = ImpactOf(t)
    /\ UNCHANGED <<files, runtime, requests, at, locals>>

\* The topology becomes the session's before it is checked.
WriteDraft ==
    /\ \E t \in Requested : draft' = t /\ topo' = t
    /\ before' = topo /\ approved' = plan /\ plan' = None
    /\ at' = "draft"
    /\ UNCHANGED <<rec, faults, runtime, work>>

\* Mutant: active faults do not matter.
ApplyDespiteFaults == Enter /\ plan # None /\ WriteDraft

ApplyTopology == Enter /\ plan # None /\ faults = {} /\ WriteDraft

\* Validation fails, the plan has changed, or the record cannot be saved.
Refused == ImpactOf(topo) # approved \/ Failures \intersect {"validate", "native", "save"} # {}

\* Mutant: a refused draft stays.
RefuseAndKeep ==
    /\ at = "draft" /\ Refused
    /\ Return
    /\ UNCHANGED <<files, runtime, plan, requests>>

\* The topology file becomes what it was.
Refuse ==
    /\ at = "draft" /\ Refused
    /\ topo' = before \/ ("restore" \in Failures /\ UNCHANGED topo)
    /\ Return
    /\ UNCHANGED <<rec, faults, runtime, plan, requests>>

\* Deployment begins with r on disk.
Proceed(r) ==
    /\ at = "draft" /\ at' = "reconcile"
    /\ rec' = r
    /\ UNCHANGED <<topo, faults, runtime, plan, requests, locals>>

\* The nodes of the draft, beside those the record has.
WithDraftNodes == [n \in Node |-> IF n \in draft.nodes \ Known THEN "created" ELSE rec.nodes[n]]

\* Mutant: the new nodes enter the record when they exist.
ReconcileUnrecorded ==
    /\ Proceed([rec EXCEPT !.state = "reconciling"])
    /\ ImpactOf(topo) = approved

\* Mutant: the plan is not compared with the approved one.
ReconcileUnapproved == Proceed([rec EXCEPT !.state = "reconciling", !.nodes = WithDraftNodes])

\* The plan is the approved one.
Reconcile ==
    /\ Proceed([rec EXCEPT !.state = "reconciling", !.nodes = WithDraftNodes])
    /\ ImpactOf(topo) = approved

\* The plan of the moment; of a plan that fails, some nodes' part, or only the
\* removal of a container to be recreated.  Stopped containers may be started.
Deploy ==
    LET now == ImpactOf(topo)
        new == now.create \union now.recreate IN
    /\ at = "reconcile"
    /\ \E done \in SUBSET Node, gone \in SUBSET now.recreate, up \in SUBSET Node :
        /\ done = Node \/ "native" \in Failures
        /\ Containers(
             [n \in Node |->
                IF n \in done \intersect new THEN "running"
                ELSE IF n \in (done \intersect now.remove) \union (gone \ done) THEN "none"
                ELSE IF n \in up /\ box[n] = "stopped" THEN "running" ELSE box[n]],
             [disk |-> (made.disk \ (done \intersect new)) \union (topo.disk \intersect done \intersect new),
              boot |-> (made.boot \ (done \intersect new)) \union (topo.boot \intersect done \intersect new)])
        /\ \E failed \in BOOLEAN :
              /\ done = Node \/ failed
              /\ failed => "native" \in Failures
              /\ work' = [action |-> "apply", flag |-> failed]
    /\ at' = "deployed"
    /\ UNCHANGED <<files, plan, requests, draft, before, approved>>

\* ProofIsolation needs a running container of every isolated node.
ApplyDone ==
    /\ at = "deployed"
    /\ \/ /\ ~work.flag /\ \A n \in Isolated \intersect draft.nodes : box[n] = "running"
          /\ Save([state |-> "running",
                   disk |-> rec.disk \intersect draft.nodes, boot |-> rec.boot \intersect draft.nodes,
                   nodes |-> [n \in Node |-> IF n \in draft.nodes THEN "running" ELSE "absent"]])
       \/ /\ \/ work.flag \/ "native" \in Failures
             \/ \E n \in Isolated \intersect draft.nodes : box[n] # "running"
          /\ Save([rec EXCEPT !.state = "reconcile-failed"])
    /\ Return
    /\ UNCHANGED <<topo, faults, runtime, plan, requests>>

(***************************************************************************)
(* Faults, in outline (see module Faults), and what happens by itself.     *)
(***************************************************************************)
ApplyFault(n) ==
    /\ Enter /\ n \in Known /\ box[n] = "running"
    /\ faults' = faults \union {n}
    /\ UNCHANGED <<topo, rec, runtime, plan, at, locals>>

RevertFault(n) ==
    /\ at = "idle" /\ n \in faults /\ n \in Known /\ box[n] = "running"
    /\ faults' = faults \ {n}
    /\ UNCHANGED <<topo, rec, runtime, plan, requests, at, locals>>

\* A container stops, and may be removed, by itself.
Vanish(n) ==
    /\ box[n] = "running"
    /\ \E b \in {"stopped", "none"} : Containers([box EXCEPT ![n] = b], made)
    /\ UNCHANGED <<files, plan, requests, at, locals>>

DaemonCrash ==
    /\ at \in CrashPoints \ {"idle"}
    /\ Return
    /\ UNCHANGED <<files, runtime, plan, requests>>

Next ==
    \/ \E n \in Node :
        \/ \E a \in Actions : Lifecycle(n, a)
        \/ \E boot \in BOOLEAN : RemoveNode(n, boot)
        \/ ApplyFault(n) \/ RevertFault(n) \/ Vanish(n)
    \/ LifecycleDone
    \/ SavePending \/ ConfigureBootstrap \/ BootstrapWritten \/ ValidateUpdated
    \/ ResetDisks \/ ReplaceDone
    \/ PlanTopology \/ ApplyTopology \/ Refuse \/ Reconcile \/ Deploy \/ ApplyDone
    \/ DaemonCrash

Spec == Init /\ [][Next]_vars

\* Every container belongs to a node of the record, through which clients can
\* reach it, whatever fails and wherever the daemon dies: ApplyTopology records
\* the new nodes beside the old before it deploys.
RuntimeKnown == There \subseteq Known

\* A fault can be reverted: reconciliation, which forgets nodes, is refused
\* while a fault is active.
FaultsKnown == faults \subseteq Known

\* A node keeps its disks and bootstrap data through plans, proposals, failures
\* and crashes: what the record has of it is in the topology file, and in its
\* container.
AttachmentsPreserved ==
    /\ topo # Torn => /\ rec.disk \intersect topo.nodes \subseteq topo.disk
                      /\ rec.boot \intersect topo.nodes \subseteq topo.boot
    /\ rec.disk \intersect There \subseteq made.disk
    /\ rec.boot \intersect There \subseteq made.boot

\* Between handlers, the topology file of a session that is not in the middle of
\* a failed reconciliation has the nodes of its record: an error before the
\* runtime is touched restores the original topology.
DraftsWithdrawn ==
    at = "idle" /\ rec.state = "running" => topo # Torn /\ topo.nodes = Known

\* A disk is reset only when no container of its node is left to write to it.
ResetOnlyRemoved ==
    [][\A n \in Node : disk[n] = "used" /\ disk'[n] = "fresh" => box[n] = "none"]_vars

\* Reconciliation removes and recreates no container that the approved plan does
\* not name, though plans are stale when they are used.
ApprovedOnly ==
    [][at = "reconcile" /\ at' = "deployed" =>
        \A n \in There : box'[n] = "none" \/ (n \in made.disk) # (n \in made'.disk)
                                        \/ (n \in made.boot) # (n \in made'.boot)
            => n \in approved.remove \union approved.recreate]_vars

\* A node that waits for its replacement will start on fresh disks.
PendingIsFresh ==
    \A n \in rec.disk : at = "idle" /\ rec.state = "running" /\ rec.nodes[n] = "replacement-pending"
                            => disk[n] = "fresh"

=============================================================================
