------------------------------- MODULE Faults -------------------------------
(***************************************************************************)
(* Fault injection on the endpoints of one session: ApplyFault and         *)
(* RevertFault with their write-ahead record, and RunTimeline, whose       *)
(* actions take the server's mutex one by one and so interleave with other *)
(* clients' requests.  The daemon may die between any two steps; a backend *)
(* call that reports an error may or may not have taken effect.            *)
(* One endpoint per node stands for a (node, interface) pair.              *)
(***************************************************************************)
EXTENDS Naturals, Sequences

CONSTANTS
    Nodes,       \* endpoints, each on a node of its own
    FaultIds,    \* random fault ids
    MaxSteps,    \* bound on the actions of a timeline
    MaxCrashes,  \* bound on daemon crashes
    Failures,    \* which calls may fail: "save", "net", "exec"
    NoFault,     \* no record under this id
    NoJob        \* no fault request in progress

ASSUME BoundAssumption == MaxSteps \in Nat /\ MaxCrashes \in Nat

\* Administrative state of an endpoint.
Admin == {"up", "down"}

Fault == [kind : {"netem", "link-state"}, node : Nodes, restoreUp : Admin, active : BOOLEAN]
Job == [id : FaultIds, by : {"client", "timeline"}, want : Admin]

ASSUME NullAssumption == NoFault \notin Fault /\ NoJob \notin Job

VARIABLES
    ledger,    \* Record.Faults as saved in session.json
    link,        \* administrative state of each endpoint
    netem,     \* endpoints with a netem discipline installed
    running,   \* nodes with a running container
    at,        \* where the holder of Server.mu stands
    job,       \* the fault request it serves
    tl,        \* RunTimeline: "none", "running", "rollback", "done", "failed"
    created,   \* RunTimeline's `created`
    steps,     \* actions the timeline has run
    crashes,   \* crashes so far
    base,      \* history: administrative state apart from any fault
    applied,   \* history: faults the timeline applied successfully
    unreverted \* history: faults whose revert in the rollback failed

network == <<link, netem, running>>
timeline == <<tl, created, steps, applied, unreverted>>
vars == <<ledger, link, netem, running, at, job, tl, created, steps, crashes, base, applied, unreverted>>

TypeOK ==
    /\ ledger \in [FaultIds -> Fault \union {NoFault}]
    /\ link \in [Nodes -> Admin]
    /\ netem \subseteq Nodes
    /\ running \subseteq Nodes
    /\ at \in {"idle", "apply", "reset", "save"}
    /\ job \in Job \union {NoJob}
    /\ tl \in {"none", "running", "rollback", "done", "failed"}
    /\ created \in Seq(FaultIds)
    /\ steps \in Nat
    /\ crashes \in Nat
    /\ base \in [Nodes -> Admin]
    /\ applied \subseteq FaultIds
    /\ unreverted \subseteq FaultIds

Init ==
    /\ ledger = [f \in FaultIds |-> NoFault]
    /\ link \in [Nodes -> Admin]
    /\ netem = {}
    /\ running = Nodes
    /\ at = "idle" /\ job = NoJob
    /\ tl = "none" /\ created = <<>> /\ steps = 0
    /\ crashes = 0
    /\ base = link /\ applied = {} /\ unreverted = {}

MayFail(kind) == kind \in Failures
Active(f) == ledger[f] # NoFault /\ ledger[f].active
ActiveOn(k, n) == \E f \in FaultIds : Active(f) /\ ledger[f].kind = k /\ ledger[f].node = n

\* Who asks: another client at any time, the timeline while it runs.
Callers == {"client"} \union (IF tl = "running" /\ steps < MaxSteps THEN {"timeline"} ELSE {})
Counted(by) == steps' = IF by = "timeline" THEN steps + 1 ELSE steps

(***************************************************************************)
(* ApplyFault                                                              *)
(***************************************************************************)

\* Mutant: overlapping link-state faults are allowed.
ApplicableAnyway(k, n) == n \in running

\* Preconditions: the node's container runs (ContainerName, LinkUp), and no
\* other link-state fault is active on the endpoint.
Applicable(k, n) ==
    /\ n \in running
    /\ k = "link-state" => ~ActiveOn("link-state", n)

\* Observe the endpoint, record the rollback and save it.
PrepareFault(f, k, n, want, by) ==
    /\ at = "idle" /\ ledger[f] = NoFault
    /\ Applicable(k, n)
    /\ ledger' = [ledger EXCEPT ![f] =
         [kind |-> k, node |-> n, restoreUp |-> IF k = "link-state" THEN link[n] ELSE "down", active |-> TRUE]]
    /\ at' = "apply" /\ job' = [id |-> f, by |-> by, want |-> want]
    /\ Counted(by)
    /\ UNCHANGED <<network, tl, created, crashes, base, applied, unreverted>>

\* What the backend call does to the endpoint when it takes effect.
FaultEffect ==
    LET r == ledger[job.id] IN
    IF r.kind = "netem" THEN netem' = netem \union {r.node} /\ UNCHANGED link
                        ELSE link' = [link EXCEPT ![r.node] = job.want] /\ UNCHANGED netem

\* Mutant: the timeline remembers its last fault only.
ApplyOKForgets ==
    /\ at = "apply" /\ ledger[job.id].node \in running
    /\ FaultEffect
    /\ IF job.by = "timeline"
       THEN created' = <<job.id>> /\ applied' = applied \union {job.id}
       ELSE UNCHANGED <<created, applied>>
    /\ at' = "idle" /\ job' = NoJob
    /\ UNCHANGED <<ledger, running, tl, steps, crashes, base, unreverted>>

ApplyOK ==
    /\ at = "apply" /\ ledger[job.id].node \in running
    /\ FaultEffect
    /\ IF job.by = "timeline"
       THEN created' = Append(created, job.id) /\ applied' = applied \union {job.id}
       ELSE UNCHANGED <<created, applied>>
    /\ at' = "idle" /\ job' = NoJob
    /\ UNCHANGED <<ledger, running, tl, steps, crashes, base, unreverted>>

\* Mutant: a failed application drops its record.
ApplyFailsForgotten ==
    /\ at = "apply" /\ MayFail("net") /\ ledger[job.id].node \in running
    /\ FaultEffect
    /\ tl' = IF job.by = "timeline" THEN "rollback" ELSE tl
    /\ at' = "idle" /\ job' = NoJob
    /\ ledger' = [ledger EXCEPT ![job.id] = NoFault]
    /\ UNCHANGED <<running, created, steps, crashes, base, applied, unreverted>>

\* An error says nothing about the effect; the record stays active.
ApplyFails ==
    /\ at = "apply"
    /\ \/ MayFail("net") /\ ledger[job.id].node \in running /\ FaultEffect
       \/ (MayFail("net") \/ ledger[job.id].node \notin running) /\ UNCHANGED <<link, netem>>
    /\ tl' = IF job.by = "timeline" THEN "rollback" ELSE tl
    /\ at' = "idle" /\ job' = NoJob
    /\ UNCHANGED <<ledger, running, created, steps, crashes, base, applied, unreverted>>

(***************************************************************************)
(* RevertFault.  Its callers: a client, an action of the timeline, and the *)
(* rollback of the timeline, which ignores the outcome.                    *)
(***************************************************************************)
RevertFault(f, by) ==
    /\ at = "idle" /\ Active(f)
    /\ at' = "reset" /\ job' = [id |-> f, by |-> by, want |-> ledger[f].restoreUp]
    /\ Counted(by)
    /\ UNCHANGED <<ledger, network, tl, created, crashes, base, applied, unreverted>>

ResetEffect ==
    LET r == ledger[job.id] IN
    IF r.kind = "netem" THEN netem' = netem \ {r.node} /\ UNCHANGED link
                        ELSE link' = [link EXCEPT ![r.node] = r.restoreUp] /\ UNCHANGED netem

ResetOK ==
    /\ at = "reset" /\ ledger[job.id].node \in running
    /\ ResetEffect
    /\ at' = "save"
    /\ UNCHANGED <<ledger, running, job, timeline, crashes, base>>

Front(s) == SubSeq(s, 1, Len(s) - 1)
Last(s) == s[Len(s)]

\* RevertFault returns, with or without an error.
RevertReturns(failed) ==
    /\ at' = "idle" /\ job' = NoJob
    /\ CASE job.by = "client" -> UNCHANGED <<tl, created, unreverted>>
         [] job.by = "timeline" /\ tl = "rollback" ->
              /\ created' = Front(created)
              /\ unreverted' = IF failed THEN unreverted \union {job.id} ELSE unreverted
              /\ UNCHANGED tl
         [] OTHER -> tl' = (IF failed THEN "rollback" ELSE tl) /\ UNCHANGED <<created, unreverted>>
    /\ UNCHANGED <<steps, crashes, base, applied>>

ResetFails ==
    /\ at = "reset"
    /\ \/ MayFail("net") /\ ledger[job.id].node \in running /\ ResetEffect
       \/ (MayFail("net") \/ ledger[job.id].node \notin running) /\ UNCHANGED <<link, netem>>
    /\ RevertReturns(TRUE)
    /\ UNCHANGED <<ledger, running>>

SaveRevert ==
    /\ at = "save"
    /\ \/ ledger' = [ledger EXCEPT ![job.id] = [@ EXCEPT !.active = FALSE]] /\ RevertReturns(FALSE)
       \/ MayFail("save") /\ UNCHANGED ledger /\ RevertReturns(TRUE)
    /\ UNCHANGED network

(***************************************************************************)
(* RunTimeline                                                             *)
(***************************************************************************)
\* The timeline waits for no fault request of its own.
TimelineFree == job # NoJob => job.by = "client"

TimelineStart ==
    /\ tl \notin {"running", "rollback"}
    /\ tl' = "running" /\ created' = <<>> /\ steps' = 0 /\ applied' = {} /\ unreverted' = {}
    /\ UNCHANGED <<ledger, network, at, job, crashes, base>>

\* An Exec, WaitExec or Lifecycle action, or a RevertFault of an inactive
\* fault, that succeeds.
TimelineAct ==
    /\ tl = "running" /\ steps < MaxSteps /\ TimelineFree
    /\ steps' = steps + 1
    /\ UNCHANGED <<ledger, network, at, job, tl, created, crashes, base, applied, unreverted>>

\* The context is cancelled while waiting, or an action returns an error.
TimelineAbort ==
    /\ tl = "running" /\ steps < MaxSteps /\ MayFail("exec")
    /\ TimelineFree
    /\ tl' = "rollback"
    /\ UNCHANGED <<ledger, network, at, job, created, steps, crashes, base, applied, unreverted>>

TimelineEnd ==
    /\ tl = "running" /\ steps = MaxSteps
    /\ TimelineFree
    /\ tl' = "done"
    /\ UNCHANGED <<ledger, network, at, job, created, steps, crashes, base, applied, unreverted>>

\* Next fault of the rollback, last created first.
Rollback ==
    /\ tl = "rollback" /\ created # <<>>
    /\ Active(Last(created))
    /\ RevertFault(Last(created), "timeline")

\* Mutant: the rollback waits for a fault that is already inactive.
RollbackWaits ==
    /\ tl = "rollback" /\ created # <<>> /\ at = "idle"
    /\ ~Active(Last(created))
    /\ UNCHANGED vars

\* It is inactive already: somebody else reverted it.
RollbackSkip ==
    /\ tl = "rollback" /\ created # <<>> /\ at = "idle"
    /\ ~Active(Last(created))
    /\ created' = Front(created)
    /\ UNCHANGED <<ledger, network, at, job, tl, steps, crashes, base, applied, unreverted>>

RollbackEnd ==
    /\ tl = "rollback" /\ created = <<>>
    /\ tl' = "failed"
    /\ UNCHANGED <<ledger, network, at, job, created, steps, crashes, base, applied, unreverted>>

(***************************************************************************)
(* Containers and the daemon process                                       *)
(***************************************************************************)
\* A container dies at any time: a Lifecycle stop or crash, or by itself.
NodeStops(n) ==
    /\ n \in running
    /\ running' = running \ {n}
    /\ UNCHANGED <<ledger, link, netem, at, job, timeline, crashes, base>>

\* A Lifecycle start or restart.  The runtime decides what the endpoint looks
\* like afterwards; a discipline may be lost, none appears.
NodeStarts(n, state, kept) ==
    /\ at = "idle"
    /\ running' = running \union {n}
    /\ link' = [link EXCEPT ![n] = state]
    /\ netem' = IF kept THEN netem ELSE netem \ {n}
    /\ base' = IF ActiveOn("link-state", n) THEN base ELSE [base EXCEPT ![n] = state]
    /\ UNCHANGED <<ledger, at, job, timeline, crashes>>

\* The daemon dies and is started again: what it had not saved is gone, the
\* timeline with its list of faults too.  A call in flight may have happened.
DaemonCrash ==
    /\ crashes < MaxCrashes
    /\ crashes' = crashes + 1
    /\ \/ at = "apply" /\ ledger[job.id].node \in running /\ FaultEffect
       \/ at = "reset" /\ ledger[job.id].node \in running /\ ResetEffect
       \/ UNCHANGED <<link, netem>>
    /\ at' = "idle" /\ job' = NoJob
    /\ tl' = "none" /\ created' = <<>> /\ steps' = 0 /\ applied' = {} /\ unreverted' = {}
    /\ UNCHANGED <<ledger, running, base>>

-----------------------------------------------------------------------------
Kinds == {"netem", "link-state"}

Requests ==
    \/ \E f \in FaultIds, k \in Kinds, n \in Nodes, want \in Admin, by \in Callers : PrepareFault(f, k, n, want, by)
    \/ \E f \in FaultIds, by \in Callers : RevertFault(f, by)
    \/ TimelineStart

Handlers == ApplyOK \/ ApplyFails \/ ResetOK \/ ResetFails \/ SaveRevert

Timeline == TimelineAct \/ TimelineAbort \/ TimelineEnd \/ Rollback \/ RollbackSkip \/ RollbackEnd

Runtime ==
    \/ \E n \in Nodes : NodeStops(n)
    \/ \E n \in Nodes, state \in Admin, kept \in BOOLEAN : NodeStarts(n, state, kept)
    \/ DaemonCrash

Next == Requests \/ Handlers \/ Timeline \/ Runtime

Spec == Init /\ [][Next]_vars

\* The daemon's goroutines run on; the timeline gets the mutex in its turn
\* (sync.Mutex does not starve a waiter); Exec and WaitExec have deadlines.
Fairness ==
    /\ WF_vars(Handlers) /\ WF_vars(TimelineAct) /\ WF_vars(TimelineEnd)
    /\ SF_vars(Rollback) /\ SF_vars(RollbackSkip) /\ WF_vars(RollbackEnd)

LiveSpec == Spec /\ Fairness

(***************************************************************************)
(* Properties                                                              *)
(***************************************************************************)

\* An endpoint without an active link-state fault has the administrative
\* state it would have had without any: RevertFault restores what ApplyFault
\* observed, also after ambiguous errors, lost saves and daemon crashes.
LinkRestored ==
    \A n \in Nodes : ~ActiveOn("link-state", n) => link[n] = base[n]

\* A failed timeline leaves none of the faults it applied active, except
\* those whose revert failed: RunTimeline's rollback covers all of `created`,
\* whatever other clients applied, reverted or restarted in between.
RollbackComplete ==
    tl = "failed" => \A f \in applied : Active(f) => f \in unreverted

\* A timeline ends: it completes, or its rollback comes to an end.
TimelineEnds == tl \in {"running", "rollback"} ~> tl \notin {"running", "rollback"}

Duty == {n \in Nodes : \E k \in Kinds : ActiveOn(k, n)}
Deviated == {n \in Nodes : link[n] # base[n]} \union netem

Duties == INSTANCE RollbackDuty WITH duty <- Duty, deviated <- Deviated

\* The write-ahead fault record implements the rollback duty: an endpoint is
\* tampered with only while a rollback for it is on disk.
ImplementsDuty == Duties!Spec

=============================================================================
