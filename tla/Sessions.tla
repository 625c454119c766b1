------------------------------ MODULE Sessions ------------------------------
(***************************************************************************)
(* The lab daemon: the session store on disk, the create / keep / destroy  *)
(* handlers and the lease reaper that share one mutex (Server.mu), and the *)
(* daemon's main loop (owner cleanup, periodic scavenging, exit).          *)
(*                                                                         *)
(* The mutex holder's progress is `at`, one value per point at which the   *)
(* process can die with a different state left behind on the disk or in    *)
(* the container runtime.  Client requests come from the environment; the  *)
(* container runtime may fail any call, in the ways Failures allows.       *)
(***************************************************************************)
EXTENDS Naturals, FiniteSets

CONSTANTS
    Ids,          \* session ids; an id without a directory is a fresh random id
    Names,        \* lab names a client may request
    Sanitize,     \* spec.sanitize: requested name -> Containerlab lab name
    ForeignLabs,  \* lab names in the runtime that belong to nobody here
    TTLs,         \* lease lengths a client may ask for
    MaxTime,      \* bound on the clock
    MaxCrashes,   \* bound on daemon crashes
    CrashPoints,  \* points (values of `at`) at which the daemon may crash
    Failures,     \* which calls of the environment may fail
    NoRecord,     \* no session.json in the directory
    NoId          \* no session in hand

FailureKinds == {"create", "files", "validate", "deploy", "proof", "destroy", "save", "delete"}

\* Where the holder of Server.mu stands; "idle" when nobody holds it.
Points == {"idle", "mkdir", "record", "files", "deploy", "proof", "running",
           "undo", "pick", "destroy", "delete"}

ASSUME NoRecordAssumption == NoRecord \notin
    [name : Names, state : {"provisioning", "failed", "running"}, kept : BOOLEAN, expires : Nat]
ASSUME NoIdAssumption == NoId \notin Ids
ASSUME SanitizeAssumption == Sanitize \in [Names -> Names]
ASSUME ForeignAssumption == ForeignLabs \subseteq Names
ASSUME TimeAssumption == TTLs \subseteq Nat \ {0} /\ MaxTime \in Nat /\ MaxCrashes \in Nat
ASSUME ChoiceAssumption == CrashPoints \subseteq Points /\ Failures \subseteq FailureKinds

VARIABLES
    now,       \* wall clock
    dirs,      \* ids whose session directory exists
    topos,     \* ids whose topology.clab.yml exists
    store,     \* session.json of each id, or NoRecord
    lab,       \* containers of each id in the runtime
    daemon,    \* "down" or "up"
    loop,      \* where the daemon's main goroutine stands
    detached,  \* the owner is gone: exit once no session is left
    stamp,     \* the time the main goroutine passed to Scavenge
    at,        \* where the mutex holder stands
    who,       \* which operation holds the mutex
    cur,       \* the id it works on
    mem,       \* the name CreateSession was asked for and the record it has built
    todo,      \* records a reaper still has to visit
    crashes    \* crashes so far

vars == <<now, dirs, topos, store, lab, daemon, loop, detached, stamp,
          at, who, cur, mem, todo, crashes>>

disk == <<dirs, topos, store>>
mainloop == <<daemon, loop, detached, stamp>>

Record == [name : Names, state : {"provisioning", "failed", "running"},
           kept : BOOLEAN, expires : Nat]
Draft == [asked : Names, record : Record]

\* "exposed": deployed, but some node that must be isolated has connectivity.
LabStates == {"none", "partial", "exposed", "isolated"}
Loops == {"boot", "select", "cleanup", "scavenge", "check", "drain", "stop"}
Operations == {"nobody", "create", "destroy", "scavenge", "cleanup"}

TypeOK ==
    /\ now \in Nat
    /\ dirs \subseteq Ids
    /\ topos \subseteq Ids
    /\ store \in [Ids -> Record \union {NoRecord}]
    /\ lab \in [Ids -> LabStates]
    /\ daemon \in {"down", "up"}
    /\ loop \in Loops
    /\ detached \in BOOLEAN
    /\ stamp \in Nat
    /\ at \in Points
    /\ who \in Operations
    /\ cur \in Ids \union {NoId}
    /\ mem \in Draft \union {NoRecord}
    /\ todo \subseteq Ids
    /\ crashes \in Nat

Init ==
    /\ now = 0
    /\ dirs = {} /\ topos = {}
    /\ store = [i \in Ids |-> NoRecord]
    /\ lab = [i \in Ids |-> "none"]
    /\ daemon = "down" /\ loop = "boot" /\ detached = FALSE /\ stamp = 0
    /\ at = "idle" /\ who = "nobody" /\ cur = NoId /\ mem = NoRecord /\ todo = {}
    /\ crashes = 0

(***************************************************************************)
(* Store.List: one directory without a readable record fails the listing.  *)
(***************************************************************************)
Recorded(i) == store[i] # NoRecord
ListOK == \A i \in dirs : Recorded(i)

\* The lease of i is over: Scavenge at time t destroys it.
LeaseOver(i, t) == Recorded(i) /\ store[i].expires <= t

\* Requests are served once the start-up Scavenge is over.  GracefulStop still
\* completes the ones it has accepted, those waiting for the mutex included.
Serving == daemon = "up" /\ loop # "boot"

\* The holder of Server.mu stands at p and the process is alive.
Holding(p) == daemon = "up" /\ at = p

MutexFree == Holding("idle")

\* The operation returns: its locals are gone and the mutex is free.
Release == at' = "idle" /\ who' = "nobody" /\ cur' = NoId /\ mem' = NoRecord /\ todo' = {}

Goto(p) == at' = p /\ UNCHANGED <<who, cur, mem, todo>>

MayFail(kind) == kind \in Failures

\* Store.Save of the record in hand with a new state; its error is ignored
\* or returned, and either way the old file survives (temp file + rename).
SaveState(st) ==
    \/ store' = [store EXCEPT ![cur].state = st]
    \/ MayFail("save") /\ UNCHANGED store

(***************************************************************************)
(* CreateSession, CheckLabNameAvailable, Store.Create                      *)
(***************************************************************************)

\* Mutant: CheckLabNameAvailable is not called.
RuntimeNamesUnchecked == {}

\* Containerlab names visible in the runtime as container labels.
RuntimeNames == ForeignLabs \union {store[i].name : i \in {j \in Ids : lab[j] # "none" /\ Recorded(j)}}

\* Everything CreateSession does before it touches the disk.  Both checks on
\* the name use the name as requested; the record gets the sanitized one.
CreateSession(i, n, ttl) ==
    /\ Serving /\ MutexFree
    /\ i \notin dirs /\ lab[i] = "none"
    /\ ListOK
    /\ \A j \in dirs : store[j].name # n
    /\ n \notin RuntimeNames
    /\ mem' = [asked |-> n,
               record |-> [name |-> Sanitize[n], state |-> "provisioning", kept |-> FALSE, expires |-> now + ttl]]
    /\ at' = "mkdir" /\ who' = "create" /\ cur' = i /\ todo' = {}
    /\ UNCHANGED <<now, disk, lab, mainloop, crashes>>

StoreMkdir ==
    /\ Holding("mkdir")
    /\ \/ dirs' = dirs \union {cur} /\ Goto("record")
       \/ MayFail("create") /\ UNCHANGED dirs /\ Release
    /\ UNCHANGED <<now, topos, store, lab, mainloop, crashes>>

\* The artifacts directory and writeLocked: the rename makes the record visible
\* in one step.  An error before it leaves the session's directory behind.
StoreWrite ==
    /\ Holding("record")
    /\ \/ store' = [store EXCEPT ![cur] = mem.record] /\ Goto("files")
       \/ MayFail("create") /\ UNCHANGED store /\ Release
    /\ UNCHANGED <<now, dirs, topos, lab, mainloop, crashes>>

\* Disks, bootstrap files, topology, its copy among the artifacts.  An error
\* returns at once and leaves the record "provisioning", with the topology file
\* only if the copy is what failed.
WriteFiles ==
    /\ Holding("files")
    /\ \/ topos' = topos \union {cur} /\ Goto("deploy")
       \/ MayFail("files") /\ topos' \in {topos, topos \union {cur}} /\ Release
    /\ UNCHANGED <<now, dirs, store, lab, mainloop, crashes>>

(***************************************************************************)
(* Containerlab knows a lab by its name.  A command for the topology of i  *)
(* leaves i's containers in one of the states ls, and reconciles or        *)
(* destroys those of another session that has the same name.               *)
(***************************************************************************)
Namesakes(i) == {j \in Ids \ {i} : Recorded(i) /\ Recorded(j) /\ store[j].name = store[i].name}

Remains(l) == {"none", l} \union (IF l = "none" THEN {} ELSE {"partial"})

Containerlab(i, ls) ==
    /\ lab' \in [Ids -> LabStates]
    /\ lab'[i] \in ls
    /\ \A j \in Ids \ {i} : lab'[j] \in IF j \in Namesakes(i) THEN Remains(lab[j]) ELSE {lab[j]}

\* Backend.Validate and Backend.Deploy.  What a deploy leaves behind is the
\* runtime's choice; a failed one may have started any part of the lab.
Deploy ==
    /\ Holding("deploy")
    /\ \/ Containerlab(cur, {"isolated", "exposed"}) /\ UNCHANGED store /\ Goto("proof")
       \/ MayFail("validate") /\ SaveState("failed") /\ UNCHANGED lab /\ Release
       \/ MayFail("deploy") /\ SaveState("failed") /\ Goto("undo") /\ Containerlab(cur, LabStates)
    /\ UNCHANGED <<now, dirs, topos, mainloop, crashes>>

\* Mutant: the proof's result is logged, not acted on.
ProofIsolationIgnored ==
    /\ Holding("proof")
    /\ UNCHANGED store /\ Goto("running")
    /\ UNCHANGED <<now, dirs, topos, lab, mainloop, crashes>>

\* ProofIsolation reads the runtime; it can also fail by itself.
ProofIsolation ==
    /\ Holding("proof")
    /\ \/ lab[cur] = "isolated" /\ UNCHANGED store /\ Goto("running")
       \/ (lab[cur] # "isolated" \/ MayFail("proof")) /\ SaveState("failed") /\ Goto("undo")
    /\ UNCHANGED <<now, dirs, topos, lab, mainloop, crashes>>

CreateDone ==
    /\ Holding("running")
    /\ SaveState("running")
    /\ Release
    /\ UNCHANGED <<now, dirs, topos, lab, mainloop, crashes>>

(***************************************************************************)
(* Containerlab.Destroy: it needs the topology file; a failed one may have *)
(* removed some of the containers or all of them.                          *)
(***************************************************************************)
DestroyOK(i) == i \in topos /\ Containerlab(i, {"none"})

DestroyFails(i) ==
    /\ i \notin topos \/ MayFail("destroy")
    /\ Containerlab(i, Remains(lab[i]))

\* CreateSession tears a failed lab down and ignores the outcome.
CreateUndo ==
    /\ Holding("undo")
    /\ DestroyOK(cur) \/ DestroyFails(cur)
    /\ Release
    /\ UNCHANGED <<now, disk, mainloop, crashes>>

(***************************************************************************)
(* DestroySession and KeepSession                                          *)
(***************************************************************************)

\* preserve is the request's preserve_kept; a kept session is then left alone.
DestroySession(i, preserve) ==
    /\ Serving /\ MutexFree
    /\ Recorded(i)
    /\ ~(preserve /\ store[i].kept)
    /\ at' = "destroy" /\ who' = "destroy" /\ cur' = i /\ mem' = NoRecord /\ todo' = {}
    /\ UNCHANGED <<now, disk, lab, mainloop, crashes>>

KeepSession(i, ttl) ==
    /\ Serving /\ MutexFree
    /\ Recorded(i)
    /\ store' = [store EXCEPT ![i] = [@ EXCEPT !.kept = TRUE, !.expires = now + ttl]]
    /\ UNCHANGED <<now, dirs, topos, lab, mainloop, at, who, cur, mem, todo, crashes>>

(***************************************************************************)
(* Scavenge and CleanupUnkept: list under the mutex, then destroy and      *)
(* delete one record after another; an error skips the record.             *)
(***************************************************************************)

\* Where the main goroutine goes when the reaper it called returns.
LoopAfter ==
    CASE loop = "boot" -> "select"
      [] loop = "cleanup" -> "scavenge"
      [] OTHER -> "check"

LoopNext ==
    /\ loop' = LoopAfter
    /\ stamp' = IF loop = "cleanup" THEN now ELSE 0
    /\ UNCHANGED <<daemon, detached>>

Reap(name, chosen) ==
    /\ MutexFree
    /\ \/ /\ ~ListOK
          /\ LoopNext
          /\ UNCHANGED <<at, who, cur, mem, todo>>
       \/ /\ ListOK
          /\ at' = "pick" /\ who' = name /\ todo' = chosen /\ cur' = NoId /\ mem' = NoRecord
          /\ UNCHANGED mainloop
    /\ UNCHANGED <<now, disk, lab, crashes>>

\* Mutant: kept sessions are skipped as in CleanupUnkept.
ScavengeUnkept ==
    /\ loop \in {"boot", "scavenge"}
    /\ Reap("scavenge", {i \in dirs : LeaseOver(i, stamp) /\ ~store[i].kept})

Scavenge ==
    /\ loop \in {"boot", "scavenge"}
    /\ Reap("scavenge", {i \in dirs : LeaseOver(i, stamp)})

\* Mutant: owner cleanup forgets to look at Kept.
CleanupAll ==
    /\ loop = "cleanup"
    /\ Reap("cleanup", dirs)

CleanupUnkept ==
    /\ loop = "cleanup"
    /\ Reap("cleanup", {i \in dirs : Recorded(i) /\ ~store[i].kept})

ReapNext ==
    /\ Holding("pick")
    /\ \E i \in todo : cur' = i /\ todo' = todo \ {i}
    /\ at' = "destroy"
    /\ UNCHANGED <<now, disk, lab, mainloop, who, mem, crashes>>

ReapDone ==
    /\ Holding("pick") /\ todo = {}
    /\ Release /\ LoopNext
    /\ UNCHANGED <<now, disk, lab, crashes>>

\* A destroy request returns; a reaper goes on with its next record.
Finish == IF who = "destroy" THEN Release
          ELSE at' = "pick" /\ cur' = NoId /\ UNCHANGED <<who, mem, todo>>

BackendDestroyOK ==
    /\ Holding("destroy")
    /\ DestroyOK(cur) /\ Goto("delete")
    /\ UNCHANGED <<now, disk, mainloop, crashes>>

\* Mutant: the error of Backend.Destroy is dropped.
BackendDestroyIgnored ==
    /\ Holding("destroy")
    /\ DestroyFails(cur) /\ Goto("delete")
    /\ UNCHANGED <<now, disk, mainloop, crashes>>

BackendDestroyFails ==
    /\ Holding("destroy")
    /\ DestroyFails(cur) /\ Finish
    /\ UNCHANGED <<now, disk, mainloop, crashes>>

(***************************************************************************)
(* Store.Delete: os.RemoveAll unlinks the files in directory order, the    *)
(* directory last.                                                         *)
(***************************************************************************)
StoreUnlink ==
    /\ Holding("delete")
    /\ \/ Recorded(cur) /\ store' = [store EXCEPT ![cur] = NoRecord] /\ UNCHANGED topos
       \/ cur \in topos /\ topos' = topos \ {cur} /\ UNCHANGED store
    /\ UNCHANGED <<now, dirs, lab, mainloop, at, who, cur, mem, todo, crashes>>

StoreRmdir ==
    /\ Holding("delete")
    /\ ~Recorded(cur) /\ cur \notin topos
    /\ dirs' = dirs \ {cur}
    /\ Finish
    /\ UNCHANGED <<now, topos, store, lab, mainloop, crashes>>

StoreDeleteFails ==
    /\ Holding("delete") /\ MayFail("delete")
    /\ Finish
    /\ UNCHANGED <<now, disk, lab, mainloop, crashes>>

(***************************************************************************)
(* cmd/labd: run                                                           *)
(***************************************************************************)

\* Start (again) on the same state directory; the first thing is a Scavenge.
DaemonStart ==
    /\ daemon = "down"
    /\ daemon' = "up" /\ loop' = "boot" /\ detached' = FALSE /\ stamp' = now
    /\ UNCHANGED <<now, disk, lab, at, who, cur, mem, todo, crashes>>

InSelect == daemon = "up" /\ loop = "select"

\* A first signal, or the owner's death: detach and clean up after the owner.
Detach ==
    /\ InSelect /\ ~detached
    /\ detached' = TRUE /\ loop' = "cleanup"
    /\ UNCHANGED <<now, disk, lab, daemon, stamp, at, who, cur, mem, todo, crashes>>

SecondSignal ==
    /\ InSelect /\ detached
    /\ loop' = "stop"
    /\ UNCHANGED <<now, disk, lab, daemon, detached, stamp, at, who, cur, mem, todo, crashes>>

Ticker ==
    /\ InSelect
    /\ loop' = "scavenge" /\ stamp' = now
    /\ UNCHANGED <<now, disk, lab, daemon, detached, at, who, cur, mem, todo, crashes>>

\* Mutant: the exit test is inverted.
LoopCheckInverted ==
    /\ daemon = "up" /\ loop = "check"
    /\ loop' = IF detached /\ dirs # {} THEN "drain" ELSE "select"
    /\ UNCHANGED <<now, disk, lab, daemon, detached, stamp, at, who, cur, mem, todo, crashes>>

\* The exit test lists the store without holding Server.mu.
LoopCheck ==
    /\ daemon = "up" /\ loop = "check"
    /\ loop' = IF detached /\ dirs = {} THEN "drain" ELSE "select"
    /\ UNCHANGED <<now, disk, lab, daemon, detached, stamp, at, who, cur, mem, todo, crashes>>

\* GracefulStop waits for the requests in flight, then the process returns.
DaemonExit ==
    /\ loop \in {"drain", "stop"} /\ MutexFree
    /\ daemon' = "down" /\ loop' = "boot" /\ detached' = FALSE /\ stamp' = 0
    /\ UNCHANGED <<now, disk, lab, at, who, cur, mem, todo, crashes>>

\* SIGKILL, panic or host failure: memory is lost, the disk and the containers
\* stay.  A deploy or destroy cut short leaves what it had done so far.
DaemonCrash ==
    /\ daemon = "up" /\ crashes < MaxCrashes /\ at \in CrashPoints
    /\ crashes' = crashes + 1
    /\ IF at = "deploy" THEN Containerlab(cur, LabStates)
       ELSE IF at \in {"destroy", "undo"} THEN Containerlab(cur, Remains(lab[cur]))
       ELSE UNCHANGED lab
    /\ daemon' = "down" /\ loop' = "boot" /\ detached' = FALSE /\ stamp' = 0
    /\ Release
    /\ UNCHANGED <<now, disk>>

Tick ==
    /\ now < MaxTime
    /\ now' = now + 1
    /\ UNCHANGED <<disk, lab, mainloop, at, who, cur, mem, todo, crashes>>

-----------------------------------------------------------------------------
Requests ==
    \/ \E i \in Ids, n \in Names, ttl \in TTLs : CreateSession(i, n, ttl)
    \/ \E i \in Ids, preserve \in BOOLEAN : DestroySession(i, preserve)
    \/ \E i \in Ids, ttl \in TTLs : KeepSession(i, ttl)

\* The steps the daemon takes by itself once it runs.
Handlers ==
    \/ StoreMkdir \/ StoreWrite \/ WriteFiles \/ Deploy \/ ProofIsolation
    \/ CreateDone \/ CreateUndo \/ ReapNext \/ ReapDone
    \/ BackendDestroyOK \/ BackendDestroyFails
    \/ StoreUnlink \/ StoreRmdir \/ StoreDeleteFails

MainLoop == Scavenge \/ CleanupUnkept \/ Ticker \/ LoopCheck \/ DaemonExit

Environment == DaemonStart \/ Detach \/ SecondSignal \/ DaemonCrash \/ Tick

Next == Requests \/ Handlers \/ MainLoop \/ Environment

Spec == Init /\ [][Next]_vars

(***************************************************************************)
(* Fairness.  The daemon's goroutines keep running; sync.Mutex hands the   *)
(* lock to a waiter that has been passed over (starvation mode), so a step *)
(* that needs the mutex is strongly fair; the runtime does not fail every  *)
(* destroy of a session; a stopped daemon is started again.                *)
(***************************************************************************)
Fairness ==
    /\ WF_vars(DaemonStart) /\ WF_vars(Handlers)
    /\ SF_vars(Scavenge \/ CleanupUnkept \/ DaemonExit)
    /\ WF_vars(Ticker \/ LoopCheck)
    /\ \A i \in Ids : SF_vars(BackendDestroyOK /\ cur = i)

LiveSpec == Spec /\ Fairness

(***************************************************************************)
(* Properties                                                              *)
(***************************************************************************)

\* Whatever fails and wherever the daemon dies, a session that has containers
\* has its record and its topology file on disk, so that some later Destroy
\* can find and remove them: Store.Create precedes Deploy, and Store.Delete
\* follows a successful Backend.Destroy.
RuntimeReapable ==
    \A i \in Ids : lab[i] # "none" => i \in dirs /\ Recorded(i) /\ i \in topos

\* A session reported "running" is not one whose isolation the runtime does
\* not provide: CreateSession saves that state after ProofIsolation only.
RunningIsIsolated ==
    \A i \in Ids : Recorded(i) /\ store[i].state = "running" => lab[i] # "exposed"

\* A lab with containers that is not i's has the name of i.
NameTaken(i) ==
    \/ store[i].name \in ForeignLabs
    \/ \E j \in Namesakes(i) : lab[j] # "none"

\* CreateSession, "refusing to reconcile another lab", gets to Deploy under a
\* name that another lab with containers has only if sanitize has changed the
\* name it was asked for: the checks are on the name as requested.
DeploysOwnLab == at = "deploy" => ~NameTaken(cur) \/ mem.asked # store[cur].name

\* CheckLabNameAvailable "rejects existing runtime containers even when they
\* belong to another daemon's state directory": no lab shares its name.
UniqueLabNames == \A i \in Ids : lab[i] # "none" /\ Recorded(i) => ~NameTaken(i)

\* Automatic cleanup (Scavenge, CleanupUnkept) touches neither the containers
\* nor the files of a kept session whose lease still runs, unless another
\* session has got the name of its lab.
KeptSurvivesStep ==
    \A i \in Ids :
        (Recorded(i) /\ store[i].kept /\ now < store[i].expires /\ who # "destroy")
            => /\ lab'[i] = lab[i] \/ Namesakes(i) # {}
               /\ (i \in topos) => (i \in topos')
               /\ store'[i] # NoRecord
KeptSurvivesCleanup == [][KeptSurvivesStep]_vars

Overdue(i) == store[i] # NoRecord /\ store[i].expires <= now

\* A session whose lease is over is destroyed, or its lease is renewed: the
\* periodic Scavenge reaches every expired record.
LeaseEnforced == \A i \in Ids : Overdue(i) ~> ~Overdue(i)

\* A detached daemon with no session left does not stay around for ever.
DetachedExits == (detached /\ dirs = {}) ~> (~detached \/ dirs # {})

\* A daemon that leaves because no session is left leaves no session behind.
ExitLeavesNothing ==
    [][daemon = "up" /\ loop = "drain" /\ daemon' = "down" /\ crashes' = crashes => dirs = {}]_vars

=============================================================================
