# A TLA+ model of labcontainers

labcontainers runs network labs for tests: a daemon, `labd`, creates Containerlab
labs on behalf of clients, injects faults into them, and removes them when their
lease is over or their owner is gone. What has to be right is what happens when
something goes wrong in between: the daemon dies, a Containerlab command fails
half-way, two clients act on the same node. This directory models those parts,
checks them with TLC on small instances, and proves every invariant and action
property that a passing run checks with TLAPS, for instances of every size.

## The system

| Part | State it keeps | Operations | What is hard about it |
| --- | --- | --- | --- |
| session store (`internal/session`) | one directory per session: `session.json`, the topology file, disks | Create, Save, Get, List, Delete | none of them but Save is atomic; List fails as a whole |
| session handlers (`internal/server/server.go`) | the mutex `Server.mu`; the runtime's containers | CreateSession, KeepSession, DestroySession, Scavenge, CleanupUnkept | every call to Containerlab may fail with part of its work done |
| main loop (`cmd/labd`) | `detached`, the timer, the owner's PID | start-up scavenge, ticker, signals, exit | the exit test does not hold the mutex |
| faults and timelines (`internal/server/server.go`) | `Record.Faults`; link state and netem disciplines of the endpoints | ApplyFault, RevertFault, RunTimeline | ambiguous errors, crashes between record and effect, other clients between two actions of a timeline |
| node lifecycle, Plan/Apply (`internal/server`) | node states, the topology file | Lifecycle, Replace, PlanTopology, ApplyTopology | several files and the runtime change one after another |
| engine (`internal/engine`) | none but the attachment journal | Containerlab, docker and ip commands | commands killed half-way, endpoints lost with a container |
| guest agent (`pkg/guestagent`) | one serial connection, QGA's process records in the guest | Call, Execute, Upload | late replies, lost replies, reused process IDs |
| owning clients (`pkg/client`, `python`, `javascript`) | a child daemon, its state directory, a reference file | Launch, Close, Keep, DeployPersistent | the decision to remove the state directory races the daemon |
| topology preparation (`pkg/spec`) | none | PrepareWithOptions | the isolation policy |
| k0s site, wait (`pkg/kubernetes/k0s`, `pkg/wait`) | what is installed on the nodes | Site.Build, Until | reruns of an interrupted build |
| Cluster API, images, kubectl (`pkg/capi`, `pkg/containerd`, `pkg/kubernetes/kube`) | a manifest cache; images on the nodes; the API's objects | Install, CarryArchive, Server, Run, Apply | reruns; controllers that restart between a probe and the command it was for |
| Windows features (`pkg/windows`) | the features and the boot of a guest | EnsureFeatures | a guest that still answers when it is about to reboot |
| everything else | none | command and manifest construction, generated types | nothing a model checker reaches |

Clients call the daemon over gRPC, concurrently; each handler takes `Server.mu`
for its whole length, except RunTimeline, which takes it once per action, and the
main loop's exit test, which does not take it at all. The daemon calls Containerlab,
docker and ip as child processes under a context that may be cancelled. Nodes that
are virtual machines are reached through a helper process in the node's container,
which speaks to the QEMU guest agent over one serial line.

`PROJECT.json` lists the components with what is modelled of each, the hazards with
the properties that catch them, and for every definition the source lines it models.

## Modules

### Sessions: store, handlers, reaper, main loop

`dirs`, `topos` and `store` are the state directory: which session directories exist,
which of them hold a topology file, and each one's `session.json`. `lab` is what the
container runtime has of each session; "exposed" is a deployed lab in which a node that
must be isolated is not. `loop`, `detached` and `stamp` are the locals of the main
goroutine, `at`, `who`, `cur`, `mem` and `todo` those of the goroutine that holds
`Server.mu`; `mem` has the name that was requested and the record built from it. A
handler is a chain of actions, one for each point at which a crash would leave something
different behind: `CreateSession`, `StoreMkdir`, `StoreWrite`, `WriteFiles`, `Deploy`,
`ProofIsolation`, `CreateDone` or `CreateUndo`; `DestroySession` or `ReapNext`,
`BackendDestroyOK` or `BackendDestroyFails`, `StoreUnlink`, `StoreRmdir` or
`StoreDeleteFails`. A request that is refused, or that fails before it has changed
anything, is a stuttering step. The constant `Failures` says which calls of the
environment may fail, `CrashPoints` at which points the daemon may die.

Abstractions: an id stands for the 16 random bytes of randomID and is never drawn
twice while its directory exists; a name is an element of `Names`; the topology's
content, disks and bootstrap files are one file; time is a counter. `spec.sanitize` is
the constant function `Sanitize`, of which nothing is assumed: it may map several names
to one. CreateSession's two checks are on the name as requested, the record has the
sanitized one, and Containerlab knows a lab by the latter. So a deploy or a destroy also
reconciles or removes containers of any other session whose lab has the same name
(`Namesakes`, `Containerlab`).

### Faults and RollbackDuty: fault injection and timelines

`ledger` is `Record.Faults` as saved in `session.json`; `link` and `netem` are the
endpoints; `tl`, `created` and `steps` are the locals of RunTimeline. `at` and `job`
are the holder of `Server.mu` between the save of the rollback record, the backend
call and the second save. `base`, `applied` and `unreverted` are history: what an
endpoint would look like without any fault, what the timeline applied, and which of
its reverts failed. `RollbackDuty` says what all this is for, in two variables: an
endpoint deviates only while a rollback for it is on record. `Faults` implements it
under the mapping `duty <- Duty`, `deviated <- Deviated` (`ImplementsDuty`).

Abstractions: one session, one endpoint per node; the parameters of netem are left
out, since RevertFault removes the whole discipline; Exec, WaitExec and Lifecycle
actions of a timeline are steps that succeed or fail; a node may stop at any time
and comes back with its endpoint in any administrative state.

### GuestWire: one call to the guest agent

`gate` is the channel that admits one `Agent.Call` at a time, `conn` the connection
kept between calls, `out` and `in` what is under way on the serial line. A call that
finds no connection dials one and sends guest-sync-delimited with a fresh token
(`Dial`), skips what it reads until that token (`ReadSync`), sends its command
(`Send`) and reads one answer (`ReadReply`). `Fail` is every error path: the
connection is closed, the line keeps what is on it, and the next connection still
receives the late answers. The guest agent answers in order (`GuestAnswers`) and may
restart (`GuestRestarts`), losing what it had received; it is external, and modelled
from how `Call` uses it. Its specification is `WireSpec`: one module of proofs extends
both this module and GuestExec, so they share no names.

### GuestExec: commands in the guest and their cleanup

`Agent.Execute` starts a process, polls its status, and after a cancellation kills
and reaps it with a helper process. `live` and `records` are the guest: which process
has each process ID, and the agent's records, which a status call that sees an exit
consumes. `at`, `pid`, `helper` and `pending` are the locals of Execute and
cleanupExec. A call of GuestWire is one step here; `StartCut`, `PollCut` and
`CleanupCut` are calls cut short, whose request may be executed late or never (`late`);
`Cuts` says of which commands. The guest may give any process ID away that no process
has, at any time, though an Execute still polls it or is about to kill by it. The rest
is history: whose result was returned (`result`) and which process a helper signalled
(`victim`), which Executes met another process's record (`misled`), whether an ID that
was still polled was given away (`reused`), and for which commands that happened after
cleanupExec had seen the process running (`retaken`).

### Nodes: lifecycle, replacement, reconciliation

One session whose topology file (`topo`), record (`rec`, `faults`), containers (`box`,
`made`) and disks (`disk`) change one after another. `at` is where the holder of
`Server.mu` stands, `work`, `draft`, `before` and `approved` its locals. Lifecycle is
`Lifecycle`, `LifecycleDone`; REPLACE is `RemoveNode`, `SavePending`,
`ConfigureBootstrap`, `BootstrapWritten`, `ValidateUpdated`, `ResetDisks`,
`ReplaceDone`; ApplyTopology is `ApplyTopology`, `Refuse` or `Reconcile`, `Deploy`,
`ApplyDone`. `PlanTopology` leaves a plan with the client, which may use it any time
later. `Vanish` is a container that ends by itself, at any time.

Abstractions: a topology is its nodes and which of them have disks and bootstrap data
bound; a plan is what it creates, removes and recreates; `Torn` is the topology file
that os.WriteFile has truncated and not yet written; which nodes have a guest agent is
the constant `Qga`; faults are only the set of nodes that have one (see Faults); the
attachment journal has its own module.

### Attachments: the journal of bridge memberships

A node that goes down takes the cables of its links with it, and the bridges of its
Linux peers forget their ports. `state`, `id`, `cable`, `master` and `bridges` are the
runtime; `journal` is the file per node that saveAttachments writes and
restoreAttachments uses up; `op` is the holder of `Server.mu`; `wanted` and `waived`
are history: where callers put each port, and which ports they touched while an
operation was looking at them. An outage is `Lifecycle`, `Snapshot`, `WriteJournal`,
for a crash `ParkEndpoints` (the endpoint helper), `TakeDown`; a recovery is `Start` or
`Deploy`, then for each journal `ReadJournal`, `RestorePort` or `RestoreRefused` for
each entry, `RemoveJournal`. `Cut` is every error and the death of the daemon, with the
native command's effect or without it. Callers rewire bridges at any time (`Rewire`).

### Owner: the client that owns a daemon

Processes run one workflow each (`kind`): a test, which launches a daemon on a
temporary directory; a deployment, inspection or destruction of a persistent lab, which
meet in a reference file (`ref`); or a second client that dials. `at`, `hand`, `link`
and `mine` are a client's locals, `daemon` the daemon it launched, `store`, `lab` and
`creating` the sessions' records, containers and unfinished CreateSession handlers.
Close is `Close`, `CloseSession` per session it owns, `Look` (retainState), `Interrupt`,
`RemoveTemp`; the daemon answers with `CleanupUnkept`, `Expire` and `Exit`, also when it
sees its parent gone (`ParentGone`). Calls may fail, processes may die, daemons may be
stopped from outside. A handler of the daemon is one step: its insides are Sessions.

### Transfer: commands and uploads

A request crosses the daemon, the docker CLI, the helper in the node's container and
the helper server beside it, which alone talks to the guest. Each has its own deadline,
and one that gives up leaves those below it running (`Abandon`, `HelperExpires`).
`req` holds for each request where each of these processes stands; `file`, `mode` and
`dirty` are the path all uploads write; `socket`, `serving` the helper server, which
may die and be started again. The same module has the direct path of nodes without a
guest agent. Sizes are counted in write buffers, so the limits are small numbers whose
boundary cases all happen. Upload's calls are single steps here (see GuestWire), with
`OpenLost` and `CloseLost` for answers that do not arrive.

### Site, Features and Rollout: a cluster on the nodes

`Site` is k0s.Site.Build: carry the binary, verify versions, then install, start and
wait, member by member, with join tokens from the first controller. `Features` is
windows.EnsureFeatures on one guest. `Rollout` composes both with capi.Install and what
it calls: the manifest cache, CarryArchive, kubectl through Client.Server. The caller
makes one call at a time and may make each again after it failed; every command may
fail with part of its effect (`Leftover`, `BuildFails`, `InstallFails`, `EnsureFails`),
guests reboot and controllers restart at any time.

Abstractions: a file is missing, torn or whole; one image per component, one archive
reader per component, Deployments as one; the site's Windows worker is prepared before
the site is built, and its later reboots are among the reasons for a failing command.

Apart from Site, Features and Rollout the modules share no variables. Sessions, Faults,
Nodes and Attachments are four views of the handlers behind one mutex: Sessions has many
sessions and no nodes, the others one session each. What links them is stated where it
is used: Nodes takes from Sessions that a session starts with its record, topology and
containers in agreement (`Init`), and from Faults that a fault is on record from before
it is applied until it is reverted. GuestExec and Transfer take from GuestWire that a
call returns its own answer. Owner takes from Sessions that an unkept session ends with
its owner and a kept one with its lease.

## Runs

| Run | Question | Answer |
| --- | --- | --- |
| sessions_safety | Whatever fails and wherever the daemon dies: is a lab ever orphaned, reported running unproven, deployed into another lab, or cleaned up though kept? | no, but for labs whose names `spec.sanitize` has made one |
| sessions_leases | Does every expired lease end, and a detached daemon leave? | yes, if failures are recoverable and crashes leave the store consistent |
| sessions_crash_blocks_leases | The same with a crash inside Store.Create | violated: List fails for ever |
| faults | Are links restored, timelines rolled back and ended, and is every tampered endpoint on record? | yes |
| guest_wire | Can a call take the late answer to an earlier one for its own? | no |
| guest_exec | Are process records consumed, do results and signals go where they belong, does Execute return? | yes, until a command has reported that its call or its cleanup failed, or the guest has given a process ID away that was still in use by an Execute (each property says which of the two it needs) |
| guest_exec_lost | Does a command get its own result, without that condition? | violated: guest-exec executed, its answer lost, the process ID used again |
| nodes | Do containers, faults, disks, bootstrap data and drafts stay where the record says, and does a deployment keep to the approved plan? | yes |
| attachments | Do overlapping outages, errors and crashes lose a bridge membership, and does retrying bring it back? | nothing is lost; a retry recovers once nothing blocks it for good |
| owner | Does the state of a lab with containers survive Close, does a reference lead to its session, does an orphaned daemon end? | yes, but for sessions that other clients create while the owner closes |
| transfer | Is what reports success done whole, is the guest's file closed, does every request end? | yes, but for two uploads to one path at a time |
| rollout | Do the steps of a site keep their order over retries, does success mean done? | yes, with the exceptions that the properties name |

A mutant for every property of every passing run is listed in PROJECT.json: a
plausible bug in the code under which the run fails.

The type invariants are theorems. That of Rollout, which includes Site's and Features',
is part of its run too; the others are left out of the runs, which are for what could go
wrong in the code.

### Bounds

*Sessions.* Two sessions and four names: one that `sanitize` leaves alone and one that
it makes the same, the name of a foreign lab and one that it makes that name. This has
every pair of session and session, session and foreign lab, with and without a
collision. Two TTLs and one tick of the clock give leases that
are over and leases that are not; one crash can happen at every point, and after it
the daemon starts again and does everything once more. The liveness run has one
session, because TLC's check of strong fairness is what takes the time; that a
failing destroy does not keep the reaper from the next session is part of the steps
of the safety run only.

*Faults.* One endpoint and two faults give every overlap on one endpoint, where
faults interact; a timeline of three actions can apply, revert and fail. One crash.
The proofs cover any number of endpoints, faults, actions and crashes.

*GuestWire.* Four connections and four commands of two callers: an answer may be late
by several connections. *GuestExec.* Two commands and three process IDs: a command and
its helper hold two, and the other command may get an ID that was given back. In the run
the calls of one command may be cut short, all of them; `MCGuestExec_all_cuts.cfg` checks
the invariants with those of both (76,405 states with symmetry), which is too large an
instance for the liveness property. The proofs cover any number of commands.

*Nodes.* Two nodes, one with a disk and a guest agent, and four requests: create,
replace with bootstrap data, change the topology, and act once more. Requests that
only read are not counted. The same run without the bound on requests (13.4 million
states, too long for regular use) holds too, and the proofs have no bound. The run
leaves out failures of the two writes of the topology file and crashes between a write
and what completes it, for the sake of `DraftsWithdrawn`, which does not survive them
(see below); the proofs of all other properties include them.

*Attachments.* A switch with two ports and two machines, two troubles (an outage, a
reconciliation or a failing call each): both machines down at once, the switch down
beside a machine, a failure in the recovery of either. *Owner.* Three processes in the
mixes that meet (a test and two clients that dial; a deployment, an inspection and a
destruction; two deployments and a destruction), two sessions, one failure or death.
*Transfer.* An upload and a request of any kind beside it, contents that are empty, at
the limit of one buffer, and one buffer beyond it; the helper server may die once.
*Rollout.* Two controllers and a worker, so that a member joins after a joined
controller; two components; Build and Install are called twice each, EnsureFeatures
without bound, and every call may fail at every point.

Deadlock is not checked in the runs owner, transfer and rollout: processes and
calls are done at some point, and the model then stops.

### Fairness

`Sessions!Fairness`: the goroutines of the daemon run on (weak fairness of its
handlers, the ticker and the main loop); whoever waits for `Server.mu` gets it in the
end, since Go's mutex hands itself over to a waiter that has waited for a millisecond
(strong fairness of the steps that need it); the runtime does not refuse to destroy
a session for ever, and a stopped daemon is started again, which the documentation
makes the condition of lease enforcement. Requests, signals, crashes and ticks are
not fair. `Faults!Fairness` is of the same kind; Exec and WaitExec have deadlines,
so an action of a timeline ends. `GuestExec!Fairness`: a context ends; the cleanup's
calls get the gate, a channel whose waiters are served in order; the guest runs the
helper, and a process that was signalled ends. No fairness for commands that end by
themselves, nor for calls that are cut short. `Attachments!Fairness`: the daemon
finishes what it has begun, and the caller retries the start of a node whose journal is
pending, which the comments of the journal ask for. `Owner!Fairness`: processes that run
go on, leases end, and the owner closes its client. `Transfer!Fairness`: deadlines only;
a guest that hangs answers nothing. Rollout has no fairness, and nothing is claimed of its
calls returning: wait.Until ends at the deadline it is given, but the download of a
manifest has none but the caller's context (install.go:85-97).

## Proofs

For every value of the constants, that is any number of sessions, names, endpoints,
faults, callers, nodes, crashes and failures:

* *SessionsProofs*: `Reapable`, `Isolated`, `KeptSurvives` and `TypeCorrect`. The
  inductive invariant `IInv` adds to the two safety invariants what the code relies
  on silently: which locals are set at which point (`HolderInv`); that from
  `StoreWrite` on the session in hand has a directory, a record and, from `Deploy`
  on, a topology file (`CreateInv`); that a session being deleted has no containers
  left (`DeleteInv`); that a record lives in a directory (`DirInv`); and that a reaper
  visits only sessions it was right to choose, though its time is stale (`ReapInv`).
  `OwnLab`, for every function `Sanitize`: a session that gets to Deploy under the name of
  another lab with containers, its own daemon's or a foreign one, was requested under a
  different name. Its invariant (`NamesInv`) carries what the two checks found to Deploy.
* *FaultsProofs*: `Restored`, `RolledBack`, `Implements` and `TypeCorrect`. The
  inductive invariant says in addition that at most one link-state fault is active on
  an endpoint, that its RestoreUp is what the endpoint would have without it, that the
  fault in hand is active while it is applied or reverted, and that a fault the
  timeline has applied and not tried to revert is still in `created`.
* *GuestProofs*, on the wire: `OwnReplies`, `Quiet` and `WireTypeCorrect`. `WireInv` says
  where the token of a connection can be: nowhere ahead of its turn (`KnownTokens`), last
  on the line while the call looks for it (`SyncInv`); after it, the call's own command or
  answer is all there is (`AwaitInv`).
* *GuestProofs*, on Execute: `Reaped`, `Stale`, `Signals` and `ExecTypeCorrect`. `ExecInv`
  says which process IDs an Execute knows at each point (`KnownInv`), and that a helper is
  only there since a cleanup (`HelperInv`). For the signals: a record says that its process
  runs only while it does (`RunningInv`), so that a check which met the right record and saw
  it running leaves an ID that is the command's, or nobody's, until it is given away
  (`AimInv`). For the records: a process has one record and none before it starts
  (`BornInv`), and every record is still awaited, or its command has failed or somebody was
  misled (`LeftInv`). Only the results need more, and only while no ID was given away that
  an Execute polled: no ID is held twice (`DistinctInv`) and, before the first failure,
  every record is awaited by the one Execute that has its ID (`Tidy`).
* *NodesProofs*: `ContainersKnown`, `FaultsRevertible`, `AttachmentsKept`, `DisksSafe`,
  `Approval` and `TypeCorrect`. `IInv` gives each point of the mutex holder its
  meaning: the node in hand has no container while it is replaced (`WorkInv`), no
  fault is active and the draft is the topology while it is applied (`DraftInv`), the
  record has the nodes of both topologies while Containerlab is at work
  (`ReconcileInv`), what a handler may yet write back has the recorded attachments
  (`CarryInv`), and what is left of the plan is approved (`PlanInv`). `Withdrawn` has
  an invariant of its own (`WithdrawInv`) and two assumptions: no crash at "draft" or
  "truncated", no failing write of the topology file.
* *RolloutProofs*: `InOrder`, `Configured`, `ImagesFirst`, `InTurn`, `Whole`, `Settled`
  and `TypeCorrect`. Each call writes only its own variables, so a step of one leaves
  the invariant of another alone (`FeaturesSees`, `SiteSees`, `RolloutSees`), and each has
  an invariant of its own. Features: `CallInv` says what the call in hand knows at each
  point. Site: the members before the one in hand have the version (`VersionInv`), those
  before it in the second loop are started and its controllers have served
  (`StartedInv`), and what is written before a service is installed is whole
  (`FilesInv`). Install: the members an archive has reached have its image
  (`CarryInv`), what is applied is what the cache has (`ManifestInv`), and the
  components before the one in hand have rolled out (`OrderInv`).
* *AttachmentsProofs*: `Recoverable`, `Wanted` and `TypeCorrect`. `MembershipRecoverable`
  says that some journal has a lost membership; the invariant says which: that of the node
  at the far end of the port's cable, and if that node has no journal the port is attached
  (`CoverInv`). With it go: a port that is attached is attached where its caller wants it
  (`AttachedInv`); an entry is about a container of the past, or about the present one and
  then true (`EntryInv`); the journal of a node covers its far ports before the node is
  taken down, and what a recovery has not restored yet is still in its hands before the
  journal is removed (`HandInv`).
* *OwnerProofs*: `Retained`, `Reference`, `OnPurpose` and `TypeCorrect`. A session that is
  being created has no record, and no deployment's directory is private (`RecordInv`); what
  is in a private directory after Close has looked was created late (`LookedInv`); a
  deployment between Keep and the reference, and afterwards the reference, has a session
  that was ended on purpose or is kept in the common directory by a daemon that serves or
  was stopped from outside (`DeployInv`, `RefInv`).
* *TransferProofs*: `SuccessIsTrue`, `Released` and `TypeCorrect`. `SoundInv` is about a
  request alone: where it may have a handle open, how much it may have written, what it
  needs for success. `LeavesInv` relates it to the path: an upload that somebody waits for
  and that no other has touched has left exactly its first buffers there, all of them once
  it is closed, and its mode at the end. A step of one request leaves the others'
  `Leaves` alone, or marks them as clashing.

Assumptions are the ASSUMEs of the modules: the types of the constants, that values
which stand for nothing are no others, and in Nodes that a session is created with
attachments only for its own nodes with a guest agent. TLC finds the inductive
invariants of GuestExec, Attachments, Owner and Transfer to hold on the instances of
their runs as well.

Every invariant and every action property of a passing run is a theorem. Only
model-checked, because they are out of the prover's reach, are the liveness properties
(LeaseEnforced, DetachedExits, TimelineEnds, ExecuteEnds, RetryRecovers, OwnedDaemonEnds,
RequestsEnd), which rest on fairness and ENABLED. No property here is about
what a recursive definition computes. The violations are counterexamples of TLC.

## Limits of the code that the models show

Beside the findings in PROJECT.json. The first four have a configuration with which TLC
prints a counterexample:

* `MCSessions_unwritten_files` (LeaseEnforced): CreateSession returns from a failed
  createDisks, writeBootstraps, MkdirAll or WriteFile with the record on disk and no
  topology file (server.go:160). `containerlab destroy` of the missing file fails on
  every Scavenge, so the record is never deleted, though README.md:517-519 has the
  daemon "periodically reaps expired leases".
* `MCSessions_sanitized_names` (UniqueLabNames): CreateSession checks the requested name
  (server.go:89, 132) and uses the one `spec.sanitize` made of it (server.go:141). A name
  that ends in "-", or two that share their first 48 characters, lead to a lab name that is
  taken: the deploy reconciles the other lab, and the destroy of either removes the
  containers of both, a kept session's included. identity.go:9-10 promises to reject
  "existing runtime containers even when they belong to another daemon's state directory".
* `MCSessions_exit_race` (ExitLeavesNothing): the exit test of the main loop (main.go:129)
  lists the store without the mutex; a CreateSession accepted before GracefulStop leaves
  a session without a daemon.
* `MCNodes_pending` (PendingIsFresh): Lifecycle saves replacement-pending before it resets
  the disks (server.go:346) and returns from errors in between without another save;
  README.md:240-243 describes the state as coming after the reset.

Read off the actions while modelling:

* A session another client creates on an owner's daemon after Close has looked for
  records loses its state directory (client.go:184, "Never delete uncertain runtime
  state"): `late` in Owner.
* An upload that was given up goes on in the helper server; a retry of it may interleave
  with it, and report success with a mixture of both in the file (`clash` in Transfer).
* cleanupExec asks whether the process still runs (guestagent.go:292) and kills by the bare
  process ID (guestagent.go:307). If the process ends in between and the guest gives its ID
  away, the helper kills whatever has it by then (`retaken` in GuestExec). The same happens
  after a status call that met another process's record under the ID (`misled`).
* A cancelled exec leaves its helper running with its input at end of file: the command
  may still run, on part of its input. The caller is told of an error.
* The exit code 125 of a guest command cannot be told from the helper's own errors.
* `installed` (site.go:180) takes a probe that failed for a missing unit: the member is
  installed again over a running configuration (`misprobed` in Site).
* Carrying the k0s binary to a member on which it runs fails, since Linux refuses to
  open a running executable for writing: a Build that is run again after the first
  service was started may never get past CarryBinary.
* The manifest cache is written in place (install.go:104), and fetch uses whatever is not
  empty: half a manifest that a dying caller left is applied (`torn` in Rollout).
* The download of a manifest (install.go:85-97) goes through http.DefaultClient, which has
  no timeout: with a context that has no deadline a stalled download keeps Install for ever.
* EnsureFeatures called again after a failed call may find the features installed and
  report success with the restart still pending or scheduled (`disturbed` in Features).
* KeepSession sets the lease to the new TTL; a shorter one shortens it.
* A crash between the write of a draft and its withdrawal leaves the session with a
  topology nobody approved (`WriteDraft`, `DaemonCrash` at "draft"). The next Plan
  shows its impact; nothing is deployed without one.
* configureBootstrap writes the topology file in place. After a crash there the file
  is torn, and stop, start, restart, REPLACE and a Plan of the current topology fail on it.
* When Validate fails after configureBootstrap, the topology has a bind that the record
  does not have; a proposal drops it, and a second replacement adds it again.

## What is not modelled

Command lines, parsing, formats and generated types (more than 4,500 lines of protocol
buffers and cloud-init types); the Python and JavaScript clients, which follow the protocol
of the Go client; labctl, which is a command line over it; the isolation policy of
`pkg/spec`, a stateless list of checks for which any reference definition would be the
list again; the helpers that build one command or one manifest. PROJECT.json names every
component with its reason. Known simplifications that a property could one day depend on:
a Containerlab process that outlives its cancelled handler may work on beside the next
request; the TTL's multiplication can overflow; a node's control may be changed by
ApplyTopology; the labs of two daemons on one state directory.

## Plan

In order of what they would tell:

1. An abstract specification of the daemon as its owner sees it, which Sessions implements
   and Owner uses; the refinement proved along SessionsProofs.
2. Abstract specifications for GuestExec (a process table with owners, which a command that
   has failed leaves) and Attachments (a membership that is in place, promised or given up).
3. Orphaned commands: an actor for the Containerlab process that outlives its
   cancelled handler, as an extension of Sessions.

To keep the whole set quick to rerun the number of runs is held to a dozen and the
properties to one that matters per question.
