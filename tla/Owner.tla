------------------------------- MODULE Owner -------------------------------
(***************************************************************************)
(* The Go client as owner of a lab daemon: Launch, Start, Resume, Keep,    *)
(* Destroy and Close of pkg/client, and the persistent deployments built   *)
(* from them, whose creator and destroyer are different processes that     *)
(* meet in a reference file.                                               *)
(*                                                                         *)
(* A process runs one workflow, kind[c].  The daemon it launches carries   *)
(* its name.  A handler of the daemon is one step here; module Sessions    *)
(* has the steps inside.                                                   *)
(***************************************************************************)
EXTENDS Naturals, FiniteSets

CONSTANTS
    Proc,         \* client processes
    Workflows,    \* the mixes of workflows to look at: functions from Proc to Kinds
    Id,           \* session ids
    StateDir,     \* the state directory of persistent deployments
    NoSession, NoRef, NoId, NoProc,
    MaxTrouble    \* bound on failing calls and dying processes together

Kinds == {"test", "deploy", "inspect", "destroy", "dial"}

ASSUME KindAssumption == Workflows \subseteq [Proc -> Kinds] /\ StateDir \notin Proc
ASSUME NoneAssumption == NoId \notin Id /\ NoProc \notin Proc /\ MaxTrouble \in Nat

Session == [dir : Proc \union {StateDir}, kept : BOOLEAN]
Ref == [id : Id, socket : Proc]

ASSUME NoSessionAssumption == NoSession \notin Session
ASSUME NoRefAssumption == NoRef \notin Ref

VARIABLES
    kind,      \* the workflow of each process
    at,        \* where each process stands
    hand,      \* the session a process works with
    link,      \* the daemon it is connected to
    mine,      \* Client.sessions
    daemon,    \* state of the daemon each process has launched
    store,     \* session record on disk
    lab,       \* sessions that have containers
    creating,  \* requests a daemon still works on though their caller has left
    ref,       \* the persistent reference file
    ended,     \* history: sessions destroyed by request or by their lease
    late,      \* history: sessions created after Close looked at the directory
    broken,    \* history: daemons that were stopped or killed from outside
    trouble

client == <<at, hand, link, mine>>
history == <<ended, late, broken>>
vars == <<kind, client, daemon, store, lab, creating, ref, history, trouble>>

Points == {"begin", "absent", "found", "open", "session", "kept", "unref", "undo",
           "close", "retain", "looked", "waiting", "done", "dead"}

TypeOK ==
    /\ kind \in [Proc -> Kinds]
    /\ at \in [Proc -> Points]
    /\ hand \in [Proc -> Id \union {NoId}]
    /\ link \in [Proc -> Proc \union {NoProc}]
    /\ mine \in [Proc -> SUBSET Id]
    /\ daemon \in [Proc -> {"none", "up", "cleanup", "detached", "gone"}]
    /\ store \in [Id -> Session \union {NoSession}]
    /\ lab \subseteq Id
    /\ creating \in [Id -> Proc \union {NoProc}]
    /\ ref \in Ref \union {NoRef}
    /\ ended \subseteq Id /\ late \subseteq Id /\ broken \subseteq Proc
    /\ trouble \in Nat

Init ==
    /\ kind \in Workflows
    /\ at = [c \in Proc |-> "begin"]
    /\ hand = [c \in Proc |-> NoId]
    /\ link = [c \in Proc |-> NoProc]
    /\ mine = [c \in Proc |-> {}]
    /\ daemon = [c \in Proc |-> "none"]
    /\ store = [i \in Id |-> NoSession]
    /\ lab = {}
    /\ creating = [i \in Id |-> NoProc]
    /\ ref = NoRef
    /\ ended = {} /\ late = {} /\ broken = {}
    /\ trouble = 0

Recorded(i) == store[i] # NoSession
Kept(i) == Recorded(i) /\ store[i].kept
Serving(d) == d \in Proc /\ daemon[d] \in {"up", "cleanup", "detached"}

\* launchStateDir: next to the socket unless one is configured.
launchStateDir(c) == IF kind[c] = "deploy" THEN StateDir ELSE c

Records(d) == {i \in Id : Recorded(i) /\ store[i].dir = launchStateDir(d)}

Goto(c, p) == at' = [at EXCEPT ![c] = p]
Trouble == trouble < MaxTrouble /\ trouble' = trouble + 1

-----------------------------------------------------------------------------
(***************************************************************************)
(* Sessions of a daemon, seen from outside                                 *)
(***************************************************************************)

Gone(S) ==
    /\ store' = [i \in Id |-> IF i \in S THEN NoSession ELSE store[i]]
    /\ lab' = lab \ S

\* The owner of daemon d has looked, and has seen no record.
Looked(d) == at[d] \in {"looked", "waiting"}

Created(d, i) ==
    /\ store' = [store EXCEPT ![i] = [dir |-> launchStateDir(d), kept |-> FALSE]]
    /\ late' = IF Looked(d) THEN late \union {i} ELSE late

Fresh(i) == ~Recorded(i) /\ i \notin lab \union ended \union late /\ creating[i] = NoProc

-----------------------------------------------------------------------------
(***************************************************************************)
(* Launch, Dial, OpenPersistent                                            *)
(***************************************************************************)

\* DeployPersistent refuses when the reference exists.
CheckAbsent(c) ==
    /\ at[c] = "begin" /\ kind[c] = "deploy"
    /\ Goto(c, IF ref = NoRef THEN "absent" ELSE "done")
    /\ UNCHANGED <<hand, link, mine, daemon, store, lab, creating, ref, history, trouble>>

\* Launch and dialWhenReady; a daemon that does not answer in time is killed.
Launch(c) ==
    /\ (at[c] = "begin" /\ kind[c] = "test") \/ at[c] = "absent"
    /\ \/ /\ daemon' = [daemon EXCEPT ![c] = "up"] /\ link' = [link EXCEPT ![c] = c]
          /\ Goto(c, "open") /\ UNCHANGED trouble
       \/ /\ Trouble /\ daemon' = [daemon EXCEPT ![c] = "gone"]
          /\ Goto(c, "done") /\ UNCHANGED link
    /\ UNCHANGED <<hand, mine, store, lab, creating, ref, history>>

\* Dial of a socket that somebody has saved.
Dial(c, d) ==
    /\ at[c] = "begin" /\ kind[c] = "dial" /\ Serving(d)
    /\ link' = [link EXCEPT ![c] = d]
    /\ Goto(c, "open")
    /\ UNCHANGED <<hand, mine, daemon, store, lab, creating, ref, history, trouble>>

\* OpenPersistent: read the reference, dial its socket.
OpenPersistent(c) ==
    /\ at[c] = "begin" /\ kind[c] \in {"inspect", "destroy"}
    /\ IF ref # NoRef /\ Serving(ref.socket)
       THEN /\ hand' = [hand EXCEPT ![c] = ref.id] /\ link' = [link EXCEPT ![c] = ref.socket]
            /\ Goto(c, "found")
       ELSE Goto(c, "done") /\ UNCHANGED <<hand, link>>
    /\ UNCHANGED <<mine, daemon, store, lab, creating, ref, history, trouble>>

\* Resume of the session in hand, or of any session of the daemon.
Resume(c, i) ==
    /\ (at[c] = "found" /\ i = hand[c]) \/ (at[c] = "open" /\ kind[c] = "dial")
    /\ IF Serving(link[c]) /\ i \in Records(link[c])
       THEN /\ mine' = [mine EXCEPT ![c] = @ \union {i}] /\ hand' = [hand EXCEPT ![c] = i]
            /\ Goto(c, "session")
       ELSE Goto(c, "close") /\ UNCHANGED <<mine, hand>>
    /\ UNCHANGED <<link, daemon, store, lab, creating, ref, history, trouble>>

(***************************************************************************)
(* Start                                                                   *)
(***************************************************************************)
Start(c, i) ==
    /\ at[c] = "open" /\ Serving(link[c]) /\ Fresh(i)
    /\ Created(link[c], i)
    /\ lab' = lab \union {i}
    /\ mine' = [mine EXCEPT ![c] = @ \union {i}] /\ hand' = [hand EXCEPT ![c] = i]
    /\ Goto(c, "session")
    /\ UNCHANGED <<link, daemon, creating, ref, ended, broken, trouble>>

\* CreateSession fails, or its caller gives up: no session is added to the
\* client, though a record may exist, with containers or without, or the daemon
\* may still be about to make one.
StartFails(c, i) ==
    /\ at[c] = "open" /\ Fresh(i) /\ Trouble
    /\ \/ UNCHANGED <<store, lab, late, creating>>
       \/ /\ Serving(link[c]) /\ Created(link[c], i)
          /\ lab' \in {lab, lab \union {i}} /\ UNCHANGED creating
       \/ /\ Serving(link[c]) /\ creating' = [creating EXCEPT ![i] = link[c]]
          /\ UNCHANGED <<store, lab, late>>
    /\ Goto(c, "close")
    /\ UNCHANGED <<hand, link, mine, daemon, ref, ended, broken>>

\* The abandoned handler gets the mutex: it writes the record, and its first
\* command fails on the cancelled context.
HandlerGoesOn(i) ==
    /\ Serving(creating[i])
    /\ Created(creating[i], i)
    /\ creating' = [creating EXCEPT ![i] = NoProc]
    /\ UNCHANGED <<client, daemon, lab, ref, ended, broken, trouble>>

(***************************************************************************)
(* Keep, Destroy and the reference file                                    *)
(***************************************************************************)

\* A deployment keeps its session; other callers may.  A keep that fails makes
\* the deployment destroy the session.
Keep(c) ==
    /\ at[c] = "session" /\ kind[c] # "destroy"
    /\ IF Serving(link[c]) /\ hand[c] \in Records(link[c])
       THEN /\ store' = [store EXCEPT ![hand[c]] = [@ EXCEPT !.kept = TRUE]]
            /\ mine' = [mine EXCEPT ![c] = @ \ {hand[c]}]
            /\ Goto(c, "kept")
       ELSE Goto(c, IF kind[c] = "deploy" THEN "undo" ELSE "close") /\ UNCHANGED <<store, mine>>
    /\ UNCHANGED <<hand, link, daemon, lab, creating, ref, history, trouble>>

KeepFails(c) ==
    /\ at[c] = "session" /\ kind[c] = "deploy" /\ Trouble
    /\ Goto(c, "undo")
    /\ UNCHANGED <<hand, link, mine, daemon, store, lab, creating, ref, history>>

\* Mutant: the reference is published as soon as the session exists.
WriteRefEarly(c) ==
    /\ at[c] \in {"session", "kept"} /\ kind[c] = "deploy"
    /\ ref' = [id |-> hand[c], socket |-> c] /\ Goto(c, "close") /\ UNCHANGED trouble
    /\ UNCHANGED <<hand, link, mine, daemon, store, lab, creating, history>>

\* writePersistentRef: temporary file and rename.
WriteRef(c) ==
    /\ at[c] = "kept" /\ kind[c] = "deploy"
    /\ \/ ref' = [id |-> hand[c], socket |-> c] /\ Goto(c, "close") /\ UNCHANGED trouble
       \/ Trouble /\ Goto(c, "undo") /\ UNCHANGED ref
    /\ UNCHANGED <<hand, link, mine, daemon, store, lab, creating, history>>

\* Session.Destroy, asked for or to undo a deployment.  It overrides a keep.
Destroy(c) ==
    /\ at[c] = "undo" \/ (at[c] \in {"session", "kept"} /\ kind[c] # "deploy")
    /\ LET i == hand[c]
       IN IF Serving(link[c]) /\ i \in Records(link[c])
          THEN /\ Gone({i}) /\ ended' = ended \union {i}
               /\ mine' = [mine EXCEPT ![c] = @ \ {i}]
               /\ Goto(c, IF kind[c] = "destroy" THEN "unref" ELSE "close")
          ELSE Goto(c, "close") /\ UNCHANGED <<store, lab, ended, mine>>
    /\ UNCHANGED <<hand, link, daemon, creating, ref, late, broken, trouble>>

DestroyFails(c) ==
    /\ at[c] = "undo" \/ (at[c] \in {"session", "kept"} /\ kind[c] # "deploy")
    /\ Trouble
    /\ Goto(c, "close")
    /\ UNCHANGED <<hand, link, mine, daemon, store, lab, creating, ref, history>>

RemoveRef(c) ==
    /\ at[c] = "unref"
    /\ ref' = NoRef /\ Goto(c, "close")
    /\ UNCHANGED <<hand, link, mine, daemon, store, lab, creating, history, trouble>>

(***************************************************************************)
(* Close                                                                   *)
(***************************************************************************)
Close(c) ==
    /\ at[c] \in {"open", "session", "kept"} /\ kind[c] \in {"test", "inspect", "dial"}
    /\ Goto(c, "close")
    /\ UNCHANGED <<hand, link, mine, daemon, store, lab, creating, ref, history, trouble>>

\* Mutant: the request does not ask to preserve kept sessions.
CloseSessionKeptToo(c, i) ==
    /\ at[c] = "close" /\ i \in mine[c]
    /\ mine' = [mine EXCEPT ![c] = @ \ {i}]
    /\ IF Serving(link[c]) /\ i \in Records(link[c]) THEN Gone({i}) ELSE UNCHANGED <<store, lab>>
    /\ UNCHANGED trouble
    /\ UNCHANGED <<at, hand, link, daemon, creating, ref, history>>

\* DestroySession with preserve_kept for every session of the client; an error
\* is reported and leaves the session.
CloseSession(c, i) ==
    /\ at[c] = "close" /\ i \in mine[c]
    /\ mine' = [mine EXCEPT ![c] = @ \ {i}]
    /\ \/ /\ IF Serving(link[c]) /\ i \in Records(link[c]) /\ ~Kept(i)
             THEN Gone({i}) ELSE UNCHANGED <<store, lab>>
          /\ UNCHANGED trouble
       \/ Trouble /\ UNCHANGED <<store, lab>>
    /\ UNCHANGED <<at, hand, link, daemon, creating, ref, history>>

\* Mutant: only sessions the client has created count as surviving.
retainStateOfClient(c) == Records(c) \intersect {hand[c]} # {}

\* retainState: any entry below sessions/.
retainState(c) == Records(c) # {}

\* The connection is closed; a client that launched no daemon is done.
Look(c) ==
    /\ at[c] = "close" /\ mine[c] = {}
    /\ Goto(c, IF link[c] # c THEN "done" ELSE IF retainState(c) THEN "retain" ELSE "looked")
    /\ UNCHANGED <<hand, link, mine, daemon, store, lab, creating, ref, history, trouble>>

\* Mutant: Close returns before it has signalled the daemon.
NoInterrupt(c) ==
    /\ at[c] \in {"retain", "looked"}
    /\ Goto(c, IF at[c] = "retain" THEN "done" ELSE "waiting")
    /\ UNCHANGED <<hand, link, mine, daemon, store, lab, creating, ref, history, trouble>>

\* Interrupt; with records left Close returns at once.
Interrupt(c) ==
    /\ at[c] \in {"retain", "looked"}
    /\ daemon' = IF daemon[c] = "up" THEN [daemon EXCEPT ![c] = "cleanup"] ELSE daemon
    /\ Goto(c, IF at[c] = "retain" THEN "done" ELSE "waiting")
    /\ UNCHANGED <<hand, link, mine, store, lab, creating, ref, history, trouble>>

\* The daemon has ended, or is killed after ten seconds; the temporary directory
\* goes, and a private state directory with it.
RemoveTemp(c) ==
    /\ at[c] = "waiting"
    /\ daemon' = [daemon EXCEPT ![c] = "gone"]
    /\ store' = [i \in Id |-> IF Recorded(i) /\ store[i].dir = c THEN NoSession ELSE store[i]]
    /\ Goto(c, "done")
    /\ UNCHANGED <<hand, link, mine, lab, creating, ref, history, trouble>>

-----------------------------------------------------------------------------
(***************************************************************************)
(* The daemon's main loop, and what happens to processes                   *)
(***************************************************************************)

\* watchParent: the owner's process is gone.
ParentGone(d) ==
    /\ daemon[d] = "up" /\ at[d] = "dead"
    /\ daemon' = [daemon EXCEPT ![d] = "cleanup"]
    /\ UNCHANGED <<client, store, lab, creating, ref, history, trouble>>

\* CleanupUnkept; a session whose removal fails stays.
CleanupUnkept(d) ==
    /\ daemon[d] = "cleanup"
    /\ \E Failed \in SUBSET Records(d) :
        /\ IF Failed = {} THEN UNCHANGED trouble ELSE Trouble
        /\ Gone({i \in Records(d) \ Failed : ~Kept(i)})
    /\ daemon' = [daemon EXCEPT ![d] = "detached"]
    /\ UNCHANGED <<client, creating, ref, history>>

\* Scavenge: the lease of a session is over.
Expire(d, i) ==
    /\ Serving(d) /\ i \in Records(d)
    /\ Gone({i}) /\ ended' = ended \union {i}
    /\ UNCHANGED <<client, daemon, creating, ref, late, broken, trouble>>

Exit(d) ==
    /\ daemon[d] = "detached" /\ Records(d) = {}
    /\ daemon' = [daemon EXCEPT ![d] = "gone"]
    /\ UNCHANGED <<client, store, lab, creating, ref, history, trouble>>

\* A crash, a second signal, a reboot: records and containers stay.
DaemonStops(d) ==
    /\ Serving(d) /\ Trouble
    /\ daemon' = [daemon EXCEPT ![d] = "gone"]
    /\ broken' = broken \union {d}
    /\ UNCHANGED <<client, store, lab, creating, ref, ended, late>>

ProcessDies(c) ==
    /\ at[c] \notin {"begin", "done", "dead"} /\ Trouble
    /\ Goto(c, "dead")
    /\ UNCHANGED <<hand, link, mine, daemon, store, lab, creating, ref, history>>

-----------------------------------------------------------------------------
\* What a client does once it has been told to: everything but the choice to
\* keep, destroy or close a session.
ClientStep(c) ==
    \/ CheckAbsent(c) \/ (at[c] = "absent" /\ Launch(c))
    \/ (at[c] = "found" /\ \E i \in Id : Resume(c, i))
    \/ WriteRef(c) \/ RemoveRef(c)
    \/ \E i \in Id : CloseSession(c, i)
    \/ Look(c) \/ Interrupt(c) \/ RemoveTemp(c)

DaemonStep(d) == ParentGone(d) \/ CleanupUnkept(d) \/ Exit(d)

Next ==
    /\ UNCHANGED kind
    /\ \/ \E c \in Proc :
          \/ ClientStep(c) \/ DaemonStep(c) \/ Launch(c) \/ OpenPersistent(c)
          \/ \E d \in Proc : Dial(c, d)
          \/ \E i \in Id : Resume(c, i) \/ Start(c, i) \/ StartFails(c, i) \/ Expire(c, i)
          \/ Keep(c) \/ KeepFails(c) \/ Destroy(c) \/ DestroyFails(c) \/ Close(c)
          \/ DaemonStops(c) \/ ProcessDies(c)
       \/ \E i \in Id : HandlerGoesOn(i)

Spec == Init /\ [][Next]_vars

\* Processes that run go on; leases end; the test ends by closing its client.
Fairness ==
    /\ WF_vars(UNCHANGED kind /\ \E c \in Proc : ClientStep(c))
    /\ WF_vars(UNCHANGED kind /\ \E c \in Proc : DaemonStep(c))
    /\ WF_vars(UNCHANGED kind /\ \E c \in Proc : Close(c))
    /\ WF_vars(UNCHANGED kind /\ \E c \in Proc, i \in Id : Expire(c, i))

LiveSpec == Spec /\ Fairness

(***************************************************************************)
(* Properties                                                              *)
(***************************************************************************)

\* Close removes a private state directory only when no containers depend on it:
\* failed starts, failed cleanups and kept sessions leave a record, and Close
\* looks for records, not at what it remembers.  The exception is a session
\* another client creates after that look.
StateRetained == \A i \in lab \ late : Recorded(i)

\* A kept session ends by an explicit destroy or with its lease; closing clients,
\* the one that created it and later ones, and owner cleanup leave it alone.
KeptEndsOnPurpose ==
    [][\A i \in Id \ late : Kept(i) /\ store'[i] = NoSession => i \in ended']_vars

\* A reference leads somewhere: to a kept session with a daemon that still serves
\* it, unless the session was destroyed, its lease has ended, or the daemon was
\* stopped from outside.
RefLeads ==
    ref # NoRef => \/ ref.id \in ended
                   \/ Kept(ref.id) /\ (Serving(ref.socket) \/ ref.socket \in broken)

\* When the owner has closed its client or has died, its daemon ends, after it
\* has removed what was not kept and enforced the leases of the rest.
OwnedDaemonEnds ==
    \A c \in Proc : (at[c] \in {"done", "dead"} /\ daemon[c] # "none") ~> daemon[c] = "gone"

=============================================================================
