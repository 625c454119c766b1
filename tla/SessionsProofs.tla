--------------------------- MODULE SessionsProofs ---------------------------
(***************************************************************************)
(* Proofs about Sessions: for every number of sessions, names, leases and  *)
(* crashes, and whichever calls of the environment fail.                   *)
(***************************************************************************)
EXTENDS Sessions, TLAPS

(***************************************************************************)
(* The inductive invariant: what each point of the mutex holder means.     *)
(***************************************************************************)
CreatePoints == {"mkdir", "record", "files", "deploy", "proof", "running", "undo"}
ReapPoints == {"destroy", "delete"}

\* Who may stand where, and whether it has a session in hand.
HolderInv ==
    /\ at = "idle" => who = "nobody"
    /\ at \in CreatePoints => who = "create"
    /\ at = "pick" => who \in {"scavenge", "cleanup"}
    /\ at \in ReapPoints => who \in {"destroy", "scavenge", "cleanup"}
    /\ at \in CreatePoints \union ReapPoints => cur \in Ids

\* What CreateSession has put on disk when it stands at each point.
CreateInv ==
    /\ at \in {"mkdir", "record", "files", "deploy"} => mem \in Draft
    /\ at \in {"mkdir", "record"} => mem.record.state = "provisioning" /\ ~mem.record.kept
    /\ at \in CreatePoints \ {"mkdir"} => cur \in dirs
    /\ at \in CreatePoints \ {"mkdir", "record"} =>
          store[cur] \in Record /\ store[cur].state # "running" /\ ~store[cur].kept
    /\ at \in {"deploy", "proof", "running", "undo"} => cur \in topos
    /\ at = "running" => lab[cur] = "isolated"

\* Files are deleted once the containers are gone.
DeleteInv == at = "delete" => lab[cur] = "none"

\* Records live in directories.
DirInv == \A i \in Ids : Recorded(i) => i \in dirs

\* What a reaper has listed is still reapable: nobody else holds the mutex.
MayReap(i) ==
    /\ who = "scavenge" /\ Recorded(i) => store[i].expires <= now
    /\ who = "cleanup" /\ Recorded(i) => ~store[i].kept
ReapInv ==
    /\ stamp <= now
    /\ \A i \in todo : MayReap(i)
    /\ at \in ReapPoints => MayReap(cur)

IInv == /\ TypeOK /\ HolderInv /\ CreateInv /\ DeleteInv /\ DirInv /\ ReapInv
        /\ RuntimeReapable /\ RunningIsIsolated

(***************************************************************************)
(* The invariant holds initially and every action preserves it.            *)
(***************************************************************************)
LEMMA InitIInv == Init => IInv
<1> SUFFICES ASSUME Init PROVE IInv
  OBVIOUS
<1> USE DEF Init
<1>1. TypeOK
  BY DEF TypeOK, LabStates, Loops, Operations, Points
<1>2. HolderInv /\ CreateInv /\ DeleteInv
  BY DEF HolderInv, CreateInv, DeleteInv, CreatePoints, ReapPoints
<1>3. DirInv /\ ReapInv
  BY DEF DirInv, ReapInv, MayReap, Recorded, ReapPoints
<1>4. RuntimeReapable /\ RunningIsIsolated
  BY DEF RuntimeReapable, RunningIsIsolated, Recorded
<1> QED
  BY <1>1, <1>2, <1>3, <1>4 DEF IInv

LEMMA NextIInv == IInv /\ [Next]_vars => IInv'
<1> SUFFICES ASSUME IInv, [Next]_vars PROVE IInv'
  OBVIOUS
<1> USE NoIdAssumption, NoRecordAssumption, SanitizeAssumption, TimeAssumption
<1> USE DEF IInv, TypeOK, Record, Draft, HolderInv, CreateInv, DeleteInv, DirInv, ReapInv, MayReap,
    RuntimeReapable, RunningIsIsolated, Recorded, CreatePoints, ReapPoints, LabStates, Loops,
    Operations, Points, disk, mainloop, Holding, MutexFree, Release, Goto, Serving
<1>1. ASSUME NEW i \in Ids, NEW n \in Names, NEW ttl \in TTLs, CreateSession(i, n, ttl) PROVE IInv'
  BY <1>1 DEF CreateSession
<1>2. ASSUME NEW i \in Ids, NEW preserve \in BOOLEAN, DestroySession(i, preserve) PROVE IInv'
  BY <1>2 DEF DestroySession
<1>3. ASSUME NEW i \in Ids, NEW ttl \in TTLs, KeepSession(i, ttl) PROVE IInv'
  <2> DEFINE kept == [store[i] EXCEPT !.kept = TRUE, !.expires = now + ttl]
  <2>1. store[i] \in Record
    BY <1>3 DEF KeepSession
  <2>2. now + ttl \in Nat
    OBVIOUS
  <2>3. kept \in Record /\ kept.state = store[i].state
    BY <2>1, <2>2
  <2>4. kept # NoRecord
    BY <2>3
  <2>5. store' = [store EXCEPT ![i] = kept]
    BY <1>3 DEF KeepSession
  <2>6. UNCHANGED <<now, dirs, topos, lab, mainloop, at, who, cur, mem, todo, crashes>> /\ at = "idle"
    BY <1>3 DEF KeepSession
  <2>7. \A j \in Ids : /\ store'[j] # NoRecord <=> store[j] # NoRecord
                       /\ j # i => store'[j] = store[j]
                       /\ j = i => store'[j].state = store[j].state
    <3> HIDE DEF kept
    <3> QED
      BY <2>1, <2>5, <2>3, <2>4
  <2>8. TypeOK'
    <3>1. store' \in [Ids -> Record \union {NoRecord}]
      <4> HIDE DEF kept
      <4> QED
        BY <2>1, <2>5, <2>3
    <3> QED
      BY <2>6, <3>1
  <2>9. HolderInv' /\ CreateInv' /\ DeleteInv'
    BY <2>6
  <2>10. DirInv' /\ RuntimeReapable' /\ RunningIsIsolated'
    BY <2>6, <2>7
  <2>11. ReapInv'
    BY <2>6, <2>7
  <2> QED
    BY <2>8, <2>9, <2>10, <2>11
<1>4. CASE StoreMkdir
  BY <1>4 DEF StoreMkdir
<1>5. CASE StoreWrite
  BY <1>5 DEF StoreWrite
<1>6. CASE WriteFiles
  BY <1>6 DEF WriteFiles
<1>7. CASE Deploy
  <2>1. cur \in Ids /\ store[cur] \in Record /\ cur \in topos
    BY <1>7 DEF Deploy
  <2>2. /\ lab' \in [Ids -> LabStates]
        /\ \A j \in Ids \ {cur} : lab'[j] \in {"none", "partial", lab[j]}
        /\ \A j \in Ids \ {cur} : lab[j] = "none" => lab'[j] = "none"
    BY <1>7 DEF Deploy, Containerlab, Remains
  <2>3. /\ \A j \in Ids \ {cur} : store'[j] = store[j]
        /\ store'[cur] \in Record /\ store'[cur].state # "running"
        /\ store'[cur].kept = store[cur].kept /\ store'[cur].expires = store[cur].expires
        /\ store' \in [Ids -> Record \union {NoRecord}]
    BY <1>7, <2>1 DEF Deploy, SaveState
  <2>4. TypeOK' /\ HolderInv' /\ CreateInv' /\ DeleteInv'
    BY <1>7, <2>1, <2>2, <2>3 DEF Deploy
  <2>5. DirInv' /\ ReapInv'
    BY <1>7, <2>1, <2>3 DEF Deploy
  <2>6. RuntimeReapable' /\ RunningIsIsolated'
    BY <1>7, <2>1, <2>2, <2>3 DEF Deploy
  <2> QED
    BY <2>4, <2>5, <2>6
<1>8. CASE ProofIsolation
  BY <1>8 DEF ProofIsolation, SaveState
<1>9. CASE CreateDone
  BY <1>9 DEF CreateDone, SaveState
<1>10. CASE CreateUndo
  BY <1>10 DEF CreateUndo, DestroyOK, DestroyFails, Containerlab, Remains
<1>11. CASE ReapNext
  BY <1>11 DEF ReapNext
<1>12. CASE ReapDone
  BY <1>12 DEF ReapDone, LoopNext, LoopAfter
<1>13. CASE BackendDestroyOK
  BY <1>13 DEF BackendDestroyOK, DestroyOK, Containerlab, Remains
<1>14. CASE BackendDestroyFails
  BY <1>14 DEF BackendDestroyFails, DestroyFails, Finish, Containerlab, Remains
<1>15. CASE StoreUnlink
  BY <1>15 DEF StoreUnlink
<1>16. CASE StoreRmdir
  BY <1>16 DEF StoreRmdir, Finish
<1>17. CASE StoreDeleteFails
  BY <1>17 DEF StoreDeleteFails, Finish
<1>18. CASE Scavenge
  BY <1>18 DEF Scavenge, Reap, LoopNext, LoopAfter, LeaseOver
<1>19. CASE CleanupUnkept
  BY <1>19 DEF CleanupUnkept, Reap, LoopNext, LoopAfter
<1>20. CASE Ticker
  BY <1>20 DEF Ticker, InSelect
<1>21. CASE LoopCheck
  BY <1>21 DEF LoopCheck
<1>22. CASE DaemonExit
  <2>1. TypeOK'
    BY <1>22 DEF DaemonExit
  <2>2. HolderInv' /\ CreateInv' /\ DeleteInv'
    BY <1>22 DEF DaemonExit
  <2>3. DirInv' /\ ReapInv'
    BY <1>22 DEF DaemonExit
  <2>4. RuntimeReapable' /\ RunningIsIsolated'
    BY <1>22 DEF DaemonExit
  <2> QED
    BY <2>1, <2>2, <2>3, <2>4
<1>23. CASE DaemonStart
  <2>1. TypeOK'
    BY <1>23 DEF DaemonStart
  <2>2. HolderInv' /\ CreateInv' /\ DeleteInv'
    BY <1>23 DEF DaemonStart
  <2>3. DirInv' /\ ReapInv'
    BY <1>23 DEF DaemonStart
  <2>4. RuntimeReapable' /\ RunningIsIsolated'
    BY <1>23 DEF DaemonStart
  <2> QED
    BY <2>1, <2>2, <2>3, <2>4
<1>24. CASE Detach
  BY <1>24 DEF Detach, InSelect
<1>25. CASE SecondSignal
  BY <1>25 DEF SecondSignal, InSelect
<1>26. CASE DaemonCrash
  <2>1. TypeOK'
    <3>1. lab' \in [Ids -> LabStates]
      BY <1>26 DEF DaemonCrash, Containerlab
    <3>2. crashes' \in Nat
      BY <1>26 DEF DaemonCrash
    <3> QED
      BY <1>26, <3>1, <3>2 DEF DaemonCrash
  <2>2. HolderInv' /\ CreateInv' /\ DeleteInv'
    BY <1>26 DEF DaemonCrash
  <2>3. DirInv' /\ ReapInv'
    BY <1>26 DEF DaemonCrash
  <2>4. RuntimeReapable' /\ RunningIsIsolated'
    BY <1>26 DEF DaemonCrash, Containerlab, Remains
  <2> QED
    BY <2>1, <2>2, <2>3, <2>4
<1>27. CASE Tick
  BY <1>27 DEF Tick
<1>28. CASE UNCHANGED vars
  BY <1>28 DEF vars
<1> HIDE DEF IInv, TypeOK, HolderInv, CreateInv, DeleteInv, DirInv, ReapInv, RuntimeReapable,
    RunningIsIsolated, disk, mainloop, Holding, MutexFree, Release, Goto, Serving
<1>29. QED
  BY <1>1, <1>2, <1>3, <1>4, <1>5, <1>6, <1>7, <1>8, <1>9, <1>10, <1>11, <1>12, <1>13, <1>14, <1>15, <1>16, <1>17, <1>18, <1>19, <1>20, <1>21, <1>22, <1>23, <1>24, <1>25, <1>26, <1>27, <1>28 DEF Next, Requests, Handlers, MainLoop, Environment

(***************************************************************************)
(* The invariants of the specification.                                    *)
(***************************************************************************)

\* IInv is an invariant of the daemon.
LEMMA Inductive == Spec => []IInv
BY InitIInv, NextIInv, PTL DEF Spec

\* Every reachable state of the daemon is well typed.
THEOREM TypeCorrect == Spec => []TypeOK
BY Inductive, PTL DEF IInv

\* Containers never outlive the record and the topology file that let the
\* daemon find and destroy them, wherever Create, Destroy or a reaper is cut
\* short.
THEOREM Reapable == Spec => []RuntimeReapable
BY Inductive, PTL DEF IInv

\* CreateSession never reports "running" for a lab that is not isolated.
THEOREM Isolated == Spec => []RunningIsIsolated
BY Inductive, PTL DEF IInv

(***************************************************************************)
(* Automatic cleanup and kept sessions.                                    *)
(***************************************************************************)

\* A step of the daemon that is not an explicit DestroySession leaves a kept
\* session alone: ReapInv says what a reaper holds is expired or not kept.
LEMMA KeptStep == IInv /\ [Next]_vars => [KeptSurvivesStep]_vars
<1> SUFFICES ASSUME IInv, Next PROVE KeptSurvivesStep
  BY DEF vars
<1> SUFFICES ASSUME NEW i \in Ids, Recorded(i), store[i].kept, now < store[i].expires, who # "destroy"
             PROVE  (lab'[i] = lab[i] \/ Namesakes(i) # {}) /\ (i \in topos => i \in topos') /\ store'[i] # NoRecord
  BY DEF KeptSurvivesStep
<1> USE NoRecordAssumption
<1>1. store[i] \in Record /\ store[i].expires \in Nat /\ now \in Nat
  BY DEF IInv, TypeOK, Record, Recorded
<1>2. at \in ReapPoints => cur # i
  BY <1>1 DEF IInv, TypeOK, HolderInv, ReapInv, MayReap, ReapPoints, Recorded
<1>3. at \in CreatePoints \ {"mkdir", "record"} => cur # i
  BY DEF IInv, CreateInv
<1>4. CASE \E j \in Ids, ttl \in TTLs : KeepSession(j, ttl)
  <2> PICK j \in Ids, ttl \in TTLs : KeepSession(j, ttl)
    BY <1>4
  <2>1. [store[i] EXCEPT !.kept = TRUE, !.expires = now + ttl] \in Record
    <3>1. now + ttl \in Nat
      BY <1>1, TimeAssumption
    <3> QED
      BY <1>1, <3>1 DEF Record
  <2>2. store'[i] # NoRecord
    BY <2>1, <1>1 DEF KeepSession, IInv, TypeOK, Record
  <2> QED
    BY <2>2 DEF KeepSession
<1>5. CASE StoreWrite
  BY <1>5 DEF StoreWrite, Holding, IInv, TypeOK, CreateInv, Record, Draft, Recorded
\* A command for another lab leaves the containers of i alone.
<1>6. ASSUME NEW j \in Ids, NEW ls, j # i, Namesakes(i) = {}, Containerlab(j, ls) PROVE lab'[i] = lab[i]
  BY <1>6 DEF Containerlab, Namesakes
<1>9. CASE UNCHANGED <<topos, store, lab>>
  BY <1>9 DEF Recorded
<1>10. (\E j \in Ids, n \in Names, ttl \in TTLs : CreateSession(j, n, ttl))
       \/ (\E j \in Ids, preserve \in BOOLEAN : DestroySession(j, preserve))
       \/ StoreMkdir \/ ReapNext \/ ReapDone \/ MainLoop \/ DaemonStart \/ Detach \/ SecondSignal \/ Tick
       => UNCHANGED <<topos, store, lab>>
  BY DEF CreateSession, DestroySession, StoreMkdir, ReapNext, ReapDone, MainLoop, Scavenge, CleanupUnkept, Reap,
     Ticker, LoopCheck, DaemonExit, DaemonStart, Detach, SecondSignal, Tick, disk
<1>7. CASE Namesakes(i) = {}
  <2>1. CASE WriteFiles \/ ProofIsolation \/ CreateDone
    BY <1>1, <1>3, <2>1 DEF WriteFiles, ProofIsolation, CreateDone, SaveState, Holding, CreatePoints,
       IInv, TypeOK, Recorded
  <2>2. CASE Deploy \/ CreateUndo
    <3>1. cur \in Ids /\ cur # i
      BY <1>3, <2>2 DEF Deploy, CreateUndo, Holding, CreatePoints, IInv, HolderInv
    <3>2. lab'[i] = lab[i]
      BY <1>6, <1>7, <2>2, <3>1 DEF Deploy, CreateUndo, DestroyOK, DestroyFails
    <3> QED
      BY <1>1, <2>2, <3>1, <3>2 DEF Deploy, CreateUndo, SaveState, IInv, TypeOK, Recorded, disk
  <2>3. CASE BackendDestroyOK \/ BackendDestroyFails
    <3>1. cur \in Ids /\ cur # i
      BY <1>2, <2>3 DEF BackendDestroyOK, BackendDestroyFails, Holding, ReapPoints, IInv, HolderInv
    <3>2. lab'[i] = lab[i]
      BY <1>6, <1>7, <2>3, <3>1 DEF BackendDestroyOK, BackendDestroyFails, DestroyOK, DestroyFails
    <3> QED
      BY <1>1, <2>3, <3>2 DEF BackendDestroyOK, BackendDestroyFails, disk, Recorded
  <2>4. CASE StoreUnlink \/ StoreRmdir \/ StoreDeleteFails
    BY <1>1, <1>2, <2>4 DEF StoreUnlink, StoreRmdir, StoreDeleteFails, Holding, ReapPoints, IInv, TypeOK,
       Recorded, disk
  <2>5. CASE DaemonCrash
    <3>1. at \in {"deploy", "destroy", "undo"} => cur \in Ids /\ cur # i
      BY <1>2, <1>3 DEF CreatePoints, ReapPoints, IInv, HolderInv
    <3>2. lab'[i] = lab[i]
      BY <1>6, <1>7, <2>5, <3>1 DEF DaemonCrash
    <3> QED
      BY <2>5, <3>2 DEF DaemonCrash, disk, Recorded
  <2> QED
    BY <2>1, <2>2, <2>3, <2>4, <2>5, <1>4, <1>5, <1>9, <1>10 DEF Next, Requests, Handlers, Environment
<1>8. CASE Namesakes(i) # {}
  <2>1. CASE WriteFiles \/ Deploy \/ ProofIsolation \/ CreateDone \/ CreateUndo
    BY <1>1, <1>3, <1>8, <2>1 DEF WriteFiles, Deploy, ProofIsolation, CreateDone, CreateUndo, SaveState,
       Holding, CreatePoints, IInv, TypeOK, Recorded, disk
  <2>2. CASE BackendDestroyOK \/ BackendDestroyFails \/ StoreUnlink \/ StoreRmdir \/ StoreDeleteFails
    BY <1>1, <1>2, <1>8, <2>2 DEF BackendDestroyOK, BackendDestroyFails, StoreUnlink, StoreRmdir,
       StoreDeleteFails, Holding, ReapPoints, IInv, TypeOK, Recorded, disk
  <2>3. CASE DaemonCrash
    BY <1>8, <2>3 DEF DaemonCrash, Recorded, disk
  <2> QED
    BY <2>1, <2>2, <2>3, <1>4, <1>5, <1>9, <1>10 DEF Next, Requests, Handlers, Environment
<1> QED
  BY <1>7, <1>8

\* Owner cleanup and lease scavenging never touch a kept session whose lease
\* still runs, although Scavenge compares with a time read before it had the
\* mutex.
THEOREM KeptSurvives == Spec => KeptSurvivesCleanup
BY Inductive, KeptStep, PTL DEF Spec, KeptSurvivesCleanup

(***************************************************************************)
(* Lab names.  Until it deploys, CreateSession has the mutex, so the names *)
(* it has checked stay as they were.                                       *)
(***************************************************************************)
\* Nobody but i has the lab name n.
FreeFor(n, i) == n \notin ForeignLabs /\ \A j \in Ids \ {i} : Recorded(j) => store[j].name # n

NamesInv ==
    /\ at \in {"mkdir", "record"} /\ mem.asked = mem.record.name => FreeFor(mem.record.name, cur)
    /\ at \in {"files", "deploy"} /\ mem.asked = store[cur].name => FreeFor(store[cur].name, cur)

LEMMA NamesStep == IInv /\ NamesInv /\ [Next]_vars => NamesInv'
<1> SUFFICES ASSUME IInv, NamesInv, [Next]_vars PROVE NamesInv'
  OBVIOUS
<1>0. ASSUME at' \notin {"mkdir", "record", "files", "deploy"} PROVE NamesInv'
  BY <1>0 DEF NamesInv
<1>1. ASSUME NEW i \in Ids, NEW n \in Names, NEW ttl \in TTLs, CreateSession(i, n, ttl) PROVE NamesInv'
  <2>1. store' = store /\ at' = "mkdir" /\ cur' = i /\ mem'.asked = n
    BY <1>1 DEF CreateSession, disk
  <2>2. FreeFor(n, i)
    BY <1>1 DEF CreateSession, RuntimeNames, FreeFor, IInv, DirInv
  <2> QED
    BY <2>1, <2>2 DEF NamesInv, FreeFor, Recorded
<1>2. CASE StoreMkdir
  BY <1>0, <1>2 DEF StoreMkdir, Holding, Goto, Release, NamesInv, FreeFor, Recorded
<1>3. CASE StoreWrite
  <2>1. CASE store' = [store EXCEPT ![cur] = mem.record] /\ Goto("files")
    <3>1. cur \in Ids /\ at = "record" /\ at' = "files" /\ cur' = cur /\ mem' = mem
      BY <1>3, <2>1 DEF StoreWrite, Holding, Goto, IInv, HolderInv, CreatePoints
    <3>2. /\ store'[cur] = mem.record
          /\ \A j \in Ids \ {cur} : store'[j] = store[j]
      BY <2>1, <3>1 DEF IInv, TypeOK
    <3> QED
      BY <3>1, <3>2 DEF NamesInv, FreeFor, Recorded
  <2>2. CASE Release
    BY <1>0, <2>2 DEF Release
  <2> QED
    BY <1>3, <2>1, <2>2 DEF StoreWrite
<1>4. CASE WriteFiles
  BY <1>0, <1>4 DEF WriteFiles, Holding, Goto, Release, NamesInv, FreeFor, Recorded
<1>5. ASSUME UNCHANGED <<store, at, cur, mem>> PROVE NamesInv'
  BY <1>5 DEF NamesInv, FreeFor, Recorded
<1>6. CASE \E i \in Ids, ttl \in TTLs : KeepSession(i, ttl)
  BY <1>0, <1>6 DEF KeepSession, MutexFree, Holding
<1>7. CASE \E i \in Ids, preserve \in BOOLEAN : DestroySession(i, preserve)
  BY <1>0, <1>7 DEF DestroySession
<1>8. CASE Deploy \/ ProofIsolation \/ CreateDone \/ CreateUndo \/ ReapNext \/ ReapDone \/ DaemonCrash
  BY <1>0, <1>8 DEF Deploy, ProofIsolation, CreateDone, CreateUndo, ReapNext, ReapDone, DaemonCrash, Goto, Release
<1>9. CASE BackendDestroyOK \/ BackendDestroyFails \/ StoreUnlink \/ StoreRmdir \/ StoreDeleteFails
  BY <1>0, <1>9 DEF BackendDestroyOK, BackendDestroyFails, StoreUnlink, StoreRmdir, StoreDeleteFails,
     Holding, Finish, Goto, Release
<1>10. CASE MainLoop
  BY <1>0, <1>5, <1>10 DEF MainLoop, Scavenge, CleanupUnkept, Reap, Ticker, LoopCheck, DaemonExit, disk
<1>11. CASE DaemonStart \/ Detach \/ SecondSignal \/ Tick
  BY <1>5, <1>11 DEF DaemonStart, Detach, SecondSignal, Tick, disk
<1>12. CASE UNCHANGED vars
  BY <1>5, <1>12 DEF vars
<1> QED
  BY <1>1, <1>2, <1>3, <1>4, <1>6, <1>7, <1>8, <1>9, <1>10, <1>11, <1>12
     DEF Next, Requests, Handlers, Environment

\* Whatever sanitize does to names, CreateSession deploys into another lab's name
\* only when it is not the name that was requested and checked.
THEOREM OwnLab == Spec => []DeploysOwnLab
<1>1. Init => NamesInv
  BY DEF Init, NamesInv
<1>2. NamesInv => DeploysOwnLab
  BY DEF NamesInv, FreeFor, DeploysOwnLab, NameTaken, Namesakes
<1> QED
  BY Inductive, NamesStep, <1>1, <1>2, PTL DEF Spec

=============================================================================
