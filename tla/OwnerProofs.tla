---------------------------- MODULE OwnerProofs ----------------------------
(***************************************************************************)
(* Proofs about Owner: for any number of client processes, sessions and    *)
(* failures, and every mix of workflows.                                   *)
(***************************************************************************)
EXTENDS Owner, TLAPS

(***************************************************************************)
(* The inductive invariant                                                 *)
(***************************************************************************)
\* A private directory belongs to a process that deploys nothing, and a session
\* that is still to be created has no record.
RecordInv ==
    \A i \in Id :
        /\ Recorded(i) /\ store[i].dir \in Proc => kind[store[i].dir] # "deploy"
        /\ creating[i] # NoProc => ~Recorded(i)

\* After Close has looked and found nothing, every session in the private state
\* directory was created late.
LookedInv ==
    \A c \in Proc, i \in Id :
        Looked(c) /\ Recorded(i) /\ store[i].dir = c => i \in late

\* Where the session i of a deployment by c stands: ended on purpose, or kept in
\* the common directory by a daemon that nobody but the outside has stopped.
Leads(i, c) ==
    \/ i \in ended
    \/ /\ i \in Id /\ Kept(i) /\ store[i].dir = StateDir
       /\ Serving(c) \/ c \in broken

\* A deployment talks to its own daemon, and keeps its session for good.
DeployInv ==
    \A c \in Proc : kind[c] = "deploy" =>
        /\ at[c] # "found" /\ (at[c] \in {"open", "session", "kept"} => link[c] = c)
        /\ at[c] = "kept" => hand[c] \in Id /\ Leads(hand[c], c)

\* The socket of the reference belongs to a deployment that has got to Close.
Closing == {"close", "retain", "looked", "waiting", "done", "dead"}
RefInv ==
    ref # NoRef =>
        /\ kind[ref.socket] = "deploy" /\ at[ref.socket] \in Closing
        /\ Leads(ref.id, ref.socket)
        /\ Looked(ref.socket) => ref.id \in ended

IInv == TypeOK /\ RecordInv /\ StateRetained /\ LookedInv /\ DeployInv /\ RefInv


LEMMA InitInv == Init => IInv
<1> SUFFICES ASSUME Init PROVE IInv
  OBVIOUS
<1> USE KindAssumption, NoneAssumption, NoSessionAssumption, NoRefAssumption DEF Init
<1>1. TypeOK
  BY DEF TypeOK, Points
<1> QED
  BY <1>1 DEF IInv, RecordInv, StateRetained, LookedInv, DeployInv, RefInv, Recorded, Looked

\* What the handlers of Keep and CreateSession do to the records.
LEMMA KeepEffect ==
    ASSUME TypeOK, NEW c \in Proc, Keep(c)
    PROVE  \/ /\ UNCHANGED <<store, mine>>
              /\ at' = [at EXCEPT ![c] = IF kind[c] = "deploy" THEN "undo" ELSE "close"]
           \/ /\ Serving(link[c]) /\ hand[c] \in Records(link[c]) /\ hand[c] \in Id
              /\ \E s \in Session : /\ store' = [store EXCEPT ![hand[c]] = s]
                                   /\ s.dir = store[hand[c]].dir /\ s.kept
              /\ mine' = [mine EXCEPT ![c] = mine[c] \ {hand[c]}]
              /\ at' = [at EXCEPT ![c] = "kept"]
<1>1. CASE Serving(link[c]) /\ hand[c] \in Records(link[c])
  <2> DEFINE s == [store[hand[c]] EXCEPT !.kept = TRUE]
  <2>1. hand[c] \in Id /\ store[hand[c]] \in Session
    BY <1>1 DEF TypeOK, Records, Recorded
  <2>2. s \in Session /\ s.dir = store[hand[c]].dir /\ s.kept
    BY <2>1 DEF Session
  <2>3. /\ store' = [store EXCEPT ![hand[c]] = s]
        /\ mine' = [mine EXCEPT ![c] = mine[c] \ {hand[c]}]
        /\ at' = [at EXCEPT ![c] = "kept"]
    BY <1>1, <2>1 DEF Keep, Goto
  <2> HIDE DEF s
  <2> QED
    BY <1>1, <2>1, <2>2, <2>3
<1>2. CASE ~(Serving(link[c]) /\ hand[c] \in Records(link[c]))
  BY <1>2 DEF Keep, Goto
<1> QED
  BY <1>1, <1>2

LEMMA CreatedEffect ==
    ASSUME TypeOK, NEW d \in Proc, NEW i \in Id, Created(d, i)
    PROVE  \E s \in Session :
              /\ store' = [store EXCEPT ![i] = s]
              /\ s.dir = launchStateDir(d) /\ ~s.kept
              /\ late' = IF Looked(d) THEN late \union {i} ELSE late
<1>1. [dir |-> launchStateDir(d), kept |-> FALSE] \in Session
  BY DEF Session, launchStateDir
<1> QED
  BY <1>1 DEF Created

\* Every step keeps the types.
LEMMA StepType ==
    ASSUME IInv, Next
    PROVE  TypeOK'
<1> USE KindAssumption, NoneAssumption, NoSessionAssumption, NoRefAssumption
        DEF IInv, TypeOK, Points, Session, Ref, client, history, Goto, Trouble, Gone,
            launchStateDir, Serving, Recorded, Records
<1>0. kind' = kind
  BY DEF Next
<1>1. ASSUME NEW c \in Proc, CheckAbsent(c) PROVE TypeOK'
  BY <1>0, <1>1 DEF CheckAbsent
<1>2. ASSUME NEW c \in Proc, Launch(c) PROVE TypeOK'
  BY <1>0, <1>2 DEF Launch
<1>3. ASSUME NEW c \in Proc, WriteRef(c) PROVE TypeOK'
  BY <1>0, <1>3 DEF WriteRef, DeployInv
<1>4. ASSUME NEW c \in Proc, RemoveRef(c) PROVE TypeOK'
  BY <1>0, <1>4 DEF RemoveRef
<1>5. ASSUME NEW c \in Proc, NEW i \in Id, CloseSession(c, i) PROVE TypeOK'
  BY <1>0, <1>5 DEF CloseSession
<1>6. ASSUME NEW c \in Proc, Look(c) PROVE TypeOK'
  BY <1>0, <1>6 DEF Look, retainState
<1>7. ASSUME NEW c \in Proc, Interrupt(c) PROVE TypeOK'
  BY <1>0, <1>7 DEF Interrupt
<1>8. ASSUME NEW c \in Proc, RemoveTemp(c) PROVE TypeOK'
  BY <1>0, <1>8 DEF RemoveTemp
<1>9. ASSUME NEW c \in Proc, ParentGone(c) PROVE TypeOK'
  BY <1>0, <1>9 DEF ParentGone
<1>10. ASSUME NEW c \in Proc, CleanupUnkept(c) PROVE TypeOK'
  BY <1>0, <1>10 DEF CleanupUnkept
<1>11. ASSUME NEW c \in Proc, Exit(c) PROVE TypeOK'
  BY <1>0, <1>11 DEF Exit
<1>12. ASSUME NEW c \in Proc, OpenPersistent(c) PROVE TypeOK'
  BY <1>0, <1>12 DEF OpenPersistent
<1>13. ASSUME NEW c \in Proc, NEW d \in Proc, Dial(c, d) PROVE TypeOK'
  BY <1>0, <1>13 DEF Dial
<1>14. ASSUME NEW c \in Proc, NEW i \in Id, Resume(c, i) PROVE TypeOK'
  BY <1>0, <1>14 DEF Resume
<1>15. ASSUME NEW c \in Proc, NEW i \in Id, Start(c, i) PROVE TypeOK'
  BY <1>0, <1>15 DEF Start, Created, Fresh
<1>16. ASSUME NEW c \in Proc, NEW i \in Id, StartFails(c, i) PROVE TypeOK'
  <2>1. CASE UNCHANGED <<store, lab, late, creating>>
    BY <1>0, <1>16, <2>1 DEF StartFails
  <2>2. CASE Created(link[c], i) /\ Serving(link[c]) /\ lab' \in {lab, lab \union {i}} /\ UNCHANGED creating
    <3>1. PICK s \in Session : /\ store' = [store EXCEPT ![i] = s]
                              /\ s.dir = launchStateDir(link[c]) /\ ~s.kept
                              /\ late' = IF Looked(link[c]) THEN late \union {i} ELSE late
      BY <2>2, CreatedEffect
    <3> QED
      BY <1>0, <1>16, <2>2, <3>1 DEF StartFails, Fresh
  <2>3. CASE Serving(link[c]) /\ creating' = [creating EXCEPT ![i] = link[c]] /\ UNCHANGED <<store, lab, late>>
    BY <1>0, <1>16, <2>3 DEF StartFails, Fresh
  <2> QED
    BY <1>16, <2>1, <2>2, <2>3 DEF StartFails
<1>17. ASSUME NEW c \in Proc, NEW i \in Id, Expire(c, i) PROVE TypeOK'
  BY <1>0, <1>17 DEF Expire
<1>18. ASSUME NEW c \in Proc, Keep(c) PROVE TypeOK'
  <2>1. CASE UNCHANGED store /\ at'[c] # "kept"
    BY <1>0, <1>18, <2>1, KeepEffect DEF Keep
  <2>2. ASSUME NEW s \in Session, store' = [store EXCEPT ![hand[c]] = s],
               s.dir = store[hand[c]].dir, s.kept, at' = [at EXCEPT ![c] = "kept"],
               Serving(link[c]), hand[c] \in Records(link[c]), hand[c] \in Id,
               mine' = [mine EXCEPT ![c] = mine[c] \ {hand[c]}]
        PROVE  TypeOK'
    BY <1>0, <1>18, <2>2 DEF Keep
  <2> QED
    BY <1>18, <2>1, <2>2, KeepEffect
<1>19. ASSUME NEW c \in Proc, KeepFails(c) PROVE TypeOK'
  BY <1>0, <1>19 DEF KeepFails
<1>20. ASSUME NEW c \in Proc, Destroy(c) PROVE TypeOK'
  BY <1>0, <1>20 DEF Destroy
<1>21. ASSUME NEW c \in Proc, DestroyFails(c) PROVE TypeOK'
  BY <1>0, <1>21 DEF DestroyFails
<1>22. ASSUME NEW c \in Proc, Close(c) PROVE TypeOK'
  BY <1>0, <1>22 DEF Close
<1>23. ASSUME NEW c \in Proc, DaemonStops(c) PROVE TypeOK'
  BY <1>0, <1>23 DEF DaemonStops
<1>24. ASSUME NEW c \in Proc, ProcessDies(c) PROVE TypeOK'
  BY <1>0, <1>24 DEF ProcessDies
<1>25. ASSUME NEW i \in Id, HandlerGoesOn(i) PROVE TypeOK'
  BY <1>0, <1>25 DEF HandlerGoesOn, Created
<1> QED
  BY <1>1, <1>2, <1>3, <1>4, <1>5, <1>6, <1>7, <1>8, <1>9, <1>10, <1>11, <1>12, <1>13, <1>14, <1>15,
     <1>16, <1>17, <1>18, <1>19, <1>20, <1>21, <1>22, <1>23, <1>24, <1>25
     DEF Next, ClientStep, DaemonStep

\* Records, labs and the look of Close.
LEMMA StepRecords ==
    ASSUME IInv, Next
    PROVE  RecordInv' /\ StateRetained' /\ LookedInv'
<1> USE KindAssumption, NoneAssumption, NoSessionAssumption, NoRefAssumption
        DEF IInv, TypeOK, Session, client, history, Goto, Gone, launchStateDir, Recorded, Records,
            Looked, RecordInv, StateRetained, LookedInv, Kept, Serving
<1>0. kind' = kind
  BY DEF Next
<1>1. ASSUME NEW c \in Proc, CheckAbsent(c) PROVE RecordInv' /\ StateRetained' /\ LookedInv'
  BY <1>0, <1>1 DEF CheckAbsent
<1>2. ASSUME NEW c \in Proc, Launch(c) PROVE RecordInv' /\ StateRetained' /\ LookedInv'
  BY <1>0, <1>2 DEF Launch
<1>3. ASSUME NEW c \in Proc, WriteRef(c) PROVE RecordInv' /\ StateRetained' /\ LookedInv'
  BY <1>0, <1>3 DEF WriteRef
<1>4. ASSUME NEW c \in Proc, RemoveRef(c) PROVE RecordInv' /\ StateRetained' /\ LookedInv'
  BY <1>0, <1>4 DEF RemoveRef
<1>5. ASSUME NEW c \in Proc, NEW i \in Id, CloseSession(c, i) PROVE RecordInv' /\ StateRetained' /\ LookedInv'
  BY <1>0, <1>5 DEF CloseSession
<1>6. ASSUME NEW c \in Proc, Look(c) PROVE RecordInv' /\ StateRetained' /\ LookedInv'
  BY <1>0, <1>6 DEF Look, retainState
<1>7. ASSUME NEW c \in Proc, Interrupt(c) PROVE RecordInv' /\ StateRetained' /\ LookedInv'
  BY <1>0, <1>7 DEF Interrupt
<1>8. ASSUME NEW c \in Proc, RemoveTemp(c) PROVE RecordInv' /\ StateRetained' /\ LookedInv'
  BY <1>0, <1>8 DEF RemoveTemp
<1>9. ASSUME NEW c \in Proc, ParentGone(c) PROVE RecordInv' /\ StateRetained' /\ LookedInv'
  BY <1>0, <1>9 DEF ParentGone
<1>10. ASSUME NEW c \in Proc, CleanupUnkept(c) PROVE RecordInv' /\ StateRetained' /\ LookedInv'
  BY <1>0, <1>10 DEF CleanupUnkept
<1>11. ASSUME NEW c \in Proc, Exit(c) PROVE RecordInv' /\ StateRetained' /\ LookedInv'
  BY <1>0, <1>11 DEF Exit
<1>12. ASSUME NEW c \in Proc, OpenPersistent(c) PROVE RecordInv' /\ StateRetained' /\ LookedInv'
  BY <1>0, <1>12 DEF OpenPersistent
<1>13. ASSUME NEW c \in Proc, NEW d \in Proc, Dial(c, d) PROVE RecordInv' /\ StateRetained' /\ LookedInv'
  BY <1>0, <1>13 DEF Dial
<1>14. ASSUME NEW c \in Proc, NEW i \in Id, Resume(c, i) PROVE RecordInv' /\ StateRetained' /\ LookedInv'
  BY <1>0, <1>14 DEF Resume
<1>15. ASSUME NEW c \in Proc, NEW i \in Id, Start(c, i) PROVE RecordInv' /\ StateRetained' /\ LookedInv'
  <2>1. PICK s \in Session : /\ store' = [store EXCEPT ![i] = s]
                            /\ s.dir = launchStateDir(link[c]) /\ ~s.kept
                            /\ late' = IF Looked(link[c]) THEN late \union {i} ELSE late
    BY <1>15, CreatedEffect DEF Start
  <2> QED
    BY <1>0, <1>15, <2>1 DEF Start, Fresh
<1>16. ASSUME NEW c \in Proc, NEW i \in Id, StartFails(c, i) PROVE RecordInv' /\ StateRetained' /\ LookedInv'
  <2>1. CASE UNCHANGED <<store, lab, late, creating>>
    BY <1>0, <1>16, <2>1 DEF StartFails
  <2>2. CASE Created(link[c], i) /\ Serving(link[c]) /\ lab' \in {lab, lab \union {i}} /\ UNCHANGED creating
    <3>1. PICK s \in Session : /\ store' = [store EXCEPT ![i] = s]
                              /\ s.dir = launchStateDir(link[c]) /\ ~s.kept
                              /\ late' = IF Looked(link[c]) THEN late \union {i} ELSE late
      BY <2>2, CreatedEffect
    <3> QED
      BY <1>0, <1>16, <2>2, <3>1 DEF StartFails, Fresh
  <2>3. CASE Serving(link[c]) /\ creating' = [creating EXCEPT ![i] = link[c]] /\ UNCHANGED <<store, lab, late>>
    BY <1>0, <1>16, <2>3 DEF StartFails, Fresh
  <2> QED
    BY <1>16, <2>1, <2>2, <2>3 DEF StartFails
<1>17. ASSUME NEW c \in Proc, NEW i \in Id, Expire(c, i) PROVE RecordInv' /\ StateRetained' /\ LookedInv'
  BY <1>0, <1>17 DEF Expire
<1>18. ASSUME NEW c \in Proc, Keep(c) PROVE RecordInv' /\ StateRetained' /\ LookedInv'
  <2>1. CASE UNCHANGED store /\ at'[c] # "kept"
    BY <1>0, <1>18, <2>1, KeepEffect DEF Keep
  <2>2. ASSUME NEW s \in Session, store' = [store EXCEPT ![hand[c]] = s],
               s.dir = store[hand[c]].dir, s.kept, at' = [at EXCEPT ![c] = "kept"],
               Serving(link[c]), hand[c] \in Records(link[c]), hand[c] \in Id,
               mine' = [mine EXCEPT ![c] = mine[c] \ {hand[c]}]
        PROVE  RecordInv' /\ StateRetained' /\ LookedInv'
    BY <1>0, <1>18, <2>2 DEF Keep
  <2> QED
    BY <1>18, <2>1, <2>2, KeepEffect
<1>19. ASSUME NEW c \in Proc, KeepFails(c) PROVE RecordInv' /\ StateRetained' /\ LookedInv'
  BY <1>0, <1>19 DEF KeepFails
<1>20. ASSUME NEW c \in Proc, Destroy(c) PROVE RecordInv' /\ StateRetained' /\ LookedInv'
  BY <1>0, <1>20 DEF Destroy
<1>21. ASSUME NEW c \in Proc, DestroyFails(c) PROVE RecordInv' /\ StateRetained' /\ LookedInv'
  BY <1>0, <1>21 DEF DestroyFails
<1>22. ASSUME NEW c \in Proc, Close(c) PROVE RecordInv' /\ StateRetained' /\ LookedInv'
  BY <1>0, <1>22 DEF Close
<1>23. ASSUME NEW c \in Proc, DaemonStops(c) PROVE RecordInv' /\ StateRetained' /\ LookedInv'
  BY <1>0, <1>23 DEF DaemonStops
<1>24. ASSUME NEW c \in Proc, ProcessDies(c) PROVE RecordInv' /\ StateRetained' /\ LookedInv'
  BY <1>0, <1>24 DEF ProcessDies
<1>25. ASSUME NEW i \in Id, HandlerGoesOn(i) PROVE RecordInv' /\ StateRetained' /\ LookedInv'
  BY <1>0, <1>25 DEF HandlerGoesOn, Created
<1> QED
  BY <1>1, <1>2, <1>3, <1>4, <1>5, <1>6, <1>7, <1>8, <1>9, <1>10, <1>11, <1>12, <1>13, <1>14, <1>15,
     <1>16, <1>17, <1>18, <1>19, <1>20, <1>21, <1>22, <1>23, <1>24, <1>25
     DEF Next, ClientStep, DaemonStep

\* Deployments and their reference.
LEMMA StepDeploy ==
    ASSUME IInv, Next
    PROVE  DeployInv' /\ RefInv'
<1> USE KindAssumption, NoneAssumption, NoSessionAssumption, NoRefAssumption
        DEF IInv, TypeOK, Session, Ref, client, history, Goto, Gone, launchStateDir, Recorded,
            Records, Looked, RecordInv, LookedInv, Kept, Serving, DeployInv, RefInv, Leads, Closing
<1>0. kind' = kind
  BY DEF Next
<1>1. ASSUME NEW c \in Proc, CheckAbsent(c) PROVE DeployInv' /\ RefInv'
  BY <1>0, <1>1 DEF CheckAbsent
<1>2. ASSUME NEW c \in Proc, Launch(c) PROVE DeployInv' /\ RefInv'
  BY <1>0, <1>2 DEF Launch
<1>3. ASSUME NEW c \in Proc, WriteRef(c) PROVE DeployInv' /\ RefInv'
  BY <1>0, <1>3 DEF WriteRef
<1>4. ASSUME NEW c \in Proc, RemoveRef(c) PROVE DeployInv' /\ RefInv'
  BY <1>0, <1>4 DEF RemoveRef
<1>5. ASSUME NEW c \in Proc, NEW i \in Id, CloseSession(c, i) PROVE DeployInv' /\ RefInv'
  BY <1>0, <1>5 DEF CloseSession
<1>6. ASSUME NEW c \in Proc, Look(c) PROVE DeployInv' /\ RefInv'
  BY <1>0, <1>6 DEF Look, retainState
<1>7. ASSUME NEW c \in Proc, Interrupt(c) PROVE DeployInv' /\ RefInv'
  BY <1>0, <1>7 DEF Interrupt
<1>8. ASSUME NEW c \in Proc, RemoveTemp(c) PROVE DeployInv' /\ RefInv'
  BY <1>0, <1>8 DEF RemoveTemp
<1>9. ASSUME NEW c \in Proc, ParentGone(c) PROVE DeployInv' /\ RefInv'
  BY <1>0, <1>9 DEF ParentGone
<1>10. ASSUME NEW c \in Proc, CleanupUnkept(c) PROVE DeployInv' /\ RefInv'
  BY <1>0, <1>10 DEF CleanupUnkept
<1>11. ASSUME NEW c \in Proc, Exit(c) PROVE DeployInv' /\ RefInv'
  BY <1>0, <1>11 DEF Exit
<1>12. ASSUME NEW c \in Proc, OpenPersistent(c) PROVE DeployInv' /\ RefInv'
  BY <1>0, <1>12 DEF OpenPersistent
<1>13. ASSUME NEW c \in Proc, NEW d \in Proc, Dial(c, d) PROVE DeployInv' /\ RefInv'
  BY <1>0, <1>13 DEF Dial
<1>14. ASSUME NEW c \in Proc, NEW i \in Id, Resume(c, i) PROVE DeployInv' /\ RefInv'
  BY <1>0, <1>14 DEF Resume
<1>15. ASSUME NEW c \in Proc, NEW i \in Id, Start(c, i) PROVE DeployInv' /\ RefInv'
  BY <1>0, <1>15 DEF Start, Created, Fresh
<1>16. ASSUME NEW c \in Proc, NEW i \in Id, StartFails(c, i) PROVE DeployInv' /\ RefInv'
  <2>1. CASE UNCHANGED <<store, lab, late, creating>>
    BY <1>0, <1>16, <2>1 DEF StartFails
  <2>2. CASE Created(link[c], i) /\ Serving(link[c]) /\ lab' \in {lab, lab \union {i}} /\ UNCHANGED creating
    <3>1. PICK s \in Session : /\ store' = [store EXCEPT ![i] = s]
                              /\ s.dir = launchStateDir(link[c]) /\ ~s.kept
                              /\ late' = IF Looked(link[c]) THEN late \union {i} ELSE late
      BY <2>2, CreatedEffect
    <3> QED
      BY <1>0, <1>16, <2>2, <3>1 DEF StartFails, Fresh
  <2>3. CASE Serving(link[c]) /\ creating' = [creating EXCEPT ![i] = link[c]] /\ UNCHANGED <<store, lab, late>>
    BY <1>0, <1>16, <2>3 DEF StartFails, Fresh
  <2> QED
    BY <1>16, <2>1, <2>2, <2>3 DEF StartFails
<1>17. ASSUME NEW c \in Proc, NEW i \in Id, Expire(c, i) PROVE DeployInv' /\ RefInv'
  BY <1>0, <1>17 DEF Expire
<1>18. ASSUME NEW c \in Proc, Keep(c) PROVE DeployInv' /\ RefInv'
  <2>1. CASE UNCHANGED store /\ at'[c] # "kept"
    BY <1>0, <1>18, <2>1, KeepEffect DEF Keep
  <2>2. ASSUME NEW s \in Session, store' = [store EXCEPT ![hand[c]] = s],
               s.dir = store[hand[c]].dir, s.kept, at' = [at EXCEPT ![c] = "kept"],
               Serving(link[c]), hand[c] \in Records(link[c]), hand[c] \in Id,
               mine' = [mine EXCEPT ![c] = mine[c] \ {hand[c]}]
        PROVE  DeployInv' /\ RefInv'
    BY <1>0, <1>18, <2>2 DEF Keep
  <2> QED
    BY <1>18, <2>1, <2>2, KeepEffect
<1>19. ASSUME NEW c \in Proc, KeepFails(c) PROVE DeployInv' /\ RefInv'
  BY <1>0, <1>19 DEF KeepFails
<1>20. ASSUME NEW c \in Proc, Destroy(c) PROVE DeployInv' /\ RefInv'
  BY <1>0, <1>20 DEF Destroy
<1>21. ASSUME NEW c \in Proc, DestroyFails(c) PROVE DeployInv' /\ RefInv'
  BY <1>0, <1>21 DEF DestroyFails
<1>22. ASSUME NEW c \in Proc, Close(c) PROVE DeployInv' /\ RefInv'
  BY <1>0, <1>22 DEF Close
<1>23. ASSUME NEW c \in Proc, DaemonStops(c) PROVE DeployInv' /\ RefInv'
  BY <1>0, <1>23 DEF DaemonStops
<1>24. ASSUME NEW c \in Proc, ProcessDies(c) PROVE DeployInv' /\ RefInv'
  BY <1>0, <1>24 DEF ProcessDies
<1>25. ASSUME NEW i \in Id, HandlerGoesOn(i) PROVE DeployInv' /\ RefInv'
  BY <1>0, <1>25 DEF HandlerGoesOn, Created
<1> QED
  BY <1>1, <1>2, <1>3, <1>4, <1>5, <1>6, <1>7, <1>8, <1>9, <1>10, <1>11, <1>12, <1>13, <1>14, <1>15,
     <1>16, <1>17, <1>18, <1>19, <1>20, <1>21, <1>22, <1>23, <1>24, <1>25
     DEF Next, ClientStep, DaemonStep

LEMMA StepInv == IInv /\ [Next]_vars => IInv'
<1> SUFFICES ASSUME IInv, [Next]_vars PROVE IInv'
  OBVIOUS
<1>1. CASE UNCHANGED vars
  BY <1>1
     DEF vars, client, history, IInv, TypeOK, RecordInv, StateRetained, LookedInv, DeployInv,
         RefInv,
              Recorded, Looked, Leads, Kept, Serving
<1>2. CASE Next
  BY <1>2, StepType, StepRecords, StepDeploy DEF IInv
<1> QED
  BY <1>1, <1>2

(***************************************************************************)
(* Theorems                                                                *)
(***************************************************************************)
\* Close removes a private state directory only when no containers depend on it,
\* but for sessions created after its look (Client.Close, retainState).
THEOREM Retained == Spec => []StateRetained
<1>1. IInv => StateRetained
  BY DEF IInv
<1> QED
  BY <1>1, InitInv, StepInv, PTL DEF Spec

\* The reference of a persistent deployment leads to a kept session and a daemon
\* that serves it, until one of them is ended on purpose (DeployPersistent).
THEOREM Reference == Spec => []RefLeads
<1>1. IInv => RefLeads
  BY DEF IInv, RefInv, RefLeads, Leads
<1> QED
  BY <1>1, InitInv, StepInv, PTL DEF Spec

\* A kept session ends by an explicit destroy or with its lease (Session.Keep).
THEOREM OnPurpose == Spec => KeptEndsOnPurpose
<1>1. ASSUME IInv, [Next]_vars
      PROVE  [\A i \in Id \ late : Kept(i) /\ store'[i] = NoSession => i \in ended']_vars
  <2> SUFFICES ASSUME Next, NEW i \in Id, i \notin late, Kept(i), store'[i] = NoSession
               PROVE  i \in ended'
    BY <1>1
  <2> USE <1>1, NoSessionAssumption DEF IInv, TypeOK, Kept
  <2>1. CASE UNCHANGED store
    BY <2>1 DEF Recorded
  <2>2. ASSUME NEW d \in Proc, NEW j \in Id, Created(d, j) PROVE i \in ended'
    BY <2>2, CreatedEffect DEF Recorded
  <2>3. ASSUME NEW c \in Proc, Keep(c) PROVE i \in ended'
    <3>1. CASE UNCHANGED store
      BY <2>1, <3>1
    <3>2. ASSUME NEW s \in Session, store' = [store EXCEPT ![hand[c]] = s] PROVE i \in ended'
      BY <3>2 DEF Recorded
    <3> QED
      BY <2>3, <3>1, <3>2, KeepEffect
  <2>4. ASSUME NEW c \in Proc, Destroy(c) PROVE i \in ended'
    BY <2>1, <2>4 DEF Destroy, Gone, Recorded
  <2>5. ASSUME NEW c \in Proc, NEW j \in Id, CloseSession(c, j) PROVE i \in ended'
    BY <2>5 DEF CloseSession, Gone, Recorded
  <2>6. ASSUME NEW c \in Proc, RemoveTemp(c) PROVE i \in ended'
    BY <2>6 DEF RemoveTemp, LookedInv, Looked, Recorded
  <2>7. ASSUME NEW d \in Proc, CleanupUnkept(d) PROVE i \in ended'
    BY <2>7 DEF CleanupUnkept, Gone, Recorded
  <2>8. ASSUME NEW d \in Proc, NEW j \in Id, Expire(d, j) PROVE i \in ended'
    BY <2>8 DEF Expire, Gone, Recorded
  <2>9. ASSUME NEW c \in Proc, NEW j \in Id, Start(c, j) \/ StartFails(c, j) PROVE i \in ended'
    BY <2>1, <2>2, <2>9 DEF Start, StartFails, Serving
  <2>10. ASSUME NEW j \in Id, HandlerGoesOn(j) PROVE i \in ended'
    BY <2>2, <2>10 DEF HandlerGoesOn, Serving
  <2> QED
    BY <2>1, <2>3, <2>4, <2>5, <2>6, <2>7, <2>8, <2>9, <2>10
       DEF Next, ClientStep, DaemonStep, CheckAbsent, Launch, Dial, OpenPersistent, Resume, KeepFails, WriteRef,
           DestroyFails, RemoveRef, Close, Look, Interrupt, ParentGone, Exit, DaemonStops, ProcessDies
<1> QED
  BY <1>1, InitInv, StepInv, PTL DEF Spec, KeptEndsOnPurpose

\* Every variable keeps its type.
THEOREM TypeCorrect == Spec => []TypeOK
<1>1. IInv => TypeOK
  BY DEF IInv
<1> QED
  BY <1>1, InitInv, StepInv, PTL DEF Spec

=============================================================================
