---------------------------- MODULE FaultsProofs ----------------------------
(***************************************************************************)
(* Proofs about Faults: for any number of endpoints, faults, timeline      *)
(* actions and crashes, and whichever calls fail.                          *)
(***************************************************************************)
EXTENDS Faults, Integers, TLAPS

\* At most one active link-state fault per endpoint, which remembers what the
\* endpoint was without it.
LinkInv ==
    /\ \A f, g \in FaultIds :
          Active(f) /\ Active(g) /\ ledger[f].kind = "link-state" /\ ledger[g].kind = "link-state"
            /\ ledger[f].node = ledger[g].node => f = g
    /\ \A f \in FaultIds : Active(f) /\ ledger[f].kind = "link-state" => ledger[f].restoreUp = base[ledger[f].node]

\* Netem is installed where an active record says so.
NetemInv == \A n \in netem : ActiveOn("netem", n)

\* The request in hand works on an active record; once it has been reset, only
\* the save is missing.
JobInv ==
    /\ at # "idle" => job \in Job /\ Active(job.id)
    /\ at = "save" =>
         /\ ledger[job.id].kind = "link-state" => link[ledger[job.id].node] = ledger[job.id].restoreUp
         /\ ledger[job.id].kind = "netem" => ledger[job.id].node \notin netem

IInv == TypeOK /\ LinkInv /\ NetemInv /\ JobInv /\ LinkRestored

-----------------------------------------------------------------------------
LEMMA InitIInv == Init => IInv
<1> SUFFICES ASSUME Init PROVE IInv
  OBVIOUS
<1>1. TypeOK
  BY BoundAssumption DEF Init, TypeOK
<1>2. \A f \in FaultIds : ~Active(f)
  BY DEF Init, Active
<1>3. LinkInv /\ NetemInv /\ JobInv /\ LinkRestored
  BY <1>2 DEF Init, LinkInv, NetemInv, JobInv, LinkRestored
<1> QED
  BY <1>1, <1>3 DEF IInv

\* Steps that change neither the records nor the network preserve the
\* invariant once the request in hand is accounted for.
LEMMA QuietStep ==
    ASSUME IInv, UNCHANGED <<ledger, link, netem, base>>, TypeOK', JobInv'
    PROVE  IInv'
BY DEF IInv, LinkInv, NetemInv, LinkRestored, Active, ActiveOn

\* Front keeps the elements, whatever the length.
LEMMA FrontType == ASSUME NEW S, NEW s \in Seq(S) PROVE Front(s) \in Seq(S)
<1>1. CASE s = <<>>
  <2>1. 1 > Len(s) - 1
    BY <1>1
  <2>2. SubSeq(s, 1, Len(s) - 1) = <<>>
    BY <1>1, <2>1
  <2> QED
    BY <2>2 DEF Front
<1>2. CASE s # <<>>
  BY <1>2 DEF Front
<1> QED
  BY <1>1, <1>2

LEMMA TypeStep == IInv /\ [Next]_vars => TypeOK'
<1> SUFFICES ASSUME IInv, [Next]_vars PROVE TypeOK'
  OBVIOUS
<1> USE DEF IInv, TypeOK, JobInv, Job, Fault, Admin, network, timeline
<1>1. ASSUME NEW f \in FaultIds, NEW k \in Kinds, NEW n \in Nodes, NEW want \in Admin, NEW by \in Callers,
             PrepareFault(f, k, n, want, by)
      PROVE  TypeOK'
  BY <1>1 DEF PrepareFault, Counted, Callers, Kinds
<1>2. ASSUME NEW f \in FaultIds, NEW by \in {"client", "timeline"}, RevertFault(f, by) PROVE TypeOK'
  BY <1>2 DEF RevertFault, Counted, Active
<1>3. CASE TimelineStart
  BY <1>3 DEF TimelineStart
<1>4. CASE ApplyOK
  <2>1. job \in Job /\ ledger[job.id] \in Fault
    BY <1>4 DEF ApplyOK, Active
  <2>2. link' \in [Nodes -> Admin] /\ netem' \subseteq Nodes
    BY <1>4, <2>1 DEF ApplyOK, FaultEffect
  <2>3. created' \in Seq(FaultIds) /\ applied' \subseteq FaultIds
    <3>1. job.id \in FaultIds
      BY <2>1
    <3>2. Append(created, job.id) \in Seq(FaultIds)
      BY <3>1
    <3> QED
      BY <1>4, <3>1, <3>2 DEF ApplyOK
  <2> QED
    BY <1>4, <2>2, <2>3 DEF ApplyOK
<1>5. CASE ApplyFails
  BY <1>5 DEF ApplyFails, FaultEffect, Active
<1>6. CASE ResetOK
  BY <1>6 DEF ResetOK, ResetEffect, Active
<1>a. ASSUME NEW failed \in BOOLEAN, at # "idle", RevertReturns(failed)
      PROVE  /\ at' = "idle" /\ job' = NoJob /\ steps' \in Nat /\ crashes' \in Nat
             /\ tl' \in {"none", "running", "rollback", "done", "failed"}
             /\ created' \in Seq(FaultIds) /\ applied' \subseteq FaultIds /\ unreverted' \subseteq FaultIds
             /\ base' \in [Nodes -> Admin]
  BY <1>a, FrontType DEF RevertReturns
<1>7. CASE ResetFails
  <2>1. job \in Job /\ ledger[job.id] \in Fault
    BY <1>7 DEF ResetFails, Active
  <2>2. link' \in [Nodes -> Admin] /\ netem' \subseteq Nodes
    BY <1>7, <2>1 DEF ResetFails, ResetEffect
  <2> QED
    BY <1>7, <1>a, <2>2 DEF ResetFails
<1>8. CASE SaveRevert
  <2>1. job \in Job /\ ledger[job.id] \in Fault
    BY <1>8 DEF SaveRevert, Active
  <2>2. ledger' \in [FaultIds -> Fault \union {NoFault}]
    <3>1. [ledger[job.id] EXCEPT !.active = FALSE] \in Fault
      BY <2>1
    <3> HIDE DEF Fault
    <3> QED
      BY <1>8, <2>1, <3>1 DEF SaveRevert
  <2> QED
    BY <1>8, <1>a, <2>2 DEF SaveRevert
<1>9. CASE TimelineAct \/ TimelineAbort \/ TimelineEnd \/ RollbackEnd
  BY <1>9 DEF TimelineAct, TimelineAbort, TimelineEnd, RollbackEnd
<1>10. CASE Rollback
  BY <1>2, <1>10 DEF Rollback, Last
<1>11. CASE RollbackSkip
  BY <1>11 DEF RollbackSkip, Front
<1>12. ASSUME NEW n \in Nodes, NodeStops(n) PROVE TypeOK'
  BY <1>12 DEF NodeStops
<1>13. ASSUME NEW n \in Nodes, NEW state \in Admin, NEW kept \in BOOLEAN, NodeStarts(n, state, kept) PROVE TypeOK'
  BY <1>13 DEF NodeStarts
<1>14. CASE DaemonCrash
  BY <1>14 DEF DaemonCrash, FaultEffect, ResetEffect, Active
<1>15. CASE UNCHANGED vars
  BY <1>15 DEF vars
<1> HIDE DEF IInv, TypeOK, JobInv
<1> QED
  BY <1>1, <1>2, <1>3, <1>4, <1>5, <1>6, <1>7, <1>8, <1>9, <1>10, <1>11, <1>12, <1>13, <1>14, <1>15
     DEF Next, Requests, Handlers, Timeline, Runtime, Callers

\* The record of a request in hand.
LEMMA InHand == ASSUME IInv, at # "idle" PROVE job \in Job /\ job.id \in FaultIds /\ ledger[job.id] \in Fault
                                               /\ Active(job.id) /\ ledger[job.id].node \in Nodes
BY DEF IInv, TypeOK, JobInv, Job, Fault, Active

\* The network of an endpoint may change while its record is active, if the
\* records stay as they are.
LEMMA EffectStep ==
    ASSUME IInv, at # "idle", UNCHANGED <<ledger, base>>, TypeOK', JobInv',
           FaultEffect \/ ResetEffect \/ UNCHANGED <<link, netem>>
    PROVE  IInv'
<1>1. job.id \in FaultIds /\ ledger[job.id] \in Fault /\ Active(job.id) /\ ledger[job.id].node \in Nodes
  BY InHand
<1>2. \A f \in FaultIds : Active(f)' <=> Active(f)
  BY DEF Active
<1>3. LinkInv'
  BY <1>2 DEF IInv, LinkInv
<1>4. NetemInv'
  BY <1>1, <1>2 DEF IInv, NetemInv, ActiveOn, FaultEffect, ResetEffect, Fault
<1>5. LinkRestored'
  <2> SUFFICES ASSUME NEW n \in Nodes, ~ActiveOn("link-state", n)' PROVE link'[n] = base'[n]
    BY DEF LinkRestored
  <2>1. ~ActiveOn("link-state", n)
    BY <1>2 DEF ActiveOn
  <2>2. link[n] = base[n]
    BY <2>1 DEF IInv, LinkRestored
  <2>3. ledger[job.id].kind = "netem" \/ ledger[job.id].node # n
    BY <1>1, <2>1 DEF ActiveOn, Fault
  <2> QED
    BY <1>1, <2>2, <2>3 DEF FaultEffect, ResetEffect, IInv, TypeOK
<1> QED
  BY <1>3, <1>4, <1>5 DEF IInv

LEMMA NextIInv == IInv /\ [Next]_vars => IInv'
<1> SUFFICES ASSUME IInv, [Next]_vars PROVE IInv'
  OBVIOUS
<1>0. TypeOK'
  BY TypeStep
<1> USE <1>0, NullAssumption
<1>1. ASSUME NEW f \in FaultIds, NEW k \in Kinds, NEW n \in Nodes, NEW want \in Admin, NEW by \in Callers,
             PrepareFault(f, k, n, want, by)
      PROVE  IInv'
  <2> DEFINE r == [kind |-> k, node |-> n, restoreUp |-> IF k = "link-state" THEN link[n] ELSE "down", active |-> TRUE]
  <2>1. r \in Fault /\ r # NoFault
    <3>1. (IF k = "link-state" THEN link[n] ELSE "down") \in Admin
      BY DEF IInv, TypeOK, Admin
    <3>2. r \in Fault
      BY <3>1 DEF Fault, Kinds
    <3> QED
      BY <3>2
  <2>2. ledger' = [ledger EXCEPT ![f] = r] /\ ledger[f] = NoFault /\ UNCHANGED <<link, netem, base>>
    BY <1>1 DEF PrepareFault, network
  <2>3. /\ ~Active(f) /\ Active(f)' /\ ledger'[f] = r
        /\ \A g \in FaultIds : g # f => ledger'[g] = ledger[g] /\ (Active(g)' <=> Active(g))
    BY <2>1, <2>2 DEF Active, IInv, TypeOK
  <2>4. k = "link-state" => ~ActiveOn("link-state", n)
    BY <1>1 DEF PrepareFault, Applicable
  <2>5. LinkInv'
    BY <2>2, <2>3, <2>4 DEF IInv, LinkInv, LinkRestored, ActiveOn
  <2>6. NetemInv'
    BY <2>2, <2>3 DEF IInv, NetemInv, ActiveOn
  <2>7. JobInv'
    <3>1. by \in {"client", "timeline"}
      BY DEF Callers
    <3> QED
      BY <1>1, <2>3, <3>1 DEF PrepareFault, JobInv, Job
  <2>8. LinkRestored'
    BY <2>2, <2>3 DEF IInv, LinkRestored, ActiveOn
  <2> QED
    BY <2>5, <2>6, <2>7, <2>8 DEF IInv
<1>2. ASSUME NEW f \in FaultIds, NEW by \in {"client", "timeline"}, RevertFault(f, by) PROVE IInv'
  <2>1. JobInv'
    BY <1>2 DEF RevertFault, JobInv, Job, Active, IInv, TypeOK, Fault
  <2> QED
    BY <1>2, <2>1, QuietStep DEF RevertFault, network
<1>3. CASE TimelineStart \/ TimelineAct \/ TimelineAbort \/ TimelineEnd \/ RollbackSkip \/ RollbackEnd
  <2>1. UNCHANGED <<ledger, link, netem, base, at, job>>
    BY <1>3 DEF TimelineStart, TimelineAct, TimelineAbort, TimelineEnd, RollbackSkip, RollbackEnd, network
  <2>2. JobInv'
    BY <2>1 DEF IInv, JobInv, Active
  <2> QED
    BY <2>1, <2>2, QuietStep
<1>4. CASE ApplyOK \/ ApplyFails \/ ResetFails
  <2>1. at # "idle" /\ at' = "idle" /\ UNCHANGED <<ledger, base>>
    BY <1>4 DEF ApplyOK, ApplyFails, ResetFails, RevertReturns
  <2>2. FaultEffect \/ ResetEffect \/ UNCHANGED <<link, netem>>
    BY <1>4 DEF ApplyOK, ApplyFails, ResetFails
  <2>3. JobInv'
    BY <2>1 DEF JobInv
  <2> QED
    BY <2>1, <2>2, <2>3, EffectStep
<1>5. CASE ResetOK
  <2>1. at = "reset" /\ at' = "save" /\ ResetEffect /\ UNCHANGED <<ledger, base, job>>
    BY <1>5 DEF ResetOK
  <2>2. JobInv'
    BY <2>1, InHand DEF JobInv, ResetEffect, Active, IInv, TypeOK, Fault
  <2> QED
    BY <2>1, <2>2, EffectStep
<1>6. CASE SaveRevert
  <2>1. at = "save" /\ at' = "idle" /\ UNCHANGED <<link, netem, base>>
    BY <1>6 DEF SaveRevert, RevertReturns, network
  <2>2. JobInv'
    BY <2>1 DEF JobInv
  <2>3. CASE UNCHANGED ledger
    BY <2>1, <2>2, <2>3, QuietStep
  <2>4. CASE ledger' = [ledger EXCEPT ![job.id] = [@ EXCEPT !.active = FALSE]]
    <3>0. PICK d \in FaultIds : d = job.id
      BY <2>1, InHand
    <3>1. ledger[d] \in Fault /\ Active(d) /\ ledger[d].node \in Nodes
      BY <2>1, <3>0, InHand
    <3>2. ledger'[d] = [ledger[d] EXCEPT !.active = FALSE] /\ ~Active(d)'
      <4>1. ledger'[d] = [ledger[d] EXCEPT !.active = FALSE]
        BY <2>4, <3>0, <3>1 DEF IInv, TypeOK
      <4>2. [ledger[d] EXCEPT !.active = FALSE].active = FALSE
        BY <3>1 DEF Fault
      <4> QED
        BY <4>1, <4>2 DEF Active
    <3>3. \A g \in FaultIds : g # d => ledger'[g] = ledger[g] /\ (Active(g)' <=> Active(g))
      BY <2>4, <3>0 DEF Active, IInv, TypeOK
    <3>4. LinkInv'
      <4>1. \A f \in FaultIds : Active(f)' => f # d /\ Active(f) /\ ledger'[f] = ledger[f]
        BY <3>2, <3>3
      <4> QED
        BY <2>1, <4>1 DEF IInv, LinkInv
    <3>5. NetemInv'
      BY <2>1, <3>0, <3>1, <3>2, <3>3 DEF IInv, NetemInv, JobInv, ActiveOn
    <3>6. LinkRestored'
      BY <2>1, <3>0, <3>1, <3>2, <3>3 DEF IInv, LinkRestored, LinkInv, JobInv, ActiveOn
    <3> QED
      BY <2>2, <3>4, <3>5, <3>6 DEF IInv
  <2> QED
    BY <1>6, <2>3, <2>4 DEF SaveRevert
<1>7. CASE Rollback
  <2>1. Last(created) \in FaultIds
    BY <1>7 DEF Rollback, Last, IInv, TypeOK
  <2> QED
    BY <1>2, <1>7, <2>1 DEF Rollback
<1>8. ASSUME NEW n \in Nodes, NodeStops(n) PROVE IInv'
  <2>1. UNCHANGED <<ledger, link, netem, base, at, job>>
    BY <1>8 DEF NodeStops
  <2>2. JobInv'
    BY <2>1 DEF IInv, JobInv, Active
  <2> QED
    BY <2>1, <2>2, QuietStep
<1>9. ASSUME NEW n \in Nodes, NEW state \in Admin, NEW kept \in BOOLEAN, NodeStarts(n, state, kept) PROVE IInv'
  <2>1. at = "idle" /\ at' = "idle" /\ UNCHANGED ledger /\ netem' \subseteq netem /\ link' = [link EXCEPT ![n] = state]
    BY <1>9 DEF NodeStarts
  <2>2. base' = IF ActiveOn("link-state", n) THEN base ELSE [base EXCEPT ![n] = state]
    BY <1>9 DEF NodeStarts
  <2>3. \A f \in FaultIds : Active(f)' <=> Active(f)
    BY <2>1 DEF Active
  <2>4. \A f \in FaultIds : Active(f) /\ ledger[f].kind = "link-state" => base'[ledger[f].node] = base[ledger[f].node]
    BY <2>2 DEF ActiveOn, IInv, TypeOK
  <2>5. LinkInv'
    BY <2>1, <2>3, <2>4 DEF IInv, LinkInv
  <2>6. NetemInv' /\ JobInv'
    BY <2>1, <2>3 DEF IInv, NetemInv, JobInv, ActiveOn
  <2>7. LinkRestored'
    BY <2>1, <2>2, <2>3 DEF IInv, TypeOK, LinkRestored, ActiveOn
  <2> QED
    BY <2>5, <2>6, <2>7 DEF IInv
<1>10. CASE DaemonCrash
  <2>1. at' = "idle" /\ UNCHANGED <<ledger, base>> /\ JobInv'
    BY <1>10 DEF DaemonCrash, JobInv
  <2>2. CASE at = "idle"
    <3>1. UNCHANGED <<link, netem>>
      BY <1>10, <2>2 DEF DaemonCrash
    <3> QED
      BY <2>1, <3>1, QuietStep
  <2>3. CASE at # "idle"
    BY <1>10, <2>1, <2>3, EffectStep DEF DaemonCrash
  <2> QED
    BY <2>2, <2>3
<1>11. CASE UNCHANGED vars
  <2>1. UNCHANGED <<ledger, link, netem, base, at, job>>
    BY <1>11 DEF vars
  <2>2. JobInv'
    BY <2>1 DEF IInv, JobInv, Active
  <2> QED
    BY <2>1, <2>2, QuietStep
<1> QED
  BY <1>1, <1>2, <1>3, <1>4, <1>5, <1>6, <1>7, <1>8, <1>9, <1>10, <1>11
     DEF Next, Requests, Handlers, Timeline, Runtime, Callers

LEMMA Inductive == Spec => []IInv
BY InitIInv, NextIInv, PTL DEF Spec

\* Every reachable state of the fault machinery is well typed.
THEOREM TypeCorrect == Spec => []TypeOK
BY Inductive, PTL DEF IInv

\* Reverting the faults on an endpoint always brings back the administrative
\* state observed before them.
THEOREM Restored == Spec => []LinkRestored
BY Inductive, PTL DEF IInv

(***************************************************************************)
(* Refinement of RollbackDuty.                                             *)
(***************************************************************************)

\* The invariant says it all: only endpoints with an active record deviate.
LEMMA DeviatedHasDuty == IInv => Deviated \subseteq Duty /\ Deviated \subseteq Nodes
BY DEF IInv, TypeOK, NetemInv, LinkRestored, Deviated, Duty, Kinds, ActiveOn

LEMMA DutyStep == IInv /\ IInv' /\ [Next]_vars => [Duties!Next]_<<Duty, Deviated>>
<1> SUFFICES ASSUME IInv, IInv', [Next]_vars PROVE Duties!Next \/ UNCHANGED <<Duty, Deviated>>
  OBVIOUS
<1>1. Deviated \subseteq Duty /\ Deviated' \subseteq Duty' /\ Deviated' \subseteq Nodes /\ Duty' \subseteq Nodes
  <2>1. (IInv => Deviated \subseteq Duty /\ Deviated \subseteq Nodes)'
    BY DeviatedHasDuty, PTL
  <2>2. Duty' \subseteq Nodes
    BY DEF Duty
  <2> QED
    BY <2>1, <2>2, DeviatedHasDuty
<1>2. CASE UNCHANGED ledger
  <2>1. Duty' = Duty
    BY <1>2 DEF Duty, ActiveOn, Active
  <2>2. Duties!Tamper
    BY <1>1, <2>1 DEF Duties!Tamper
  <2> QED
    BY <2>2 DEF Duties!Next
<1>3. ASSUME NEW f \in FaultIds, NEW k \in Kinds, NEW n \in Nodes, NEW want \in Admin, NEW by \in Callers,
             PrepareFault(f, k, n, want, by)
      PROVE  Duties!Next
  <2>1. UNCHANGED Deviated
    BY <1>3 DEF PrepareFault, Deviated, network
  <2>2. \A g \in FaultIds : Active(g) => ledger'[g] = ledger[g]
    BY <1>3 DEF PrepareFault, Active, IInv, TypeOK
  <2>3. Duty \subseteq Duty'
    BY <2>2 DEF Duty, ActiveOn, Active
  <2> QED
    BY <1>1, <2>1, <2>3 DEF Duties!Next, Duties!Incur
<1>4. CASE SaveRevert /\ ~UNCHANGED ledger
  <2>0. at # "idle" /\ ledger' = [ledger EXCEPT ![job.id] = [@ EXCEPT !.active = FALSE]] /\ UNCHANGED <<link, netem, base>>
    BY <1>4 DEF SaveRevert, RevertReturns, network
  <2>1. UNCHANGED Deviated
    BY <2>0 DEF Deviated
  <2>2. PICK d \in FaultIds : d = job.id /\ ledger[d] \in Fault
    BY <2>0, InHand
  <2>3. \A g \in FaultIds : g # d => ledger'[g] = ledger[g]
    BY <2>0, <2>2 DEF IInv, TypeOK
  <2>4. ~Active(d)'
    <3>1. ledger'[d] = [ledger[d] EXCEPT !.active = FALSE]
      BY <2>0, <2>2 DEF IInv, TypeOK
    <3>2. [ledger[d] EXCEPT !.active = FALSE].active = FALSE
      BY <2>2 DEF Fault
    <3> QED
      BY <3>1, <3>2 DEF Active
  <2>5. Duty' \subseteq Duty
    BY <2>3, <2>4 DEF Duty, ActiveOn, Active
  <2> QED
    BY <1>1, <2>1, <2>5 DEF Duties!Next, Duties!Discharge
<1> QED
  BY <1>2, <1>3, <1>4 DEF Next, Requests, Handlers, Timeline, Runtime, RevertFault, TimelineStart, ApplyOK, ApplyFails,
     ResetOK, ResetFails, TimelineAct, TimelineAbort, TimelineEnd, Rollback, RollbackSkip, RollbackEnd, NodeStops,
     NodeStarts, DaemonCrash, vars

\* The write-ahead records implement the rollback duty.
THEOREM Implements == Spec => ImplementsDuty
<1>1. Init => Duties!Init
  BY DEF Init, Duties!Init, Duty, Deviated, ActiveOn, Active
<1> QED
  BY <1>1, Inductive, DutyStep, PTL DEF Spec, ImplementsDuty, Duties!Spec

(***************************************************************************)
(* The rollback of a failed timeline.                                      *)
(***************************************************************************)
Listed(f) == \E k \in 1 .. Len(created) : created[k] = f

\* While the timeline runs or rolls back, an active fault it applied is still
\* in `created`, or its revert failed; the fault being reverted by the
\* rollback is the last of the list.
RollInv ==
    /\ \A f \in applied : ledger[f] # NoFault
    /\ tl \in {"running", "rollback"} => \A f \in applied : Active(f) => f \in unreverted \/ Listed(f)
    /\ at # "idle" /\ job.by = "timeline" => tl \in {"running", "rollback"}
    /\ at = "apply" /\ job.by = "timeline" => tl = "running"
    /\ at # "idle" /\ job.by = "timeline" /\ tl = "rollback" => created # <<>> /\ Last(created) = job.id
    /\ RollbackComplete

\* Dropping the last element loses nothing else.
LEMMA FrontKeeps ==
    ASSUME NEW s \in Seq(FaultIds), s # <<>>, NEW k \in 1 .. Len(s), s[k] # Last(s)
    PROVE  \E l \in 1 .. Len(Front(s)) : Front(s)[l] = s[k]
<1>1. k \in 1 .. Len(s) - 1
  BY DEF Last
<1>2. Len(Front(s)) = Len(s) - 1 /\ Front(s)[k] = s[k]
  BY <1>1 DEF Front
<1> QED
  BY <1>1, <1>2

\* Records do not vanish, and an inactive one stays inactive.
LEMMA LedgerStep ==
    ASSUME IInv, Next, NEW f \in FaultIds, ledger[f] # NoFault
    PROVE  ledger'[f] # NoFault /\ (Active(f)' => Active(f))
<1> USE NullAssumption
<1>1. CASE UNCHANGED ledger
  BY <1>1 DEF Active
<1>2. ASSUME NEW g \in FaultIds, NEW k \in Kinds, NEW n \in Nodes, NEW want \in Admin, NEW by \in Callers,
             PrepareFault(g, k, n, want, by)
      PROVE  ledger'[f] = ledger[f]
  BY <1>2 DEF PrepareFault, IInv, TypeOK
<1>3. ASSUME SaveRevert, ~UNCHANGED ledger
      PROVE  ledger'[f] # NoFault /\ (Active(f)' => Active(f))
  <2>1. at # "idle" /\ ledger' = [ledger EXCEPT ![job.id] = [@ EXCEPT !.active = FALSE]]
    BY <1>3 DEF SaveRevert
  <2>2. PICK d \in FaultIds : d = job.id /\ ledger[d] \in Fault /\ Active(d)
    BY <2>1, InHand
  <2>3. [ledger[d] EXCEPT !.active = FALSE] \in Fault
    BY <2>2 DEF Fault
  <2>4. f # d => ledger'[f] = ledger[f]
    BY <2>1, <2>2 DEF IInv, TypeOK
  <2>5. ledger'[d] \in Fault
    BY <2>1, <2>2, <2>3 DEF IInv, TypeOK
  <2> QED
    BY <2>2, <2>4, <2>5 DEF Active
<1> QED
  BY <1>1, <1>2, <1>3 DEF Active, Next, Requests, Handlers, Timeline, Runtime, RevertFault, TimelineStart, ApplyOK,
     ApplyFails, ResetOK, ResetFails, TimelineAct, TimelineAbort, TimelineEnd, Rollback, RollbackSkip, RollbackEnd,
     NodeStops, NodeStarts, DaemonCrash

LEMMA RollStep == IInv /\ RollInv /\ [Next]_vars => RollInv'
<1> SUFFICES ASSUME IInv, RollInv, Next PROVE RollInv'
  BY DEF vars, RollInv, Active, Listed, RollbackComplete
<1>1. \A f \in FaultIds : ledger[f] # NoFault => ledger'[f] # NoFault /\ (Active(f)' => Active(f))
  BY LedgerStep
<1>2. applied \subseteq FaultIds /\ unreverted \subseteq FaultIds /\ created \in Seq(FaultIds)
  BY DEF IInv, TypeOK
\* The bookkeeping of the timeline is as it was; only its request may change.
<1> DEFINE SameBooks == UNCHANGED <<tl, created, applied, unreverted>>
           RequestOK == /\ at # "idle" /\ job.by = "timeline" => tl \in {"running", "rollback"}
                        /\ at = "apply" /\ job.by = "timeline" => tl = "running"
                        /\ at # "idle" /\ job.by = "timeline" /\ tl = "rollback"
                             => created # <<>> /\ Last(created) = job.id
<1>3. ASSUME SameBooks, RequestOK' PROVE RollInv'
  BY <1>1, <1>2, <1>3 DEF RollInv, RollbackComplete, Listed
<1>4. ASSUME NEW f \in FaultIds, NEW k \in Kinds, NEW n \in Nodes, NEW want \in Admin, NEW by \in Callers,
             PrepareFault(f, k, n, want, by)
      PROVE  RollInv'
  BY <1>3, <1>4 DEF PrepareFault, Callers
<1>5. ASSUME NEW f \in FaultIds, NEW by \in Callers, RevertFault(f, by) PROVE RollInv'
  BY <1>3, <1>5 DEF RevertFault, Callers
<1>6. CASE TimelineAct
  BY <1>3, <1>6 DEF TimelineAct, RollInv
<1>7. CASE ResetOK
  BY <1>3, <1>7 DEF ResetOK, RollInv, timeline
<1>8. ASSUME NEW n \in Nodes, NodeStops(n) PROVE RollInv'
  BY <1>3, <1>8 DEF NodeStops, RollInv, timeline
<1>9. ASSUME NEW n \in Nodes, NEW state \in Admin, NEW kept \in BOOLEAN, NodeStarts(n, state, kept) PROVE RollInv'
  BY <1>3, <1>9 DEF NodeStarts, RollInv, timeline
<1>10. CASE Rollback
  BY <1>3, <1>10 DEF Rollback, RevertFault
\* A request in hand that is not the timeline's stays so.
<1>11. TimelineFree /\ at # "idle" => job.by # "timeline"
  BY NullAssumption DEF TimelineFree, IInv, JobInv
<1>12. CASE TimelineStart
  BY <1>12 DEF TimelineStart, RollInv, RollbackComplete
<1>13. CASE TimelineAbort
  BY <1>1, <1>2, <1>11, <1>13 DEF TimelineAbort, RollInv, RollbackComplete, Listed
<1>14. CASE TimelineEnd
  BY <1>1, <1>2, <1>11, <1>14 DEF TimelineEnd, RollInv, RollbackComplete
<1>15. CASE ApplyOK
  <2>1. CASE job.by # "timeline"
    BY <1>3, <1>15, <2>1 DEF ApplyOK
  <2>2. CASE job.by = "timeline"
    <3>1. job.id \in FaultIds /\ ledger[job.id] # NoFault /\ tl = "running"
      BY <1>15, <2>2, InHand DEF ApplyOK, Active, RollInv
    <3>2. /\ created' = Append(created, job.id) /\ applied' = applied \union {job.id} /\ at' = "idle"
          /\ UNCHANGED <<ledger, tl, unreverted>>
      BY <1>15, <2>2 DEF ApplyOK
    <3>3. Len(created') = Len(created) + 1 /\ created'[Len(created) + 1] = job.id
          /\ \A k \in 1 .. Len(created) : created'[k] = created[k]
      BY <1>2, <3>1, <3>2
    <3>4. \A f \in FaultIds : Listed(f) => Listed(f)'
      BY <1>2, <3>3 DEF Listed
    <3>5. ASSUME NEW f \in applied', Active(f)' PROVE f \in unreverted' \/ Listed(f)'
      <4>1. CASE f = job.id
        BY <1>2, <3>3, <4>1 DEF Listed
      <4>2. CASE f # job.id
        BY <1>2, <3>1, <3>2, <3>4, <3>5, <4>2 DEF RollInv, Active
      <4> QED
        BY <4>1, <4>2
    <3> QED
      BY <3>1, <3>2, <3>5 DEF RollInv, RollbackComplete
  <2> QED
    BY <2>1, <2>2
<1>16. CASE ApplyFails
  BY <1>1, <1>2, <1>16 DEF ApplyFails, RollInv, RollbackComplete, Listed
<1>17. ASSUME RollbackSkip PROVE RollInv'
  <2>1. /\ tl = "rollback" /\ at = "idle" /\ created # <<>> /\ ~Active(Last(created)) /\ created' = Front(created)
        /\ UNCHANGED <<ledger, tl, at, applied, unreverted>>
    BY <1>17 DEF RollbackSkip
  <2>2. ASSUME NEW f \in applied, Active(f), f \notin unreverted PROVE Listed(f)'
    <3>1. PICK k \in 1 .. Len(created) : created[k] = f
      BY <2>1, <2>2 DEF RollInv, Listed
    <3> QED
      BY <1>2, <2>1, <2>2, <3>1, FrontKeeps DEF Listed
  <2> QED
    BY <1>1, <1>2, <2>1, <2>2 DEF RollInv, RollbackComplete, Active
<1>18. CASE RollbackEnd
  <2>1. \A f \in FaultIds : ~Listed(f)
    BY <1>18 DEF RollbackEnd, Listed
  <2>2. at # "idle" => job.by # "timeline"
    BY <1>18 DEF RollbackEnd, RollInv
  <2> QED
    BY <1>1, <1>2, <1>18, <2>1, <2>2 DEF RollbackEnd, RollInv, RollbackComplete
<1>19. ASSUME NEW failed \in BOOLEAN, NEW d \in FaultIds, d = job.id, at # "idle",
              RevertReturns(failed), failed \/ ~Active(d)'
       PROVE  RollInv'
  <2>0. UNCHANGED applied
    BY <1>19 DEF RevertReturns
  <2>1. CASE job.by = "timeline" /\ tl = "rollback"
    <3>1. created' = Front(created) /\ at' = "idle" /\ UNCHANGED tl
          /\ unreverted' = IF failed THEN unreverted \union {d} ELSE unreverted
      BY <1>19, <2>0, <2>1 DEF RevertReturns
    <3>2. created # <<>> /\ Last(created) = d
      BY <1>19, <2>0, <2>1 DEF RollInv
    <3>3. ASSUME NEW f \in applied, Active(f)', f \notin unreverted' PROVE Listed(f)'
      <4>1. Active(f) /\ f \notin unreverted
        BY <1>1, <1>2, <3>1, <3>3 DEF RollInv
      <4>2. f # d
        BY <1>19, <2>0, <3>1, <3>3 DEF Active
      <4>3. PICK k \in 1 .. Len(created) : created[k] = f
        BY <2>1, <4>1 DEF RollInv, Listed
      <4> QED
        BY <1>2, <3>1, <3>2, <4>2, <4>3, FrontKeeps DEF Listed
    <3> QED
      BY <1>1, <1>2, <2>0, <2>1, <3>1, <3>3 DEF RollInv, RollbackComplete
  <2>2. CASE ~(job.by = "timeline" /\ tl = "rollback")
    <3>1. at' = "idle" /\ UNCHANGED <<created, unreverted>> /\ (tl' = tl \/ (tl = "running" /\ tl' = "rollback"))
      BY <1>19, <2>2, InHand DEF RevertReturns, RollInv, Job
    <3> QED
      BY <1>1, <1>2, <2>0, <3>1 DEF RollInv, RollbackComplete, Listed
  <2> QED
    BY <2>1, <2>2
<1>20. CASE ResetFails
  BY <1>19, <1>20, InHand DEF ResetFails
<1>21. CASE SaveRevert
  <2>1. at # "idle"
    BY <1>21 DEF SaveRevert
  <2>2. PICK d \in FaultIds : d = job.id /\ ledger[d] \in Fault
    BY <2>1, InHand
  <2>3. CASE RevertReturns(TRUE)
    BY <1>19, <2>1, <2>2, <2>3
  <2>4. CASE ledger' = [ledger EXCEPT ![job.id] = [@ EXCEPT !.active = FALSE]] /\ RevertReturns(FALSE)
    <3>1. ledger'[d] = [ledger[d] EXCEPT !.active = FALSE]
      BY <2>2, <2>4 DEF IInv, TypeOK
    <3>2. [ledger[d] EXCEPT !.active = FALSE].active = FALSE
      BY <2>2 DEF Fault
    <3>3. ~Active(d)'
      BY <3>1, <3>2 DEF Active
    <3> QED
      BY <1>19, <2>1, <2>2, <2>4, <3>3
  <2> QED
    BY <1>21, <2>3, <2>4 DEF SaveRevert
<1>22. CASE DaemonCrash
  BY <1>22 DEF DaemonCrash, RollInv, RollbackComplete
<1> QED
  BY <1>4, <1>5, <1>6, <1>7, <1>8, <1>9, <1>10, <1>12, <1>13, <1>14, <1>15, <1>16, <1>17, <1>18, <1>20, <1>21, <1>22
     DEF Next, Requests, Handlers, Timeline, Runtime

\* A failed timeline leaves active only faults whose revert failed.
THEOREM RolledBack == Spec => []RollbackComplete
<1>1. Init => RollInv
  BY DEF Init, RollInv, RollbackComplete
<1>2. RollInv => RollbackComplete
  BY DEF RollInv
<1> QED
  BY <1>1, <1>2, Inductive, RollStep, PTL DEF Spec

=============================================================================
