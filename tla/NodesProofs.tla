---------------------------- MODULE NodesProofs ----------------------------
(***************************************************************************)
(* Proofs about Nodes: for every set of nodes, whichever calls fail,       *)
(* wherever the daemon dies, and for any number of requests.               *)
(***************************************************************************)
EXTENDS Nodes, TLAPS

Replacing == {"removed", "pending", "truncated", "booted", "reset", "replaced"}
Applying == {"draft", "reconcile", "deployed"}

(***************************************************************************)
(* The inductive invariant: what each point of the mutex holder means.     *)
(***************************************************************************)
\* What the locals are.  A node that is being replaced has no container.
WorkInv ==
    /\ at = "acted" => work \in [node : Node, action : Actions, flag : BOOLEAN] /\ work.node \in Known
    /\ at \in Replacing =>
         /\ work \in [node : Node, action : {"replace"}, flag : BOOLEAN]
         /\ work.node \in Known /\ box[work.node] = "none"
    /\ at = "deployed" => work \in [action : {"apply"}, flag : BOOLEAN]

DraftInv ==
    /\ at = "truncated" => draft \in Topology
    /\ at \in Applying =>
         /\ draft \in Topology /\ topo = draft
         /\ before \in Topology \union {Torn}
         /\ approved \in Impact
         /\ faults = {}

\* While Containerlab is at work the record has the nodes of both topologies, and
\* after a success no container is left that the new one has not.
ReconcileInv ==
    /\ at \in {"reconcile", "deployed"} => draft.nodes \subseteq Known
    /\ at = "deployed" /\ ~work.flag => There \subseteq draft.nodes

\* A topology with the attachments that the record has of its nodes.
Carries(t) == t # Torn => /\ rec.disk \intersect t.nodes \subseteq t.disk
                          /\ rec.boot \intersect t.nodes \subseteq t.boot

\* So are the topologies that a handler may yet write back, and bootstrap data
\* is bound before it is recorded.
CarryInv ==
    /\ at = "draft" => Carries(before)
    /\ at = "truncated" => Carries(draft) /\ work.node \in draft.boot
    /\ at \in {"booted", "reset", "replaced"} /\ work.flag =>
         (topo # Torn /\ work.node \in topo.nodes => work.node \in topo.boot)

\* What is left of the plan is approved, though containers may have vanished.
PlanInv ==
    at = "reconcile" =>
        /\ ImpactOf(topo).remove \subseteq approved.remove
        /\ ImpactOf(topo).recreate \subseteq approved.recreate

IInv == /\ TypeOK /\ WorkInv /\ DraftInv /\ ReconcileInv /\ CarryInv /\ PlanInv
        /\ RuntimeKnown /\ FaultsKnown /\ AttachmentsPreserved

\* A new session satisfies the invariant.
LEMMA InitIInv == Init => IInv
<1> SUFFICES ASSUME Init PROVE IInv
  OBVIOUS
<1> USE CreatedAssumption DEF Init, DiskPlan, BootstrapPlan
<1>1. topo \in Topology /\ topo.disk \subseteq topo.nodes /\ topo.boot \subseteq topo.nodes
  OBVIOUS
<1>2. TypeOK
  BY <1>1 DEF TypeOK, Topology, Record, NodeState, Points
<1>3. WorkInv /\ DraftInv /\ ReconcileInv /\ CarryInv /\ PlanInv
  BY DEF WorkInv, DraftInv, ReconcileInv, CarryInv, PlanInv, Replacing, Applying
<1>4. RuntimeKnown /\ FaultsKnown
  BY DEF RuntimeKnown, FaultsKnown, There, Known
<1>5. AttachmentsPreserved
  BY <1>1 DEF AttachmentsPreserved, There
<1>6. QED
  BY <1>2, <1>3, <1>4, <1>5 DEF IInv

\* Every step keeps the types.
LEMMA StepType ==
    ASSUME IInv, Next
    PROVE  TypeOK'
<1> USE DEF IInv, TypeOK, Topology, Record, Impact, NodeState, Work, Actions, Points, WorkInv,
        DraftInv, Replacing, Applying
<1>1. \A n \in Node, a \in Actions : Lifecycle(n, a) => TypeOK'
  BY DEF Lifecycle, Enter, Containers, Outcomes, CrashOutcomes, files
<1>2. \A n \in Node, boot \in BOOLEAN : RemoveNode(n, boot) => TypeOK'
  BY SMTT(60) DEF RemoveNode, Enter, Removal, Containers, Save, SetState, Return
<1>3. \A n \in Node : ApplyFault(n) => TypeOK'
  BY DEF ApplyFault, Enter, runtime, locals
<1>4. \A n \in Node : RevertFault(n) => TypeOK'
  BY DEF RevertFault, runtime, locals
<1>5. \A n \in Node : Vanish(n) => TypeOK'
  BY DEF Vanish, Containers, files, locals
<1>6. LifecycleDone => TypeOK'
  BY DEF LifecycleDone, Save, SetState, Return, runtime
<1>7. SavePending => TypeOK'
  BY DEF SavePending, SaveRemoved, SetState, Return, runtime, locals
<1>8. ConfigureBootstrap => TypeOK'
  BY DEF ConfigureBootstrap, Return, runtime, locals
<1>9. BootstrapWritten => TypeOK'
  BY DEF BootstrapWritten, Return, runtime, locals
<1>10. ValidateUpdated => TypeOK'
  BY DEF ValidateUpdated, Return, runtime, locals, files
<1>11. ResetDisks => TypeOK'
  BY DEF ResetDisks, Return, locals, files
<1>12. ReplaceDone => TypeOK'
  BY DEF ReplaceDone, Save, Return, runtime
<1>13. PlanTopology => TypeOK'
  BY DEF PlanTopology, Requested, PrepareDraft, ImpactOf, There, files, runtime, locals
<1>14. ApplyTopology => TypeOK'
  BY DEF ApplyTopology, Enter, WriteDraft, Requested, PrepareDraft, runtime
<1>15. Refuse => TypeOK'
  BY DEF Refuse, Return, runtime
<1>16. Reconcile => TypeOK'
  <2> SUFFICES ASSUME Reconcile PROVE TypeOK'
    OBVIOUS
  <2>1. rec' = [state |-> "reconciling", nodes |-> WithDraftNodes, disk |-> rec.disk, boot |-> rec.boot]
    BY DEF Reconcile, Proceed, Record
  <2>2. UNCHANGED <<topo, faults, box, made, disk, plan, requests, work, draft, before, approved>>
    BY DEF Reconcile, Proceed, runtime, locals
  <2>3. at = "draft" /\ at' = "reconcile"
    BY DEF Reconcile, Proceed
  <2>4. WithDraftNodes \in [Node -> NodeState] /\ Known' = Known \union draft.nodes
    BY <2>1, <2>3 DEF WithDraftNodes, Known, NodeState, Record, Topology, DraftInv, Applying
  <2>5. rec' \in Record
    BY <2>1, <2>4 DEF Record
  <2>6. QED
    BY <2>2, <2>3, <2>5 DEF TypeOK, Points
<1>17. Deploy => TypeOK'
  BY SMTT(60) DEF Deploy, Containers, ImpactOf, files
<1>18. ApplyDone => TypeOK'
  BY DEF ApplyDone, Save, Return, runtime
<1>19. DaemonCrash => TypeOK'
  BY DEF DaemonCrash, Return, files, runtime
<1>20. QED
  BY <1>1, <1>2, <1>3, <1>4, <1>5, <1>6, <1>7, <1>8, <1>9, <1>10,
     <1>11, <1>12, <1>13, <1>14, <1>15, <1>16, <1>17, <1>18, <1>19 DEF Next

\* Every handler leaves its locals as its next step expects them.
LEMMA StepWork ==
    ASSUME IInv, TypeOK', Next
    PROVE  (WorkInv /\ DraftInv)'
<1> USE DEF IInv, TypeOK, WorkInv, DraftInv, Replacing, Applying, Actions, Topology, Record,
        Impact, NodeState, Known
<1>1. \A n \in Node, a \in Actions : Lifecycle(n, a) => (WorkInv /\ DraftInv)'
  BY DEF Lifecycle, Enter, Containers, Outcomes, CrashOutcomes, files
<1>2. \A n \in Node, boot \in BOOLEAN : RemoveNode(n, boot) => (WorkInv /\ DraftInv)'
  BY SMTT(60) DEF RemoveNode, Enter, Removal, Containers, Save, SetState, Return
<1>3. \A n \in Node : ApplyFault(n) => (WorkInv /\ DraftInv)'
  BY DEF ApplyFault, Enter, runtime, locals
<1>4. \A n \in Node : RevertFault(n) => (WorkInv /\ DraftInv)'
  BY DEF RevertFault, runtime, locals
<1>5. \A n \in Node : Vanish(n) => (WorkInv /\ DraftInv)'
  BY DEF Vanish, Containers, files, locals
<1>6. LifecycleDone => (WorkInv /\ DraftInv)'
  BY DEF LifecycleDone, Save, SetState, Return, runtime
<1>7. SavePending => (WorkInv /\ DraftInv)'
  BY DEF SavePending, SaveRemoved, SetState, Return, runtime, locals
<1>8. ConfigureBootstrap => (WorkInv /\ DraftInv)'
  BY DEF ConfigureBootstrap, Return, runtime, locals
<1>9. BootstrapWritten => (WorkInv /\ DraftInv)'
  BY DEF BootstrapWritten, Return, runtime, locals
<1>10. ValidateUpdated => (WorkInv /\ DraftInv)'
  BY DEF ValidateUpdated, Return, runtime, locals, files
<1>11. ResetDisks => (WorkInv /\ DraftInv)'
  BY DEF ResetDisks, Return, locals, files
<1>12. ReplaceDone => (WorkInv /\ DraftInv)'
  BY DEF ReplaceDone, Save, Return, runtime
<1>13. PlanTopology => (WorkInv /\ DraftInv)'
  BY DEF PlanTopology, Requested, PrepareDraft, ImpactOf, There, files, runtime, locals
<1>14. ApplyTopology => (WorkInv /\ DraftInv)'
  BY DEF ApplyTopology, Enter, WriteDraft, Requested, PrepareDraft, runtime
<1>15. Refuse => (WorkInv /\ DraftInv)'
  BY DEF Refuse, Return, runtime
<1>16. Reconcile => (WorkInv /\ DraftInv)'
  <2> SUFFICES ASSUME Reconcile PROVE (WorkInv /\ DraftInv)'
    OBVIOUS
  <2>1. rec' = [state |-> "reconciling", nodes |-> WithDraftNodes, disk |-> rec.disk, boot |-> rec.boot]
    BY DEF Reconcile, Proceed, Record
  <2>2. UNCHANGED <<topo, faults, box, made, disk, plan, requests, work, draft, before, approved>>
    BY DEF Reconcile, Proceed, runtime, locals
  <2>3. at = "draft" /\ at' = "reconcile"
    BY DEF Reconcile, Proceed
  <2>4. WithDraftNodes \in [Node -> NodeState] /\ Known' = Known \union draft.nodes
    BY <2>1, <2>3 DEF WithDraftNodes, Known, NodeState, Record, Topology, DraftInv, Applying
  <2>5. QED
    BY <2>2, <2>3, <2>4 DEF WorkInv, DraftInv, Replacing, Applying
<1>17. Deploy => (WorkInv /\ DraftInv)'
  BY SMTT(60) DEF Deploy, Containers, ImpactOf, files
<1>18. ApplyDone => (WorkInv /\ DraftInv)'
  BY DEF ApplyDone, Save, Return, runtime
<1>19. DaemonCrash => (WorkInv /\ DraftInv)'
  BY DEF DaemonCrash, Return, files, runtime
<1>20. QED
  BY <1>1, <1>2, <1>3, <1>4, <1>5, <1>6, <1>7, <1>8, <1>9, <1>10,
     <1>11, <1>12, <1>13, <1>14, <1>15, <1>16, <1>17, <1>18, <1>19 DEF Next

\* Every container and every fault has its node in the record.
LEMMA StepKnown ==
    ASSUME IInv, TypeOK', (WorkInv /\ DraftInv)', Next
    PROVE  (ReconcileInv /\ RuntimeKnown /\ FaultsKnown)'
<1> USE DEF IInv, TypeOK, WorkInv, DraftInv, ReconcileInv, RuntimeKnown, FaultsKnown, Replacing,
        Applying, Topology, Record, Known, There
<1>1. \A n \in Node, a \in Actions : Lifecycle(n, a) => (ReconcileInv /\ RuntimeKnown /\ FaultsKnown)'
  BY DEF Lifecycle, Enter, Containers, Outcomes, CrashOutcomes, files
<1>2. \A n \in Node, boot \in BOOLEAN : RemoveNode(n, boot) => (ReconcileInv /\ RuntimeKnown /\ FaultsKnown)'
  BY SMTT(60) DEF RemoveNode, Enter, Removal, Containers, Save, SetState, Return
<1>3. \A n \in Node : ApplyFault(n) => (ReconcileInv /\ RuntimeKnown /\ FaultsKnown)'
  BY DEF ApplyFault, Enter, runtime, locals
<1>4. \A n \in Node : RevertFault(n) => (ReconcileInv /\ RuntimeKnown /\ FaultsKnown)'
  BY DEF RevertFault, runtime, locals
<1>5. \A n \in Node : Vanish(n) => (ReconcileInv /\ RuntimeKnown /\ FaultsKnown)'
  BY DEF Vanish, Containers, files, locals
<1>6. LifecycleDone => (ReconcileInv /\ RuntimeKnown /\ FaultsKnown)'
  BY DEF LifecycleDone, Save, SetState, Return, runtime
<1>7. SavePending => (ReconcileInv /\ RuntimeKnown /\ FaultsKnown)'
  BY DEF SavePending, SaveRemoved, SetState, Return, runtime, locals
<1>8. ConfigureBootstrap => (ReconcileInv /\ RuntimeKnown /\ FaultsKnown)'
  BY DEF ConfigureBootstrap, Return, runtime, locals
<1>9. BootstrapWritten => (ReconcileInv /\ RuntimeKnown /\ FaultsKnown)'
  BY DEF BootstrapWritten, Return, runtime, locals
<1>10. ValidateUpdated => (ReconcileInv /\ RuntimeKnown /\ FaultsKnown)'
  BY DEF ValidateUpdated, Return, runtime, locals, files
<1>11. ResetDisks => (ReconcileInv /\ RuntimeKnown /\ FaultsKnown)'
  BY DEF ResetDisks, Return, locals, files
<1>12. ReplaceDone => (ReconcileInv /\ RuntimeKnown /\ FaultsKnown)'
  BY DEF ReplaceDone, Save, Return, runtime
<1>13. PlanTopology => (ReconcileInv /\ RuntimeKnown /\ FaultsKnown)'
  BY DEF PlanTopology, Requested, PrepareDraft, ImpactOf, There, files, runtime, locals
<1>14. ApplyTopology => (ReconcileInv /\ RuntimeKnown /\ FaultsKnown)'
  BY DEF ApplyTopology, Enter, WriteDraft, Requested, PrepareDraft, runtime
<1>15. Refuse => (ReconcileInv /\ RuntimeKnown /\ FaultsKnown)'
  BY DEF Refuse, Return, runtime
<1>16. Reconcile => (ReconcileInv /\ RuntimeKnown /\ FaultsKnown)'
  <2> SUFFICES ASSUME Reconcile PROVE (ReconcileInv /\ RuntimeKnown /\ FaultsKnown)'
    OBVIOUS
  <2>1. rec' = [state |-> "reconciling", nodes |-> WithDraftNodes, disk |-> rec.disk, boot |-> rec.boot]
    BY DEF Reconcile, Proceed, Record
  <2>2. UNCHANGED <<topo, faults, box, made, disk, plan, requests, work, draft, before, approved>>
    BY DEF Reconcile, Proceed, runtime, locals
  <2>3. at = "draft" /\ at' = "reconcile"
    BY DEF Reconcile, Proceed
  <2>4. WithDraftNodes \in [Node -> NodeState] /\ Known' = Known \union draft.nodes
    BY <2>1, <2>3 DEF WithDraftNodes, Known, NodeState, Record, Topology, DraftInv, Applying
  <2>5. There' = There
    BY <2>2 DEF There
  <2>6. QED
    BY <2>2, <2>3, <2>4, <2>5 DEF ReconcileInv, RuntimeKnown, FaultsKnown
<1>17. Deploy => (ReconcileInv /\ RuntimeKnown /\ FaultsKnown)'
  BY SMTT(60) DEF Deploy, Containers, ImpactOf, files
<1>18. ApplyDone => (ReconcileInv /\ RuntimeKnown /\ FaultsKnown)'
  BY DEF ApplyDone, Save, Return, runtime
<1>19. DaemonCrash => (ReconcileInv /\ RuntimeKnown /\ FaultsKnown)'
  BY DEF DaemonCrash, Return, files, runtime
<1>20. QED
  BY <1>1, <1>2, <1>3, <1>4, <1>5, <1>6, <1>7, <1>8, <1>9, <1>10,
     <1>11, <1>12, <1>13, <1>14, <1>15, <1>16, <1>17, <1>18, <1>19 DEF Next

\* No step separates a node from the attachments the record has of it.
LEMMA StepCarry ==
    ASSUME IInv, TypeOK', (WorkInv /\ DraftInv)', Next
    PROVE  (CarryInv /\ AttachmentsPreserved)'
<1> USE DEF IInv, TypeOK, WorkInv, DraftInv, CarryInv, Carries, AttachmentsPreserved, Replacing,
        Applying, Topology, Record, There
<1>1. \A n \in Node, a \in Actions : Lifecycle(n, a) => (CarryInv /\ AttachmentsPreserved)'
  BY DEF Lifecycle, Enter, Containers, Outcomes, CrashOutcomes, files
<1>2. \A n \in Node, boot \in BOOLEAN : RemoveNode(n, boot) => (CarryInv /\ AttachmentsPreserved)'
  BY SMTT(60) DEF RemoveNode, Enter, Removal, Containers, Save, SetState, Return
<1>3. \A n \in Node : ApplyFault(n) => (CarryInv /\ AttachmentsPreserved)'
  BY DEF ApplyFault, Enter, runtime, locals
<1>4. \A n \in Node : RevertFault(n) => (CarryInv /\ AttachmentsPreserved)'
  BY DEF RevertFault, runtime, locals
<1>5. \A n \in Node : Vanish(n) => (CarryInv /\ AttachmentsPreserved)'
  BY DEF Vanish, Containers, files, locals
<1>6. LifecycleDone => (CarryInv /\ AttachmentsPreserved)'
  BY DEF LifecycleDone, Save, SetState, Return, runtime
<1>7. SavePending => (CarryInv /\ AttachmentsPreserved)'
  BY DEF SavePending, SaveRemoved, SetState, Return, runtime, locals
<1>8. ConfigureBootstrap => (CarryInv /\ AttachmentsPreserved)'
  BY DEF ConfigureBootstrap, Return, runtime, locals
<1>9. BootstrapWritten => (CarryInv /\ AttachmentsPreserved)'
  BY DEF BootstrapWritten, Return, runtime, locals
<1>10. ValidateUpdated => (CarryInv /\ AttachmentsPreserved)'
  BY DEF ValidateUpdated, Return, runtime, locals, files
<1>11. ResetDisks => (CarryInv /\ AttachmentsPreserved)'
  BY DEF ResetDisks, Return, locals, files
<1>12. ReplaceDone => (CarryInv /\ AttachmentsPreserved)'
  BY DEF ReplaceDone, Save, Return, runtime
<1>13. PlanTopology => (CarryInv /\ AttachmentsPreserved)'
  BY DEF PlanTopology, Requested, PrepareDraft, ImpactOf, There, files, runtime, locals
<1>14. ApplyTopology => (CarryInv /\ AttachmentsPreserved)'
  BY DEF ApplyTopology, Enter, WriteDraft, Requested, PrepareDraft, runtime
<1>15. Refuse => (CarryInv /\ AttachmentsPreserved)'
  BY DEF Refuse, Return, runtime
<1>16. Reconcile => (CarryInv /\ AttachmentsPreserved)'
  BY DEF Reconcile, Proceed, WithDraftNodes, runtime, locals
<1>17. Deploy => (CarryInv /\ AttachmentsPreserved)'
  <2> SUFFICES ASSUME Deploy PROVE (CarryInv /\ AttachmentsPreserved)'
    OBVIOUS
  <2> DEFINE new == ImpactOf(topo).create \union ImpactOf(topo).recreate
  <2>1. at = "reconcile" /\ at' = "deployed" /\ UNCHANGED <<topo, rec>>
    BY DEF Deploy, files
  <2>2. PICK b \in [Node -> {"none", "stopped", "running"}], done \in SUBSET Node :
          /\ box' = b
          /\ \A n \in Node \ (done \intersect new) : b[n] # "none" => box[n] # "none"
          /\ \A n \in Node : b[n] # "none" =>
               /\ n \in made'.disk <=> n \in (IF n \in done \intersect new THEN topo.disk ELSE made.disk)
               /\ n \in made'.boot <=> n \in (IF n \in done \intersect new THEN topo.boot ELSE made.boot)
    BY SMTT(60) DEF Deploy, Containers, ImpactOf
  <2>3. topo \in Topology /\ topo # Torn /\ new \subseteq topo.nodes
    BY <2>1, TornAssumption DEF ImpactOf
  <2>4. /\ rec.disk \intersect topo.nodes \subseteq topo.disk
        /\ rec.boot \intersect topo.nodes \subseteq topo.boot
        /\ rec.disk \intersect There \subseteq made.disk /\ rec.boot \intersect There \subseteq made.boot
    BY <2>3
  <2>5. \A n \in There' : (n \in rec'.disk => n \in made'.disk) /\ (n \in rec'.boot => n \in made'.boot)
    <3> TAKE n \in There'
    <3>1. n \in Node /\ b[n] # "none"
      BY <2>2
    <3>2. CASE n \in done \intersect new
      BY <2>1, <2>2, <2>3, <2>4, <3>1, <3>2
    <3>3. CASE n \notin done \intersect new
      <4>1. n \in There
        BY <2>2, <3>1, <3>3
      <4>2. QED
        BY <2>1, <2>2, <2>4, <3>1, <3>3, <4>1
    <3>4. QED
      BY <3>2, <3>3
  <2>6. /\ rec'.disk \intersect There' \subseteq made'.disk
        /\ rec'.boot \intersect There' \subseteq made'.boot
    BY ONLY <2>5
  <2>7. /\ rec'.disk \intersect topo'.nodes \subseteq topo'.disk
        /\ rec'.boot \intersect topo'.nodes \subseteq topo'.boot
    BY ONLY <2>1, <2>4
  <2>8. CarryInv'
    BY ONLY <2>1 DEF CarryInv
  <2>9. AttachmentsPreserved'
    BY ONLY <2>6, <2>7 DEF AttachmentsPreserved
  <2>10. QED
    BY ONLY <2>8, <2>9
<1>18. ApplyDone => (CarryInv /\ AttachmentsPreserved)'
  BY DEF ApplyDone, Save, Return, runtime
<1>19. DaemonCrash => (CarryInv /\ AttachmentsPreserved)'
  BY DEF DaemonCrash, Return, files, runtime
<1>20. QED
  BY <1>1, <1>2, <1>3, <1>4, <1>5, <1>6, <1>7, <1>8, <1>9, <1>10,
     <1>11, <1>12, <1>13, <1>14, <1>15, <1>16, <1>17, <1>18, <1>19 DEF Next

\* Nothing enters the plan after it was compared with the approved one.
LEMMA StepPlan ==
    ASSUME IInv, TypeOK', (WorkInv /\ DraftInv)', Next
    PROVE  PlanInv'
<1> USE DEF IInv, TypeOK, WorkInv, DraftInv, PlanInv, Applying, Topology, Impact, ImpactOf, There
<1>1. \A n \in Node, a \in Actions : Lifecycle(n, a) => PlanInv'
  BY DEF Lifecycle, Enter, Containers, Outcomes, CrashOutcomes, files
<1>2. \A n \in Node, boot \in BOOLEAN : RemoveNode(n, boot) => PlanInv'
  BY SMTT(60) DEF RemoveNode, Enter, Removal, Containers, Save, SetState, Return
<1>3. \A n \in Node : ApplyFault(n) => PlanInv'
  BY DEF ApplyFault, Enter, runtime, locals
<1>4. \A n \in Node : RevertFault(n) => PlanInv'
  BY DEF RevertFault, runtime, locals
<1>5. \A n \in Node : Vanish(n) => PlanInv'
  BY DEF Vanish, Containers, files, locals
<1>6. LifecycleDone => PlanInv'
  BY DEF LifecycleDone, Save, SetState, Return, runtime
<1>7. SavePending => PlanInv'
  BY DEF SavePending, SaveRemoved, SetState, Return, runtime, locals
<1>8. ConfigureBootstrap => PlanInv'
  BY DEF ConfigureBootstrap, Return, runtime, locals
<1>9. BootstrapWritten => PlanInv'
  BY DEF BootstrapWritten, Return, runtime, locals
<1>10. ValidateUpdated => PlanInv'
  BY DEF ValidateUpdated, Return, runtime, locals, files
<1>11. ResetDisks => PlanInv'
  BY DEF ResetDisks, Return, locals, files
<1>12. ReplaceDone => PlanInv'
  BY DEF ReplaceDone, Save, Return, runtime
<1>13. PlanTopology => PlanInv'
  BY DEF PlanTopology, Requested, PrepareDraft, ImpactOf, There, files, runtime, locals
<1>14. ApplyTopology => PlanInv'
  BY DEF ApplyTopology, Enter, WriteDraft, Requested, PrepareDraft, runtime
<1>15. Refuse => PlanInv'
  BY DEF Refuse, Return, runtime
<1>16. Reconcile => PlanInv'
  BY DEF Reconcile, Proceed, WithDraftNodes, runtime, locals
<1>17. Deploy => PlanInv'
  <2>1. Deploy => at' = "deployed"
    BY DEF Deploy
  <2>2. QED
    BY <2>1 DEF PlanInv
<1>18. ApplyDone => PlanInv'
  BY DEF ApplyDone, Save, Return, runtime
<1>19. DaemonCrash => PlanInv'
  BY DEF DaemonCrash, Return, files, runtime
<1>20. QED
  BY <1>1, <1>2, <1>3, <1>4, <1>5, <1>6, <1>7, <1>8, <1>9, <1>10,
     <1>11, <1>12, <1>13, <1>14, <1>15, <1>16, <1>17, <1>18, <1>19 DEF Next

\* Every step keeps the inductive invariant.
LEMMA StepIInv == IInv /\ [Next]_vars => IInv'
<1> SUFFICES ASSUME IInv, [Next]_vars PROVE IInv'
  OBVIOUS
<1>1. CASE Next
  <2>1. TypeOK'
    BY <1>1, StepType
  <2>2. (WorkInv /\ DraftInv)'
    BY <1>1, <2>1, StepWork
  <2>3. QED
    BY <1>1, <2>1, <2>2, StepKnown, StepCarry, StepPlan DEF IInv
<1>2. CASE UNCHANGED vars
  BY <1>2 DEF vars, IInv, TypeOK, WorkInv, DraftInv, ReconcileInv, CarryInv, Carries, PlanInv,
              RuntimeKnown, FaultsKnown, AttachmentsPreserved, ImpactOf, Known, There
<1>3. QED
  BY <1>1, <1>2

\* The inductive invariant holds in every behaviour.
LEMMA Invariance == Spec => []IInv
  BY InitIInv, StepIInv, PTL DEF Spec

\* Types: the state of a node is always one that clients know.
THEOREM TypeCorrect == Spec => []TypeOK
<1>1. IInv => TypeOK
  BY DEF IInv
<1>2. QED
  BY <1>1, Invariance, PTL

\* No failed or interrupted handler leaves a container whose node the session
\* record does not have.
THEOREM ContainersKnown == Spec => []RuntimeKnown
<1>1. IInv => RuntimeKnown
  BY DEF IInv
<1>2. QED
  BY <1>1, Invariance, PTL

\* No reconciliation forgets a node with an active fault.
THEOREM FaultsRevertible == Spec => []FaultsKnown
<1>1. IInv => FaultsKnown
  BY DEF IInv
<1>2. QED
  BY <1>1, Invariance, PTL

\* The attachments that the record has of a node are in the topology file, unless
\* it is torn, and in the node's container.
THEOREM AttachmentsKept == Spec => []AttachmentsPreserved
<1>1. IInv => AttachmentsPreserved
  BY DEF IInv
<1>2. QED
  BY <1>1, Invariance, PTL

\* A used disk becomes fresh only under ResetDisks, whose node has no container.
LEMMA StepReset ==
    ASSUME IInv, Next, NEW n \in Node, disk[n] = "used", disk'[n] = "fresh"
    PROVE  box[n] = "none"
<1> USE DEF IInv, TypeOK
<1>1. ASSUME NEW b, NEW m, Containers(b, m) PROVE disk'[n] = "used"
  BY <1>1 DEF Containers
<1>2. disk' # disk
  OBVIOUS
<1>3. ResetDisks
  BY <1>1, <1>2 DEF Next, Lifecycle, RemoveNode, Removal, Vanish, Deploy, ApplyFault, RevertFault,
     LifecycleDone,
       SavePending, SaveRemoved, ConfigureBootstrap, BootstrapWritten, ValidateUpdated, ReplaceDone,
       PlanTopology, ApplyTopology, WriteDraft, Refuse, Reconcile, Proceed, ApplyDone,
       DaemonCrash, runtime
<1>4. n = work.node /\ at = "reset"
  BY <1>3 DEF ResetDisks
<1>5. QED
  BY <1>4 DEF WorkInv, Replacing

\* REPLACE never resets a disk under a container of its node.
THEOREM DisksSafe == Spec => ResetOnlyRemoved
<1>1. IInv /\ [Next]_vars =>
        [\A n \in Node : disk[n] = "used" /\ disk'[n] = "fresh" => box[n] = "none"]_vars
  BY StepReset DEF vars
<1>2. QED
  BY <1>1, Invariance, PTL DEF Spec, ResetOnlyRemoved

\* Containerlab touches no container that the approved plan does not name.
LEMMA StepApproved ==
    ASSUME IInv, Next, at = "reconcile", at' = "deployed", NEW n \in There,
           box'[n] = "none" \/ (n \in made.disk) # (n \in made'.disk)
                            \/ (n \in made.boot) # (n \in made'.boot)
    PROVE  n \in approved.remove \union approved.recreate
<1> USE DEF IInv, TypeOK, There
<1> DEFINE now == ImpactOf(topo)
<1>1. Deploy
  BY DEF Next, Lifecycle, RemoveNode, Enter, Return, Vanish, ApplyFault, RevertFault,
     LifecycleDone, locals,
       SavePending, SaveRemoved, ConfigureBootstrap, BootstrapWritten, ValidateUpdated,
       ResetDisks, ReplaceDone,
       PlanTopology, ApplyTopology, WriteDraft, Refuse, Reconcile, Proceed, ApplyDone, DaemonCrash
<1>2. n \notin now.create
  BY DEF ImpactOf
<1>3. n \in now.remove \union now.recreate
  BY SMTT(60), <1>1, <1>2 DEF Deploy, Containers
<1>4. QED
  BY <1>3 DEF PlanInv

\* Approval: what a client approved bounds what a deployment removes and recreates.
THEOREM Approval == Spec => ApprovedOnly
<1>1. IInv /\ [Next]_vars =>
        [at = "reconcile" /\ at' = "deployed" =>
           \A n \in There : box'[n] = "none" \/ (n \in made.disk) # (n \in made'.disk)
                                           \/ (n \in made.boot) # (n \in made'.boot)
               => n \in approved.remove \union approved.recreate]_vars
  BY StepApproved DEF vars
<1>2. QED
  BY <1>1, Invariance, PTL DEF Spec, ApprovedOnly

(***************************************************************************)
(* Withdrawn drafts: the invariant that the topology file, or what is yet  *)
(* to be written to it, has the nodes of the record.                       *)
(***************************************************************************)
WithdrawInv ==
    /\ rec.state = "running" =>
         /\ at \notin {"draft", "truncated"} => topo # Torn /\ topo.nodes = Known
         /\ at = "truncated" => draft.nodes = Known
         /\ at = "draft" => before # Torn /\ before.nodes = Known
    /\ at \in {"reconcile", "deployed"} => rec.state # "running"

\* Every step keeps it, if neither a failure nor a crash comes between the write of
\* the topology file and its completion or withdrawal.
LEMMA StepWithdraw ==
    ASSUME WithdrawInv, IInv, CrashPoints \intersect {"draft", "truncated"} = {},
           Failures \intersect {"write", "restore"} = {}, Next
    PROVE  WithdrawInv'
<1> USE TornAssumption DEF IInv, TypeOK, WithdrawInv, WorkInv, DraftInv, ReconcileInv, Replacing,
        Applying, Topology, Record, Known
<1>1. \A n \in Node, a \in Actions : Lifecycle(n, a) => WithdrawInv'
  BY DEF Lifecycle, Enter, Containers, Outcomes, CrashOutcomes, files
<1>2. \A n \in Node, boot \in BOOLEAN : RemoveNode(n, boot) => WithdrawInv'
  BY SMTT(60) DEF RemoveNode, Enter, Removal, Containers, Save, SetState, Return
<1>3. \A n \in Node : ApplyFault(n) => WithdrawInv'
  BY DEF ApplyFault, Enter, runtime, locals
<1>4. \A n \in Node : RevertFault(n) => WithdrawInv'
  BY DEF RevertFault, runtime, locals
<1>5. \A n \in Node : Vanish(n) => WithdrawInv'
  BY DEF Vanish, Containers, files, locals
<1>6. LifecycleDone => WithdrawInv'
  BY DEF LifecycleDone, Save, SetState, Return, runtime
<1>7. SavePending => WithdrawInv'
  BY DEF SavePending, SaveRemoved, SetState, Return, runtime, locals
<1>8. ConfigureBootstrap => WithdrawInv'
  BY DEF ConfigureBootstrap, Return, runtime, locals
<1>9. BootstrapWritten => WithdrawInv'
  BY DEF BootstrapWritten, Return, runtime, locals
<1>10. ValidateUpdated => WithdrawInv'
  BY DEF ValidateUpdated, Return, runtime, locals, files
<1>11. ResetDisks => WithdrawInv'
  BY DEF ResetDisks, Return, locals, files
<1>12. ReplaceDone => WithdrawInv'
  BY DEF ReplaceDone, Save, Return, runtime
<1>13. PlanTopology => WithdrawInv'
  BY DEF PlanTopology, Requested, PrepareDraft, ImpactOf, There, files, runtime, locals
<1>14. ApplyTopology => WithdrawInv'
  BY DEF ApplyTopology, Enter, WriteDraft, Requested, PrepareDraft, runtime
<1>15. Refuse => WithdrawInv'
  BY DEF Refuse, Return, runtime
<1>16. Reconcile => WithdrawInv'
  <2> SUFFICES ASSUME Reconcile PROVE WithdrawInv'
    OBVIOUS
  <2>1. rec' = [state |-> "reconciling", nodes |-> WithDraftNodes, disk |-> rec.disk, boot |-> rec.boot]
    BY DEF Reconcile, Proceed, Record
  <2>2. UNCHANGED <<topo, faults, box, made, disk, plan, requests, work, draft, before, approved>>
    BY DEF Reconcile, Proceed, runtime, locals
  <2>3. at = "draft" /\ at' = "reconcile"
    BY DEF Reconcile, Proceed
  <2>4. WithDraftNodes \in [Node -> NodeState] /\ Known' = Known \union draft.nodes
    BY <2>1, <2>3 DEF WithDraftNodes, Known, NodeState, Record, Topology, DraftInv, Applying
  <2>5. rec'.state = "reconciling"
    BY <2>1
  <2>6. QED
    BY ONLY <2>3, <2>5 DEF WithdrawInv, Applying
<1>17. Deploy => WithdrawInv'
  BY SMTT(60) DEF Deploy, Containers, ImpactOf, files
<1>18. ApplyDone => WithdrawInv'
  BY DEF ApplyDone, Save, Return, runtime
<1>19. DaemonCrash => WithdrawInv'
  BY DEF DaemonCrash, Return, files, runtime
<1>20. QED
  BY <1>1, <1>2, <1>3, <1>4, <1>5, <1>6, <1>7, <1>8, <1>9, <1>10,
     <1>11, <1>12, <1>13, <1>14, <1>15, <1>16, <1>17, <1>18, <1>19 DEF Next

\* A new session satisfies it.
LEMMA InitWithdraw == Init => WithdrawInv
<1> SUFFICES ASSUME Init PROVE WithdrawInv
  OBVIOUS
<1>1. topo \in Topology
  BY CreatedAssumption DEF Init
<1>2. Known = topo.nodes
  BY <1>1 DEF Init, Known, Topology
<1>3. QED
  BY <1>1, <1>2, TornAssumption DEF Init, WithdrawInv

\* An error before the runtime is touched restores the topology file: between
\* handlers, a session that is not in the middle of a failed reconciliation has
\* the topology of its record, if the daemon dies and the writes fail elsewhere.
THEOREM Withdrawn ==
    ASSUME CrashPoints \intersect {"draft", "truncated"} = {},
           Failures \intersect {"write", "restore"} = {}
    PROVE  Spec => []DraftsWithdrawn
<1>1. IInv /\ WithdrawInv /\ [Next]_vars => WithdrawInv'
  <2> SUFFICES ASSUME IInv, WithdrawInv, [Next]_vars PROVE WithdrawInv'
    OBVIOUS
  <2>1. CASE Next
    BY <2>1, StepWithdraw
  <2>2. CASE UNCHANGED vars
    BY <2>2 DEF vars, WithdrawInv, Known
  <2>3. QED
    BY <2>1, <2>2
<1>2. WithdrawInv => DraftsWithdrawn
  BY DEF WithdrawInv, DraftsWithdrawn
<1>3. QED
  BY <1>1, <1>2, InitWithdraw, Invariance, PTL DEF Spec

=============================================================================
