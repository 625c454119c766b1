----------------------------- MODULE GuestExec -----------------------------
(***************************************************************************)
(* Agent.Execute and its cleanup, over the calls of GuestWire: a command   *)
(* is started with guest-exec, polled with guest-exec-status until its     *)
(* result comes back, and killed and reaped when its context ends first.   *)
(* The guest agent keeps a record of every process until some status call  *)
(* has delivered its result, and finds it by a process ID that the guest's *)
(* system may have given to another process since.                         *)
(*                                                                         *)
(* A call is one step.  One that is cut short may have been executed, or   *)
(* never be, or be executed later, but before the next one: the line is    *)
(* first in, first out, and the next connection starts with a sync.        *)
(***************************************************************************)
EXTENDS Naturals, Sequences, SequencesExt

CONSTANTS
    Cmds,    \* commands that clients run, concurrently
    Pids,    \* process IDs of the guest
    Cuts,    \* calls that may be cut short: <<command, "exec", "status" or "cleanup">>
    None     \* nothing

ASSUME CutsAssumption == Cuts \subseteq Cmds \X {"exec", "status", "cleanup"}

\* A command's own process, and the kill or taskkill that its cleanup starts.
Own(c) == <<c, "command">>
Helper(c) == <<c, "kill">>
Owners == Cmds \X {"command", "kill"}

ASSUME NoneAssumption == None \notin Pids \union Owners

Record == [pid : Pids, owner : Owners, exited : BOOLEAN]
Request == [call : {"exec"}, owner : Owners] \union [call : {"status"}, pid : Pids]

VARIABLES
    live,     \* the process that has each process ID now
    records,  \* the guest agent's process records, oldest first
    late,     \* a request nobody waits for any more
    at,       \* where each Execute stands
    pid,      \* process.PID of each
    helper,   \* helper.PID of its cleanup
    pending,  \* reapExec's pending: which of the two are not reaped
    result,   \* history: the process whose result Execute returned
    victim,   \* history: the process its helper has signalled
    misled,   \* history: Executes whose status call met another process's record
    reused,   \* history: an ID was given away that an Execute still polled
    retaken   \* history: commands whose ID was given away after cleanupExec's check

reuse == <<reused, retaken>>
vars == <<live, records, late, at, pid, helper, pending, result, victim, misled, reuse>>
locals == <<at, pid, helper, pending, result, misled>>

\* "reaped": failed, its process gone and forgotten; "failed": cleanup failed too.
Ended == {"done", "reaped", "failed"}

TypeOK ==
    /\ live \in [Pids -> Owners \union {None}]
    /\ records \in Seq(Record)
    /\ late \in Request \union {None}
    /\ at \in [Cmds -> {"new", "poll", "check", "kill", "reap"} \union Ended]
    /\ pid \in [Cmds -> Pids \union {None}]
    /\ helper \in [Cmds -> Pids \union {None}]
    /\ pending \in [Cmds -> SUBSET {"command", "kill"}]
    /\ result \in [Cmds -> Owners \union {None}]
    /\ victim \in [Cmds -> Owners \union {None}]
    /\ misled \subseteq Cmds /\ reused \in BOOLEAN /\ retaken \subseteq Cmds

Init ==
    /\ live = [p \in Pids |-> None]
    /\ records = <<>>
    /\ late = None
    /\ at = [c \in Cmds |-> "new"]
    /\ pid = [c \in Cmds |-> None] /\ helper = [c \in Cmds |-> None]
    /\ pending = [c \in Cmds |-> {}]
    /\ result = [c \in Cmds |-> None] /\ victim = [c \in Cmds |-> None]
    /\ misled = {} /\ reused = FALSE /\ retaken = {}

(***************************************************************************)
(* What the guest agent does with a request.                               *)
(***************************************************************************)
\* Process IDs that an Execute under way knows a process by, and the commands
\* whose cleanup kills by the ID p, since its check or before.
Held == UNION {{pid[c], helper[c]} : c \in {d \in Cmds : at[d] \notin Ended}}
Condemned(p) == {c \in Cmds : pid[c] = p /\ at[c] \notin {"new", "poll", "check"}}

\* guest-exec: the system gives the process an ID that no process has, though
\* the agent may still have the record of one that had it.
GuestExec(owner, p) ==
    /\ live[p] = None
    /\ live' = [live EXCEPT ![p] = owner]
    /\ records' = Append(records, [pid |-> p, owner |-> owner, exited |-> FALSE])
    /\ reused' = (reused \/ p \in Held)
    /\ retaken' = retaken \union Condemned(p)

\* guest-exec-status finds the first record under the ID, and forgets it once
\* it has reported the exit.
Found(p) == {k \in DOMAIN records : records[k].pid = p}
First(p) == CHOOSE k \in Found(p) : \A j \in Found(p) : k <= j
Exited(p) == Found(p) # {} /\ records[First(p)].exited
StillRuns(p) == Found(p) # {} /\ ~records[First(p)].exited
Forget(p) == records' = IF Exited(p) THEN RemoveAt(records, First(p)) ELSE records

\* The status call of c for the process `owner`, which it knows by the ID p.
Status(c, owner, p) ==
    /\ Forget(p)
    /\ misled' = IF Found(p) # {} /\ records[First(p)].owner # owner THEN misled \union {c} ELSE misled

\* A call needs the line, on which a request given up comes first.
LineFree == late = None

(***************************************************************************)
(* Execute                                                                 *)
(***************************************************************************)
Start(c, p) ==
    /\ at[c] = "new" /\ LineFree
    /\ GuestExec(Own(c), p)
    /\ pid' = [pid EXCEPT ![c] = p]
    /\ at' = [at EXCEPT ![c] = "poll"]
    /\ UNCHANGED <<late, helper, pending, result, victim, misled>>

\* The call for guest-exec is cut short: Execute returns, without cleanup.
StartCut(c) ==
    /\ at[c] = "new" /\ LineFree /\ <<c, "exec">> \in Cuts
    /\ late' = [call |-> "exec", owner |-> Own(c)]
    /\ at' = [at EXCEPT ![c] = "failed"]
    /\ UNCHANGED <<live, records, pid, helper, pending, result, victim, misled, reuse>>

\* Mutant: the result is delivered without waiting for the exit.
PollEager(c) ==
    /\ at[c] = "poll" /\ LineFree /\ Found(pid[c]) # {}
    /\ result' = [result EXCEPT ![c] = records[First(pid[c])].owner]
    /\ Status(c, Own(c), pid[c])
    /\ at' = [at EXCEPT ![c] = "done"]
    /\ UNCHANGED <<live, late, pid, helper, pending, victim, reuse>>

\* A status call: the result, an error for an unknown ID, or nothing yet.
Poll(c) ==
    /\ at[c] = "poll" /\ LineFree /\ ~StillRuns(pid[c])
    /\ IF Exited(pid[c])
       THEN /\ result' = [result EXCEPT ![c] = records[First(pid[c])].owner]
            /\ at' = [at EXCEPT ![c] = "done"]
       ELSE /\ at' = [at EXCEPT ![c] = "check"]
            /\ UNCHANGED result
    /\ Status(c, Own(c), pid[c])
    /\ UNCHANGED <<live, late, pid, helper, pending, victim, reuse>>

\* The context ends between two status calls.
Cancel(c) ==
    /\ at[c] = "poll"
    /\ at' = [at EXCEPT ![c] = "check"]
    /\ UNCHANGED <<live, records, late, pid, helper, pending, result, victim, misled, reuse>>

\* It ends during one, or the call fails.
PollCut(c) ==
    /\ at[c] = "poll" /\ LineFree /\ <<c, "status">> \in Cuts
    /\ late' = [call |-> "status", pid |-> pid[c]]
    /\ at' = [at EXCEPT ![c] = "check"]
    /\ UNCHANGED <<live, records, pid, helper, pending, result, victim, misled, reuse>>

(***************************************************************************)
(* cleanupExec and reapExec                                                *)
(***************************************************************************)
\* Mutant: the cleanup waits for the process instead of killing it.
CheckWaits(c) ==
    /\ at[c] = "check" /\ LineFree /\ ~StillRuns(pid[c])
    /\ Status(c, Own(c), pid[c])
    /\ at' = [at EXCEPT ![c] = IF Found(pid[c]) = {} THEN "failed" ELSE "reaped"]
    /\ UNCHANGED <<live, late, pid, helper, pending, result, victim, reuse>>

\* Mutant: the process is killed without asking whether it still runs.
CheckSkipped(c) ==
    /\ at[c] = "check" /\ LineFree
    /\ at' = [at EXCEPT ![c] = "kill"]
    /\ UNCHANGED <<live, records, late, pid, helper, pending, result, victim, misled, reuse>>

\* execExited: an exited process is reaped by this call and needs no kill.
Check(c) ==
    /\ at[c] = "check" /\ LineFree
    /\ Status(c, Own(c), pid[c])
    /\ at' = [at EXCEPT ![c] = IF Found(pid[c]) = {} THEN "failed"
                               ELSE IF Exited(pid[c]) THEN "reaped" ELSE "kill"]
    /\ UNCHANGED <<live, late, pid, helper, pending, result, victim, reuse>>

\* Start the helper; both processes are then to be reaped.
Kill(c, p) ==
    /\ at[c] = "kill" /\ LineFree
    /\ GuestExec(Helper(c), p)
    /\ helper' = [helper EXCEPT ![c] = p]
    /\ pending' = [pending EXCEPT ![c] = {"command", "kill"}]
    /\ at' = [at EXCEPT ![c] = "reap"]
    /\ UNCHANGED <<late, pid, result, victim, misled>>

\* Mutant: the helper's own record is not reaped.
ReapTargetOnly(c) ==
    /\ at[c] = "reap" /\ LineFree
    /\ Exited(pid[c])
    /\ Status(c, Own(c), pid[c])
    /\ pending' = [pending EXCEPT ![c] = {}]
    /\ at' = [at EXCEPT ![c] = "reaped"]
    /\ UNCHANGED <<live, late, pid, helper, result, victim, reuse>>

\* One status call for one of the two processes that are left.
Reap(c) ==
    /\ at[c] = "reap" /\ LineFree
    /\ \E w \in pending[c] :
         LET p == IF w = "command" THEN pid[c] ELSE helper[c] IN
         /\ ~StillRuns(p)
         /\ Status(c, IF w = "command" THEN Own(c) ELSE Helper(c), p)
         /\ pending' = [pending EXCEPT ![c] = IF Exited(p) THEN @ \ {w} ELSE @]
         /\ at' = [at EXCEPT ![c] = IF Found(p) = {} THEN "failed"
                                    ELSE IF pending[c] = {w} THEN "reaped" ELSE "reap"]
    /\ UNCHANGED <<live, late, pid, helper, result, victim, reuse>>

\* What the cleanup of c may have asked when its five seconds are over.
Asking(c) ==
    CASE at[c] = "check" -> {[call |-> "status", pid |-> pid[c]]}
      [] at[c] = "kill" -> {[call |-> "exec", owner |-> Helper(c)]}
      [] at[c] = "reap" -> {[call |-> "status", pid |-> p] : p \in {pid[c], helper[c]}}

CleanupCut(c) ==
    /\ at[c] \in {"check", "kill", "reap"} /\ <<c, "cleanup">> \in Cuts
    /\ \/ UNCHANGED late
       \/ LineFree /\ \E r \in Asking(c) : late' = r
    /\ at' = [at EXCEPT ![c] = "failed"]
    /\ UNCHANGED <<live, records, pid, helper, pending, result, victim, misled, reuse>>

(***************************************************************************)
(* The guest                                                               *)
(***************************************************************************)
\* The request of a call that was cut short is executed after all; whether the
\* answer is lost on the way or read and thrown away makes no difference.
LateRequest ==
    /\ late # None
    /\ IF late.call = "exec"
       THEN \E p \in Pids : GuestExec(late.owner, p)
       ELSE Forget(late.pid) /\ UNCHANGED <<live, reuse>>
    /\ late' = None
    /\ UNCHANGED <<locals, victim>>

\* Or it never gets there.
LateLost ==
    /\ late # None
    /\ late' = None
    /\ UNCHANGED <<live, records, locals, victim, reuse>>

MarkExited(who) == [k \in DOMAIN records |->
    IF records[k].owner \in who THEN [records[k] EXCEPT !.exited = TRUE] ELSE records[k]]

\* A command's process ends by itself.
Exit(p) ==
    /\ live[p] \in {Own(c) : c \in Cmds}
    /\ live' = [live EXCEPT ![p] = None]
    /\ records' = MarkExited({live[p]})
    /\ UNCHANGED <<late, locals, victim, reuse>>

\* The helper signals what has the process ID now, and ends; what it signalled
\* ends at once or takes its time.
HelperRuns(c) ==
    /\ \E p \in Pids :
         /\ live[p] = Helper(c)
         /\ \E gone \in {{p}, {p, pid[c]}} :
              /\ live' = [q \in Pids |-> IF q \in gone THEN None ELSE live[q]]
              /\ records' = MarkExited({live[q] : q \in gone})
    /\ victim' = [victim EXCEPT ![c] = live[pid[c]]]
    /\ UNCHANGED <<late, locals, reuse>>

Executing ==
    \E c \in Cmds :
        \/ \E p \in Pids : Start(c, p)
        \/ StartCut(c) \/ Poll(c) \/ Cancel(c) \/ PollCut(c)
        \/ Check(c) \/ (\E p \in Pids : Kill(c, p)) \/ Reap(c) \/ CleanupCut(c)

Guest ==
    \/ LateRequest \/ LateLost
    \/ \E p \in Pids : Exit(p)
    \/ \E c \in Cmds : HelperRuns(c)

Next == Executing \/ Guest

Spec == Init /\ [][Next]_vars

\* A command that its own helper has signalled ends.
Dies(c) == \E p \in Pids : live[p] = Own(c) /\ victim[c] = Own(c) /\ Exit(p)

\* The context of every command ends some time; helpers run, and what they signal
\* ends; calls are made when they can be: the gate is a channel, which serves its
\* waiters in order.  Nothing is said of the cleanup's deadline.
Fairness ==
    /\ WF_vars(LateRequest \/ LateLost)
    /\ \A c \in Cmds :
        /\ WF_vars(Cancel(c))
        /\ SF_vars(Check(c) \/ Reap(c) \/ \E p \in Pids : Kill(c, p))
        /\ WF_vars(HelperRuns(c)) /\ WF_vars(Dies(c))

LiveSpec == Spec /\ Fairness

\* The result that Execute returns is the result of the command it started, not
\* of a process that had its process ID before, as long as the guest gives no ID
\* away that an Execute still polls.
ResultIsOwn == ~reused => \A c \in Cmds : result[c] \in {None, Own(c)}

\* A command gets another one's result only after some other command's call or
\* cleanup was cut short, and that command has reported the error, or after the
\* guest has given an ID away that an Execute still polled.
StaleHasCause ==
    \A c \in Cmds : result[c] \notin {None, Own(c)} => reused \/ \E d \in Cmds \ {c} : at[d] = "failed"

\* The helper signals its own command's process, if any: an ID that is given away
\* again does no harm until cleanupExec has asked whether the process still runs.
\* What is left is the time between that answer and the signal, and an Execute
\* that another process's record has misled.
KillsOwn == \A c \in Cmds : victim[c] \in {None, Own(c)} \/ c \in retaken \union misled

\* When every command has delivered its result or was cleaned up without an
\* error, and every status call met the record it meant, the guest agent holds no
\* process record, whichever IDs were given away again in the meantime.
RecordsReaped ==
    (\A c \in Cmds : at[c] \in {"new", "done", "reaped"}) /\ misled = {} => records = <<>>

\* Execute returns: a cancelled command is killed, and its process and helper are
\* reaped, though other commands' calls come in between and requests are lost.
\* The cleanup's deadline is needed only when another one has failed, whose
\* helper may then have signalled this one's, or when a polled ID was given away.
ExecuteEnds ==
    \A c \in Cmds : at[c] # "new" ~> at[c] \in Ended \/ reused \/ \E d \in Cmds : at[d] = "failed"

=============================================================================
