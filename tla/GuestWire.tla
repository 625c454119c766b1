----------------------------- MODULE GuestWire -----------------------------
(***************************************************************************)
(* Agent.Call: requests to the QEMU guest agent, one at a time behind a    *)
(* gate, over one serial line.  A call that fails closes its connection,   *)
(* but what it wrote may still reach the guest, and the answer may still   *)
(* come back over the next connection; a guest-sync-delimited with a fresh *)
(* token marks where that connection's own answers begin.                  *)
(***************************************************************************)
EXTENDS Naturals, Sequences

CONSTANTS
    Callers,   \* goroutines that use the agent (exec, put, ping requests)
    MaxDials,  \* bound on connections
    MaxCalls,  \* bound on commands sent
    Nobody     \* the gate is free

ASSUME NobodyAssumption == Nobody \notin Callers
ASSUME BoundAssumption == MaxDials \in Nat /\ MaxCalls \in Nat

VARIABLES
    gate,   \* the caller that holds Agent.gate
    stage,  \* where it stands in Call
    conn,   \* Agent.conn is open
    dials,  \* connections so far: the token of the last guest-sync-delimited
    calls,  \* commands so far: the number of the last one
    out,    \* messages on their way to the guest
    in      \* its answers on their way back; each names what it answers

wireVars == <<gate, stage, conn, dials, calls, out, in>>

Message == [kind : {"sync", "command"}, id : Nat]

WireTypeOK ==
    /\ gate \in Callers \union {Nobody}
    /\ stage \in {"idle", "dial", "sync", "send", "await"}
    /\ conn \in BOOLEAN
    /\ dials \in Nat
    /\ calls \in Nat
    /\ out \in Seq(Message)
    /\ in \in Seq(Message)

WireInit ==
    /\ gate = Nobody /\ stage = "idle"
    /\ conn = FALSE
    /\ dials = 0 /\ calls = 0
    /\ out = <<>> /\ in = <<>>

Sync == [kind |-> "sync", id |-> dials]
Command == [kind |-> "command", id |-> calls]

\* Take the gate; an open connection is used again as it is.
Call(c) ==
    /\ gate = Nobody
    /\ gate' = c
    /\ stage' = IF conn THEN "send" ELSE "dial"
    /\ UNCHANGED <<conn, dials, calls, out, in>>

\* dialUntilReady, and a guest-sync-delimited with a token of its own.
Dial ==
    /\ stage = "dial" /\ dials < MaxDials
    /\ conn' = TRUE /\ dials' = dials + 1
    /\ out' = Append(out, [kind |-> "sync", id |-> dials + 1])
    /\ stage' = "sync"
    /\ UNCHANGED <<gate, calls, in>>

\* Mutant: the first answer is taken for the answer to the sync.
SyncAny ==
    /\ stage = "sync" /\ in # <<>>
    /\ in' = Tail(in)
    /\ stage' = "send"
    /\ UNCHANGED <<gate, conn, dials, calls, out>>

\* Answers that do not carry the token are skipped.
ReadSync ==
    /\ stage = "sync" /\ in # <<>>
    /\ in' = Tail(in)
    /\ stage' = IF Head(in) = Sync THEN "send" ELSE "sync"
    /\ UNCHANGED <<gate, conn, dials, calls, out>>

Send ==
    /\ stage = "send" /\ calls < MaxCalls
    /\ calls' = calls + 1
    /\ out' = Append(out, [kind |-> "command", id |-> calls + 1])
    /\ stage' = "await"
    /\ UNCHANGED <<gate, conn, dials, in>>

\* The call returns.
Return == gate' = Nobody /\ stage' = "idle"

\* The first answer is the call's own; an answer that reports an error closes
\* the connection like any other error.
ReadReply ==
    /\ stage = "await" /\ in # <<>>
    /\ in' = Tail(in)
    /\ conn' \in BOOLEAN
    /\ Return
    /\ UNCHANGED <<dials, calls, out>>

\* Mutant: an error leaves the connection open for the next call.
FailOpen ==
    /\ stage # "idle"
    /\ UNCHANGED <<conn, out, in>>
    /\ Return
    /\ UNCHANGED <<dials, calls>>

\* The context ends, a deadline passes, the message is too long or the socket
\* fails: the connection is closed.  Of the messages under way a last part to
\* the guest and a first part from it may be lost with it.
Fail ==
    /\ stage # "idle"
    /\ conn' = FALSE
    /\ \E k \in 0 .. Len(out) : out' = SubSeq(out, 1, k)
    /\ \E k \in 1 .. Len(in) + 1 : in' = SubSeq(in, k, Len(in))
    /\ Return
    /\ UNCHANGED <<dials, calls>>

\* The guest agent answers in order; without a listener its answer may be lost.
GuestAnswers ==
    /\ out # <<>>
    /\ out' = Tail(out)
    /\ \/ in' = Append(in, Head(out))
       \/ ~conn /\ UNCHANGED in
    /\ UNCHANGED <<gate, stage, conn, dials, calls>>

\* The guest or its agent restarts and forgets what it had not read.
GuestRestarts ==
    /\ out' = <<>>
    /\ UNCHANGED <<gate, stage, conn, dials, calls, in>>

WireNext ==
    \/ \E c \in Callers : Call(c)
    \/ Dial \/ ReadSync \/ Send \/ ReadReply \/ Fail
    \/ GuestAnswers \/ GuestRestarts

WireSpec == WireInit /\ [][WireNext]_wireVars

\* What a call reads as its reply is the answer to the command it has just
\* sent, never a late answer to an earlier call that gave up.
OwnReply == stage = "await" /\ in # <<>> => Head(in) = Command

\* An open connection that no call uses is silent: nothing is under way that a
\* later call, which sends without another sync, could mistake for its own.
QuietWhenIdle == stage \in {"idle", "send"} /\ conn => in = <<>> /\ out = <<>>

=============================================================================
