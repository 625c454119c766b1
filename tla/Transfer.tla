------------------------------ MODULE Transfer ------------------------------
(***************************************************************************)
(* Commands and file uploads from a caller to one node.                    *)
(*                                                                         *)
(* A request crosses four processes: the daemon (server.Exec, server.Put,  *)
(* Containerlab.Exec, Containerlab.Put), the docker CLI it runs            *)
(* (ExecRunner.Run), the helper that CLI starts in the node's container    *)
(* (labcontainers-guest exec | put | ping) and the helper server in the    *)
(* same container (labcontainers-guest serve), which alone talks to the    *)
(* guest agent.  Each has a deadline of its own, and a process that gives  *)
(* up does not stop the ones below it: a killed docker CLI leaves its      *)
(* helper running with its standard input at end of file.                  *)
(*                                                                         *)
(* A node whose control is "qga" is reached that way; on any other node    *)
(* the docker CLI runs the command itself, and an upload is two commands,  *)
(* `cat > path` and `chmod`.  All uploads here write one path.             *)
(***************************************************************************)
EXTENDS Naturals, FiniteSets

CONSTANTS Req,          \* requests, each issued at most once
          KindsOf,      \* what each of them may be
          NoReq,        \* no request
          Limit,        \* transferlimits.Upload, in writes of one buffer
          StdinLimit,   \* transferlimits.GuestExecStdin, in the same unit
          Sizes,        \* sizes of contents and standard inputs, in the same unit
          MaxDeaths     \* how often the helper server may die

ASSUME TransferAssumption ==
    /\ IsFiniteSet(Req) /\ NoReq \notin Req
    /\ KindsOf \in [Req -> SUBSET {"exec", "put", "ping"}]
    /\ Limit \in Nat \ {0} /\ StdinLimit \in Nat /\ StdinLimit <= Limit
    /\ Sizes \subseteq 0..Limit + 1
    /\ MaxDeaths \in Nat

VARIABLES
    control,    \* "qga" or "direct": session.Node.Control
    windows,    \* the guest runs Windows
    osKnown,    \* Agent.os is cached
    serving,    \* the helper server accepts connections
    socket,     \* the file ExecSocket exists
    deaths,     \* how often the helper server died
    req,        \* the requests, see Request
    file,       \* whose bytes each buffer of the path holds
    mode,       \* whose mode the path has
    dirty       \* bytes written and not yet flushed

vars == <<control, windows, osKnown, serving, socket, deaths,
          req, file, mode, dirty>>

qga == control = "qga"

Kinds == {"exec", "put", "ping"}

(* caller: "gone" once the RPC has returned, for whatever reason.  proc:   *)
(* the process in the container that the docker CLI started.  stage: the   *)
(* next thing the helper server, or the command itself on a direct node,   *)
(* does.                                                                   *)
Request ==
    [caller: {"idle", "waiting", "gone"},
     kind: Kinds,
     size: 0..Limit + 1,     \* the caller's content or standard input
     total: 0..Limit + 1,    \* what of it arrives before end of file
     proc: {"none", "socket", "request", "exited"},
     code: {"none", "zero", "nonzero"},
     stage: {"none", "body", "os", "mkdir", "open", "write", "close",
             "chmod", "run", "ping", "answer", "ended"},
     err: BOOLEAN,           \* the server met an error, or a non-zero exit
     wrote: 0..Limit + 1,    \* buffers written
     handle: {"closed", "open", "lost"},  \* lost: open, and nobody will close it
     ran: BOOLEAN,           \* the command, or the ping, reached the guest
     clash: BOOLEAN]         \* another upload touched the path meanwhile

TypeOK ==
    /\ control \in {"qga", "direct"} /\ windows \in BOOLEAN
    /\ osKnown \in BOOLEAN /\ serving \in BOOLEAN /\ socket \in BOOLEAN
    /\ deaths \in 0..MaxDeaths
    /\ req \in [Req -> Request]
    /\ qga => \A r \in Req : req[r].wrote <= Limit
    /\ file \in [1..Limit + 1 -> Req \cup {NoReq}]
    /\ mode \in Req \cup {NoReq}
    /\ dirty \in BOOLEAN

Empty == [i \in 1..Limit + 1 |-> NoReq]

NewRequest ==
    [caller |-> "idle", kind |-> "exec", size |-> 0, total |-> 0,
     proc |-> "none", code |-> "none", stage |-> "none", err |-> FALSE,
     wrote |-> 0, handle |-> "closed", ran |-> FALSE, clash |-> FALSE]

Init ==
    /\ control \in {"qga", "direct"}
    /\ windows \in {w \in BOOLEAN : w => control = "qga"}
    /\ osKnown = FALSE /\ serving = FALSE /\ socket = FALSE /\ deaths = 0
    /\ req = [r \in Req |-> NewRequest]
    /\ file = Empty
    /\ mode = NoReq
    /\ dirty = FALSE

node == <<control, windows>>
helper == <<osKnown, serving, socket, deaths>>
path == <<file, mode, dirty>>

(* The request is being worked on below the docker CLI. *)
Active(r) == req[r].stage \notin {"none", "ended"}

(* What is known of a request: once nobody waits for it, what it was asked *)
(* to do and did is not compared any more; once nobody works on it either, *)
(* only a handle left open in the guest remains.                           *)
Settle(q) ==
    IF q.caller # "gone" THEN q
    ELSE IF q.stage \in {"none", "ended"} /\ q.proc \in {"none", "exited"}
         THEN [NewRequest EXCEPT !.caller = "gone", !.handle = q.handle]
         ELSE [q EXCEPT !.size = q.total, !.ran = FALSE, !.clash = FALSE, !.code = "none"]

Becomes(r, q) == req' = [req EXCEPT ![r] = Settle(q)]

At(r, s) == req[r].stage = s

To(r, s) == Becomes(r, [req[r] EXCEPT !.stage = s])

(***************************************************************************)
(* The daemon and the docker CLI                                           *)
(***************************************************************************)
(* server.Exec refuses a standard input no guest agent message carries. *)
StdinFits(k, n) == ~(qga /\ k = "exec" /\ n > StdinLimit)

(* On a direct node the first command of an upload is `cat > path`; an     *)
(* exec is the command itself.                                             *)
FirstStage(k) ==
    CASE k = "put" -> "open" [] k = "exec" -> "run" [] OTHER -> "none"

(* server.Exec and server.Put find the node and its one running container, *)
(* and start the docker CLI; a health check starts the helper in the       *)
(* container, without a CLI, and does not wait for the socket file.        *)
Begin(r, k, n) ==
    /\ req[r].caller = "idle"
    /\ k = "ping" => qga
    /\ StdinFits(k, n)
    /\ Becomes(r, [req[r] EXCEPT !.caller = "waiting", !.kind = k, !.size = n, !.total = n,
           !.proc = IF qga /\ k # "ping" THEN "socket" ELSE "request",
           !.stage = IF qga THEN "none" ELSE FirstStage(k)])
    /\ UNCHANGED <<node, helper, path>>

(* No record, no node, not exactly one container, or too much input. *)
Refuse(r) ==
    /\ req[r].caller = "idle"
    /\ Becomes(r, [req[r] EXCEPT !.caller = "gone"])
    /\ UNCHANGED <<node, helper, path>>

(* The caller's context ends, or the daemon dies: the docker CLI is killed *)
(* or its standard input breaks off, so the process in the container sees  *)
(* end of file after what it was passed.  It is not told anything else.    *)
Abandon(r) ==
    /\ req[r].caller = "waiting" /\ req[r].kind # "ping"
    /\ \E n \in req[r].wrote..req[r].total :
          Becomes(r, [req[r] EXCEPT !.caller = "gone", !.total = n])
    /\ UNCHANGED <<node, helper, path>>

(* Containerlab.Exec bounds the whole call; only an upload to a "qga" node *)
(* has no deadline on the daemon's side.                                   *)
Budget(r) ==
    /\ ~qga \/ req[r].kind = "exec"
    /\ Abandon(r)

(* The process in the container exited: ExecRunner.Run returns its exit    *)
(* code, and the RPC its answer.                                           *)
Told(r, c) ==
    req[r].caller = "waiting" /\ req[r].proc = "exited" /\ req[r].code = c

CLIReturns(r) ==
    /\ \E c \in {"zero", "nonzero"} : Told(r, c)
    /\ Becomes(r, [req[r] EXCEPT !.caller = "gone"])
    /\ UNCHANGED <<node, helper, path>>

(***************************************************************************)
(* The helper process                                                      *)
(***************************************************************************)
Exit(r, c) == Becomes(r, [req[r] EXCEPT !.proc = "exited", !.code = c])

(* waitForSocket: the file exists, whether or not anyone listens on it. *)
SocketSeen(r) ==
    /\ req[r].proc = "socket" /\ socket
    /\ Becomes(r, [req[r] EXCEPT !.proc = "request"])
    /\ UNCHANGED <<node, helper, path>>

ServerStage(k) ==
    CASE k = "put" -> "os" [] k = "exec" -> "body" [] OTHER -> "ping"

(* client.Do: the server answers the connection, or nobody listens. *)
Connect(r) ==
    /\ qga /\ req[r].proc = "request" /\ req[r].stage = "none"
    /\ IF serving THEN To(r, ServerStage(req[r].kind)) ELSE Exit(r, "nonzero")
    /\ UNCHANGED <<node, helper, path>>

(* Mutant: waiting for the socket file has no deadline. *)
WaitsForSocket(r) ==
    /\ qga /\ req[r].proc = "request"
    /\ Becomes(r, [req[r] EXCEPT !.proc = "exited", !.code = "nonzero"])
    /\ UNCHANGED <<node, helper, path>>

(* The helper's own deadline, ten seconds past the server's.  Its          *)
(* connection closes, which ends the server's context.                     *)
HelperExpires(r) ==
    /\ qga /\ req[r].proc \in {"socket", "request"}
    /\ Becomes(r, [req[r] EXCEPT !.proc = "exited", !.code = "nonzero"])
    /\ UNCHANGED <<node, helper, path>>

(***************************************************************************)
(* The helper server: Serve, ServeHTTP, servePut, servePing, Upload        *)
(***************************************************************************)
(* Serve removes a stale socket file before it listens. *)
RemoveSocket ==
    /\ qga /\ ~serving /\ socket
    /\ socket' = FALSE
    /\ UNCHANGED <<node, osKnown, serving, deaths, req, path>>

Listen ==
    /\ qga /\ ~serving /\ ~socket
    /\ serving' = TRUE /\ socket' = TRUE
    /\ UNCHANGED <<node, osKnown, deaths, req, path>>

(* The handler's context and variables go with it. *)
Ended(q) == [q EXCEPT !.stage = "ended", !.wrote = 0, !.err = FALSE]

(* The server dies: every helper it was answering fails, handles stay open *)
(* in the guest, the socket file stays behind.                             *)
ServeDies ==
    /\ serving /\ deaths < MaxDeaths
    /\ serving' = FALSE /\ deaths' = deaths + 1 /\ osKnown' = FALSE
    /\ req' = [r \in Req |->
           IF ~Active(r) THEN req[r]
           ELSE Settle([Ended(req[r]) EXCEPT !.proc = "exited", !.code = "nonzero",
                            !.handle = IF @ = "open" THEN "lost" ELSE @])]
    /\ UNCHANGED <<node, socket, path>>

(* Mutant: the handle is closed on the way to success only. *)
AnswerAtOnce(r) == IF req[r].stage = "close" THEN "close" ELSE "answer"

(* The deferred close runs whenever the open succeeded, and with a context *)
(* of its own.                                                             *)
AfterError(r) == IF req[r].handle = "open" THEN "close" ELSE "answer"

(* A call, or reading the body, fails without effect: refused by the       *)
(* guest, or the request's context ended, by its own deadline or because   *)
(* the helper is gone.                                                     *)
CallFails(r) ==
    /\ qga /\ Active(r) /\ req[r].stage \notin {"close", "answer"}
    /\ ~(At(r, "os") /\ osKnown)
    /\ Becomes(r, [req[r] EXCEPT !.err = TRUE, !.stage = AfterError(r)])
    /\ UNCHANGED <<node, helper, path>>

(* Agent.OS asks the guest once. *)
AskOS(r) ==
    /\ At(r, "os")
    /\ osKnown' = TRUE
    /\ To(r, IF req[r].kind = "put" THEN "mkdir" ELSE "run")
    /\ UNCHANGED <<node, serving, socket, deaths, path>>

(* ServeHTTP reads all of the standard input before it starts anything. *)
ReadBody(r) ==
    /\ At(r, "body")
    /\ req[r].total <= StdinLimit
    /\ To(r, "os")
    /\ UNCHANGED <<node, helper, path>>

(* The command runs, and exits with some code or its result is lost; how   *)
(* Execute gets there is module GuestExec.                                 *)
RunCommand(r) ==
    /\ At(r, "run")
    /\ \E failed \in BOOLEAN :
          Becomes(r, [req[r] EXCEPT !.ran = TRUE, !.stage = "answer", !.err = failed])
    /\ UNCHANGED <<node, helper, path>>

PingGuest(r) ==
    /\ At(r, "ping")
    /\ Becomes(r, [req[r] EXCEPT !.ran = TRUE, !.stage = "answer"])
    /\ UNCHANGED <<node, helper, path>>

Mkdir(r) ==
    /\ At(r, "mkdir")
    /\ To(r, "open")
    /\ UNCHANGED <<node, helper, path>>

(* Uploads that have truncated the path, are still waited for, and that    *)
(* another one now touches.                                                *)
Touch(r, f) ==
    [q \in Req |->
        IF q = r THEN f
        ELSE [req[q] EXCEPT !.clash = @ \/ (/\ req[q].kind = "put"
                                            /\ req[q].caller = "waiting"
                                            /\ req[q].stage \notin {"none", "os", "mkdir", "open"})]]

(* guest-file-open with mode "w", or the shell's redirection: truncates. *)
Open(r) ==
    /\ At(r, "open")
    /\ req' = Touch(r, [req[r] EXCEPT !.handle = "open", !.stage = "write"])
    /\ file' = Empty
    /\ UNCHANGED <<node, helper, mode, dirty>>

(* The guest opened the file and the reply was lost: no handle to close. *)
OpenLost(r) ==
    /\ qga /\ At(r, "open")
    /\ req' = Touch(r, [req[r] EXCEPT !.handle = "lost", !.err = TRUE, !.stage = "answer"])
    /\ file' = Empty
    /\ UNCHANGED <<node, helper, mode, dirty>>

(* Mutant: a reader that ends at the limit. *)
BodyEndsAtLimit(r) == req[r].wrote \in {req[r].total, Limit}

(* http.MaxBytesReader: reading past the limit is an error, not an end.    *)
(* On a direct node nothing but the daemon's message limit bounds it.      *)
WithinLimit(r) == qga => req[r].wrote < Limit

BodyEnds(r) == req[r].wrote = req[r].total

(* guest-file-write of one buffer at the handle's own offset; a lost reply *)
(* leaves the bytes there and ends the upload.                             *)
Write(r) ==
    /\ At(r, "write") /\ ~BodyEnds(r) /\ WithinLimit(r)
    /\ \E heard \in {h \in BOOLEAN : h \/ qga} :
          req' = Touch(r, [req[r] EXCEPT
                     !.wrote = @ + 1, !.err = ~heard,
                     !.stage = IF heard THEN "write" ELSE "close"])
    /\ file' = [file EXCEPT ![req[r].wrote + 1] = r]
    /\ dirty' = qga
    /\ UNCHANGED <<node, helper, mode>>

(* End of file: flush before success is reported.  `cat` just exits. *)
Flush(r) ==
    /\ At(r, "write") /\ BodyEnds(r)
    /\ dirty' = FALSE
    /\ IF qga THEN To(r, "close")
       ELSE Becomes(r, [req[r] EXCEPT !.handle = "closed", !.stage = "chmod"])
    /\ UNCHANGED <<node, helper, file, mode>>

AfterClose(r) ==
    IF req[r].err \/ windows THEN "answer" ELSE "chmod"

(* The deferred guest-file-close, with a context the request's end does    *)
(* not reach.                                                              *)
Close(r) ==
    /\ req[r].stage = "close"
    /\ Becomes(r, [req[r] EXCEPT !.handle = "closed", !.stage = AfterClose(r)])
    /\ UNCHANGED <<node, helper, path>>

CloseLost(r) ==
    /\ req[r].stage = "close"
    /\ \E h \in {"closed", "lost"} :
          Becomes(r, [req[r] EXCEPT !.handle = h, !.err = TRUE, !.stage = "answer"])
    /\ UNCHANGED <<node, helper, path>>

(* chmod through the guest agent, or the second docker exec, which the     *)
(* daemon starts only while the caller still waits.                        *)
Chmod(r) ==
    /\ At(r, "chmod")
    /\ qga \/ req[r].caller = "waiting"
    /\ req' = Touch(r, [req[r] EXCEPT !.stage = "answer"])
    /\ mode' = r
    /\ UNCHANGED <<node, helper, file, dirty>>

(* A direct command exits non-zero, or its next one is never started. *)
DirectFails(r) ==
    /\ ~qga /\ req[r].stage \in {"open", "write", "chmod"}
    /\ Becomes(r, [req[r] EXCEPT !.err = TRUE, !.handle = "closed", !.stage = "answer"])
    /\ UNCHANGED <<node, helper, path>>

(* The result reaches the helper, if it is still there: exit code 125 for  *)
(* any error, the command's own code otherwise.                            *)
Answer(r) ==
    /\ At(r, "answer")
    /\ Becomes(r, IF req[r].proc = "exited" THEN Ended(req[r])
                  ELSE [Ended(req[r]) EXCEPT !.proc = "exited",
                           !.code = IF req[r].err THEN "nonzero" ELSE "zero"])
    /\ UNCHANGED <<node, helper, path>>

-----------------------------------------------------------------------------
ServerStep(r) ==
    \/ CallFails(r) \/ AskOS(r) \/ ReadBody(r) \/ RunCommand(r)
    \/ PingGuest(r) \/ Mkdir(r) \/ Open(r) \/ OpenLost(r) \/ Write(r)
    \/ Flush(r) \/ Close(r) \/ CloseLost(r) \/ Chmod(r) \/ DirectFails(r)
    \/ Answer(r)

Next ==
    \/ RemoveSocket \/ Listen \/ ServeDies
    \/ \E r \in Req :
          \/ \E k \in KindsOf[r], n \in Sizes : Begin(r, k, n)
          \/ Refuse(r)
          \/ Abandon(r) \/ CLIReturns(r) \/ SocketSeen(r) \/ Connect(r)
          \/ HelperExpires(r) \/ ServerStep(r)

Spec == Init /\ [][Next]_vars

(* A guest that hangs answers nothing, so no call to it is fair: deadlines *)
(* are, which make the call fail, and what follows them.                   *)
Fairness ==
    \A r \in Req :
        /\ WF_vars(Budget(r)) /\ WF_vars(HelperExpires(r)) /\ WF_vars(CLIReturns(r))
        /\ WF_vars(CallFails(r) \/ AskOS(r)) /\ WF_vars(Close(r) \/ CloseLost(r))
        /\ WF_vars(Answer(r))

LiveSpec == Spec /\ Fairness

-----------------------------------------------------------------------------
Holds(r, i) == IF i <= req[r].size THEN r ELSE NoReq

(* A request that reports success did what was asked.  An upload left all  *)
(* of its content in the path and nothing else, flushed and with its mode, *)
(* unless another upload touched the path meanwhile; a command ran on all  *)
(* of its input; a ping was answered.  This is what "Oversized payloads    *)
(* fail explicitly, rather than silently truncating" (README) needs of     *)
(* Upload, servePut, Containerlab.Put and the limits between them.         *)
NoFalseSuccess ==
    \A r \in Req : Told(r, "zero") =>
        IF req[r].kind # "put" THEN req[r].ran /\ req[r].total = req[r].size
        ELSE req[r].clash \/ (/\ \A i \in 1..Limit + 1 : file[i] = Holds(r, i)
                              /\ ~dirty
                              /\ windows \/ mode = r)

(* Upload closes the guest's handle whatever ended it: when the server is  *)
(* done with a request, a handle is left open in the guest only if a reply *)
(* to its open or close, or the server itself, was lost.                   *)
HandlesReleased ==
    \A r \in Req : ~Active(r) => req[r].handle # "open"

(* Every request is answered, however the guest, the helper server and the *)
(* socket file behave: the deadlines of Containerlab.Exec and of the       *)
(* helper's main see to it.  What an abandoned request left running in the *)
(* helper server ends too, though nobody waits for it: its context has a   *)
(* deadline of its own.                                                    *)
RequestsEnd ==
    \A r \in Req : (req[r].caller = "waiting" \/ (qga /\ Active(r))) ~>
                      (req[r].caller = "gone" /\ (qga => ~Active(r)))
=============================================================================
