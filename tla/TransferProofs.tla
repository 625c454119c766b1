--------------------------- MODULE TransferProofs ---------------------------
(***************************************************************************)
(* Proofs about Transfer: for any number of requests, every limit, sizes   *)
(* up to one buffer past it, and however often processes die.              *)
(***************************************************************************)
EXTENDS Transfer, TLAPS

(***************************************************************************)
(* The inductive invariant                                                 *)
(***************************************************************************)
Early == {"none", "body", "os", "mkdir", "open", "run", "ping"}
Uploading == {"mkdir", "open", "write", "close", "chmod"}

\* What a request on its own looks like.  A handle is open only while the server
\* writes or is about to close; it writes no more than arrives; success needs
\* that the command or the ping has reached the guest.
Sound(q) ==
    /\ q.handle = "open" => q.stage \in {"write", "close"}
    /\ q.wrote <= q.total /\ (q.stage \in Early => q.wrote = 0)
    /\ q.stage \in Uploading => q.kind = "put"
    /\ q.stage \in {"body", "run", "ping"} => q.kind # "put"
    /\ q.caller = "idle" => /\ q.proc = "none" /\ q.stage = "none" /\ q.code = "none"
                            /\ q.handle = "closed" /\ q.wrote = 0
    /\ q.caller = "waiting" => /\ q.total = q.size
                               /\ q.code = "zero" => q.proc = "exited" /\ q.stage = "ended"
    /\ q.caller = "waiting" /\ q.kind # "put" =>
           ((q.stage = "answer" /\ ~q.err) \/ q.code = "zero" => q.ran)
SoundInv == \A r \in Req : Sound(req[r])

\* The path holds the first n buffers of r, and nothing else.
Prefix(r, n) == \A i \in 1..Limit + 1 : file[i] = IF i <= n THEN r ELSE NoReq

\* What the upload r with record q has left in the path, if somebody waits for it
\* and no other has touched it.
Leaves(r, q) ==
    q.kind = "put" /\ q.caller = "waiting" /\ ~q.clash =>
        /\ q.stage = "write" => Prefix(r, q.wrote)
        /\ (q.stage = "close" /\ ~q.err) \/ q.stage = "chmod" => Prefix(r, q.size) /\ ~dirty
        /\ (q.stage = "answer" /\ ~q.err) \/ q.code = "zero" =>
               Prefix(r, q.size) /\ ~dirty /\ (windows \/ mode = r)
LeavesInv == \A r \in Req : Leaves(r, req[r])

IInv == TypeOK /\ SoundInv /\ LeavesInv

LEMMA NewSound == NewRequest \in Request /\ Sound(NewRequest)
BY TransferAssumption DEF NewRequest, Request, Kinds, Sound, Early, Uploading

LEMMA InitInv == Init => IInv
<1> SUFFICES ASSUME Init PROVE IInv
  OBVIOUS
<1> USE TransferAssumption DEF Init
<1>1. NewRequest \in Request /\ Sound(NewRequest)
  BY NewSound
<1>2. TypeOK
  <2>1. req \in [Req -> Request] /\ file \in [1..Limit + 1 -> Req \cup {NoReq}]
    BY <1>1 DEF Empty
  <2>2. \A r \in Req : req[r].wrote <= Limit
    BY DEF NewRequest
  <2>3. deaths \in 0..MaxDeaths
    OBVIOUS
  <2> QED
    BY <2>1, <2>2, <2>3 DEF TypeOK
<1>3. SoundInv
  BY <1>1 DEF SoundInv
<1>4. LeavesInv
  BY DEF LeavesInv, Leaves, NewRequest
<1> QED
  BY <1>2, <1>3, <1>4 DEF IInv

(***************************************************************************)
(* Updates of one request                                                  *)
(***************************************************************************)
LEMMA ForgottenType ==
    ASSUME NEW h \in {"closed", "open", "lost"}
    PROVE  [NewRequest EXCEPT !.caller = "gone", !.handle = h] \in Request
BY NewSound DEF Request

\* Settle forgets only what nobody compares any more.
LEMMA SettleSound ==
    ASSUME NEW q \in Request, Sound(q)
    PROVE  /\ Settle(q) \in Request /\ Sound(Settle(q))
           /\ Settle(q).wrote <= q.wrote
           /\ Settle(q).caller = q.caller
           /\ q.caller # "gone" => Settle(q) = q
<1> USE TransferAssumption
<1>1. CASE q.caller # "gone"
  BY <1>1 DEF Settle, Request
<1>2. CASE q.caller = "gone" /\ q.stage \in {"none", "ended"} /\ q.proc \in {"none", "exited"}
  <2>1. Settle(q) = [NewRequest EXCEPT !.caller = "gone", !.handle = q.handle]
    BY <1>2 DEF Settle
  <2>2. Settle(q) \in Request
    <3>1. q.handle \in {"closed", "open", "lost"}
      BY DEF Request
    <3> QED
      BY <2>1, <3>1, ForgottenType
  <2>3. /\ Settle(q).caller = "gone" /\ Settle(q).handle = q.handle /\ Settle(q).stage = "none"
        /\ Settle(q).wrote = 0 /\ Settle(q).total = 0
    BY <2>1 DEF NewRequest
  <2>4. Sound(Settle(q))
    BY <1>2, <2>3 DEF Sound, Early, Uploading
  <2> QED
    BY <1>2, <2>2, <2>3, <2>4 DEF Request
<1>3. CASE q.caller = "gone" /\ ~(q.stage \in {"none", "ended"} /\ q.proc \in {"none", "exited"})
  <2>1. Settle(q) = [q EXCEPT !.size = q.total, !.ran = FALSE, !.clash = FALSE, !.code = "none"]
    BY <1>3 DEF Settle
  <2>2. Settle(q) \in Request
    BY <2>1 DEF Request
  <2>3. /\ Settle(q).caller = "gone" /\ Settle(q).handle = q.handle /\ Settle(q).stage = q.stage
        /\ Settle(q).wrote = q.wrote /\ Settle(q).total = q.total /\ Settle(q).kind = q.kind
    BY <1>3, <2>1 DEF Request
  <2>4. Sound(Settle(q))
    BY <1>3, <2>3 DEF Sound
  <2> QED
    BY <1>3, <2>2, <2>3, <2>4 DEF Request
<1> QED
  BY <1>1, <1>2, <1>3

\* Fields that several steps set keep the type of a request.
LEMMA BegunType ==
    ASSUME NEW q \in Request, NEW k \in Kinds, NEW n \in 0..Limit + 1,
           NEW w \in {"socket", "request"}, NEW t \in {"open", "run", "none"}
    PROVE  [q EXCEPT !.caller = "waiting", !.kind = k, !.size = n, !.total = n,
                     !.proc = w, !.stage = t] \in Request
BY DEF Request

LEMMA StageType ==
    ASSUME NEW q \in Request, NEW s \in {"body", "os", "ping", "mkdir", "run", "open", "close", "answer"}
    PROVE  [q EXCEPT !.stage = s] \in Request
BY DEF Request

LEMMA HandleType ==
    ASSUME NEW q \in Request, NEW h \in {"closed", "open", "lost"}, NEW s \in {"write", "chmod", "answer"}
    PROVE  /\ [q EXCEPT !.handle = h, !.stage = s] \in Request
           /\ [q EXCEPT !.handle = h, !.err = TRUE, !.stage = s] \in Request
           /\ [q EXCEPT !.err = TRUE, !.handle = h, !.stage = s] \in Request
<1>1. [q EXCEPT !.handle = h, !.stage = s] \in Request
  BY DEF Request
<1>2. [q EXCEPT !.handle = h, !.err = TRUE, !.stage = s] \in Request
  BY DEF Request
<1>3. [q EXCEPT !.err = TRUE, !.handle = h, !.stage = s] \in Request
  BY DEF Request
<1> QED
  BY <1>1, <1>2, <1>3

LEMMA RanType ==
    ASSUME NEW q \in Request, NEW e \in BOOLEAN
    PROVE  /\ [q EXCEPT !.ran = TRUE, !.stage = "answer"] \in Request
           /\ [q EXCEPT !.ran = TRUE, !.stage = "answer", !.err = e] \in Request
<1>1. [q EXCEPT !.ran = TRUE, !.stage = "answer"] \in Request
  BY DEF Request
<1>2. [q EXCEPT !.ran = TRUE, !.stage = "answer", !.err = e] \in Request
  BY DEF Request
<1> QED
  BY <1>1, <1>2

LEMMA FailedType ==
    ASSUME NEW q \in Request, NEW s \in {"close", "answer"}
    PROVE  [q EXCEPT !.err = TRUE, !.stage = s] \in Request
BY DEF Request

LEMMA GoneType ==
    ASSUME NEW q \in Request, NEW n \in 0..Limit + 1
    PROVE  [q EXCEPT !.caller = "gone", !.total = n] \in Request
BY DEF Request

LEMMA WrittenType ==
    ASSUME NEW q \in Request, NEW n \in 0..Limit + 1, NEW e \in BOOLEAN, NEW t \in {"write", "close"}
    PROVE  [q EXCEPT !.wrote = n, !.err = e, !.stage = t] \in Request
BY DEF Request

LEMMA EndedType ==
    ASSUME NEW q \in Request
    PROVE  Ended(q) \in Request
<1>1. 0 \in 0..Limit + 1
  BY TransferAssumption
<1> QED
  BY <1>1 DEF Request, Ended

LEMMA AnsweredType ==
    ASSUME NEW q \in Request, NEW c \in {"zero", "nonzero"}
    PROVE  [q EXCEPT !.proc = "exited", !.code = c] \in Request
BY DEF Request

LEMMA KilledType ==
    ASSUME NEW q \in Request, NEW h \in {"closed", "lost"}
    PROVE  [q EXCEPT !.proc = "exited", !.code = "nonzero", !.handle = h] \in Request
BY DEF Request

\* A step that replaces the record of r by q, and writes nothing to the path.
LEMMA BecomesKeeps ==
    ASSUME IInv, NEW r \in Req, NEW q \in Request, Becomes(r, q), Sound(q),
           qga => q.wrote <= Limit, Leaves(r, q)', UNCHANGED <<node, file, mode>>,
           dirty' \in {dirty, FALSE},
           osKnown' \in BOOLEAN, UNCHANGED <<serving, socket, deaths>>
    PROVE  IInv'
<1> USE TransferAssumption DEF node
<1>0. req' = [req EXCEPT ![r] = Settle(q)] /\ req \in [Req -> Request]
  BY DEF Becomes, IInv, TypeOK
<1>1. TypeOK'
  <2>1. req' \in [Req -> Request]
    BY <1>0, SettleSound
  <2>2. qga => \A x \in Req : req'[x].wrote <= Limit
    <3> SUFFICES ASSUME qga, NEW x \in Req PROVE req'[x].wrote <= Limit
      OBVIOUS
    <3>1. Settle(q).wrote <= q.wrote /\ Settle(q).wrote \in Nat /\ q.wrote \in Nat /\ q.wrote <= Limit
      BY SettleSound DEF Request
    <3> QED
      BY <1>0, <3>1 DEF IInv, TypeOK
  <2> QED
    BY <2>1, <2>2 DEF IInv, TypeOK, qga
<1>2. SoundInv'
  BY <1>0, SettleSound DEF IInv, SoundInv
<1>3. LeavesInv'
  <2> SUFFICES ASSUME NEW x \in Req PROVE Leaves(x, req[x])'
    BY DEF LeavesInv
  <2>1. CASE x = r
    <3>1. CASE q.caller = "gone"
      BY <1>0, <2>1, <3>1, SettleSound DEF Leaves
    <3>2. CASE q.caller # "gone"
      BY <1>0, <2>1, <3>2, SettleSound
    <3> QED
      BY <3>1, <3>2
  <2>2. CASE x # r
    BY <1>0, <2>2 DEF IInv, TypeOK, LeavesInv, Leaves, Prefix
  <2> QED
    BY <2>1, <2>2
<1> QED
  BY <1>1, <1>2, <1>3 DEF IInv

\* A step that writes to the path clashes with the uploads under way.
LEMMA TouchKeeps ==
    ASSUME IInv, NEW r \in Req, NEW q \in Request, req' = Touch(r, q), Sound(q),
           qga => q.wrote <= Limit, Leaves(r, q)', UNCHANGED <<node, helper>>,
           file' \in [1..Limit + 1 -> Req \cup {NoReq}], mode' \in Req \cup {NoReq}, dirty' \in BOOLEAN
    PROVE  IInv'
<1> USE TransferAssumption DEF node, helper
<1>0. req \in [Req -> Request] /\ req'[r] = q
  BY DEF Touch, IInv, TypeOK
<1>1. ASSUME NEW x \in Req, x # r
      PROVE  /\ req'[x] \in Request /\ Sound(req'[x])
             /\ req'[x].wrote = req[x].wrote
             /\ Leaves(x, req[x])'
  <2>1. PICK b \in BOOLEAN : /\ req'[x] = [req[x] EXCEPT !.clash = b]
                             /\ req[x].kind = "put" /\ req[x].caller = "waiting" /\ ~b =>
                                   req[x].stage \in {"none", "os", "mkdir", "open"}
    BY <1>0, <1>1 DEF Touch, Request
  <2>2. req[x] \in Request /\ Sound(req[x])
    BY <1>0 DEF IInv, SoundInv
  <2>3. req'[x] \in Request /\ req'[x].wrote = req[x].wrote
    BY <2>1, <2>2 DEF Request
  <2>4. Sound(req'[x])
    BY <2>1, <2>2 DEF Request, Sound, NewRequest
  <2>5. Leaves(x, req[x])'
    BY <2>1, <2>2 DEF Leaves, Sound, Request
  <2> QED
    BY <2>3, <2>4, <2>5
<1>2. TypeOK'
  BY <1>0, <1>1 DEF Touch, IInv, TypeOK, qga
<1>3. SoundInv' /\ LeavesInv'
  BY <1>0, <1>1 DEF SoundInv, LeavesInv
<1> QED
  BY <1>2, <1>3 DEF IInv

\* Nothing is said of an upload nobody waits for, that has not truncated the path
\* yet, or that ends with an error.
LEMMA LeavesNothing ==
    ASSUME NEW r \in Req, NEW q \in Request,
           \/ q.kind # "put" \/ q.caller # "waiting"
           \/ /\ q.stage \notin {"write", "chmod"} /\ q.code # "zero"
              /\ q.stage \in {"close", "answer"} => q.err
    PROVE  Leaves(r, q)'
BY DEF Leaves

\* Nor does a step change what is said that leaves the path and these fields alone.
LEMMA LeavesCarried ==
    ASSUME NEW r \in Req, NEW q \in Request, Leaves(r, req[r]), UNCHANGED <<node, path>>,
           q.kind = req[r].kind, q.caller = req[r].caller, q.clash = req[r].clash,
           q.stage = req[r].stage, q.size = req[r].size, q.wrote = req[r].wrote,
           q.err = req[r].err, q.code \in {req[r].code, "nonzero"}
    PROVE  Leaves(r, q)'
BY DEF Leaves, Prefix, node, path

\* An upload past its last write that succeeds so far: its content is in the path.
Whole(r, q) ==
    q.kind = "put" /\ q.caller = "waiting" /\ ~q.clash =>
        /\ (q.stage = "close" /\ ~q.err) \/ q.stage = "chmod" => Prefix(r, q.size) /\ ~dirty'
        /\ (q.stage = "answer" /\ ~q.err) \/ q.code = "zero" =>
               Prefix(r, q.size) /\ ~dirty' /\ (windows \/ mode' = r)

LEMMA LeavesWhole ==
    ASSUME NEW r \in Req, NEW q \in Request, UNCHANGED <<windows, file>>, q.stage # "write",
           Whole(r, q)
    PROVE  Leaves(r, q)'
<1>1. Prefix(r, q.size) => Prefix(r, q.size)'
  BY DEF Prefix
<1> QED
  BY <1>1 DEF Leaves, Whole

(***************************************************************************)
(* The steps                                                               *)
(***************************************************************************)
LEMMA StepInv == IInv /\ [Next]_vars => IInv'
<1> SUFFICES ASSUME IInv, [Next]_vars PROVE IInv'
  OBVIOUS
<1>0. ASSUME NEW r \in Req
      PROVE  req[r] \in Request /\ Sound(req[r]) /\ Leaves(r, req[r]) /\ (qga => req[r].wrote <= Limit)
  BY DEF IInv, TypeOK, SoundInv, LeavesInv
<1>t. osKnown \in BOOLEAN /\ dirty \in BOOLEAN
  BY DEF IInv, TypeOK
<1> USE <1>t, TransferAssumption
<1>1. ASSUME NEW r \in Req, NEW k \in KindsOf[r], NEW n \in Sizes, Begin(r, k, n) PROVE IInv'
  <2>a. PICK w \in {"socket", "request"}, t \in {"open", "run", "none"} :
          /\ w = IF qga /\ k # "ping" THEN "socket" ELSE "request"
          /\ t = IF qga THEN "none" ELSE FirstStage(k)
    BY DEF FirstStage
  <2>b. k \in Kinds /\ n \in 0..Limit + 1
    <3>1. k \in Kinds
      BY Zenon DEF Kinds
    <3> QED
      BY <3>1
  <2>0. PICK q \in Request : q = [req[r] EXCEPT !.caller = "waiting", !.kind = k, !.size = n, !.total = n,
                                               !.proc = w, !.stage = t]
    BY <1>0, <2>b, BegunType
  <2>1. /\ Becomes(r, q) /\ UNCHANGED <<node, path, serving, socket, deaths>> /\ osKnown' \in BOOLEAN
    BY <1>1, <2>a, <2>0 DEF Begin, helper
  <2>3. Sound(q)
    BY <1>0, <1>1, <2>a, <2>b, <2>0 DEF Sound, Request, Early, Uploading, Begin, FirstStage
  <2>4. qga => q.wrote <= Limit
    BY <1>0, <2>0 DEF Request
  <2>5. Leaves(r, q)'
    <3>1. q.stage = t /\ q.code = req[r].code
      BY <1>0, <2>b, <2>0 DEF Request
    <3> QED
      BY <1>0, <1>1, <2>a, <3>1, LeavesNothing DEF Begin, Sound
  <2> QED
    BY <2>1, <2>3, <2>4, <2>5, BecomesKeeps DEF path
<1>2. ASSUME NEW r \in Req, Refuse(r) PROVE IInv'
  <2>0. PICK q \in Request : q = [req[r] EXCEPT !.caller = "gone"]
    BY <1>0, <1>2 DEF Request, Refuse
  <2>1. /\ Becomes(r, q) /\ UNCHANGED <<node, path, serving, socket, deaths>> /\ osKnown' \in BOOLEAN
    BY <2>0, <1>2 DEF Refuse, helper
  <2>3. Sound(q)
    BY <1>0, <1>2, <2>0 DEF Sound, Request, Early, Uploading, Refuse
  <2>4. qga => q.wrote <= Limit
    BY <1>0, <2>0 DEF Request
  <2>5. Leaves(r, q)'
    <3>1. q.caller = "gone"
      BY <1>0, <2>0 DEF Request
    <3> QED
      BY <3>1, LeavesNothing
  <2> QED
    BY <2>1, <2>3, <2>4, <2>5, BecomesKeeps DEF path
<1>3. ASSUME NEW r \in Req, CLIReturns(r) PROVE IInv'
  <2>0. PICK q \in Request : q = [req[r] EXCEPT !.caller = "gone"]
    BY <1>0, <1>3 DEF Request, CLIReturns
  <2>1. /\ Becomes(r, q) /\ UNCHANGED <<node, path, serving, socket, deaths>> /\ osKnown' \in BOOLEAN
    BY <2>0, <1>3 DEF CLIReturns, helper
  <2>3. Sound(q)
    BY <1>0, <1>3, <2>0 DEF Sound, Request, Early, Uploading, CLIReturns
  <2>4. qga => q.wrote <= Limit
    BY <1>0, <2>0 DEF Request
  <2>5. Leaves(r, q)'
    <3>1. q.caller = "gone"
      BY <1>0, <2>0 DEF Request
    <3> QED
      BY <3>1, LeavesNothing
  <2> QED
    BY <2>1, <2>3, <2>4, <2>5, BecomesKeeps DEF path
<1>4. ASSUME NEW r \in Req, SocketSeen(r) PROVE IInv'
  <2>0. PICK q \in Request : q = [req[r] EXCEPT !.proc = "request"]
    BY <1>0, <1>4 DEF Request, SocketSeen
  <2>1. /\ Becomes(r, q) /\ UNCHANGED <<node, path, serving, socket, deaths>> /\ osKnown' \in BOOLEAN
    BY <2>0, <1>4 DEF SocketSeen, helper
  <2>3. Sound(q)
    BY <1>0, <1>4, <2>0 DEF Sound, Request, Early, Uploading, SocketSeen
  <2>4. qga => q.wrote <= Limit
    BY <1>0, <2>0 DEF Request
  <2>5. Leaves(r, q)'
    <3>1. /\ q.kind = req[r].kind /\ q.caller = req[r].caller /\ q.clash = req[r].clash
          /\ q.stage = req[r].stage /\ q.size = req[r].size /\ q.wrote = req[r].wrote
          /\ q.err = req[r].err /\ q.code = req[r].code
      BY <1>0, <2>0 DEF Request
    <3> QED
      BY <1>0, <2>1, <3>1, LeavesCarried
  <2> QED
    BY <2>1, <2>3, <2>4, <2>5, BecomesKeeps DEF path
<1>5. ASSUME NEW r \in Req, HelperExpires(r) PROVE IInv'
  <2>0. PICK q \in Request : q = [req[r] EXCEPT !.proc = "exited", !.code = "nonzero"]
    BY <1>0, AnsweredType
  <2>1. /\ Becomes(r, q) /\ UNCHANGED <<node, path, serving, socket, deaths>> /\ osKnown' \in BOOLEAN
    BY <2>0, <1>5 DEF HelperExpires, helper
  <2>3. Sound(q)
    <3>1. /\ q.code = "nonzero" /\ q.caller = req[r].caller /\ q.stage = req[r].stage /\ q.kind = req[r].kind
          /\ q.handle = req[r].handle /\ q.wrote = req[r].wrote /\ q.total = req[r].total
          /\ q.size = req[r].size /\ q.err = req[r].err /\ q.ran = req[r].ran
      BY <1>0, <2>0 DEF Request
    <3>2. req[r].caller # "idle"
      BY <1>0, <1>5 DEF HelperExpires, Sound
    <3> QED
      BY <1>0, <3>1, <3>2 DEF Sound
  <2>4. qga => q.wrote <= Limit
    BY <1>0, <2>0 DEF Request
  <2>5. Leaves(r, q)'
    <3>1. /\ q.kind = req[r].kind /\ q.caller = req[r].caller /\ q.clash = req[r].clash
          /\ q.stage = req[r].stage /\ q.size = req[r].size /\ q.wrote = req[r].wrote
          /\ q.err = req[r].err /\ q.code = "nonzero"
      BY <1>0, <2>0 DEF Request
    <3> QED
      BY <1>0, <2>1, <3>1, LeavesCarried
  <2> QED
    BY <2>1, <2>3, <2>4, <2>5, BecomesKeeps DEF path
<1>6. ASSUME NEW r \in Req, CallFails(r) PROVE IInv'
  <2>0. PICK q \in Request : q = [req[r] EXCEPT !.err = TRUE, !.stage = AfterError(r)]
    <3>1. AfterError(r) \in {"close", "answer"}
      BY DEF AfterError
    <3> QED
      BY <1>0, <3>1, FailedType
  <2>1. /\ Becomes(r, q) /\ UNCHANGED <<node, path, serving, socket, deaths>> /\ osKnown' \in BOOLEAN
    BY <2>0, <1>6 DEF CallFails, AfterError, Active, helper
  <2>3. Sound(q)
    BY <1>0, <1>6, <2>0 DEF Sound, Request, Early, Uploading, CallFails, AfterError, Active
  <2>4. qga => q.wrote <= Limit
    BY <1>0, <2>0 DEF Request
  <2>5. Leaves(r, q)'
    <3>1. q.caller = req[r].caller /\ q.stage = AfterError(r) /\ q.code = req[r].code /\ q.err
      BY <1>0, <2>0 DEF Request
    <3> QED
      BY <1>0, <1>6, <3>1, LeavesNothing DEF CallFails, Active, AfterError, Sound
  <2> QED
    BY <2>1, <2>3, <2>4, <2>5, BecomesKeeps DEF path
<1>7. ASSUME NEW r \in Req, AskOS(r) PROVE IInv'
  <2>0. PICK q \in Request : q = [req[r] EXCEPT !.stage = IF req[r].kind = "put" THEN "mkdir" ELSE "run"]
    <3>1. (IF req[r].kind = "put" THEN "mkdir" ELSE "run") \in {"mkdir", "run"}
      OBVIOUS
    <3> QED
      BY <1>0, <3>1, StageType
  <2>1. /\ Becomes(r, q) /\ UNCHANGED <<node, path, serving, socket, deaths>> /\ osKnown' \in BOOLEAN
    BY <2>0, <1>7 DEF AskOS, To, At, helper
  <2>3. Sound(q)
    BY <1>0, <1>7, <2>0 DEF Sound, Request, Early, Uploading, AskOS, To, At
  <2>4. qga => q.wrote <= Limit
    BY <1>0, <2>0 DEF Request
  <2>5. Leaves(r, q)'
    <3>1. q.caller = req[r].caller /\ q.stage \in {"mkdir", "run"} /\ q.code = req[r].code
      BY <1>0, <2>0 DEF Request
    <3> QED
      BY <1>0, <1>7, <3>1, LeavesNothing DEF AskOS, At, Sound
  <2> QED
    BY <2>1, <2>3, <2>4, <2>5, BecomesKeeps DEF path
<1>8. ASSUME NEW r \in Req, ReadBody(r) PROVE IInv'
  <2>0. PICK q \in Request : q = [req[r] EXCEPT !.stage = "os"]
    BY <1>0, StageType
  <2>1. /\ Becomes(r, q) /\ UNCHANGED <<node, path, serving, socket, deaths>> /\ osKnown' \in BOOLEAN
    BY <2>0, <1>8 DEF ReadBody, To, At, helper
  <2>3. Sound(q)
    BY <1>0, <1>8, <2>0 DEF Sound, Request, Early, Uploading, ReadBody, To, At
  <2>4. qga => q.wrote <= Limit
    BY <1>0, <2>0 DEF Request
  <2>5. Leaves(r, q)'
    <3>1. q.caller = req[r].caller /\ q.stage = "os" /\ q.code = req[r].code
      BY <1>0, <2>0 DEF Request
    <3> QED
      BY <1>0, <1>8, <3>1, LeavesNothing DEF ReadBody, At, Sound
  <2> QED
    BY <2>1, <2>3, <2>4, <2>5, BecomesKeeps DEF path
<1>9. ASSUME NEW r \in Req, PingGuest(r) PROVE IInv'
  <2>0. PICK q \in Request : q = [req[r] EXCEPT !.ran = TRUE, !.stage = "answer"]
    BY <1>0, RanType
  <2>1. /\ Becomes(r, q) /\ UNCHANGED <<node, path, serving, socket, deaths>> /\ osKnown' \in BOOLEAN
    BY <2>0, <1>9 DEF PingGuest, At, helper
  <2>3. Sound(q)
    BY <1>0, <1>9, <2>0 DEF Sound, Request, Early, Uploading, PingGuest, At
  <2>4. qga => q.wrote <= Limit
    BY <1>0, <2>0 DEF Request
  <2>5. Leaves(r, q)'
    <3>1. q.kind = req[r].kind
      BY <1>0, <2>0 DEF Request
    <3> QED
      BY <1>0, <1>9, <3>1, LeavesNothing DEF PingGuest, At, Sound
  <2> QED
    BY <2>1, <2>3, <2>4, <2>5, BecomesKeeps DEF path
<1>10. ASSUME NEW r \in Req, Mkdir(r) PROVE IInv'
  <2>0. PICK q \in Request : q = [req[r] EXCEPT !.stage = "open"]
    BY <1>0, StageType
  <2>1. /\ Becomes(r, q) /\ UNCHANGED <<node, path, serving, socket, deaths>> /\ osKnown' \in BOOLEAN
    BY <2>0, <1>10 DEF Mkdir, To, At, helper
  <2>3. Sound(q)
    BY <1>0, <1>10, <2>0 DEF Sound, Request, Early, Uploading, Mkdir, To, At
  <2>4. qga => q.wrote <= Limit
    BY <1>0, <2>0 DEF Request
  <2>5. Leaves(r, q)'
    <3>1. q.caller = req[r].caller /\ q.stage = "open" /\ q.code = req[r].code
      BY <1>0, <2>0, StageType DEF Request
    <3> QED
      BY <1>0, <1>10, <3>1, LeavesNothing DEF Mkdir, At, Sound
  <2> QED
    BY <2>1, <2>3, <2>4, <2>5, BecomesKeeps DEF path
<1>11. ASSUME NEW r \in Req, Close(r) PROVE IInv'
  <2>0. PICK q \in Request : q = [req[r] EXCEPT !.handle = "closed", !.stage = AfterClose(r)]
    <3>1. AfterClose(r) \in {"answer", "chmod"}
      BY DEF AfterClose
    <3> QED
      BY <1>0, <3>1, HandleType
  <2>1. /\ Becomes(r, q) /\ UNCHANGED <<node, path, serving, socket, deaths>> /\ osKnown' \in BOOLEAN
    BY <2>0, <1>11 DEF Close, AfterClose, helper
  <2>3. Sound(q)
    BY <1>0, <1>11, <2>0 DEF Sound, Request, Early, Uploading, Close, AfterClose
  <2>4. qga => q.wrote <= Limit
    BY <1>0, <2>0 DEF Request
  <2>5. Leaves(r, q)'
    <3>1. /\ q.kind = req[r].kind /\ q.caller = req[r].caller /\ q.clash = req[r].clash
          /\ q.stage = AfterClose(r) /\ q.size = req[r].size /\ q.err = req[r].err /\ q.code = req[r].code
      BY <1>0, <2>0 DEF Request
    <3>2. q.stage # "write" /\ UNCHANGED <<windows, file>>
      BY <2>1, <3>1, <1>11 DEF AfterClose, node, path
    <3>3. /\ req[r].stage = "close" /\ (q.caller = "waiting" => q.code # "zero")
          /\ q.stage = "chmod" => ~req[r].err
          /\ q.stage = "answer" /\ ~q.err => ~req[r].err /\ windows
          /\ q.stage # "close"
      BY <1>0, <1>11, <3>1 DEF Close, AfterClose, Sound
    <3>4. Whole(r, q)
      BY <1>0, <2>1, <3>1, <3>3 DEF Leaves, Whole, path
    <3> QED
      BY <3>2, <3>4, LeavesWhole
  <2> QED
    BY <2>1, <2>3, <2>4, <2>5, BecomesKeeps DEF path
<1>12. ASSUME NEW r \in Req, DirectFails(r) PROVE IInv'
  <2>0. PICK q \in Request : q = [req[r] EXCEPT !.err = TRUE, !.handle = "closed", !.stage = "answer"]
    BY <1>0, HandleType
  <2>1. /\ Becomes(r, q) /\ UNCHANGED <<node, path, serving, socket, deaths>> /\ osKnown' \in BOOLEAN
    BY <2>0, <1>12 DEF DirectFails, helper
  <2>3. Sound(q)
    BY <1>0, <1>12, <2>0 DEF Sound, Request, Early, Uploading, DirectFails
  <2>4. qga => q.wrote <= Limit
    BY <1>0, <2>0 DEF Request
  <2>5. Leaves(r, q)'
    <3>1. q.caller = req[r].caller /\ q.stage = "answer" /\ q.code = req[r].code /\ q.err
      BY <1>0, <2>0 DEF Request
    <3> QED
      BY <1>0, <1>12, <3>1, LeavesNothing DEF DirectFails, Sound
  <2> QED
    BY <2>1, <2>3, <2>4, <2>5, BecomesKeeps DEF path
<1>13. ASSUME NEW r \in Req, Abandon(r) PROVE IInv'
  <2>a. PICK n \in req[r].wrote..req[r].total : Becomes(r, [req[r] EXCEPT !.caller = "gone", !.total = n])
    BY <1>13 DEF Abandon
  <2>0. PICK q \in Request : q = [req[r] EXCEPT !.caller = "gone", !.total = n]
    <3>1. n \in 0..Limit + 1
      BY <1>0, <2>a DEF Request
    <3> QED
      BY <1>0, <3>1, GoneType
  <2>1. /\ Becomes(r, q) /\ UNCHANGED <<node, path, serving, socket, deaths>> /\ osKnown' \in BOOLEAN
    BY <1>13, <2>a, <2>0 DEF Abandon, helper
  <2>3. Sound(q)
    BY <1>0, <1>13, <2>a, <2>0 DEF Sound, Request, Early, Uploading, Abandon
  <2>4. qga => q.wrote <= Limit
    BY <1>0, <2>0 DEF Request, Ended
  <2>5. Leaves(r, q)'
    <3>1. q.caller = "gone"
      BY <1>0, <2>0 DEF Request
    <3> QED
      BY <3>1, LeavesNothing
  <2> QED
    BY <2>1, <2>3, <2>4, <2>5, BecomesKeeps DEF path
<1>14. ASSUME NEW r \in Req, RunCommand(r) PROVE IInv'
  <2>a. PICK failed \in BOOLEAN : Becomes(r, [req[r] EXCEPT !.ran = TRUE, !.stage = "answer", !.err = failed])
    BY <1>14 DEF RunCommand
  <2>0. PICK q \in Request : q = [req[r] EXCEPT !.ran = TRUE, !.stage = "answer", !.err = failed]
    BY <1>0, RanType
  <2>1. /\ Becomes(r, q) /\ UNCHANGED <<node, path, serving, socket, deaths>> /\ osKnown' \in BOOLEAN
    BY <1>14, <2>a, <2>0 DEF RunCommand, At, helper
  <2>3. Sound(q)
    BY <1>0, <1>14, <2>a, <2>0 DEF Sound, Request, Early, Uploading, RunCommand, At
  <2>4. qga => q.wrote <= Limit
    BY <1>0, <2>0 DEF Request, Ended
  <2>5. Leaves(r, q)'
    <3>1. q.kind = req[r].kind
      BY <1>0, <2>0 DEF Request
    <3> QED
      BY <1>0, <1>14, <3>1, LeavesNothing DEF RunCommand, At, Sound
  <2> QED
    BY <2>1, <2>3, <2>4, <2>5, BecomesKeeps DEF path
<1>15. ASSUME NEW r \in Req, CloseLost(r) PROVE IInv'
  <2>a. PICK h \in {"closed", "lost"} :
          Becomes(r, [req[r] EXCEPT !.handle = h, !.err = TRUE, !.stage = "answer"])
    BY <1>15 DEF CloseLost
  <2>0. PICK q \in Request : q = [req[r] EXCEPT !.handle = h, !.err = TRUE, !.stage = "answer"]
    BY <1>0, HandleType
  <2>1. /\ Becomes(r, q) /\ UNCHANGED <<node, path, serving, socket, deaths>> /\ osKnown' \in BOOLEAN
    BY <1>15, <2>a, <2>0 DEF CloseLost, helper
  <2>3. Sound(q)
    BY <1>0, <1>15, <2>a, <2>0 DEF Sound, Request, Early, Uploading, CloseLost
  <2>4. qga => q.wrote <= Limit
    BY <1>0, <2>0 DEF Request, Ended
  <2>5. Leaves(r, q)'
    <3>1. q.caller = req[r].caller /\ q.stage = "answer" /\ q.code = req[r].code /\ q.err
      BY <1>0, <2>0 DEF Request
    <3> QED
      BY <1>0, <1>15, <3>1, LeavesNothing DEF CloseLost, Sound
  <2> QED
    BY <2>1, <2>3, <2>4, <2>5, BecomesKeeps DEF path
<1>16. ASSUME NEW r \in Req, Connect(r) /\ serving PROVE IInv'
  <2>0. PICK q \in Request : q = [req[r] EXCEPT !.stage = ServerStage(req[r].kind)]
    <3>1. ServerStage(req[r].kind) \in {"os", "body", "ping"}
      BY DEF ServerStage
    <3> QED
      BY <1>0, <3>1, StageType
  <2>1. /\ Becomes(r, q) /\ UNCHANGED <<node, path, serving, socket, deaths>> /\ osKnown' \in BOOLEAN
    BY <1>16, <2>0 DEF Connect, To, ServerStage, helper
  <2>3. Sound(q)
    BY <1>0, <1>16, <2>0 DEF Sound, Request, Early, Uploading, Connect, To, ServerStage
  <2>4. qga => q.wrote <= Limit
    BY <1>0, <2>0 DEF Request, Ended
  <2>5. Leaves(r, q)'
    <3>1. q.caller = req[r].caller /\ q.stage \in {"os", "body", "ping"} /\ q.code = req[r].code
      BY <1>0, <2>0 DEF Request, ServerStage
    <3> QED
      BY <1>0, <1>16, <3>1, LeavesNothing DEF Connect, Sound
  <2> QED
    BY <2>1, <2>3, <2>4, <2>5, BecomesKeeps DEF path
<1>17. ASSUME NEW r \in Req, Connect(r) /\ ~serving PROVE IInv'
  <2>0. PICK q \in Request : q = [req[r] EXCEPT !.proc = "exited", !.code = "nonzero"]
    BY <1>0, AnsweredType
  <2>1. /\ Becomes(r, q) /\ UNCHANGED <<node, path, serving, socket, deaths>> /\ osKnown' \in BOOLEAN
    BY <1>17, <2>0 DEF Connect, Exit, helper
  <2>3. Sound(q)
    BY <1>0, <1>17, <2>0 DEF Sound, Request, Early, Uploading, Connect, Exit
  <2>4. qga => q.wrote <= Limit
    BY <1>0, <2>0 DEF Request, Ended
  <2>5. Leaves(r, q)'
    <3>1. /\ q.kind = req[r].kind /\ q.caller = req[r].caller /\ q.clash = req[r].clash
          /\ q.stage = req[r].stage /\ q.size = req[r].size /\ q.wrote = req[r].wrote
          /\ q.err = req[r].err /\ q.code = "nonzero"
      BY <1>0, <2>0 DEF Request
    <3> QED
      BY <1>0, <2>1, <3>1, LeavesCarried
  <2> QED
    BY <2>1, <2>3, <2>4, <2>5, BecomesKeeps DEF path
<1>18. ASSUME NEW r \in Req, Answer(r) /\ req[r].proc = "exited" PROVE IInv'
  <2>0. PICK q \in Request : q = Ended(req[r])
    BY <1>0, EndedType
  <2>1. /\ Becomes(r, q) /\ UNCHANGED <<node, path, serving, socket, deaths>> /\ osKnown' \in BOOLEAN
    BY <1>18, <2>0 DEF Answer, Ended, At, helper
  <2>3. Sound(q)
    BY <1>0, <1>18, <2>0 DEF Sound, Request, Early, Uploading, Answer, Ended, At
  <2>4. qga => q.wrote <= Limit
    BY <1>0, <2>0 DEF Request, Ended
  <2>5. Leaves(r, q)'
    <3>1. /\ q.kind = req[r].kind /\ q.caller = req[r].caller /\ q.clash = req[r].clash
          /\ q.stage = "ended" /\ q.size = req[r].size /\ q.code = req[r].code
      BY <1>0, <2>0 DEF Request, Ended
    <3>2. q.stage # "write" /\ UNCHANGED <<windows, file>>
      BY <2>1, <3>1 DEF node, path
    <3>3. Whole(r, q)
      BY <1>0, <1>18, <2>1, <3>1 DEF Whole, Sound, Answer, At
    <3> QED
      BY <3>2, <3>3, LeavesWhole
  <2> QED
    BY <2>1, <2>3, <2>4, <2>5, BecomesKeeps DEF path
<1>19. ASSUME NEW r \in Req, Answer(r) /\ req[r].proc # "exited" PROVE IInv'
  <2>a. PICK c \in {"zero", "nonzero"} : c = IF req[r].err THEN "nonzero" ELSE "zero"
    OBVIOUS
  <2>0. PICK q \in Request : q = [Ended(req[r]) EXCEPT !.proc = "exited", !.code = c]
    BY <1>0, EndedType, AnsweredType
  <2>1. /\ Becomes(r, q) /\ UNCHANGED <<node, path, serving, socket, deaths>> /\ osKnown' \in BOOLEAN
    BY <1>19, <2>a, <2>0 DEF Answer, Ended, At, helper
  <2>3. Sound(q)
    BY <1>0, <1>19, <2>a, <2>0 DEF Sound, Request, Early, Uploading, Answer, Ended, At
  <2>4. qga => q.wrote <= Limit
    BY <1>0, <2>0 DEF Request, Ended
  <2>5. Leaves(r, q)'
    <3>1. /\ q.kind = req[r].kind /\ q.caller = req[r].caller /\ q.clash = req[r].clash
          /\ q.stage = "ended" /\ q.size = req[r].size /\ q.code = c
      BY <1>0, <2>0 DEF Request, Ended
    <3>2. q.stage # "write" /\ UNCHANGED <<windows, file>>
      BY <2>1, <3>1 DEF node, path
    <3>3. q.code = "zero" => ~req[r].err
      BY <2>a, <3>1
    <3>4. req[r].stage = "answer"
      BY <1>19 DEF Answer, At
    <3>5. Whole(r, q)
      BY <1>0, <2>1, <3>1, <3>3, <3>4 DEF Leaves, Whole, path
    <3> QED
      BY <3>2, <3>5, LeavesWhole
  <2> QED
    BY <2>1, <2>3, <2>4, <2>5, BecomesKeeps DEF path
<1>20. ASSUME NEW r \in Req, Flush(r) /\ qga PROVE IInv'
  <2>0. PICK q \in Request : q = [req[r] EXCEPT !.stage = "close"]
    BY <1>0, StageType
  <2>1. /\ Becomes(r, q) /\ UNCHANGED <<node, file, mode, osKnown, serving, socket, deaths>> /\ dirty' = FALSE
    BY <1>20, <2>0 DEF Flush, To, helper
  <2>3. Sound(q)
    BY <1>0, <1>20, <2>0 DEF Sound, Request, Early, Uploading, Flush, At
  <2>4. qga => q.wrote <= Limit
    BY <1>0, <2>0 DEF Request
  <2>5. Leaves(r, q)'
    <3>1. /\ q.kind = req[r].kind /\ q.caller = req[r].caller /\ q.clash = req[r].clash
          /\ q.stage = "close" /\ q.size = req[r].size /\ q.err = req[r].err /\ q.code = req[r].code
      BY <1>0, <2>0 DEF Request
    <3>2. q.stage # "write" /\ UNCHANGED <<windows, file>>
      BY <2>1, <3>1 DEF node, path
    <3>3. Whole(r, q)
      BY <1>0, <1>20, <2>1, <3>1 DEF Leaves, Whole, Sound, node, Flush, At, BodyEnds
    <3> QED
      BY <3>2, <3>3, LeavesWhole
  <2> QED
    BY <2>1, <2>3, <2>4, <2>5, BecomesKeeps
<1>21. ASSUME NEW r \in Req, Flush(r) /\ ~qga PROVE IInv'
  <2>0. PICK q \in Request : q = [req[r] EXCEPT !.handle = "closed", !.stage = "chmod"]
    BY <1>0, HandleType
  <2>1. /\ Becomes(r, q) /\ UNCHANGED <<node, file, mode, osKnown, serving, socket, deaths>> /\ dirty' = FALSE
    BY <1>21, <2>0 DEF Flush, To, helper
  <2>3. Sound(q)
    BY <1>0, <1>21, <2>0 DEF Sound, Request, Early, Uploading, Flush, At
  <2>4. qga => q.wrote <= Limit
    BY <1>0, <2>0 DEF Request
  <2>5. Leaves(r, q)'
    <3>1. /\ q.kind = req[r].kind /\ q.caller = req[r].caller /\ q.clash = req[r].clash
          /\ q.stage = "chmod" /\ q.size = req[r].size /\ q.err = req[r].err /\ q.code = req[r].code
      BY <1>0, <2>0 DEF Request
    <3>2. q.stage # "write" /\ UNCHANGED <<windows, file>>
      BY <2>1, <3>1 DEF node, path
    <3>3. Whole(r, q)
      BY <1>0, <1>21, <2>1, <3>1 DEF Leaves, Whole, Sound, node, Flush, At, BodyEnds
    <3> QED
      BY <3>2, <3>3, LeavesWhole
  <2> QED
    BY <2>1, <2>3, <2>4, <2>5, BecomesKeeps
<1>22. ASSUME NEW r \in Req, Open(r) PROVE IInv'
  <2>0. PICK q \in Request : q = [req[r] EXCEPT !.handle = "open", !.stage = "write"]
    BY <1>0, HandleType
  <2>1. /\ req' = Touch(r, q) /\ UNCHANGED <<node, helper>>
        /\ file' \in [1..Limit + 1 -> Req \cup {NoReq}] /\ mode' \in Req \cup {NoReq} /\ dirty' \in BOOLEAN
    BY <1>0, <1>t, <1>22, <2>0 DEF IInv, TypeOK, Open, Empty
  <2>3. Sound(q)
    BY <1>0, <1>22, <2>0 DEF Sound, Request, Early, Uploading, Open, At
  <2>4. qga => q.wrote <= Limit
    BY <1>0, <1>22, <2>0 DEF Request, Open, At
  <2>5. Leaves(r, q)'
    <3>1. /\ q.kind = req[r].kind /\ q.caller = req[r].caller /\ q.clash = req[r].clash
          /\ q.stage = "write" /\ q.wrote = req[r].wrote /\ q.code = req[r].code
      BY <1>0, <2>0 DEF Request
    <3>2. q.wrote = 0 /\ (q.caller = "waiting" => q.code # "zero") /\ file' = Empty
      BY <1>0, <1>22, <3>1 DEF Sound, Early, Open, At
    <3>3. Prefix(r, q.wrote)'
      <4>1. \A i \in 1..Limit + 1 : ~(i <= q.wrote) /\ file'[i] = NoReq
        BY <3>2 DEF Empty
      <4> QED
        BY <4>1 DEF Prefix
    <3> QED
      BY <3>1, <3>2, <3>3 DEF Leaves
  <2> QED
    BY <2>1, <2>3, <2>4, <2>5, TouchKeeps, Zenon
<1>23. ASSUME NEW r \in Req, OpenLost(r) PROVE IInv'
  <2>0. PICK q \in Request : q = [req[r] EXCEPT !.handle = "lost", !.err = TRUE, !.stage = "answer"]
    BY <1>0, HandleType
  <2>1. /\ req' = Touch(r, q) /\ UNCHANGED <<node, helper>>
        /\ file' \in [1..Limit + 1 -> Req \cup {NoReq}] /\ mode' \in Req \cup {NoReq} /\ dirty' \in BOOLEAN
    BY <1>0, <1>t, <1>23, <2>0 DEF IInv, TypeOK, OpenLost, Empty
  <2>3. Sound(q)
    BY <1>0, <1>23, <2>0 DEF Sound, Request, Early, Uploading, OpenLost, At
  <2>4. qga => q.wrote <= Limit
    BY <1>0, <1>23, <2>0 DEF Request, OpenLost, At
  <2>5. Leaves(r, q)'
    <3>1. q.caller = req[r].caller /\ q.stage = "answer" /\ q.code = req[r].code /\ q.err
      BY <1>0, <2>0 DEF Request
    <3> QED
      BY <1>0, <1>23, <3>1, LeavesNothing DEF OpenLost, At, Sound
  <2> QED
    BY <2>1, <2>3, <2>4, <2>5, TouchKeeps, Zenon
<1>24. ASSUME NEW r \in Req, Write(r) PROVE IInv'
  <2>a. PICK e \in BOOLEAN, t \in {"write", "close"} :
          /\ t = "close" => e
          /\ req' = Touch(r, [req[r] EXCEPT !.wrote = req[r].wrote + 1, !.err = e, !.stage = t])
    <3>1. PICK heard \in BOOLEAN : req' = Touch(r, [req[r] EXCEPT !.wrote = req[r].wrote + 1, !.err = ~heard,
                                                     !.stage = IF heard THEN "write" ELSE "close"])
      BY <1>24 DEF Write
    <3>2. CASE heard
      <4>1. ~heard = FALSE
        BY <3>2
      <4> QED
        BY <3>1, <3>2, <4>1
    <3>3. CASE ~heard
      <4>1. ~heard = TRUE
        BY <3>3
      <4> QED
        BY <3>1, <3>3, <4>1
    <3> QED
      BY <3>2, <3>3
  <2>0. PICK q \in Request : q = [req[r] EXCEPT !.wrote = req[r].wrote + 1, !.err = e, !.stage = t]
    <3>1. req[r].wrote + 1 \in 0..Limit + 1
      BY <1>0, <1>24 DEF Request, Sound, Write, BodyEnds
    <3> QED
      BY <1>0, <3>1, WrittenType
  <2>1. /\ req' = Touch(r, q) /\ UNCHANGED <<node, helper>>
        /\ file' \in [1..Limit + 1 -> Req \cup {NoReq}] /\ mode' \in Req \cup {NoReq} /\ dirty' \in BOOLEAN
    <3>1. /\ req' = Touch(r, q) /\ UNCHANGED <<node, helper>> /\ mode' \in Req \cup {NoReq}
          /\ file' = [file EXCEPT ![req[r].wrote + 1] = r] /\ dirty' = qga
      BY <1>24, <2>a, <2>0 DEF IInv, TypeOK, Write
    <3> QED
      BY <3>1 DEF IInv, TypeOK, qga
  <2>3. Sound(q)
    <3>1. /\ q.caller = req[r].caller /\ q.kind = req[r].kind /\ q.handle = req[r].handle
          /\ q.size = req[r].size /\ q.total = req[r].total /\ q.code = req[r].code
          /\ q.proc = req[r].proc /\ q.wrote = req[r].wrote + 1 /\ q.stage = t
      BY <1>0, <2>0 DEF Request
    <3>2. q.wrote <= q.total
      BY <1>0, <1>24, <3>1 DEF Request, Sound, Write, BodyEnds
    <3> QED
      BY <1>0, <1>24, <3>1, <3>2 DEF Sound, Early, Uploading, Write, At
  <2>4. qga => q.wrote <= Limit
    BY <1>0, <1>24, <2>0 DEF Request, Write, At, BodyEnds, WithinLimit
  <2>5. Leaves(r, q)'
    <3>1. /\ q.kind = req[r].kind /\ q.caller = req[r].caller /\ q.clash = req[r].clash
          /\ q.stage = t /\ q.err = e /\ q.wrote = req[r].wrote + 1 /\ q.code = req[r].code
      BY <1>0, <2>0 DEF Request
    <3>2. /\ req[r].stage = "write" /\ req[r].wrote \in Nat /\ (q.caller = "waiting" => q.code # "zero")
          /\ file' = [file EXCEPT ![req[r].wrote + 1] = r] /\ file \in [1..Limit + 1 -> Req \cup {NoReq}]
      BY <1>0, <1>24, <3>1 DEF Request, Sound, Write, At, IInv, TypeOK
    <3>3. Prefix(r, req[r].wrote) => Prefix(r, q.wrote)'
      BY <3>1, <3>2 DEF Prefix
    <3>4. q.kind = "put" /\ q.caller = "waiting" /\ ~q.clash => Prefix(r, q.wrote)'
      BY <1>0, <3>1, <3>2, <3>3 DEF Leaves
    <3>5. q.stage = "close" => q.err
      BY <2>a, <3>1
    <3> QED
      BY <3>1, <3>2, <3>4, <3>5 DEF Leaves
  <2> QED
    BY <2>1, <2>3, <2>4, <2>5, TouchKeeps, Zenon
<1>25. ASSUME NEW r \in Req, Chmod(r) PROVE IInv'
  <2>0. PICK q \in Request : q = [req[r] EXCEPT !.stage = "answer"]
    BY <1>0, StageType
  <2>1. /\ req' = Touch(r, q) /\ UNCHANGED <<node, helper>>
        /\ file' \in [1..Limit + 1 -> Req \cup {NoReq}] /\ mode' \in Req \cup {NoReq} /\ dirty' \in BOOLEAN
    BY <1>0, <1>t, <1>25, <2>0 DEF IInv, TypeOK, Chmod
  <2>3. Sound(q)
    BY <1>0, <1>25, <2>0 DEF Sound, Request, Early, Uploading, Chmod, At
  <2>4. qga => q.wrote <= Limit
    BY <1>0, <1>25, <2>0 DEF Request, Chmod, At
  <2>5. Leaves(r, q)'
    <3>1. /\ q.kind = req[r].kind /\ q.caller = req[r].caller /\ q.clash = req[r].clash
          /\ q.stage = "answer" /\ q.size = req[r].size /\ q.err = req[r].err /\ q.code = req[r].code
      BY <1>0, <2>0 DEF Request
    <3>2. q.stage # "write" /\ UNCHANGED <<windows, file>>
      BY <1>25, <3>1 DEF Chmod, node
    <3>3. Whole(r, q)
      BY <1>0, <1>25, <2>1, <3>1 DEF Leaves, Whole, Sound, node, Chmod, At
    <3> QED
      BY <3>2, <3>3, LeavesWhole
  <2> QED
    BY <2>1, <2>3, <2>4, <2>5, TouchKeeps, Zenon
<1>26. CASE ServeDies
  <2>1. ASSUME NEW x \in Req
        PROVE  /\ req'[x] \in Request /\ Sound(req'[x])
               /\ qga => req'[x].wrote <= Limit
               /\ Leaves(x, req[x])'
    <3>1. CASE ~Active(x)
      <4>1. req'[x] = req[x] /\ UNCHANGED <<node, path>>
        BY <1>26, <3>1 DEF ServeDies
      <4> QED
        BY <1>0, <4>1 DEF Leaves, Prefix, node, path
    <3>2. CASE Active(x)
      <4>1. PICK h \in {"closed", "lost"} : h = IF req[x].handle = "open" THEN "lost" ELSE req[x].handle
        BY <1>0 DEF Request
      <4>3. PICK q \in Request : q = [Ended(req[x]) EXCEPT !.proc = "exited", !.code = "nonzero", !.handle = h]
        BY <1>0, EndedType, KilledType
      <4>4. req'[x] = Settle(q)
        BY <1>26, <3>2, <4>1, <4>3 DEF ServeDies, Ended
      <4>5. q.stage = "ended" /\ q.code = "nonzero" /\ q.wrote = 0 /\ q.handle = h /\ q.total \in Nat
        BY <1>0, <4>3 DEF Request, Ended
      <4>6. q.caller = req[x].caller /\ q.total = req[x].total /\ q.size = req[x].size
        BY <1>0, <4>3 DEF Request, Ended
      <4>7. Sound(q)
        BY <1>0, <3>2, <4>5, <4>6 DEF Sound, Early, Uploading, Active
      <4>8. Leaves(x, q)'
        BY <4>5 DEF Leaves
      <4>9. Leaves(x, req[x])'
        BY <4>4, <4>7, <4>8, SettleSound DEF Leaves
      <4>10. req'[x].wrote <= 0 /\ req'[x] \in Request
        BY <4>4, <4>5, <4>7, SettleSound
      <4>11. req'[x].wrote <= Limit
        BY <4>10 DEF Request
      <4> QED
        BY <4>4, <4>7, <4>9, <4>10, <4>11, SettleSound
    <3> QED
      BY <3>1, <3>2
  <2>2. TypeOK'
    <3>1. req' \in [Req -> Request]
      BY <1>26, <2>1 DEF ServeDies
    <3>2. deaths' \in 0..MaxDeaths
      <4>1. deaths \in 0..MaxDeaths /\ deaths < MaxDeaths /\ deaths' = deaths + 1
        BY <1>26 DEF ServeDies, IInv, TypeOK
      <4> QED
        BY <4>1
    <3> QED
      BY <1>26, <2>1, <3>1, <3>2 DEF ServeDies, IInv, TypeOK, node, path, qga
  <2> QED
    BY <2>1, <2>2 DEF IInv, SoundInv, LeavesInv
<1>27. CASE RemoveSocket \/ Listen \/ UNCHANGED vars
  <2>1. /\ UNCHANGED <<node, req, path, deaths>>
        /\ osKnown' \in BOOLEAN /\ serving' \in BOOLEAN /\ socket' \in BOOLEAN
    BY <1>27 DEF RemoveSocket, Listen, vars, node, path, IInv, TypeOK
  <2>2. TypeOK' /\ SoundInv'
    BY <2>1 DEF IInv, TypeOK, SoundInv, node, path, qga
  <2>3. LeavesInv'
    BY <2>1 DEF IInv, LeavesInv, Leaves, Prefix, node, path
  <2> QED
    BY <2>2, <2>3 DEF IInv
<1>28. ASSUME NEW r \in Req, Connect(r) \/ Answer(r) \/ Flush(r) PROVE IInv'
  BY <1>16, <1>17, <1>18, <1>19, <1>20, <1>21, <1>28
<1> QED
  BY <1>1, <1>2, <1>3, <1>4, <1>5, <1>6, <1>7, <1>8, <1>9, <1>10, <1>11, <1>12, <1>13, <1>14, <1>15,
     <1>22, <1>23, <1>24, <1>25, <1>26, <1>27, <1>28 DEF Next, ServerStep

(***************************************************************************)
(* Theorems                                                                *)
(***************************************************************************)
\* A request that reports success did what was asked, or another upload touched
\* its path (Upload, servePut, Containerlab.Put).
THEOREM SuccessIsTrue == Spec => []NoFalseSuccess
<1>1. IInv => NoFalseSuccess
  <2> SUFFICES ASSUME IInv, NEW r \in Req, Told(r, "zero")
               PROVE  IF req[r].kind # "put" THEN req[r].ran /\ req[r].total = req[r].size
                      ELSE req[r].clash \/ (/\ \A i \in 1..Limit + 1 : file[i] = Holds(r, i)
                                            /\ ~dirty /\ (windows \/ mode = r))
    BY DEF NoFalseSuccess
  <2>1. Sound(req[r]) /\ Leaves(r, req[r])
    BY DEF IInv, SoundInv, LeavesInv
  <2> QED
    BY <2>1 DEF Told, Sound, Leaves, Prefix, Holds
<1> QED
  BY <1>1, InitInv, StepInv, PTL DEF Spec

\* When the server is done with a request it has closed the guest's handle, or a
\* reply or the server itself was lost (Upload's deferred close).
THEOREM Released == Spec => []HandlesReleased
<1>1. IInv => HandlesReleased
  BY DEF IInv, SoundInv, Sound, HandlesReleased, Active
<1> QED
  BY <1>1, InitInv, StepInv, PTL DEF Spec

\* Every variable keeps its type.
THEOREM TypeCorrect == Spec => []TypeOK
<1>1. IInv => TypeOK
  BY DEF IInv
<1> QED
  BY <1>1, InitInv, StepInv, PTL DEF Spec

=============================================================================
