---------------------------- MODULE GuestProofs ----------------------------
(***************************************************************************)
(* Proofs about the client of the guest agent: Agent.Call (GuestWire), for *)
(* any number of callers, connections and commands sent, and Agent.Execute *)
(* (GuestExec), for any number of commands and process IDs.                *)
(***************************************************************************)
EXTENDS GuestWire, GuestExec, SequenceTheorems, WellFoundedInduction, TLAPS

(***************************************************************************)
(* GuestWire                                                               *)
(***************************************************************************)
\* Tokens on the line are tokens of connections that were dialled.
KnownTokens(s) == \A k \in 1 .. Len(s) : s[k].kind = "sync" => s[k].id <= dials

\* While a connection synchronizes, its token is the last message under way.
SyncInv ==
    stage = "sync" =>
        /\ \A k \in 1 .. Len(in) : in[k] = Sync => k = Len(in) /\ out = <<>>
        /\ \A k \in 1 .. Len(out) : out[k] = Sync => k = Len(out)

\* While a call waits, its command or the answer to it is all there is.
AwaitInv ==
    stage = "await" =>
        /\ Len(in) + Len(out) <= 1
        /\ \A k \in 1 .. Len(in) : in[k] = Command
        /\ \A k \in 1 .. Len(out) : out[k] = Command

WireInv ==
    /\ WireTypeOK
    /\ gate = Nobody => stage = "idle"
    /\ stage \in {"sync", "send", "await"} => conn = TRUE
    /\ KnownTokens(in) /\ KnownTokens(out)
    /\ QuietWhenIdle
    /\ SyncInv
    /\ AwaitInv

\* What the operators on sequences do to the messages under way.
LEMMA OnTail ==
    ASSUME NEW s \in Seq(Message), s # <<>>
    PROVE  /\ Tail(s) \in Seq(Message) /\ Len(Tail(s)) = Len(s) - 1
           /\ \A k \in 1 .. Len(Tail(s)) : Tail(s)[k] = s[k + 1]
           /\ Len(s) >= 1 /\ Head(s) = s[1] /\ Head(s) \in Message
  BY HeadTailProperties

LEMMA OnAppend ==
    ASSUME NEW s \in Seq(Message), NEW m \in Message
    PROVE  /\ Append(s, m) \in Seq(Message) /\ Len(Append(s, m)) = Len(s) + 1
           /\ Append(s, m)[Len(s) + 1] = m
           /\ \A k \in 1 .. Len(s) : Append(s, m)[k] = s[k]
  OBVIOUS

LEMMA OnPrefix ==
    ASSUME NEW s \in Seq(Message), NEW n \in 0 .. Len(s)
    PROVE  /\ SubSeq(s, 1, n) \in Seq(Message) /\ Len(SubSeq(s, 1, n)) = n
           /\ \A k \in 1 .. n : SubSeq(s, 1, n)[k] = s[k]
<1>1. \A i \in 1 .. n : s[i] \in Message
  BY ElementOfSeq
<1> QED
  BY <1>1, SubSeqProperties

LEMMA OnSuffix ==
    ASSUME NEW s \in Seq(Message), NEW n \in 1 .. Len(s) + 1
    PROVE  /\ SubSeq(s, n, Len(s)) \in Seq(Message) /\ Len(SubSeq(s, n, Len(s))) = Len(s) - n + 1
           /\ \A k \in 1 .. Len(s) - n + 1 : SubSeq(s, n, Len(s))[k] = s[n + k - 1]
<1>1. \A i \in n .. Len(s) : s[i] \in Message
  BY ElementOfSeq
<1> QED
  BY <1>1, SubSeqProperties

\* Ids are natural numbers.
LEMMA OnIds ==
    ASSUME NEW s \in Seq(Message)
    PROVE  Len(s) \in Nat /\ \A k \in 1 .. Len(s) : s[k] \in Message /\ s[k].id \in Nat
<1>1. \A m \in Message : m.id \in Nat
  BY DEF Message
<1>2. \A k \in 1 .. Len(s) : s[k] \in Message
  BY ElementOfSeq
<1> QED
  BY <1>1, <1>2

\* The type invariant is inductive by itself.
LEMMA WireTypeStep == WireTypeOK /\ [WireNext]_wireVars => WireTypeOK'
<1> SUFFICES ASSUME WireTypeOK, [WireNext]_wireVars PROVE WireTypeOK'
  OBVIOUS
<1> USE DEF WireTypeOK
<1>1. ASSUME NEW c \in Callers, Call(c) PROVE WireTypeOK'
  BY <1>1 DEF Call
<1>2. CASE Dial
  <2>1. [kind |-> "sync", id |-> dials + 1] \in Message
    BY DEF Message
  <2> QED
    BY <1>2, <2>1, OnAppend DEF Dial
<1>3. CASE ReadSync
  BY <1>3, OnTail DEF ReadSync
<1>4. CASE Send
  <2>1. [kind |-> "command", id |-> calls + 1] \in Message
    BY DEF Message
  <2> QED
    BY <1>4, <2>1, OnAppend DEF Send
<1>5. CASE ReadReply
  BY <1>5, OnTail DEF ReadReply, Return
<1>6. CASE Fail
  <2>1. PICK k \in 0 .. Len(out) : out' = SubSeq(out, 1, k)
    BY <1>6 DEF Fail
  <2>2. out' \in Seq(Message)
    BY <2>1, OnPrefix
  <2>3. PICK m \in 1 .. Len(in) + 1 : in' = SubSeq(in, m, Len(in))
    BY <1>6 DEF Fail
  <2>4. in' \in Seq(Message)
    BY <2>3, OnSuffix
  <2> QED
    BY <1>6, <2>2, <2>4 DEF Fail, Return
<1>7. CASE GuestAnswers
  BY <1>7, OnTail, OnAppend DEF GuestAnswers
<1>8. CASE GuestRestarts
  BY <1>8 DEF GuestRestarts
<1>9. CASE UNCHANGED wireVars
  BY <1>9 DEF wireVars
<1> QED
  BY <1>1, <1>2, <1>3, <1>4, <1>5, <1>6, <1>7, <1>8, <1>9 DEF WireNext

LEMMA WireStep == WireInv /\ [WireNext]_wireVars => WireInv'
<1> SUFFICES ASSUME WireInv, [WireNext]_wireVars PROVE WireInv'
  OBVIOUS
<1>0. WireTypeOK /\ WireTypeOK'
  BY WireTypeStep DEF WireInv
<1> USE <1>0
<1>1. ASSUME NEW c \in Callers, Call(c) PROVE WireInv'
  <2>1. UNCHANGED <<conn, dials, calls, out, in>> /\ stage' \in {"send", "dial"} /\ (stage' = "send" => conn = TRUE)
    BY <1>1 DEF Call, WireTypeOK
  <2>2. KnownTokens(in)' /\ KnownTokens(out)'
    BY <2>1 DEF WireInv, KnownTokens
  <2>3. QuietWhenIdle'
    BY <1>1, <2>1 DEF Call, WireInv, QuietWhenIdle
  <2>4. gate' # Nobody
    BY <1>1, NobodyAssumption DEF Call
  <2> QED
    BY <2>1, <2>2, <2>3, <2>4 DEF WireInv, SyncInv, AwaitInv
<1>2. CASE Dial
  <2> DEFINE s == [kind |-> "sync", id |-> dials + 1]
  <2>1. out' = Append(out, s) /\ in' = in /\ dials' = dials + 1 /\ stage' = "sync" /\ conn' = TRUE
    BY <1>2 DEF Dial
  <2>2. Len(out') = Len(out) + 1 /\ out'[Len(out) + 1] = s /\ \A k \in 1 .. Len(out) : out'[k] = out[k]
    BY <2>1, OnAppend DEF WireTypeOK, Message
  <2>3. KnownTokens(in)'
    BY <2>1, OnIds DEF WireInv, KnownTokens, WireTypeOK
  <2>4. KnownTokens(out)'
    BY <2>1, <2>2, OnIds DEF WireInv, KnownTokens, WireTypeOK
  <2>5. Sync' = s
    BY <2>1 DEF Sync
  <2>6. \A k \in 1 .. Len(in) : in[k] # s
    <3> SUFFICES ASSUME NEW k \in 1 .. Len(in), in[k] = s PROVE FALSE
      OBVIOUS
    <3>1. in[k].kind = "sync" /\ in[k].id = dials + 1
      OBVIOUS
    <3>2. in[k].id <= dials
      BY <3>1 DEF WireInv, KnownTokens
    <3> QED
      BY <3>1, <3>2 DEF WireTypeOK
  <2>7. \A k \in 1 .. Len(out) : out[k] # s
    <3> SUFFICES ASSUME NEW k \in 1 .. Len(out), out[k] = s PROVE FALSE
      OBVIOUS
    <3>1. out[k].kind = "sync" /\ out[k].id = dials + 1
      OBVIOUS
    <3>2. out[k].id <= dials
      BY <3>1 DEF WireInv, KnownTokens
    <3> QED
      BY <3>1, <3>2 DEF WireTypeOK
  <2>8. SyncInv'
    BY <2>1, <2>2, <2>5, <2>6, <2>7 DEF SyncInv, WireTypeOK
  <2> QED
    BY <1>2, <2>1, <2>3, <2>4, <2>8 DEF Dial, WireInv, QuietWhenIdle, AwaitInv
<1>3. CASE ReadSync
  <2>1. in # <<>> /\ in' = Tail(in) /\ UNCHANGED <<conn, dials, calls, out>> /\ stage = "sync"
    BY <1>3 DEF ReadSync
  <2>2. Len(in') = Len(in) - 1 /\ \A k \in 1 .. Len(in') : in'[k] = in[k + 1]
    BY <2>1, OnTail DEF WireTypeOK
  <2>3. KnownTokens(in)' /\ KnownTokens(out)'
    BY <2>1, <2>2 DEF WireInv, KnownTokens, WireTypeOK
  <2>4. CASE Head(in) = Sync
    <3>1. 1 \in 1 .. Len(in) /\ in[1] = Sync
      BY <2>1, <2>4, OnTail DEF WireTypeOK
    <3>2. Len(in) = 1 /\ out = <<>>
      BY <2>1, <3>1 DEF WireInv, SyncInv
    <3>3. in' = <<>> /\ stage' = "send"
      BY <1>3, <2>1, <2>2, <2>4, <3>2 DEF ReadSync, WireTypeOK
    <3> QED
      BY <1>3, <2>1, <2>3, <3>2, <3>3 DEF ReadSync, WireInv, QuietWhenIdle, SyncInv, AwaitInv
  <2>5. CASE Head(in) # Sync
    <3>1. stage' = "sync"
      BY <1>3, <2>5 DEF ReadSync
    <3>2. Sync' = Sync
      BY <2>1 DEF Sync
    <3>3. \A k \in 1 .. Len(in') : in'[k] = Sync => k = Len(in') /\ out = <<>>
      <4> TAKE k \in 1 .. Len(in')
      <4>1. k + 1 \in 1 .. Len(in) /\ in'[k] = in[k + 1]
        BY <2>1, <2>2, OnIds DEF WireTypeOK
      <4>2. in[k + 1] = Sync => k + 1 = Len(in) /\ out = <<>>
        BY <2>1, <4>1 DEF WireInv, SyncInv
      <4> QED
        BY <2>2, <4>1, <4>2, OnIds DEF WireTypeOK
    <3>4. SyncInv'
      BY <2>1, <3>2, <3>3 DEF WireInv, SyncInv
    <3> QED
      BY <1>3, <2>1, <2>3, <3>1, <3>4 DEF ReadSync, WireInv, QuietWhenIdle, AwaitInv
  <2> QED
    BY <2>4, <2>5
<1>4. CASE Send
  <2> DEFINE m == [kind |-> "command", id |-> calls + 1]
  <2>1. in = <<>> /\ out = <<>>
    BY <1>4 DEF Send, WireInv, QuietWhenIdle
  <2>2. out' = <<m>> /\ in' = <<>> /\ Command' = m /\ stage' = "await" /\ UNCHANGED <<conn, dials>>
    BY <1>4, <2>1 DEF Send, Command
  <2>3. KnownTokens(in)' /\ KnownTokens(out)'
    BY <2>2 DEF KnownTokens
  <2>4. AwaitInv'
    BY <2>2 DEF AwaitInv
  <2> QED
    BY <1>4, <2>2, <2>3, <2>4 DEF Send, WireInv, QuietWhenIdle, SyncInv
<1>5. CASE ReadReply
  <2>0. Len(in) >= 1 /\ Len(in) \in Nat /\ Len(out) \in Nat /\ Len(in) + Len(out) <= 1
    BY <1>5, OnTail DEF ReadReply, WireInv, AwaitInv, WireTypeOK
  <2> HIDE <1>0
  <2>1. \A a, b \in Nat : a >= 1 /\ a + b <= 1 => a = 1 /\ b = 0
    OBVIOUS
  <2>4. Len(in) = 1 /\ Len(out) = 0
    BY <2>0, <2>1
  <2>2. in' = <<>> /\ out' = <<>>
    BY <1>0, <1>5, <2>4, OnTail, EmptySeq DEF ReadReply, WireTypeOK
  <2>3. stage' = "idle"
    BY <1>5 DEF ReadReply, Return
  <2> QED
    BY <1>0, <2>2, <2>3 DEF WireInv, KnownTokens, QuietWhenIdle, SyncInv, AwaitInv
<1>6. CASE Fail
  <2>1. stage' = "idle" /\ conn' = FALSE /\ dials' = dials
    BY <1>6 DEF Fail, Return
  <2>2. KnownTokens(out)'
    <3>1. PICK k \in 0 .. Len(out) : out' = SubSeq(out, 1, k)
      BY <1>6 DEF Fail
    <3>2. Len(out') <= Len(out) /\ \A i \in 1 .. Len(out') : out'[i] = out[i]
      BY <3>1 DEF WireTypeOK
    <3> QED
      BY <2>1, <3>2 DEF WireInv, KnownTokens, WireTypeOK
  <2>3. KnownTokens(in)'
    <3>1. PICK k \in 1 .. Len(in) + 1 : in' = SubSeq(in, k, Len(in))
      BY <1>6 DEF Fail
    <3>2. \A i \in 1 .. Len(in') : i + k - 1 \in 1 .. Len(in) /\ in'[i] = in[i + k - 1]
      BY <3>1 DEF WireTypeOK
    <3> QED
      BY <2>1, <3>2 DEF WireInv, KnownTokens, WireTypeOK
  <2> QED
    BY <2>1, <2>2, <2>3 DEF WireInv, QuietWhenIdle, SyncInv, AwaitInv
<1>7. CASE GuestAnswers
  <2>1. out # <<>> /\ out' = Tail(out) /\ UNCHANGED <<gate, stage, conn, dials, calls>>
    BY <1>7 DEF GuestAnswers
  <2>2. Len(out') = Len(out) - 1 /\ \A k \in 1 .. Len(out') : out'[k] = out[k + 1]
    BY <2>1 DEF WireTypeOK
  <2>3. KnownTokens(out)'
    BY <2>1, <2>2 DEF WireInv, KnownTokens, WireTypeOK
  <2>4. CASE in' = Append(in, Head(out))
    <3>1. Len(in') = Len(in) + 1 /\ in'[Len(in) + 1] = out[1] /\ \A k \in 1 .. Len(in) : in'[k] = in[k]
      BY <2>1, <2>4 DEF WireTypeOK
    <3>2. KnownTokens(in)'
      <4>1. \A k \in 1 .. Len(in') : k \in 1 .. Len(in) \/ k = Len(in) + 1
        BY <3>1 DEF WireTypeOK
      <4>2. out[1].kind = "sync" => out[1].id <= dials
        BY <2>1, OnTail DEF WireInv, KnownTokens, WireTypeOK
      <4> QED
        BY <2>1, <3>1, <4>1, <4>2 DEF WireInv, KnownTokens
    <3>3. ~(stage \in {"idle", "send"} /\ conn = TRUE)
      BY <2>1 DEF WireInv, QuietWhenIdle
    <3>4. SyncInv'
      <4> SUFFICES ASSUME stage = "sync" PROVE SyncInv'
        BY <2>1 DEF SyncInv
      <4>1. Sync' = Sync
        BY <2>1 DEF Sync
      <4>2. \A k \in 1 .. Len(out) : out[k] = Sync => k = Len(out)
        BY DEF WireInv, SyncInv
      <4>3. \A k \in 1 .. Len(in) : in[k] # Sync
        BY <2>1 DEF WireInv, SyncInv
      <4>4. \A k \in 1 .. Len(out') : out'[k] = Sync => k = Len(out')
        <5> TAKE k \in 1 .. Len(out')
        <5>1. k + 1 \in 1 .. Len(out) /\ out'[k] = out[k + 1]
          BY <2>1, <2>2, OnIds DEF WireTypeOK
        <5> QED
          BY <2>2, <4>2, <5>1, OnIds DEF WireTypeOK
      <4>5. \A k \in 1 .. Len(in') : in'[k] = Sync => k = Len(in') /\ out' = <<>>
        <5> SUFFICES ASSUME NEW k \in 1 .. Len(in'), in'[k] = Sync PROVE k = Len(in') /\ out' = <<>>
          OBVIOUS
        <5>0. k \in 1 .. Len(in) \/ k = Len(in) + 1
          BY <3>1, OnIds DEF WireTypeOK
        <5>1. k = Len(in) + 1 /\ out[1] = Sync
          BY <3>1, <4>3, <5>0
        <5>2. 1 \in 1 .. Len(out)
          BY <2>1, OnTail DEF WireTypeOK
        <5>4. Len(out) = 1
          BY <4>2, <5>1, <5>2
        <5>3. out' = <<>>
          BY <2>2, <5>4, EmptySeq DEF WireTypeOK
        <5> QED
          BY <3>1, <5>1, <5>3
      <4> QED
        BY <4>1, <4>4, <4>5 DEF SyncInv
    <3>5. AwaitInv'
      BY <2>1, <2>2, <3>1 DEF WireInv, AwaitInv, Command, WireTypeOK
    <3> QED
      BY <2>1, <2>3, <3>2, <3>3, <3>4, <3>5 DEF WireInv, QuietWhenIdle, WireTypeOK
  <2>5. CASE ~conn /\ UNCHANGED in
    BY <2>1, <2>3, <2>5 DEF WireInv, KnownTokens, QuietWhenIdle, SyncInv, AwaitInv
  <2> QED
    BY <1>7, <2>4, <2>5 DEF GuestAnswers
<1>8. CASE GuestRestarts
  BY <1>8
     DEF GuestRestarts, WireInv, KnownTokens, QuietWhenIdle, SyncInv, AwaitInv, Sync, Command,
         WireTypeOK
<1>9. CASE UNCHANGED wireVars
  BY <1>9 DEF wireVars, WireInv, KnownTokens, QuietWhenIdle, SyncInv, AwaitInv, Sync, Command
<1> QED
  BY <1>1, <1>2, <1>3, <1>4, <1>5, <1>6, <1>7, <1>8, <1>9 DEF WireNext

\* The invariant holds in every state of every behaviour.
LEMMA WireInductive == WireSpec => []WireInv
<1>1. WireInit => WireInv
  <2> SUFFICES ASSUME WireInit PROVE WireInv
    OBVIOUS
  <2>1. WireTypeOK
    BY EmptySeq DEF WireInit, WireTypeOK
  <2>2. Len(in) = 0 /\ Len(out) = 0
    BY DEF WireInit
  <2> QED
    BY <2>1, <2>2 DEF WireInit, WireInv, KnownTokens, QuietWhenIdle, SyncInv, AwaitInv
<1> QED
  BY <1>1, WireStep, PTL DEF WireSpec

\* Every variable keeps its type.
THEOREM WireTypeCorrect == WireSpec => []WireTypeOK
<1>1. WireInv => WireTypeOK
  BY DEF WireInv
<1> QED
  BY WireInductive, <1>1, PTL

\* Agent.Call returns the reply to its own command, whatever calls before it
\* left under way when they gave up.
THEOREM OwnReplies == WireSpec => []OwnReply
<1>1. WireInv => OwnReply
  BY DEF WireInv, AwaitInv, OwnReply, WireTypeOK
<1> QED
  BY WireInductive, <1>1, PTL

\* A connection that is left open for the next call has nothing under way.
THEOREM Quiet == WireSpec => []QuietWhenIdle
<1>1. WireInv => QuietWhenIdle
  BY DEF WireInv
<1> QED
  BY WireInductive, <1>1, PTL

(***************************************************************************)
(* GuestExec: the inductive invariant                                      *)
(***************************************************************************)
Busy == {"poll", "check", "kill", "reap"}

\* Which process IDs an Execute knows.
KnownInv ==
    \A c \in Cmds :
        /\ at[c] = "new" => pid[c] = None /\ helper[c] = None
        /\ at[c] \in Busy => pid[c] \in Pids
        /\ at[c] \in Busy /\ at[c] # "reap" => helper[c] = None
        /\ at[c] = "reap" => helper[c] \in Pids
        /\ result[c] # None => at[c] = "done"

\* A helper is there only since its command's cleanup has started it, and a process
\* that is still to be started by a request given up is that of a failed command.
HelperInv ==
    /\ \A c \in Cmds : (\E p \in Pids : live[p] = Helper(c)) =>
           pid[c] \in Pids /\ at[c] \in {"reap"} \union Ended
    /\ late # None /\ late.call = "exec" =>
           \E c \in Cmds : at[c] = "failed" /\ (late.owner = Own(c) \/ (late.owner = Helper(c) /\ pid[c] \in Pids))

\* The process that a helper will signal is its command's, or the command's ID was
\* given away after the check, or the check has met another process's record.
Aims(c) ==
    \/ at[c] \in {"kill", "reap"}
    \/ \E p \in Pids : live[p] = Helper(c)
    \/ late # None /\ late.call = "exec" /\ late.owner = Helper(c)
AimInv ==
    \A c \in Cmds :
        /\ Aims(c) => live[pid[c]] \in {None, Own(c)} \/ c \in retaken \union misled
        /\ victim[c] \in {None, Own(c)} \/ c \in retaken \union misled

\* A record says that its process runs only while it does.
RunningInv == \A k \in DOMAIN records : ~records[k].exited => live[records[k].pid] = records[k].owner

\* A process has one record, none before it has started.
Unborn(o) ==
    \/ \E c \in Cmds : \/ o = Own(c) /\ at[c] = "new"
                       \/ o = Helper(c) /\ at[c] \in {"new", "poll", "check", "kill"}
    \/ late # None /\ late.call = "exec" /\ late.owner = o
BornInv ==
    /\ \A k \in DOMAIN records : ~Unborn(records[k].owner)
    /\ \A j, k \in DOMAIN records : records[j].owner = records[k].owner => j = k

\* Somebody will ask for the result of the process with record r.
Awaited(r) ==
    \E c \in Cmds :
        \/ /\ r.owner = Own(c) /\ r.pid = pid[c]
           /\ at[c] \in {"poll", "check", "kill"} \/ (at[c] = "reap" /\ "command" \in pending[c])
        \/ /\ r.owner = Helper(c) /\ r.pid = helper[c]
           /\ at[c] = "reap" /\ "kill" \in pending[c]

\* Or its command has failed, or was misled.
Excused(r) == \E c \in Cmds : r.owner \in {Own(c), Helper(c)} /\ (at[c] = "failed" \/ c \in misled)
LeftInv == \A k \in DOMAIN records : Awaited(records[k]) \/ Excused(records[k])

\* Until an ID is given away that an Execute polls, no ID is held twice, and what has
\* it is the process that the Execute started, or none.
DistinctInv ==
    /\ \A c \in Cmds : /\ at[c] \in Busy => live[pid[c]] \in {None, Own(c)}
                       /\ at[c] = "reap" => helper[c] # pid[c]
    /\ \A c, d \in Cmds : at[c] \in Busy /\ at[d] \in Busy /\ c # d =>
           /\ pid[c] # pid[d] /\ pid[c] # helper[d]
           /\ at[c] = "reap" => helper[c] # helper[d]

\* Then, until a command fails, every record is awaited, under an ID of its own;
\* what runs has a record; and results are those of the command.
NoFailure == \A c \in Cmds : at[c] # "failed"
AwaitedInv == \A k \in DOMAIN records : Awaited(records[k])
UniqueInv == \A j, k \in DOMAIN records : records[j].pid = records[k].pid => j = k
RunsInv == \A p \in Pids : live[p] # None => \E k \in DOMAIN records :
               records[k].pid = p /\ records[k].owner = live[p] /\ ~records[k].exited
HistoryInv == \A c \in Cmds : result[c] \in {None, Own(c)}
Tidy == AwaitedInv /\ UniqueInv /\ RunsInv /\ HistoryInv

\* What holds whichever IDs are given away: the first line is for the types, the
\* second for what is signalled, the third for what is left behind.  The results need
\* the last two lines, which tell a process by its ID.
ExecInv ==
    /\ TypeOK /\ KnownInv /\ HelperInv
    /\ AimInv /\ RunningInv
    /\ BornInv /\ LeftInv
    /\ ~reused => DistinctInv
    /\ ~reused /\ NoFailure => Tidy

(***************************************************************************)
(* The guest agent's records                                               *)
(***************************************************************************)
\* guest-exec-status finds a record with the process ID if there is one.
LEMMA FirstFound ==
    ASSUME TypeOK, NEW p, Found(p) # {}
    PROVE  /\ First(p) \in DOMAIN records /\ records[First(p)] \in Record
           /\ records[First(p)].pid = p
<1>1. Found(p) \subseteq Nat
  BY DEF Found, TypeOK
<1>2. PICK k \in Found(p) : \A j \in Found(p) : ~(<<j, k>> \in OpToRel(<, Nat))
  BY <1>1, NatLessThanWellFounded, WFMin
<1>3. \A j \in Found(p) : k <= j
  <2> SUFFICES ASSUME NEW j \in Found(p), ~(k <= j) PROVE FALSE
    OBVIOUS
  <2>1. j \in Nat /\ k \in Nat /\ j < k
    BY <1>1
  <2>2. <<j, k>> \in OpToRel(<, Nat)
    BY <2>1, Zenon DEF OpToRel
  <2> QED
    BY <1>2, <2>2
<1>4. First(p) \in Found(p)
  BY <1>2, <1>3 DEF First
<1> QED
  BY <1>4, ElementOfSeq DEF Found, TypeOK

\* What the operators on sequences do to the records.
LEMMA OnRemove ==
    ASSUME NEW s \in Seq(Record), NEW i \in DOMAIN s
    PROVE  /\ RemoveAt(s, i) \in Seq(Record) /\ Len(RemoveAt(s, i)) = Len(s) - 1
           /\ \A k \in 1 .. Len(s) - 1 : RemoveAt(s, i)[k] = s[IF k < i THEN k ELSE k + 1]
<1>0. Len(s) \in Nat /\ DOMAIN s = 1 .. Len(s) /\ \A k \in 1 .. Len(s) : s[k] \in Record
  BY ElementOfSeq
<1>1. /\ SubSeq(s, 1, i - 1) \in Seq(Record) /\ Len(SubSeq(s, 1, i - 1)) = i - 1
      /\ \A k \in 1 .. i - 1 : SubSeq(s, 1, i - 1)[k] = s[k]
  BY <1>0, SubSeqProperties
<1>2. /\ SubSeq(s, i + 1, Len(s)) \in Seq(Record) /\ Len(SubSeq(s, i + 1, Len(s))) = Len(s) - i
      /\ \A k \in 1 .. Len(s) - i : SubSeq(s, i + 1, Len(s))[k] = s[i + k]
  BY <1>0, SubSeqProperties
<1>3. PICK u \in Seq(Record), v \in Seq(Record) :
        /\ RemoveAt(s, i) = u \o v
        /\ Len(u) = i - 1 /\ \A k \in 1 .. i - 1 : u[k] = s[k]
        /\ Len(v) = Len(s) - i /\ \A k \in 1 .. Len(s) - i : v[k] = s[i + k]
  BY <1>1, <1>2 DEF RemoveAt
<1>4. RemoveAt(s, i) \in Seq(Record) /\ Len(RemoveAt(s, i)) = Len(s) - 1
  <2>1. u \o v \in Seq(Record) /\ Len(u \o v) = Len(u) + Len(v)
    BY ConcatProperties
  <2>2. i \in Nat
    BY <1>0
  <2> QED
    BY <1>0, <1>3, <2>1, <2>2
<1>5. ASSUME NEW k \in 1 .. Len(s) - 1 PROVE RemoveAt(s, i)[k] = s[IF k < i THEN k ELSE k + 1]
  <2>1. RemoveAt(s, i)[k] = IF k <= Len(u) THEN u[k] ELSE v[k - Len(u)]
    BY <1>0, <1>3, ConcatProperties
  <2>2. CASE k < i
    BY <1>0, <1>3, <2>1, <2>2
  <2>3. CASE ~(k < i)
    <3>1. k - Len(u) \in 1 .. Len(s) - i /\ i + (k - Len(u)) = k + 1
      BY <1>0, <1>3, <2>3
    <3>2. ~(k <= Len(u))
      BY <1>0, <1>3, <2>3
    <3>3. v[k - Len(u)] = s[i + (k - Len(u))]
      BY <1>3, <3>1, Zenon
    <3> QED
      BY <2>1, <2>3, <3>1, <3>2, <3>3
  <2> QED
    BY <2>2, <2>3
<1> QED
  BY <1>4, <1>5

LEMMA OnAdd ==
    ASSUME NEW s \in Seq(Record), NEW m \in Record
    PROVE  /\ Append(s, m) \in Seq(Record) /\ Len(Append(s, m)) = Len(s) + 1
           /\ Append(s, m)[Len(s) + 1] = m
           /\ \A k \in 1 .. Len(s) : Append(s, m)[k] = s[k]
  OBVIOUS

LEMMA OnMark ==
    ASSUME TypeOK, NEW who
    PROVE  /\ MarkExited(who) \in Seq(Record) /\ DOMAIN MarkExited(who) = DOMAIN records
           /\ \A k \in DOMAIN records :
                  /\ MarkExited(who)[k].pid = records[k].pid
                  /\ MarkExited(who)[k].owner = records[k].owner
                  /\ records[k].owner \notin who => MarkExited(who)[k] = records[k]
                  /\ records[k].owner \in who => MarkExited(who)[k].exited
<1>0. Len(records) \in Nat /\ DOMAIN records = 1 .. Len(records) /\ \A k \in DOMAIN records : records[k] \in Record
  BY ElementOfSeq DEF TypeOK
<1>1. \A k \in DOMAIN records : MarkExited(who)[k] \in Record
  BY <1>0 DEF MarkExited, Record
<1>2. MarkExited(who) \in [1 .. Len(records) -> Record]
  BY <1>0, <1>1 DEF MarkExited
<1>3. MarkExited(who) \in Seq(Record)
  BY <1>0, <1>2, SeqDef
<1> QED
  BY <1>0, <1>3 DEF MarkExited, Record

LEMMA OnForget ==
    ASSUME TypeOK, NEW p, Forget(p)
    PROVE  records' \in Seq(Record)
<1>1. CASE Exited(p)
  BY <1>1, FirstFound, OnRemove DEF Exited, Forget, TypeOK
<1>2. CASE ~Exited(p)
  BY <1>2 DEF Forget, TypeOK
<1> QED
  BY <1>1, <1>2

\* With an ID of its own for every record, Forget leaves the others and what runs.
LEMMA OnForgetOne ==
    ASSUME TypeOK, NEW p, Forget(p),
           \A j, k \in DOMAIN records : records[j].pid = records[k].pid => j = k
    PROVE  /\ \A j, k \in DOMAIN records' : records'[j].pid = records'[k].pid => j = k
           /\ \A k \in DOMAIN records' : \E j \in DOMAIN records :
                  records'[k] = records[j] /\ (Exited(p) => records[j].pid # p)
           /\ \A j \in DOMAIN records : ~records[j].exited =>
                  \E k \in DOMAIN records' : records'[k] = records[j]
<1>1. CASE ~Exited(p)
  BY <1>1 DEF Forget
<1>2. CASE Exited(p)
  <2> DEFINE i == First(p)
             n == Len(records)
  <2>1. /\ i \in 1 .. n /\ records[i].pid = p /\ records[i].exited
        /\ n \in Nat /\ DOMAIN records = 1 .. n
    BY <1>2, FirstFound DEF Exited, TypeOK
  <2>2. /\ DOMAIN records' = 1 .. n - 1
        /\ \A k \in 1 .. n - 1 : records'[k] = records[IF k < i THEN k ELSE k + 1]
    <3>1. records' = RemoveAt(records, i) /\ records \in Seq(Record) /\ i \in DOMAIN records
      BY <1>2, <2>1 DEF Forget, TypeOK
    <3>2. /\ RemoveAt(records, i) \in Seq(Record) /\ Len(RemoveAt(records, i)) = n - 1
          /\ \A k \in 1 .. n - 1 : RemoveAt(records, i)[k] = records[IF k < i THEN k ELSE k + 1]
      BY <3>1, OnRemove
    <3> QED
      BY <3>1, <3>2
  <2> HIDE DEF i, n
  <2>3. ASSUME NEW j \in 1 .. n - 1, NEW k \in 1 .. n - 1, records'[j].pid = records'[k].pid PROVE j = k
    <3>1. PICK a \in 1 .. n, b \in 1 .. n :
            a = (IF j < i THEN j ELSE j + 1) /\ b = (IF k < i THEN k ELSE k + 1)
      BY <2>1
    <3>2. records'[j] = records[a] /\ records'[k] = records[b]
      BY <2>2, <3>1
    <3>3. a = b
      BY <2>1, <2>3, <3>2
    <3> QED
      BY <2>1, <3>1, <3>3
  <2>4. ASSUME NEW k \in 1 .. n - 1
        PROVE  \E j \in DOMAIN records : records'[k] = records[j] /\ records[j].pid # p
    <3>1. PICK j \in 1 .. n : j = IF k < i THEN k ELSE k + 1
      BY <2>1
    <3>2. j # i /\ records'[k] = records[j]
      BY <2>1, <2>2, <3>1
    <3> QED
      BY <2>1, <3>2
  <2>5. ASSUME NEW j \in 1 .. n, ~records[j].exited
        PROVE  \E k \in DOMAIN records' : records'[k] = records[j]
    <3>1. j # i
      BY <2>1, <2>5
    <3>2. PICK k \in 1 .. n - 1 : k = IF j < i THEN j ELSE j - 1
      BY <2>1, <3>1
    <3>3. j = IF k < i THEN k ELSE k + 1
      BY <2>1, <3>1, <3>2
    <3> QED
      BY <2>2, <3>2, <3>3
  <2> QED
    BY <2>1, <2>2, <2>3, <2>4, <2>5
<1> QED
  BY <1>1, <1>2

(***************************************************************************)
(* The steps                                                               *)
(***************************************************************************)
\* A new process has an ID that no Execute under way knows, or `reused` says so; a
\* cleanup past its check that knows it is in `retaken`.
LEMMA OnExec ==
    ASSUME ExecInv, NEW o \in Owners, NEW p \in Pids, GuestExec(o, p)
    PROVE  /\ live' = [live EXCEPT ![p] = o] /\ live[p] = None
           /\ records' = Append(records, [pid |-> p, owner |-> o, exited |-> FALSE])
           /\ [pid |-> p, owner |-> o, exited |-> FALSE] \in Record
           /\ records' \in Seq(Record)
           /\ reused' \in BOOLEAN /\ retaken \subseteq retaken' /\ retaken' \subseteq Cmds
           /\ \A c \in Cmds : pid[c] = p /\ at[c] \notin {"new", "poll", "check"} => c \in retaken'
           /\ ~reused' => ~reused /\ \A c \in Cmds : at[c] \notin Ended => p # pid[c] /\ p # helper[c]
<1>1. [pid |-> p, owner |-> o, exited |-> FALSE] \in Record
  BY DEF Record
<1>2. records' \in Seq(Record)
  BY <1>1, OnAdd DEF GuestExec, ExecInv, TypeOK
<1>3. reused' \in BOOLEAN /\ retaken' \subseteq Cmds
  BY DEF GuestExec, Condemned, ExecInv, TypeOK
<1>4. ~reused' => ~reused /\ \A c \in Cmds : at[c] \notin Ended => p # pid[c] /\ p # helper[c]
  <2> SUFFICES ASSUME ~reused' PROVE ~reused /\ \A c \in Cmds : at[c] \notin Ended => p # pid[c] /\ p # helper[c]
    OBVIOUS
  <2>1. ~reused /\ p \notin Held
    BY DEF GuestExec
  <2> QED
    BY <2>1 DEF Held
<1> QED
  BY <1>1, <1>2, <1>3, <1>4 DEF GuestExec, Condemned

\* Processes of different commands, and a command's two, are told apart.
LEMMA OwnersAre == \A c \in Cmds : Own(c) \in Owners /\ Helper(c) \in Owners
BY DEF Own, Helper, Owners

LEMMA Apart ==
    \A c, d \in Cmds : Own(c) # Helper(d) /\ (Own(c) = Own(d) => c = d) /\ (Helper(c) = Helper(d) => c = d)
BY DEF Own, Helper

\* Every step keeps the types.
LEMMA TypeStep == ExecInv /\ [Next]_vars => TypeOK'
<1> SUFFICES ASSUME ExecInv, [Next]_vars PROVE TypeOK'
  OBVIOUS
<1> USE DEF TypeOK
<1>0. TypeOK /\ KnownInv /\ HelperInv
  BY DEF ExecInv
<1>1. ASSUME NEW c \in Cmds, NEW p \in Pids, Start(c, p) PROVE TypeOK'
  <2>1. records' \in Seq(Record) /\ live' = [live EXCEPT ![p] = Own(c)] /\ Own(c) \in Owners
    BY <1>1, OnExec, OwnersAre DEF Start
  <2>3. reused' \in BOOLEAN /\ retaken' \subseteq Cmds
    BY <1>1, OnExec, OwnersAre DEF Start
  <2>2. live' \in [Pids -> Owners \union {None}]
    BY <1>0, <2>1
  <2> QED
    BY <1>0, <1>1, <2>1, <2>2, <2>3 DEF Start
<1>2. ASSUME NEW c \in Cmds, StartCut(c) PROVE TypeOK'
  BY <1>0, <1>2, OwnersAre DEF StartCut, Request, Ended, reuse
<1>3. ASSUME NEW c \in Cmds, Poll(c) PROVE TypeOK'
  <2>1. records' \in Seq(Record)
    BY <1>0, <1>3, OnForget DEF Poll, Status
  <2>2. result' \in [Cmds -> Owners \union {None}]
    BY <1>0, <1>3, FirstFound DEF Poll, Exited, Record
  <2> QED
    BY <1>0, <1>3, <2>1, <2>2 DEF Poll, Ended, Status, reuse
<1>4. ASSUME NEW c \in Cmds, Cancel(c) PROVE TypeOK'
  BY <1>0, <1>4 DEF Cancel, reuse
<1>5. ASSUME NEW c \in Cmds, PollCut(c) PROVE TypeOK'
  <2>1. [call |-> "status", pid |-> pid[c]] \in Request
    BY <1>0, <1>5 DEF PollCut, KnownInv, Busy, Request
  <2> QED
    BY <1>0, <1>5, <2>1 DEF PollCut, reuse
<1>6. ASSUME NEW c \in Cmds, Check(c) PROVE TypeOK'
  <2>1. records' \in Seq(Record)
    BY <1>0, <1>6, OnForget DEF Check, Status
  <2> QED
    BY <1>0, <1>6, <2>1 DEF Check, Ended, Status, reuse
<1>7. ASSUME NEW c \in Cmds, NEW p \in Pids, Kill(c, p) PROVE TypeOK'
  <2>1. records' \in Seq(Record) /\ live' = [live EXCEPT ![p] = Helper(c)] /\ Helper(c) \in Owners
    BY <1>7, OnExec, OwnersAre DEF Kill
  <2>3. reused' \in BOOLEAN /\ retaken' \subseteq Cmds
    BY <1>7, OnExec, OwnersAre DEF Kill
  <2>2. live' \in [Pids -> Owners \union {None}]
    BY <1>0, <2>1
  <2> QED
    BY <1>0, <1>7, <2>1, <2>2, <2>3 DEF Kill
<1>8. ASSUME NEW c \in Cmds, Reap(c) PROVE TypeOK'
  <2>1. PICK w \in pending[c], p \in {pid[c], helper[c]} :
          /\ Forget(p) /\ misled' \in {misled, misled \union {c}}
          /\ pending' = [pending EXCEPT ![c] = IF Exited(p) THEN @ \ {w} ELSE @]
    BY <1>8 DEF Reap, Status
  <2>2. records' \in Seq(Record)
    BY <1>0, <2>1, OnForget
  <2>3. pending' \in [Cmds -> SUBSET {"command", "kill"}]
    BY <1>0, <2>1
  <2> QED
    BY <1>0, <1>8, <2>1, <2>2, <2>3 DEF Reap, Ended, reuse
<1>9. ASSUME NEW c \in Cmds, CleanupCut(c) PROVE TypeOK'
  <2>1. Asking(c) \subseteq Request
    BY <1>0, <1>9, OwnersAre DEF CleanupCut, Asking, KnownInv, Busy, Request
  <2> QED
    BY <1>0, <1>9, <2>1 DEF CleanupCut, Ended, reuse
<1>10. CASE LateRequest
  <2>1. CASE late.call = "exec"
    <3>1. late.owner \in Owners
      BY <1>0, <1>10, <2>1 DEF LateRequest, Request
    <3>2. PICK p \in Pids : GuestExec(late.owner, p)
      BY <1>10, <2>1 DEF LateRequest
    <3>3. /\ records' \in Seq(Record) /\ live' = [live EXCEPT ![p] = late.owner]
          /\ reused' \in BOOLEAN /\ retaken' \subseteq Cmds
      BY <3>1, <3>2, OnExec
    <3>4. live' \in [Pids -> Owners \union {None}]
      BY <1>0, <3>1, <3>3
    <3> QED
      BY <1>0, <1>10, <3>3, <3>4 DEF LateRequest, locals
  <2>2. CASE late.call # "exec"
    BY <1>0, <1>10, <2>2, OnForget DEF LateRequest, locals, reuse
  <2> QED
    BY <2>1, <2>2
<1>11. CASE LateLost
  BY <1>0, <1>11 DEF LateLost, locals, reuse
<1>12. ASSUME NEW p \in Pids, Exit(p) PROVE TypeOK'
  BY <1>0, <1>12, OnMark DEF Exit, locals, reuse
<1>13. ASSUME NEW c \in Cmds, HelperRuns(c) PROVE TypeOK'
  <2>1. records' \in Seq(Record)
    BY <1>0, <1>13, OnMark DEF HelperRuns
  <2>2. pid[c] \in Pids
    BY <1>0, <1>13 DEF HelperRuns, HelperInv
  <2>3. live' \in [Pids -> Owners \union {None}] /\ victim' \in [Cmds -> Owners \union {None}]
    BY <1>0, <1>13, <2>2 DEF HelperRuns
  <2> QED
    BY <1>0, <1>13, <2>1, <2>3 DEF HelperRuns, locals, reuse
<1>14. CASE UNCHANGED vars
  BY <1>0, <1>14 DEF vars, reuse
<1> QED
  BY <1>1, <1>2, <1>3, <1>4, <1>5, <1>6, <1>7, <1>8, <1>9, <1>10, <1>11, <1>12, <1>13, <1>14
     DEF Next, Executing, Guest

HeldInv == KnownInv /\ HelperInv /\ (~reused => DistinctInv)

\* A step of one Execute that starts no process and learns no process ID.
LEMMA MoveKeeps ==
    ASSUME ExecInv, NEW c \in Cmds, NEW a \in {"poll", "check", "kill", "reap"} \union Ended,
           at' = [at EXCEPT ![c] = a], UNCHANGED <<live, pid, helper, reuse>>,
           \/ at[c] = "new" /\ a = "failed"
           \/ at[c] \in Busy /\ (a \in Ended \/ (a = "reap" <=> at[c] = "reap")),
           \A d \in Cmds : d # c => result'[d] = result[d],
           result'[c] = result[c] \/ a = "done",
           \/ late' = late
           \/ late'.call = "exec" => a = "failed" /\ (late'.owner = Own(c) \/ (late'.owner = Helper(c) /\ pid[c] \in Pids))
    PROVE  HeldInv'
<1>0. TypeOK /\ KnownInv /\ HelperInv /\ (~reused => DistinctInv)
  BY DEF ExecInv
<1>1. at'[c] = a /\ \A d \in Cmds : d # c => at'[d] = at[d]
  BY <1>0 DEF TypeOK
<1>2. KnownInv'
  <2> SUFFICES ASSUME NEW d \in Cmds
               PROVE  /\ at'[d] = "new" => pid[d] = None /\ helper[d] = None
                      /\ at'[d] \in Busy => pid[d] \in Pids
                      /\ at'[d] \in Busy /\ at'[d] # "reap" => helper[d] = None
                      /\ at'[d] = "reap" => helper[d] \in Pids
                      /\ result'[d] # None => at'[d] = "done"
    BY DEF KnownInv
  <2>1. CASE d # c
    BY <1>0, <1>1, <2>1 DEF KnownInv
  <2>2. CASE d = c
    BY <1>0, <1>1, <2>2 DEF KnownInv, Busy, Ended
  <2> QED
    BY <2>1, <2>2
<1>3. ~reused' => DistinctInv'
  BY <1>0, <1>1 DEF DistinctInv, Busy, Ended, reuse
<1>4. HelperInv'
  <2>1. \A d \in Cmds : (\E p \in Pids : live'[p] = Helper(d)) =>
            pid'[d] \in Pids /\ at'[d] \in {"reap"} \union Ended
    BY <1>0, <1>1 DEF HelperInv, Busy, Ended
  <2>2. late' # None /\ late'.call = "exec" =>
           \E d \in Cmds : at'[d] = "failed" /\ (late'.owner = Own(d) \/ (late'.owner = Helper(d) /\ pid'[d] \in Pids))
    BY <1>0, <1>1 DEF HelperInv, Busy, Ended
  <2> QED
    BY <2>1, <2>2 DEF HelperInv
<1> QED
  BY <1>2, <1>3, <1>4 DEF HeldInv

\* A process ends, or several.
LEMMA EndKeeps ==
    ASSUME ExecInv, UNCHANGED <<locals, reuse>>, late' = late,
           \A p \in Pids : live'[p] \in {live[p], None}
    PROVE  HeldInv'
<1>0. TypeOK /\ KnownInv /\ HelperInv /\ (~reused => DistinctInv)
  BY DEF ExecInv
<1>2. KnownInv'
  BY <1>0 DEF KnownInv, locals
<1>3. ~reused' => DistinctInv'
  BY <1>0 DEF DistinctInv, KnownInv, locals, reuse
<1>4. HelperInv'
  <2>1. ASSUME NEW c \in Cmds, NEW p \in Pids, live'[p] = Helper(c) PROVE live[p] = Helper(c)
    BY <2>1, OwnersAre, NoneAssumption
  <2> QED
    BY <1>0, <2>1 DEF HelperInv, locals
<1> QED
  BY <1>2, <1>3, <1>4 DEF HeldInv

\* A process starts: for the Execute that waits for it, or for one that has failed.
LEMMA StartKeeps ==
    ASSUME ExecInv, NEW c \in Cmds, NEW p \in Pids, NEW o \in {Own(c), Helper(c)}, GuestExec(o, p),
           result' = result, late' \in {late, None},
           \/ o = Own(c) /\ at[c] = "new" /\ at' = [at EXCEPT ![c] = "poll"]
              /\ pid' = [pid EXCEPT ![c] = p] /\ helper' = helper
           \/ o = Helper(c) /\ at[c] = "kill" /\ at' = [at EXCEPT ![c] = "reap"]
              /\ helper' = [helper EXCEPT ![c] = p] /\ pid' = pid
           \/ at[c] = "failed" /\ UNCHANGED <<at, pid, helper>> /\ (o = Helper(c) => pid[c] \in Pids)
    PROVE  HeldInv'
<1>0. TypeOK /\ KnownInv /\ HelperInv /\ (~reused => DistinctInv)
  BY DEF ExecInv
<1>1. /\ live' = [live EXCEPT ![p] = o] /\ live[p] = None
      /\ ~reused' => ~reused /\ \A d \in Cmds : at[d] \notin Ended => p # pid[d] /\ p # helper[d]
  BY OnExec, OwnersAre
<1>2. \A d \in Cmds : d # c => at'[d] = at[d] /\ pid'[d] = pid[d] /\ helper'[d] = helper[d]
  BY <1>0 DEF TypeOK
<1>3. \A q \in Pids : q # p => live'[q] = live[q]
  BY <1>0, <1>1 DEF TypeOK
<1>4. KnownInv'
  <2> SUFFICES ASSUME NEW d \in Cmds
               PROVE  /\ at'[d] = "new" => pid'[d] = None /\ helper'[d] = None
                      /\ at'[d] \in Busy => pid'[d] \in Pids
                      /\ at'[d] \in Busy /\ at'[d] # "reap" => helper'[d] = None
                      /\ at'[d] = "reap" => helper'[d] \in Pids
                      /\ result'[d] # None => at'[d] = "done"
    BY DEF KnownInv
  <2>1. CASE d # c
    BY <1>0, <1>1, <1>2, <1>3, <2>1 DEF KnownInv, Busy, Ended
  <2>2. CASE d = c /\ at[c] = "new"
    BY <1>0, <1>1, <2>2 DEF KnownInv, TypeOK, Busy
  <2>3. CASE d = c /\ at[c] = "kill"
    BY <1>0, <1>1, <1>3, <2>3 DEF KnownInv, TypeOK, Busy, Ended
  <2>4. CASE d = c /\ at[c] = "failed"
    BY <1>0, <2>4 DEF KnownInv, Busy
  <2> QED
    BY <2>1, <2>2, <2>3, <2>4
<1>5. ASSUME ~reused' PROVE DistinctInv'
  <2>0. DistinctInv /\ \A d \in Cmds : at[d] \notin Ended => p # pid[d] /\ p # helper[d]
    BY <1>0, <1>1, <1>5
  <2>9. ASSUME NEW d \in Cmds
        PROVE  /\ at'[d] \in Busy => live'[pid'[d]] \in {None, Own(d)}
               /\ at'[d] = "reap" => helper'[d] # pid'[d]
    <3>1. CASE d # c
      BY <1>0, <1>2, <1>3, <2>0, <3>1 DEF DistinctInv, KnownInv, Busy, Ended
    <3>2. CASE d = c /\ at[c] = "new"
      BY <1>0, <1>1, <3>2 DEF TypeOK
    <3>3. CASE d = c /\ at[c] = "kill"
      BY <1>0, <1>1, <1>3, <2>0, <3>3 DEF DistinctInv, KnownInv, TypeOK, Busy, Ended
    <3>4. CASE d = c /\ at[c] = "failed"
      BY <3>4 DEF Busy
    <3> QED
      BY <3>1, <3>2, <3>3, <3>4
  <2>10. ASSUME NEW x \in Cmds, NEW y \in Cmds, at'[x] \in Busy, at'[y] \in Busy, x # y
         PROVE  /\ pid'[x] # pid'[y] /\ pid'[x] # helper'[y]
                /\ at'[x] = "reap" => helper'[x] # helper'[y]
    <3>1. CASE x = c
      BY <1>0, <1>2, <2>0, <2>10, <3>1 DEF DistinctInv, KnownInv, TypeOK, Busy, Ended
    <3>2. CASE y = c
      <4>1. x # c /\ at'[x] = at[x] /\ pid'[x] = pid[x] /\ helper'[x] = helper[x]
        BY <1>2, <2>10, <3>2
      <4>2. p # pid[x] /\ p # helper[x] /\ pid[x] \in Pids /\ (at[x] = "reap" => helper[x] \in Pids)
        BY <1>0, <2>0, <2>10, <4>1 DEF KnownInv, Busy, Ended
      <4>3. CASE at[c] = "new"
        <5>1. pid'[c] = p /\ helper'[c] = None
          BY <1>0, <4>3 DEF TypeOK, KnownInv
        <5> QED
          BY ONLY <3>2, <4>1, <4>2, <5>1, NoneAssumption
      <4>4. CASE at[c] = "kill"
        <5>1. pid'[c] = pid[c] /\ helper'[c] = p
          BY <1>0, <4>4 DEF TypeOK
        <5>2. pid[x] # pid[c]
          BY <2>0, <2>10, <3>2, <4>1, <4>4 DEF DistinctInv, Busy
        <5> QED
          BY ONLY <3>2, <4>1, <4>2, <5>1, <5>2
      <4>5. CASE at[c] = "failed"
        BY <2>10, <3>2, <4>5 DEF Busy
      <4> QED
        BY <4>3, <4>4, <4>5
    <3>3. CASE x # c /\ y # c
      BY <1>2, <2>0, <2>10, <3>3 DEF DistinctInv
    <3> QED
      BY <3>1, <3>2, <3>3
  <2> QED
    BY <2>9, <2>10 DEF DistinctInv
<1>6. HelperInv'
  <2>1. ASSUME NEW d \in Cmds, NEW q \in Pids, live'[q] = Helper(d)
        PROVE  pid'[d] \in Pids /\ at'[d] \in {"reap"} \union Ended
    <3>1. CASE q = p
      <4>1. o = Helper(c) /\ d = c
        BY <1>0, <1>1, <2>1, <3>1, Apart DEF TypeOK
      <4> QED
        BY <1>0, <4>1, Apart DEF TypeOK, KnownInv, Busy, Ended
    <3>2. CASE q # p
      <4>1. pid[d] \in Pids /\ at[d] \in {"reap"} \union Ended
        BY <1>0, <1>3, <2>1, <3>2 DEF HelperInv
      <4> QED
        BY <1>0, <1>2, <4>1 DEF Ended, TypeOK
    <3> QED
      BY <3>1, <3>2
  <2>2. late' # None /\ late'.call = "exec" =>
           \E d \in Cmds : at'[d] = "failed" /\ (late'.owner = Own(d) \/ (late'.owner = Helper(d) /\ pid'[d] \in Pids))
    BY <1>0, <1>2 DEF HelperInv, Ended
  <2> QED
    BY <2>1, <2>2 DEF HelperInv
<1> QED
  BY <1>4, <1>5, <1>6 DEF HeldInv

\* Every step keeps what is known of the process IDs that are held.
LEMMA HeldStep == ExecInv /\ [Next]_vars => HeldInv'
<1> SUFFICES ASSUME ExecInv, [Next]_vars PROVE HeldInv'
  OBVIOUS
<1>0. TypeOK /\ KnownInv /\ HelperInv /\ (~reused => DistinctInv)
  BY DEF ExecInv
<1>1. ASSUME NEW c \in Cmds, NEW p \in Pids, Start(c, p) PROVE HeldInv'
  BY <1>1, StartKeeps DEF Start
<1>2. ASSUME NEW c \in Cmds, StartCut(c) PROVE HeldInv'
  BY <1>2, MoveKeeps DEF StartCut, Ended
<1>3. ASSUME NEW c \in Cmds, Poll(c) PROVE HeldInv'
  <2>1. PICK a \in {"done", "check"} :
          at' = [at EXCEPT ![c] = a] /\ (a = "done" \/ result' = result)
    BY <1>3 DEF Poll
  <2>2. \A d \in Cmds : d # c => result'[d] = result[d]
    BY <1>0, <1>3 DEF Poll, TypeOK
  <2> QED
    BY <1>3, <2>1, <2>2, MoveKeeps DEF Poll, Busy, Ended
<1>4. ASSUME NEW c \in Cmds, Cancel(c) PROVE HeldInv'
  BY <1>4, MoveKeeps DEF Cancel, Busy
<1>5. ASSUME NEW c \in Cmds, PollCut(c) PROVE HeldInv'
  BY <1>5, MoveKeeps DEF PollCut, Busy
<1>6. ASSUME NEW c \in Cmds, Check(c) PROVE HeldInv'
  <2>1. PICK a \in {"failed", "reaped", "kill"} : at' = [at EXCEPT ![c] = a]
    BY <1>6 DEF Check
  <2> QED
    BY <1>6, <2>1, MoveKeeps DEF Check, Busy, Ended
<1>7. ASSUME NEW c \in Cmds, NEW p \in Pids, Kill(c, p) PROVE HeldInv'
  BY <1>7, StartKeeps DEF Kill
<1>8. ASSUME NEW c \in Cmds, Reap(c) PROVE HeldInv'
  <2>1. PICK a \in {"failed", "reaped", "reap"} : at' = [at EXCEPT ![c] = a]
    BY <1>8 DEF Reap
  <2> QED
    BY <1>8, <2>1, MoveKeeps DEF Reap, Busy, Ended
<1>9. ASSUME NEW c \in Cmds, CleanupCut(c) PROVE HeldInv'
  <2>1. late' = late \/ (late'.call = "exec" => late'.owner = Helper(c))
    BY <1>9 DEF CleanupCut, Asking
  <2>2. pid[c] \in Pids
    BY <1>0, <1>9 DEF CleanupCut, KnownInv, Busy
  <2> QED
    BY <1>9, <2>1, <2>2, MoveKeeps DEF CleanupCut, Busy, Ended
<1>10. CASE LateRequest
  <2>1. CASE late.call = "exec"
    <3>1. PICK c \in Cmds : at[c] = "failed" /\ (late.owner = Own(c) \/ (late.owner = Helper(c) /\ pid[c] \in Pids))
      BY <1>0, <1>10, <2>1 DEF LateRequest, HelperInv
    <3>2. PICK p \in Pids : GuestExec(late.owner, p)
      BY <1>10, <2>1 DEF LateRequest
    <3> QED
      BY <1>10, <3>1, <3>2, StartKeeps, Apart DEF LateRequest, locals
  <2>2. CASE late.call # "exec"
    BY <1>0, <1>10, <2>2 DEF LateRequest, locals, reuse, HeldInv, KnownInv, DistinctInv, HelperInv
  <2> QED
    BY <2>1, <2>2
<1>11. CASE LateLost
  BY <1>0, <1>11 DEF LateLost, locals, reuse, HeldInv, KnownInv, DistinctInv, HelperInv
<1>12. ASSUME NEW p \in Pids, Exit(p) PROVE HeldInv'
  <2>1. \A q \in Pids : live'[q] \in {live[q], None}
    BY <1>0, <1>12 DEF Exit, TypeOK
  <2> QED
    BY <1>12, <2>1, EndKeeps DEF Exit
<1>13. ASSUME NEW c \in Cmds, HelperRuns(c) PROVE HeldInv'
  <2>1. \A q \in Pids : live'[q] \in {live[q], None}
    BY <1>0, <1>13 DEF HelperRuns, TypeOK
  <2> QED
    BY <1>13, <2>1, EndKeeps DEF HelperRuns
<1>14. CASE UNCHANGED vars
  BY <1>0, <1>14 DEF vars, reuse, HeldInv, KnownInv, DistinctInv, HelperInv
<1> QED
  BY <1>1, <1>2, <1>3, <1>4, <1>5, <1>6, <1>7, <1>8, <1>9, <1>10, <1>11, <1>12, <1>13, <1>14
     DEF Next, Executing, Guest

\* An awaited record is found by the process ID and by the owner alike.
LEMMA AwaitedBy ==
    ASSUME ExecInv, ~reused, NEW r, Awaited(r), NEW c \in Cmds
    PROVE  /\ r.pid \in Pids /\ r.owner \in Owners
           /\ r.owner = Own(c) => r.pid = pid[c] /\ at[c] \in Busy
           /\ r.owner = Helper(c) => r.pid = helper[c] /\ at[c] = "reap"
           /\ r.pid = pid[c] /\ at[c] \in Busy => r.owner = Own(c)
           /\ r.pid = helper[c] /\ at[c] = "reap" => r.owner = Helper(c)
           /\ \E d \in Cmds : at[d] \in Busy /\ r.pid \in {pid[d], helper[d]}
<1>0. KnownInv /\ DistinctInv
  BY DEF ExecInv
<1>1. PICK d \in Cmds :
        \/ r.owner = Own(d) /\ r.pid = pid[d] /\ at[d] \in Busy
        \/ r.owner = Helper(d) /\ r.pid = helper[d] /\ at[d] = "reap"
  BY DEF Awaited, Busy
<1>2. at[d] \in Busy /\ r.pid \in {pid[d], helper[d]} /\ r.pid \in Pids /\ r.owner \in Owners
  BY <1>0, <1>1, OwnersAre DEF KnownInv, Busy
<1>3. r.owner \in {Own(c), Helper(c)} => d = c
  BY <1>1, Apart
<1>4. r.pid = pid[c] /\ at[c] \in Busy => d = c
  BY <1>0, <1>1, <1>2 DEF DistinctInv
<1>5. r.pid = helper[c] /\ at[c] = "reap" => d = c
  BY <1>0, <1>1, <1>2 DEF DistinctInv, Busy
<1>6. at[c] = "reap" => helper[c] # pid[c]
  BY <1>0 DEF DistinctInv
<1> QED
  BY <1>0, <1>1, <1>2, <1>3, <1>4, <1>5, <1>6, Apart DEF KnownInv, Busy

\* A step that may forget the record under p, and with it whoever awaited it.
LEMMA ForgetTidies ==
    ASSUME ExecInv, Tidy, NEW p, Forget(p) \/ records' = records, live' = live,
           \A r : Awaited(r) /\ (Forget(p) /\ Exited(p) => r.pid # p) => Awaited(r)',
           \A c \in Cmds : result'[c] \in {None, Own(c)}
    PROVE  Tidy'
<1>0. TypeOK /\ AwaitedInv /\ UniqueInv /\ RunsInv /\ HistoryInv
  BY DEF ExecInv, Tidy
<1>1. /\ \A j, k \in DOMAIN records' : records'[j].pid = records'[k].pid => j = k
      /\ \A k \in DOMAIN records' : \E j \in DOMAIN records :
             records'[k] = records[j] /\ (Forget(p) /\ Exited(p) => records[j].pid # p)
      /\ \A j \in DOMAIN records : ~records[j].exited =>
             \E k \in DOMAIN records' : records'[k] = records[j]
  <2>1. CASE Forget(p)
    BY <1>0, <2>1, OnForgetOne DEF UniqueInv
  <2>2. CASE ~Forget(p)
    BY <1>0, <2>2 DEF UniqueInv
  <2> QED
    BY <2>1, <2>2
<1>2. AwaitedInv'
  <2> SUFFICES ASSUME NEW k \in DOMAIN records' PROVE Awaited(records[k])'
    BY DEF AwaitedInv
  <2>1. PICK r : r = records'[k] /\ Awaited(r) /\ (Forget(p) /\ Exited(p) => r.pid # p)
    BY <1>0, <1>1 DEF AwaitedInv
  <2>2. Awaited(r)'
    BY <2>1
  <2> QED
    BY <2>1, <2>2 DEF Awaited
<1>3. UniqueInv'
  BY <1>1 DEF UniqueInv
<1>4. RunsInv'
  BY <1>0, <1>1 DEF RunsInv
<1>5. HistoryInv'
  BY <1>0 DEF HistoryInv
<1> QED
  BY <1>2, <1>3, <1>4, <1>5 DEF Tidy

\* A process starts, and somebody awaits it.
LEMMA ExecTidies ==
    ASSUME ExecInv, Tidy, ~reused', NEW o \in Owners, NEW p \in Pids, GuestExec(o, p), result' = result,
           \A r : Awaited(r) => Awaited(r)',
           \A r : r.pid = p /\ r.owner = o => Awaited(r)'
    PROVE  Tidy'
<1>0. TypeOK /\ AwaitedInv /\ UniqueInv /\ RunsInv /\ HistoryInv
  BY DEF ExecInv, Tidy
<1> DEFINE n == Len(records)
<1>1. PICK m \in Record :
        /\ m = [pid |-> p, owner |-> o, exited |-> FALSE]
        /\ records' = Append(records, m) /\ live' = [live EXCEPT ![p] = o]
  BY OnExec
<1>2. /\ n \in Nat /\ DOMAIN records = 1 .. n /\ DOMAIN records' = 1 .. n + 1
      /\ records'[n + 1] = m /\ \A k \in 1 .. n : records'[k] = records[k]
  BY <1>0, <1>1, OnAdd DEF TypeOK
<1>3. m.pid = p /\ m.owner = o /\ ~m.exited
  BY <1>1
<1>4. \A k \in 1 .. n : records[k].pid # p
  <2> SUFFICES ASSUME NEW k \in 1 .. n PROVE records[k].pid # p
    OBVIOUS
  <2>1. PICK d \in Cmds : at[d] \in Busy /\ records[k].pid \in {pid[d], helper[d]}
    <3>1. Awaited(records[k])
      BY <1>0, <1>2 DEF AwaitedInv
    <3>2. PICK d \in Cmds : TRUE
      BY <3>1 DEF Awaited
    <3> QED
      BY <3>1, <3>2, AwaitedBy, OnExec
  <2> QED
    BY <2>1, OnExec DEF Busy, Ended
<1> HIDE DEF n
<1>5. AwaitedInv'
  <2> SUFFICES ASSUME NEW k \in DOMAIN records' PROVE Awaited(records[k])'
    BY DEF AwaitedInv
  <2>1. PICK r : r = records'[k] /\ Awaited(r)'
    BY <1>0, <1>2, <1>3 DEF AwaitedInv
  <2> QED
    BY <2>1 DEF Awaited
<1>6. UniqueInv'
  BY <1>0, <1>2, <1>3, <1>4 DEF UniqueInv
<1>7. RunsInv'
  <2> SUFFICES ASSUME NEW q \in Pids, live'[q] # None
               PROVE  \E k \in DOMAIN records' :
                          records'[k].pid = q /\ records'[k].owner = live'[q] /\ ~records'[k].exited
    BY DEF RunsInv
  <2>1. CASE q = p
    <3>1. live'[q] = o
      BY <1>0, <1>1, <2>1 DEF TypeOK
    <3>2. n + 1 \in DOMAIN records'
      BY <1>2
    <3> QED
      BY <1>2, <1>3, <2>1, <3>1, <3>2
  <2>2. CASE q # p
    <3>1. live'[q] = live[q]
      BY <1>0, <1>1, <2>2 DEF TypeOK
    <3>2. PICK k \in 1 .. n : records[k].pid = q /\ records[k].owner = live[q] /\ ~records[k].exited
      BY <1>0, <1>2, <3>1 DEF RunsInv
    <3>3. k \in DOMAIN records' /\ records'[k] = records[k]
      BY <1>2
    <3> QED
      BY <3>1, <3>2, <3>3
  <2> QED
    BY <2>1, <2>2
<1>8. HistoryInv'
  BY <1>0 DEF HistoryInv
<1> QED
  BY <1>5, <1>6, <1>7, <1>8 DEF Tidy

\* Processes end, and their records say so.
LEMMA EndTidies ==
    ASSUME ExecInv, Tidy, ~reused, NEW gone \in SUBSET Pids, UNCHANGED locals,
           live' = [q \in Pids |-> IF q \in gone THEN None ELSE live[q]],
           records' = MarkExited({live[q] : q \in gone})
    PROVE  Tidy'
<1>0. TypeOK /\ AwaitedInv /\ UniqueInv /\ RunsInv /\ HistoryInv
  BY DEF ExecInv, Tidy
<1> DEFINE who == {live[q] : q \in gone}
<1>1. /\ DOMAIN records' = DOMAIN records
      /\ \A k \in DOMAIN records : /\ records'[k].pid = records[k].pid
                                   /\ records'[k].owner = records[k].owner
                                   /\ records[k].owner \notin who => records'[k] = records[k]
  BY <1>0, OnMark
<1>2. AwaitedInv'
  <2> SUFFICES ASSUME NEW k \in DOMAIN records PROVE Awaited(records[k])'
    BY <1>1 DEF AwaitedInv
  <2>1. Awaited(records[k])
    BY <1>0 DEF AwaitedInv
  <2> QED
    BY <1>1, <2>1 DEF Awaited, locals
<1>3. UniqueInv'
  BY <1>0, <1>1 DEF UniqueInv
<1>4. RunsInv'
  <2> SUFFICES ASSUME NEW p \in Pids, live'[p] # None
               PROVE  \E k \in DOMAIN records' :
                          records'[k].pid = p /\ records'[k].owner = live'[p] /\ ~records'[k].exited
    BY DEF RunsInv
  <2>1. p \notin gone /\ live'[p] = live[p]
    OBVIOUS
  <2>2. PICK k \in DOMAIN records : records[k].pid = p /\ records[k].owner = live[p] /\ ~records[k].exited
    BY <1>0, <2>1 DEF RunsInv
  <2>3. ASSUME NEW q \in gone, live[q] = live[p] PROVE FALSE
    <3>1. PICK j \in DOMAIN records : records[j].pid = q /\ records[j].owner = live[q]
      BY <1>0, <2>1, <2>3 DEF RunsInv
    <3>2. Awaited(records[j]) /\ Awaited(records[k]) /\ records[j].owner = records[k].owner
      BY <1>0, <2>2, <2>3, <3>1 DEF AwaitedInv
    <3>3. records[j].pid = records[k].pid
      <4>1. PICK c \in Cmds : records[j].owner \in {Own(c), Helper(c)}
        BY <3>2 DEF Awaited
      <4> QED
        BY <3>2, <4>1, AwaitedBy
    <3> QED
      BY <2>1, <2>2, <3>1, <3>3
  <2>4. records[k].owner \notin who
    BY <2>2, <2>3
  <2>5. k \in DOMAIN records' /\ records'[k] = records[k]
    BY <1>1, <2>4
  <2> QED
    BY <2>1, <2>2, <2>5
<1>5. HistoryInv'
  BY <1>0 DEF HistoryInv, locals
<1> QED
  BY <1>2, <1>3, <1>4, <1>5 DEF Tidy

\* A command that has failed has failed for good.
LEMMA FailedStays ==
    ASSUME TypeOK, [Next]_vars
    PROVE  \A c \in Cmds : at[c] = "failed" => at'[c] = "failed"
<1>1. ASSUME NEW c \in Cmds, NEW d \in Cmds, at[d] = "failed",
             \/ \E p \in Pids : Start(c, p) \/ Kill(c, p)
             \/ StartCut(c) \/ Poll(c) \/ Cancel(c) \/ PollCut(c) \/ Check(c) \/ Reap(c) \/ CleanupCut(c)
      PROVE  at'[d] = "failed"
  <2>1. at[c] # "failed" /\ \E a : at' = [at EXCEPT ![c] = a]
    BY <1>1 DEF Start, StartCut, Poll, Cancel, PollCut, Check, Kill, Reap, CleanupCut
  <2> QED
    BY <1>1, <2>1 DEF TypeOK
<1>2. Guest \/ UNCHANGED vars => at' = at
  BY DEF Guest, LateRequest, LateLost, Exit, HelperRuns, locals, vars
<1> QED
  BY <1>1, <1>2 DEF Next, Executing

\* An ID that was given away remains so.
LEMMA ReuseStays == [Next]_vars => (reused => reused') /\ retaken \subseteq retaken' /\ misled \subseteq misled'
<1> SUFFICES ASSUME [Next]_vars PROVE (reused => reused') /\ retaken \subseteq retaken' /\ misled \subseteq misled'
  OBVIOUS
<1>1. ASSUME NEW o, NEW p, GuestExec(o, p) PROVE (reused => reused') /\ retaken \subseteq retaken'
  BY <1>1 DEF GuestExec
<1>2. ASSUME NEW c, NEW o, NEW p, Status(c, o, p) PROVE misled \subseteq misled'
  BY <1>2 DEF Status
<1>3. ASSUME NEW c \in Cmds, \E p \in Pids : Start(c, p) \/ Kill(c, p)
      PROVE  (reused => reused') /\ retaken \subseteq retaken' /\ misled' = misled
  BY <1>1, <1>3 DEF Start, Kill
<1>4. ASSUME NEW c \in Cmds, Poll(c) \/ Check(c) \/ Reap(c)
      PROVE  UNCHANGED reuse /\ misled \subseteq misled'
  BY <1>2, <1>4 DEF Poll, Check, Reap
<1>5. ASSUME NEW c \in Cmds, StartCut(c) \/ Cancel(c) \/ PollCut(c) \/ CleanupCut(c)
      PROVE  UNCHANGED reuse /\ misled' = misled
  BY <1>5 DEF StartCut, Cancel, PollCut, CleanupCut
<1>6. CASE LateRequest
  BY <1>1, <1>6 DEF LateRequest, locals, reuse
<1>7. CASE LateLost \/ (\E p \in Pids : Exit(p)) \/ (\E c \in Cmds : HelperRuns(c)) \/ UNCHANGED vars
  <2>1. UNCHANGED reuse /\ misled' = misled
    BY <1>7 DEF LateLost, Exit, HelperRuns, locals, vars
  <2> QED
    BY <2>1 DEF reuse
<1> QED
  BY <1>3, <1>4, <1>5, <1>6, <1>7 DEF Next, Executing, Guest, reuse

\* As long as no polled ID is given away and no command has failed, every step keeps the records tidy.
LEMMA TidyStep == ExecInv /\ [Next]_vars => (~reused /\ NoFailure => Tidy)'
<1> SUFFICES ASSUME ExecInv, [Next]_vars, ~reused', NoFailure' PROVE Tidy'
  OBVIOUS
<1>0. /\ TypeOK /\ KnownInv /\ DistinctInv /\ HelperInv /\ Tidy /\ ~reused
      /\ AwaitedInv /\ UniqueInv /\ RunsInv /\ HistoryInv
  BY FailedStays, ReuseStays DEF ExecInv, Tidy, NoFailure
<1>1. ASSUME NEW c \in Cmds, NEW p \in Pids, Start(c, p) PROVE Tidy'
  <2>1. at'[c] = "poll" /\ pid'[c] = p /\ UNCHANGED <<helper, pending, result>>
    BY <1>0, <1>1 DEF Start, TypeOK
  <2>2. \A d \in Cmds : d # c => at'[d] = at[d] /\ pid'[d] = pid[d]
    BY <1>0, <1>1 DEF Start, TypeOK
  <2>3. \A r : Awaited(r) => Awaited(r)'
    BY <1>1, <2>1, <2>2 DEF Awaited, Start
  <2>4. \A r : r.pid = p /\ r.owner = Own(c) => Awaited(r)'
    BY <2>1 DEF Awaited
  <2> QED
    BY <1>0, <1>1, <2>1, <2>3, <2>4, OwnersAre, ExecTidies DEF Start
<1>2. ASSUME NEW c \in Cmds, StartCut(c) \/ CleanupCut(c) PROVE Tidy'
  BY <1>0, <1>2 DEF StartCut, CleanupCut, NoFailure, TypeOK
<1>3. ASSUME NEW c \in Cmds, Poll(c) PROVE Tidy'
  <2>1. at[c] = "poll" /\ \A d \in Cmds : d # c => at'[d] = at[d] /\ result'[d] = result[d]
    BY <1>0, <1>3 DEF Poll, TypeOK
  <2>2. UNCHANGED <<pid, helper, pending, live>> /\ Forget(pid[c])
    BY <1>3 DEF Poll, Status
  <2>3. CASE Exited(pid[c])
    <3>1. records[First(pid[c])].owner = Own(c)
      <4>1. Awaited(records[First(pid[c])]) /\ records[First(pid[c])].pid = pid[c]
        BY <1>0, <2>3, FirstFound DEF Exited, AwaitedInv
      <4> QED
        BY <1>0, <2>1, <4>1, AwaitedBy DEF Busy
    <3>2. \A d \in Cmds : result'[d] \in {None, Own(d)}
      BY <1>0, <1>3, <2>1, <2>3, <3>1 DEF Poll, TypeOK, HistoryInv
    <3>3. \A r : Awaited(r) /\ r.pid # pid[c] => Awaited(r)'
      BY <2>1, <2>2 DEF Awaited
    <3> QED
      BY <1>0, <2>2, <2>3, <3>2, <3>3, ForgetTidies
  <2>4. CASE ~Exited(pid[c])
    <3>1. at'[c] = "check" /\ result' = result
      BY <1>0, <1>3, <2>4 DEF Poll, TypeOK
    <3>2. \A r : Awaited(r) => Awaited(r)'
      BY <2>1, <2>2, <3>1 DEF Awaited
    <3> QED
      BY <1>0, <2>2, <3>1, <3>2, ForgetTidies DEF HistoryInv
  <2> QED
    BY <2>3, <2>4
<1>4. ASSUME NEW c \in Cmds, Cancel(c) \/ PollCut(c) PROVE Tidy'
  <2>1. /\ UNCHANGED <<pid, helper, pending, live, records, result>>
        /\ at[c] = "poll" /\ at'[c] = "check" /\ \A d \in Cmds : d # c => at'[d] = at[d]
    BY <1>0, <1>4 DEF Cancel, PollCut, TypeOK
  <2>2. \A r : Awaited(r) => Awaited(r)'
    BY <2>1 DEF Awaited
  <2> QED
    BY <1>0, <2>1, <2>2, ForgetTidies DEF HistoryInv
<1>5. ASSUME NEW c \in Cmds, Check(c) PROVE Tidy'
  <2>1. /\ UNCHANGED <<pid, helper, pending, live, result>> /\ Forget(pid[c])
        /\ at[c] = "check" /\ \A d \in Cmds : d # c => at'[d] = at[d]
    BY <1>0, <1>5 DEF Check, Status, TypeOK
  <2>2. at'[c] = IF Exited(pid[c]) THEN "reaped" ELSE "kill"
    BY <1>0, <1>5 DEF Check, TypeOK, NoFailure
  <2>3. \A r : Awaited(r) /\ (Exited(pid[c]) => r.pid # pid[c]) => Awaited(r)'
    BY <2>1, <2>2 DEF Awaited
  <2> QED
    BY <1>0, <2>1, <2>3, ForgetTidies DEF HistoryInv
<1>6. ASSUME NEW c \in Cmds, NEW p \in Pids, Kill(c, p) PROVE Tidy'
  <2>1. /\ at[c] = "kill" /\ at'[c] = "reap" /\ helper'[c] = p /\ pending'[c] = {"command", "kill"}
        /\ UNCHANGED <<pid, result>>
    BY <1>0, <1>6 DEF Kill, TypeOK
  <2>2. \A d \in Cmds : d # c => at'[d] = at[d] /\ helper'[d] = helper[d] /\ pending'[d] = pending[d]
    BY <1>0, <1>6 DEF Kill, TypeOK
  <2>3. \A r : Awaited(r) => Awaited(r)'
    BY <2>1, <2>2 DEF Awaited
  <2>4. \A r : r.pid = p /\ r.owner = Helper(c) => Awaited(r)'
    BY <2>1 DEF Awaited
  <2> QED
    BY <1>0, <1>6, <2>1, <2>3, <2>4, OwnersAre, ExecTidies DEF Kill
<1>7. ASSUME NEW c \in Cmds, Reap(c) PROVE Tidy'
  <2>1. PICK w \in pending[c] :
          LET p == IF w = "command" THEN pid[c] ELSE helper[c] IN
          /\ ~StillRuns(p) /\ Forget(p)
          /\ pending' = [pending EXCEPT ![c] = IF Exited(p) THEN @ \ {w} ELSE @]
          /\ at' = [at EXCEPT ![c] = IF Found(p) = {} THEN "failed"
                                     ELSE IF pending[c] = {w} THEN "reaped" ELSE "reap"]
    BY <1>7 DEF Reap, Status
  <2>2. PICK p : p = IF w = "command" THEN pid[c] ELSE helper[c]
    OBVIOUS
  <2>3. Found(p) # {} /\ Exited(p) /\ Forget(p)
    BY <1>0, <2>1, <2>2 DEF NoFailure, TypeOK, StillRuns, Exited
  <2>4. /\ UNCHANGED <<pid, helper, live, result>> /\ at[c] = "reap"
        /\ \A d \in Cmds : d # c => at'[d] = at[d] /\ pending'[d] = pending[d]
    BY <1>0, <1>7, <2>1 DEF Reap, TypeOK
  <2>5. /\ w \in {"command", "kill"} /\ pending'[c] = pending[c] \ {w}
        /\ at'[c] = IF pending[c] = {w} THEN "reaped" ELSE "reap"
    BY <1>0, <2>1, <2>2, <2>3 DEF TypeOK
  <2>6. \A r : Awaited(r) /\ r.pid # p => Awaited(r)'
    BY <2>2, <2>4, <2>5 DEF Awaited
  <2> QED
    BY <1>0, <2>3, <2>4, <2>6, ForgetTidies DEF HistoryInv
<1>8. CASE LateRequest
  <2>1. late.call # "exec"
    BY <1>0, <1>8 DEF LateRequest, HelperInv, NoFailure, locals
  <2>2. Forget(late.pid) /\ UNCHANGED <<live, locals>>
    BY <1>8, <2>1 DEF LateRequest
  <2>3. \A r : Awaited(r) => Awaited(r)'
    BY <2>2 DEF Awaited, locals
  <2> QED
    BY <1>0, <2>2, <2>3, ForgetTidies DEF HistoryInv, locals
<1>9. CASE LateLost \/ UNCHANGED vars
  <2>1. UNCHANGED <<live, records, locals>>
    BY <1>9 DEF LateLost, vars, locals
  <2>2. \A r : Awaited(r) => Awaited(r)'
    BY <2>1 DEF Awaited, locals
  <2> QED
    BY <1>0, <2>1, <2>2, ForgetTidies DEF HistoryInv, locals
<1>10. ASSUME NEW p \in Pids, Exit(p) PROVE Tidy'
  <2>1. live' = [q \in Pids |-> IF q \in {p} THEN None ELSE live[q]]
    BY <1>0, <1>10 DEF Exit, TypeOK
  <2>2. {live[p]} = {live[q] : q \in {p}}
    OBVIOUS
  <2> QED
    BY <1>0, <1>10, <2>1, <2>2, EndTidies DEF Exit
<1>11. ASSUME NEW c \in Cmds, HelperRuns(c) PROVE Tidy'
  <2>1. PICK p \in Pids : \E gone \in {{p}, {p, pid[c]}} :
          /\ live[p] = Helper(c)
          /\ live' = [q \in Pids |-> IF q \in gone THEN None ELSE live[q]]
          /\ records' = MarkExited({live[q] : q \in gone})
    BY <1>11 DEF HelperRuns
  <2>0. PICK gone \in {{p}, {p, pid[c]}} :
          /\ live[p] = Helper(c)
          /\ live' = [q \in Pids |-> IF q \in gone THEN None ELSE live[q]]
          /\ records' = MarkExited({live[q] : q \in gone})
    BY <2>1
  <2>2. pid[c] \in Pids
    BY <1>0, <2>0 DEF HelperInv
  <2>6. gone \in SUBSET Pids
    BY <2>0, <2>2
  <2> QED
    BY <1>0, <1>11, <2>0, <2>6, EndTidies DEF HelperRuns
<1> QED
  BY <1>1, <1>2, <1>3, <1>4, <1>5, <1>6, <1>7, <1>8, <1>9, <1>10, <1>11 DEF Next, Executing, Guest

(***************************************************************************)
(* What a helper signals, and what is left behind, whichever IDs are given *)
(* away again                                                              *)
(***************************************************************************)
\* A status call leaves the other records as they are and in their order.
LEMMA OnForgetAny ==
    ASSUME TypeOK, NEW p, Forget(p)
    PROVE  \E f \in [DOMAIN records' -> DOMAIN records] :
               /\ \A k \in DOMAIN records' : records'[k] = records[f[k]] /\ (Exited(p) => f[k] # First(p))
               /\ \A j, k \in DOMAIN records' : f[j] = f[k] => j = k
<1>1. CASE ~Exited(p)
  <2> DEFINE f == [k \in DOMAIN records' |-> k]
  <2>1. records' = records
    BY <1>1 DEF Forget
  <2>2. f \in [DOMAIN records' -> DOMAIN records] /\ \A k \in DOMAIN records' : f[k] = k
    BY <2>1
  <2> HIDE DEF f
  <2> QED
    BY <1>1, <2>1, <2>2
<1>2. CASE Exited(p)
  <2> DEFINE i == First(p)
             n == Len(records)
             f == [k \in DOMAIN records' |-> IF k < i THEN k ELSE k + 1]
  <2>1. i \in 1 .. n /\ n \in Nat /\ DOMAIN records = 1 .. n
    BY <1>2, FirstFound DEF Exited, TypeOK
  <2>2. /\ DOMAIN records' = 1 .. n - 1
        /\ \A k \in 1 .. n - 1 : records'[k] = records[IF k < i THEN k ELSE k + 1]
    <3>1. records' = RemoveAt(records, i) /\ records \in Seq(Record) /\ i \in DOMAIN records
      BY <1>2, <2>1 DEF Forget, TypeOK
    <3>2. /\ RemoveAt(records, i) \in Seq(Record) /\ Len(RemoveAt(records, i)) = n - 1
          /\ \A k \in 1 .. n - 1 : RemoveAt(records, i)[k] = records[IF k < i THEN k ELSE k + 1]
      BY <3>1, OnRemove
    <3> QED
      BY <3>1, <3>2
  <2> HIDE DEF i, n
  <2>3. f \in [DOMAIN records' -> DOMAIN records]
    BY <2>1, <2>2
  <2>4. \A k \in DOMAIN records' : records'[k] = records[f[k]] /\ f[k] # i
    BY <2>1, <2>2
  <2>5. \A j, k \in DOMAIN records' : f[j] = f[k] => j = k
    BY <2>1, <2>2
  <2> QED
    BY <2>3, <2>4, <2>5 DEF i
<1> QED
  BY <1>1, <1>2

\* The records only lose some: those left still say the truth, each has a process.
LEMMA ForgetKeeps ==
    ASSUME ExecInv, NEW p, Forget(p) \/ records' = records, live' = live,
           \A o : Unborn(o)' => Unborn(o)
    PROVE  RunningInv' /\ BornInv'
<1>0. TypeOK /\ RunningInv /\ BornInv
  BY DEF ExecInv
<1>1. PICK f \in [DOMAIN records' -> DOMAIN records] :
        /\ \A k \in DOMAIN records' : records'[k] = records[f[k]]
        /\ \A j, k \in DOMAIN records' : f[j] = f[k] => j = k
  <2>1. CASE Forget(p)
    BY <1>0, <2>1, OnForgetAny
  <2>2. CASE records' = records
    <3> DEFINE f == [k \in DOMAIN records' |-> k]
    <3>1. f \in [DOMAIN records' -> DOMAIN records] /\ \A k \in DOMAIN records' : f[k] = k
      BY <2>2
    <3> HIDE DEF f
    <3> QED
      BY <2>2, <3>1
  <2> QED
    BY <2>1, <2>2
<1>2. RunningInv'
  BY <1>0, <1>1 DEF RunningInv
<1>3. ASSUME NEW k \in DOMAIN records' PROVE ~Unborn(records[k].owner)'
  <2>1. PICK o : o = records'[k].owner /\ ~Unborn(o)
    BY <1>0, <1>1 DEF BornInv
  <2>2. ~Unborn(o)'
    BY <2>1
  <2> QED
    BY <2>1, <2>2 DEF Unborn
<1>4. \A j, k \in DOMAIN records' : records'[j].owner = records'[k].owner => j = k
  BY <1>0, <1>1 DEF BornInv
<1> QED
  BY <1>2, <1>3, <1>4 DEF BornInv

\* A process starts that was unborn.
LEMMA ExecKeeps ==
    ASSUME ExecInv, NEW o \in Owners, NEW p \in Pids, GuestExec(o, p),
           Unborn(o), ~Unborn(o)', \A x : Unborn(x)' => Unborn(x)
    PROVE  RunningInv' /\ BornInv'
<1>0. TypeOK /\ RunningInv /\ BornInv
  BY DEF ExecInv
<1> DEFINE n == Len(records)
<1>1. PICK m \in Record :
        /\ m = [pid |-> p, owner |-> o, exited |-> FALSE]
        /\ records' = Append(records, m) /\ live' = [live EXCEPT ![p] = o] /\ live[p] = None
  <2>1. [pid |-> p, owner |-> o, exited |-> FALSE] \in Record
    BY OnExec
  <2> QED
    BY <2>1 DEF GuestExec
<1>2. /\ n \in Nat /\ DOMAIN records = 1 .. n /\ DOMAIN records' = 1 .. n + 1
      /\ records'[n + 1] = m /\ \A k \in 1 .. n : records'[k] = records[k]
  BY <1>0, <1>1, OnAdd DEF TypeOK
<1>3. m.pid = p /\ m.owner = o
  BY <1>1
<1>4. \A k \in 1 .. n : records[k] \in Record /\ records[k].pid \in Pids /\ records[k].owner \in Owners
  <2>1. \A r \in Record : r.pid \in Pids /\ r.owner \in Owners
    BY DEF Record
  <2> QED
    BY <1>0, <1>2, <2>1, ElementOfSeq DEF TypeOK
<1> HIDE DEF n
<1>5. RunningInv'
  <2> SUFFICES ASSUME NEW k \in 1 .. n + 1, ~records'[k].exited
               PROVE  live'[records'[k].pid] = records'[k].owner
    BY <1>2 DEF RunningInv
  <2>1. CASE k = n + 1
    BY <1>0, <1>1, <1>2, <1>3, <2>1 DEF TypeOK
  <2>2. CASE k \in 1 .. n
    <3>1. live[records[k].pid] = records[k].owner
      BY <1>0, <1>2, <2>2 DEF RunningInv
    <3>2. records[k].pid # p
      BY <1>1, <1>4, <2>2, <3>1, NoneAssumption
    <3> QED
      BY <1>0, <1>1, <1>2, <1>4, <2>2, <3>1, <3>2 DEF TypeOK
  <2> QED
    BY <1>2, <2>1, <2>2
<1>6. ASSUME NEW k \in DOMAIN records' PROVE ~Unborn(records[k].owner)'
  <2>1. PICK x : x = records'[k].owner /\ (x = o \/ ~Unborn(x))
    BY <1>0, <1>2, <1>3 DEF BornInv
  <2>2. ~Unborn(x)'
    BY <2>1
  <2> QED
    BY <2>1, <2>2 DEF Unborn
<1>7. \A k \in 1 .. n : records[k].owner # o
  BY <1>0, <1>2 DEF BornInv
<1>8. \A j, k \in DOMAIN records' : records'[j].owner = records'[k].owner => j = k
  BY <1>0, <1>2, <1>3, <1>7 DEF BornInv
<1> QED
  BY <1>5, <1>6, <1>8 DEF BornInv

\* Processes end, and their records say so.
LEMMA EndMarks ==
    ASSUME ExecInv, NEW gone \in SUBSET Pids, UNCHANGED <<locals, late>>,
           live' = [q \in Pids |-> IF q \in gone THEN None ELSE live[q]],
           records' = MarkExited({live[q] : q \in gone})
    PROVE  RunningInv' /\ BornInv' /\ LeftInv'
<1>0. TypeOK /\ RunningInv /\ BornInv /\ LeftInv
  BY DEF ExecInv
<1> DEFINE who == {live[q] : q \in gone}
<1>1. /\ DOMAIN records' = DOMAIN records
      /\ \A k \in DOMAIN records : /\ records'[k].pid = records[k].pid
                                   /\ records'[k].owner = records[k].owner
                                   /\ records[k].owner \notin who => records'[k] = records[k]
                                   /\ records[k].owner \in who => records'[k].exited
  BY <1>0, OnMark
<1>2. \A k \in DOMAIN records : records[k].pid \in Pids
  <2>1. \A r \in Record : r.pid \in Pids
    BY DEF Record
  <2> QED
    BY <1>0, <2>1, ElementOfSeq DEF TypeOK
<1>3. RunningInv'
  <2> SUFFICES ASSUME NEW k \in DOMAIN records, ~records'[k].exited
               PROVE  live'[records'[k].pid] = records'[k].owner
    BY <1>1 DEF RunningInv
  <2>1. records[k].owner \notin who /\ records'[k] = records[k]
    BY <1>1
  <2>2. live[records[k].pid] = records[k].owner
    BY <1>0, <2>1 DEF RunningInv
  <2>3. records[k].pid \notin gone
    BY <2>1, <2>2
  <2> QED
    BY <1>2, <2>1, <2>2, <2>3
<1>4. ASSUME NEW k \in DOMAIN records' PROVE ~Unborn(records[k].owner)'
  <2>1. ~Unborn(records[k].owner)
    BY <1>0, <1>1 DEF BornInv
  <2> QED
    BY <1>1, <2>1 DEF Unborn, locals
<1>5. \A j, k \in DOMAIN records' : records'[j].owner = records'[k].owner => j = k
  BY <1>0, <1>1 DEF BornInv
<1>6. LeftInv'
  <2> SUFFICES ASSUME NEW k \in DOMAIN records' PROVE (Awaited(records[k]) \/ Excused(records[k]))'
    BY DEF LeftInv
  <2>1. Awaited(records[k]) \/ Excused(records[k])
    BY <1>0, <1>1 DEF LeftInv
  <2> QED
    BY <1>1, <2>1 DEF Awaited, Excused, locals
<1> QED
  BY <1>3, <1>4, <1>5, <1>6 DEF BornInv

\* Who awaits a record is told apart by its owner, so what a step does to the records
\* and to those who wait can be seen owner by owner.
LEMMA LeftBy ==
    ASSUME \A k \in DOMAIN records' :
               \E r : r = records'[k] /\ (Awaited(r)' \/ Excused(r)')
    PROVE  LeftInv'
<1> SUFFICES ASSUME NEW k \in DOMAIN records' PROVE (Awaited(records[k]) \/ Excused(records[k]))'
  BY DEF LeftInv
<1>1. PICK r : r = records'[k] /\ (Awaited(r)' \/ Excused(r)')
  OBVIOUS
<1> QED
  BY <1>1 DEF Awaited, Excused

\* After a status call that has met the record of the process it means, that process
\* has no record any more.
LEMMA StatusTakes ==
    ASSUME ExecInv, NEW c \in Cmds, NEW o, NEW p, Status(c, o, p), Exited(p)
    PROVE  \A k \in DOMAIN records' : c \in misled' \/ records'[k].owner # o
<1>0. TypeOK /\ BornInv
  BY DEF ExecInv
<1>1. Forget(p) /\ Found(p) # {} /\ First(p) \in DOMAIN records
  BY <1>0, FirstFound DEF Status, Exited
<1>2. PICK f \in [DOMAIN records' -> DOMAIN records] :
        \A k \in DOMAIN records' : records'[k] = records[f[k]] /\ f[k] # First(p)
  BY <1>0, <1>1, OnForgetAny
<1>3. CASE records[First(p)].owner # o
  BY <1>1, <1>3 DEF Status
<1>4. CASE records[First(p)].owner = o
  BY <1>0, <1>1, <1>2, <1>4 DEF BornInv
<1> QED
  BY <1>3, <1>4

\* A status call of c for its process o under the ID p: who waits for other processes
\* still does, and who waited for o, too, unless it has met an exited process.
LEMMA StatusKeeps ==
    ASSUME ExecInv, NEW c \in Cmds, NEW o, NEW p, Status(c, o, p), live' = live,
           \A x : Unborn(x)' => Unborn(x),
           \A r : Excused(r) => Excused(r)',
           \A r : Awaited(r) /\ (r.owner # o \/ ~Exited(p)) => Awaited(r)' \/ Excused(r)',
           \A r : r.owner = o /\ c \in misled' => Excused(r)'
    PROVE  RunningInv' /\ BornInv' /\ LeftInv'
<1>0. TypeOK /\ LeftInv /\ Forget(p)
  BY DEF ExecInv, Status
<1>1. RunningInv' /\ BornInv'
  BY <1>0, ForgetKeeps
<1>2. PICK f \in [DOMAIN records' -> DOMAIN records] : \A k \in DOMAIN records' : records'[k] = records[f[k]]
  BY <1>0, OnForgetAny
<1>3. ASSUME NEW k \in DOMAIN records' PROVE \E r : r = records'[k] /\ (Awaited(r)' \/ Excused(r)')
  <2>1. PICK r : r = records'[k] /\ r = records[f[k]]
    BY <1>2
  <2>2. Awaited(r) \/ Excused(r)
    BY <1>0, <2>1 DEF LeftInv
  <2>3. Exited(p) => c \in misled' \/ r.owner # o
    BY <2>1, StatusTakes
  <2> QED
    BY <2>1, <2>2, <2>3
<1> QED
  BY <1>1, <1>3, LeftBy

\* A step that leaves the records alone, or forgets one that nobody asked for.
LEMMA QuietKeeps ==
    ASSUME ExecInv, NEW p, Forget(p) \/ records' = records, live' = live,
           \A x : Unborn(x)' => Unborn(x),
           \A r : Awaited(r) \/ Excused(r) => Awaited(r)' \/ Excused(r)'
    PROVE  RunningInv' /\ BornInv' /\ LeftInv'
<1>0. TypeOK /\ LeftInv
  BY DEF ExecInv
<1>1. RunningInv' /\ BornInv'
  BY ForgetKeeps
<1>2. \A k \in DOMAIN records' : \E j \in DOMAIN records : records'[k] = records[j]
  BY <1>0, OnForgetAny
<1>3. ASSUME NEW k \in DOMAIN records' PROVE \E r : r = records'[k] /\ (Awaited(r)' \/ Excused(r)')
  <2>1. PICK r : r = records'[k] /\ (Awaited(r) \/ Excused(r))
    BY <1>0, <1>2 DEF LeftInv
  <2> QED
    BY <2>1
<1> QED
  BY <1>1, <1>3, LeftBy

\* A process starts that somebody awaits, or whose command has failed.
LEMMA BirthKeeps ==
    ASSUME ExecInv, NEW o \in Owners, NEW p \in Pids, GuestExec(o, p),
           Unborn(o), ~Unborn(o)', \A x : Unborn(x)' => Unborn(x),
           \A r : Awaited(r) \/ Excused(r) => Awaited(r)' \/ Excused(r)',
           \A r : r.pid = p /\ r.owner = o => Awaited(r)' \/ Excused(r)'
    PROVE  RunningInv' /\ BornInv' /\ LeftInv'
<1>0. TypeOK /\ LeftInv
  BY DEF ExecInv
<1>1. RunningInv' /\ BornInv'
  BY ExecKeeps
<1>2. PICK m \in Record : m.pid = p /\ m.owner = o /\ records' = Append(records, m)
  BY OnExec
<1>3. \A k \in DOMAIN records' : records'[k] = m \/ \E j \in DOMAIN records : records'[k] = records[j]
  BY <1>0, <1>2, OnAdd DEF TypeOK
<1>4. ASSUME NEW k \in DOMAIN records' PROVE \E r : r = records'[k] /\ (Awaited(r)' \/ Excused(r)')
  <2>1. PICK r : r = records'[k] /\ (r = m \/ Awaited(r) \/ Excused(r))
    BY <1>0, <1>3 DEF LeftInv
  <2> QED
    BY <1>2, <2>1
<1> QED
  BY <1>1, <1>4, LeftBy

\* No process becomes unborn, and an excuse remains one.
LEMMA UnbornShrinks ==
    ASSUME ExecInv, [Next]_vars
    PROVE  /\ \A o : Unborn(o)' => Unborn(o)
           /\ \A r : Excused(r) => Excused(r)'
<1>0. TypeOK /\ KnownInv
  BY DEF ExecInv
<1>1. \A r : Excused(r) => Excused(r)'
  BY <1>0, FailedStays, ReuseStays DEF Excused
<1>2. ASSUME NEW c \in Cmds,
             \/ \E p \in Pids : Start(c, p) \/ Kill(c, p)
             \/ Poll(c) \/ Cancel(c) \/ PollCut(c) \/ Check(c) \/ Reap(c)
      PROVE  \A o : Unborn(o)' => Unborn(o)
  <2>1. late' = late \/ late'.call # "exec"
    BY <1>2 DEF Start, Kill, Poll, Cancel, PollCut, Check, Reap
  <2>2. PICK a : at' = [at EXCEPT ![c] = a] /\ a # "new" /\ (a \in {"poll", "check", "kill"} => at[c] \in {"new", "poll", "check", "kill"})
    BY <1>2 DEF Start, Kill, Poll, Cancel, PollCut, Check, Reap
  <2> QED
    BY <1>0, <2>1, <2>2 DEF Unborn, TypeOK
<1>3. ASSUME NEW c \in Cmds, StartCut(c) \/ CleanupCut(c) PROVE \A o : Unborn(o)' => Unborn(o)
  <2>1. at' = [at EXCEPT ![c] = "failed"]
    BY <1>3 DEF StartCut, CleanupCut
  <2>2. \/ late' = late \/ late'.call # "exec"
        \/ at[c] = "new" /\ late'.owner = Own(c)
        \/ at[c] = "kill" /\ late'.owner = Helper(c)
    BY <1>3 DEF StartCut, CleanupCut, Asking
  <2> QED
    BY <1>0, <2>1, <2>2 DEF Unborn, TypeOK
<1>4. Guest \/ UNCHANGED vars => at' = at /\ late' \in {late, None}
  BY DEF Guest, LateRequest, LateLost, Exit, HelperRuns, locals, vars
<1>5. Guest \/ UNCHANGED vars => \A o : Unborn(o)' => Unborn(o)
  BY <1>4 DEF Unborn
<1> QED
  BY <1>1, <1>2, <1>3, <1>5 DEF Next, Executing

\* Every step keeps what is known of the records.
LEMMA RecordsStep == ExecInv /\ [Next]_vars => (RunningInv /\ BornInv /\ LeftInv)'
<1> DEFINE Kept == (RunningInv /\ BornInv /\ LeftInv)'
<1> SUFFICES ASSUME ExecInv, [Next]_vars PROVE Kept
  OBVIOUS
<1>0. TypeOK /\ KnownInv /\ HelperInv /\ LeftInv
  BY DEF ExecInv
<1>00. (\A o : Unborn(o)' => Unborn(o)) /\ (\A r : Excused(r) => Excused(r)')
  BY UnbornShrinks
<1>1. ASSUME NEW c \in Cmds, NEW p \in Pids, Start(c, p) PROVE Kept
  <2>1. at[c] = "new" /\ at'[c] = "poll" /\ pid'[c] = p /\ late = None /\ UNCHANGED <<late, helper, pending>>
    BY <1>0, <1>1 DEF Start, TypeOK, LineFree
  <2>2. \A d \in Cmds : d # c => at'[d] = at[d] /\ pid'[d] = pid[d]
    BY <1>0, <1>1 DEF Start, TypeOK
  <2>3. \A r : Awaited(r) => Awaited(r)'
    BY <2>1, <2>2 DEF Awaited
  <2>4. \A r : r.pid = p /\ r.owner = Own(c) => Awaited(r)'
    BY <2>1 DEF Awaited
  <2>5. Unborn(Own(c)) /\ ~Unborn(Own(c))'
    BY <2>1, Apart DEF Unborn, Own
  <2> QED
    BY <1>00, <1>1, <2>3, <2>4, <2>5, OwnersAre, BirthKeeps DEF Start
<1>2. ASSUME NEW c \in Cmds, StartCut(c) \/ CleanupCut(c) PROVE Kept
  <2>1. UNCHANGED <<live, records, pid, helper, pending>> /\ at'[c] = "failed" /\ \A d \in Cmds : d # c => at'[d] = at[d]
    BY <1>0, <1>2 DEF StartCut, CleanupCut, TypeOK
  <2>2. \A r : Awaited(r) => Awaited(r)' \/ Excused(r)'
    BY <2>1 DEF Awaited, Excused
  <2> QED
    BY <1>00, <2>1, <2>2, QuietKeeps
<1>3. ASSUME NEW c \in Cmds, Poll(c) \/ Check(c) PROVE Kept
  <2>1. /\ UNCHANGED <<live, pid, helper, pending>> /\ Status(c, Own(c), pid[c]) /\ at[c] \in {"poll", "check"}
        /\ \A d \in Cmds : d # c => at'[d] = at[d]
    BY <1>0, <1>3 DEF Poll, Check, TypeOK
  <2>2. ~Exited(pid[c]) => at'[c] \in {"check", "kill", "failed"}
    BY <1>0, <1>3 DEF Poll, Check, TypeOK
  <2>3. \A r : Awaited(r) /\ (r.owner # Own(c) \/ ~Exited(pid[c])) => Awaited(r)' \/ Excused(r)'
    BY <2>1, <2>2 DEF Awaited, Excused
  <2>4. \A r : r.owner = Own(c) /\ c \in misled' => Excused(r)'
    BY DEF Excused
  <2> QED
    BY <1>00, <2>1, <2>3, <2>4, StatusKeeps
<1>4. ASSUME NEW c \in Cmds, Cancel(c) \/ PollCut(c) PROVE Kept
  <2>1. /\ UNCHANGED <<pid, helper, pending, live, records>>
        /\ at[c] = "poll" /\ at'[c] = "check" /\ \A d \in Cmds : d # c => at'[d] = at[d]
    BY <1>0, <1>4 DEF Cancel, PollCut, TypeOK
  <2>2. \A r : Awaited(r) => Awaited(r)'
    BY <2>1 DEF Awaited
  <2> QED
    BY <1>00, <2>1, <2>2, QuietKeeps
<1>5. ASSUME NEW c \in Cmds, NEW p \in Pids, Kill(c, p) PROVE Kept
  <2>1. /\ at[c] = "kill" /\ at'[c] = "reap" /\ helper'[c] = p /\ pending'[c] = {"command", "kill"}
        /\ late = None /\ UNCHANGED <<pid, late>>
    BY <1>0, <1>5 DEF Kill, TypeOK, LineFree
  <2>2. \A d \in Cmds : d # c => at'[d] = at[d] /\ helper'[d] = helper[d] /\ pending'[d] = pending[d]
    BY <1>0, <1>5 DEF Kill, TypeOK
  <2>3. \A r : Awaited(r) => Awaited(r)'
    BY <2>1, <2>2 DEF Awaited
  <2>4. \A r : r.pid = p /\ r.owner = Helper(c) => Awaited(r)'
    BY <2>1 DEF Awaited
  <2>5. Unborn(Helper(c)) /\ ~Unborn(Helper(c))'
    BY <2>1, Apart DEF Unborn, Helper
  <2> QED
    BY <1>00, <1>5, <2>3, <2>4, <2>5, OwnersAre, BirthKeeps DEF Kill
<1>6. ASSUME NEW c \in Cmds, Reap(c) PROVE Kept
  <2>1. PICK w \in pending[c] :
          LET p == IF w = "command" THEN pid[c] ELSE helper[c] IN
          /\ ~StillRuns(p) /\ Status(c, IF w = "command" THEN Own(c) ELSE Helper(c), p)
          /\ pending' = [pending EXCEPT ![c] = IF Exited(p) THEN @ \ {w} ELSE @]
          /\ at' = [at EXCEPT ![c] = IF Found(p) = {} THEN "failed"
                                     ELSE IF pending[c] = {w} THEN "reaped" ELSE "reap"]
    BY <1>6 DEF Reap
  <2>2. PICK p, o : p = (IF w = "command" THEN pid[c] ELSE helper[c]) /\ o = (IF w = "command" THEN Own(c) ELSE Helper(c))
    OBVIOUS
  <2>3. ~StillRuns(p) /\ Status(c, o, p) /\ (Found(p) # {} => Exited(p))
    BY <2>1, <2>2 DEF StillRuns, Exited
  <2>4. /\ UNCHANGED <<pid, helper, live>> /\ at[c] = "reap"
        /\ \A d \in Cmds : d # c => at'[d] = at[d] /\ pending'[d] = pending[d]
    BY <1>0, <1>6, <2>1 DEF Reap, TypeOK
  <2>5. /\ w \in {"command", "kill"} /\ pending[c] \subseteq {"command", "kill"}
        /\ Exited(p) => pending'[c] = pending[c] \ {w} /\ at'[c] = IF pending[c] = {w} THEN "reaped" ELSE "reap"
        /\ ~Exited(p) => at'[c] = "failed"
    BY <1>0, <2>1, <2>2, <2>3 DEF TypeOK, Exited
  <2>6. \A r : Awaited(r) /\ (r.owner # o \/ ~Exited(p)) => Awaited(r)' \/ Excused(r)'
    <3>1. CASE ~Exited(p)
      BY <2>4, <2>5, <3>1 DEF Awaited, Excused
    <3>2. CASE Exited(p)
      <4> SUFFICES ASSUME NEW r, Awaited(r), r.owner # o PROVE Awaited(r)'
        BY <3>2
      <4>1. PICK d \in Cmds :
              \/ /\ r.owner = Own(d) /\ r.pid = pid[d]
                 /\ at[d] \in {"poll", "check", "kill"} \/ (at[d] = "reap" /\ "command" \in pending[d])
              \/ /\ r.owner = Helper(d) /\ r.pid = helper[d]
                 /\ at[d] = "reap" /\ "kill" \in pending[d]
        BY DEF Awaited
      <4>2. CASE d # c
        BY <2>4, <4>1, <4>2 DEF Awaited
      <4>3. CASE d = c
        BY <2>2, <2>4, <2>5, <3>2, <4>1, <4>3 DEF Awaited
      <4> QED
        BY <4>2, <4>3
    <3> QED
      BY <3>1, <3>2
  <2>7. \A r : r.owner = o /\ c \in misled' => Excused(r)'
    BY <2>2 DEF Excused
  <2> QED
    BY <1>00, <2>3, <2>4, <2>6, <2>7, StatusKeeps
<1>7. CASE LateRequest
  <2>0. UNCHANGED locals /\ late # None /\ late' = None
    BY <1>7 DEF LateRequest
  <2>1. \A r : Awaited(r) => Awaited(r)'
    BY <2>0 DEF Awaited, locals
  <2>2. CASE late.call = "exec"
    <3>1. PICK c \in Cmds : at[c] = "failed" /\ (late.owner = Own(c) \/ late.owner = Helper(c))
      BY <1>0, <2>0, <2>2 DEF HelperInv
    <3>2. PICK p \in Pids : GuestExec(late.owner, p)
      BY <1>7, <2>2 DEF LateRequest
    <3>3. PICK o \in Owners : o = late.owner /\ o \in {Own(c), Helper(c)}
      BY <3>1, OwnersAre
    <3>4. \A r : r.pid = p /\ r.owner = o => Excused(r)'
      BY <2>0, <3>1, <3>3 DEF Excused, locals
    <3>5. Unborn(o)
      BY <2>0, <2>2, <3>3 DEF Unborn
    <3>6. ~Unborn(o)'
      BY <2>0, <3>1, <3>3, Apart DEF Unborn, locals
    <3> QED
      BY <1>00, <2>1, <3>2, <3>3, <3>4, <3>5, <3>6, BirthKeeps
  <2>3. CASE late.call # "exec"
    BY <1>00, <1>7, <2>1, <2>3, QuietKeeps DEF LateRequest
  <2> QED
    BY <2>2, <2>3
<1>8. CASE LateLost \/ UNCHANGED vars
  <2>1. UNCHANGED <<live, records, locals>>
    BY <1>8 DEF LateLost, vars, locals
  <2>2. \A r : Awaited(r) => Awaited(r)'
    BY <2>1 DEF Awaited, locals
  <2> QED
    BY <1>00, <2>1, <2>2, QuietKeeps
<1>9. ASSUME NEW p \in Pids, Exit(p) PROVE Kept
  <2>1. live' = [q \in Pids |-> IF q \in {p} THEN None ELSE live[q]]
    BY <1>0, <1>9 DEF Exit, TypeOK
  <2>2. {live[p]} = {live[q] : q \in {p}}
    OBVIOUS
  <2> QED
    BY <1>9, <2>1, <2>2, EndMarks DEF Exit
<1>10. ASSUME NEW c \in Cmds, HelperRuns(c) PROVE Kept
  <2>1. PICK p \in Pids : \E gone \in {{p}, {p, pid[c]}} :
          /\ live[p] = Helper(c)
          /\ live' = [q \in Pids |-> IF q \in gone THEN None ELSE live[q]]
          /\ records' = MarkExited({live[q] : q \in gone})
    BY <1>10 DEF HelperRuns
  <2>2. PICK gone \in {{p}, {p, pid[c]}} :
          /\ live[p] = Helper(c)
          /\ live' = [q \in Pids |-> IF q \in gone THEN None ELSE live[q]]
          /\ records' = MarkExited({live[q] : q \in gone})
    BY <2>1
  <2>3. gone \in SUBSET Pids
    BY <1>0, <2>2 DEF HelperInv
  <2> QED
    BY <1>10, <2>2, <2>3, EndMarks DEF HelperRuns
<1> QED
  BY <1>1, <1>2, <1>3, <1>4, <1>5, <1>6, <1>7, <1>8, <1>9, <1>10 DEF Next, Executing, Guest

\* A process whose ID an aiming cleanup knows is started: the cleanup is in `retaken`.
LEMMA ExecAims ==
    ASSUME ExecInv, NEW o \in Owners, NEW p \in Pids, GuestExec(o, p), UNCHANGED <<victim, misled>>,
           \A c \in Cmds : Aims(c)' => Aims(c) /\ pid'[c] = pid[c]
    PROVE  AimInv'
<1>0. TypeOK /\ KnownInv /\ HelperInv /\ AimInv
  BY DEF ExecInv
<1>1. live' = [live EXCEPT ![p] = o] /\ retaken \subseteq retaken'
  BY OnExec
<1>2. ASSUME NEW c \in Cmds, Aims(c)'
      PROVE  live'[pid'[c]] \in {None, Own(c)} \/ c \in retaken' \union misled'
  <2>1. Aims(c) /\ pid'[c] = pid[c]
    BY <1>2
  <2>2. pid[c] \in Pids /\ at[c] \notin {"new", "poll", "check"}
    <3>1. CASE at[c] \in {"kill", "reap"}
      BY <1>0, <3>1 DEF KnownInv, Busy
    <3>2. CASE \E q \in Pids : live[q] = Helper(c)
      BY <1>0, <3>2 DEF HelperInv, Ended
    <3>3. CASE late # None /\ late.call = "exec" /\ late.owner = Helper(c)
      BY <1>0, <3>3, Apart DEF HelperInv
    <3> QED
      BY <2>1, <3>1, <3>2, <3>3 DEF Aims
  <2>3. CASE pid[c] = p
    BY <2>2, <2>3, OnExec
  <2>4. CASE pid[c] # p
    BY <1>0, <1>1, <2>1, <2>2, <2>4 DEF AimInv, TypeOK
  <2> QED
    BY <2>3, <2>4
<1>3. \A c \in Cmds : victim'[c] \in {None, Own(c)} \/ c \in retaken' \union misled'
  BY <1>0, <1>1 DEF AimInv
<1> QED
  BY <1>2, <1>3 DEF AimInv

\* Steps that start no process: who aims has aimed before, and what runs under an ID
\* is what ran there, or nothing.
LEMMA QuietAims ==
    ASSUME ExecInv, [Next]_vars, pid' = pid,
           \A p \in Pids : live'[p] \in {live[p], None},
           \A c \in Cmds : Aims(c)' => pid[c] \in Pids /\ (Aims(c) \/ live[pid[c]] = Own(c) \/ c \in misled'),
           \A c \in Cmds : victim'[c] = victim[c] \/ victim'[c] \in {None, Own(c)} \/ c \in retaken \union misled
    PROVE  AimInv'
<1>0. AimInv /\ retaken \subseteq retaken' /\ misled \subseteq misled'
  BY ReuseStays DEF ExecInv
<1>1. ASSUME NEW c \in Cmds, Aims(c)'
      PROVE  live'[pid'[c]] \in {None, Own(c)} \/ c \in retaken' \union misled'
  BY <1>0, <1>1 DEF AimInv
<1>2. \A c \in Cmds : victim'[c] \in {None, Own(c)} \/ c \in retaken' \union misled'
  BY <1>0 DEF AimInv
<1> QED
  BY <1>1, <1>2 DEF AimInv

\* Every step keeps the aim of the helpers.
LEMMA AimStep == ExecInv /\ [Next]_vars => AimInv'
<1> SUFFICES ASSUME ExecInv, [Next]_vars PROVE AimInv'
  OBVIOUS
<1>0. TypeOK /\ KnownInv /\ HelperInv /\ AimInv /\ RunningInv
  BY DEF ExecInv
<1>00. \A c \in Cmds : Aims(c) => pid[c] \in Pids
  BY <1>0, Apart DEF Aims, KnownInv, HelperInv, Busy
<1>1. ASSUME NEW c \in Cmds, NEW p \in Pids, Start(c, p) PROVE AimInv'
  <2>1. /\ at[c] = "new" /\ at'[c] = "poll" /\ late = None /\ late' = None /\ live' = [live EXCEPT ![p] = Own(c)]
        /\ \A d \in Cmds : d # c => at'[d] = at[d] /\ pid'[d] = pid[d]
    BY <1>0, <1>1 DEF Start, TypeOK, LineFree, GuestExec
  <2>2. \A d \in Cmds, q \in Pids : live'[q] = Helper(d) => live[q] = Helper(d)
    BY <1>0, <2>1, Apart DEF TypeOK
  <2>3. ~Aims(c)'
    BY <1>0, <2>1, <2>2 DEF Aims, HelperInv, Ended
  <2>4. \A d \in Cmds : Aims(d)' => Aims(d) /\ pid'[d] = pid[d]
    BY <2>1, <2>2, <2>3 DEF Aims
  <2> QED
    BY <1>1, <2>4, OwnersAre, ExecAims DEF Start
<1>2. ASSUME NEW c \in Cmds, StartCut(c) PROVE AimInv'
  <2>1. \A d \in Cmds : Aims(d)' => Aims(d)
    BY <1>0, <1>2, Apart DEF StartCut, Aims, TypeOK
  <2> QED
    BY <1>0, <1>00, <1>2, <2>1, QuietAims DEF StartCut
<1>3. ASSUME NEW c \in Cmds, Poll(c) PROVE AimInv'
  <2>1. \A d \in Cmds : Aims(d)' => Aims(d)
    BY <1>0, <1>3 DEF Poll, Aims, TypeOK
  <2> QED
    BY <1>0, <1>00, <1>3, <2>1, QuietAims DEF Poll
<1>4. ASSUME NEW c \in Cmds, Cancel(c) \/ PollCut(c) PROVE AimInv'
  <2>1. \A d \in Cmds : Aims(d)' => Aims(d)
    BY <1>0, <1>4 DEF Cancel, PollCut, Aims, TypeOK
  <2> QED
    BY <1>0, <1>00, <1>4, <2>1, QuietAims DEF Cancel, PollCut
<1>5. ASSUME NEW c \in Cmds, Check(c) PROVE AimInv'
  <2>1. pid[c] \in Pids /\ UNCHANGED <<live, late, pid, victim>> /\ \A d \in Cmds : d # c => at'[d] = at[d]
    BY <1>0, <1>5 DEF Check, KnownInv, Busy, TypeOK
  <2>2. at'[c] = "kill" => live[pid[c]] = Own(c) \/ c \in misled'
    <3> SUFFICES ASSUME at'[c] = "kill" PROVE live[pid[c]] = Own(c) \/ c \in misled'
      OBVIOUS
    <3>1. Found(pid[c]) # {} /\ ~Exited(pid[c])
      BY <1>0, <1>5 DEF Check, TypeOK
    <3>2. First(pid[c]) \in DOMAIN records /\ records[First(pid[c])].pid = pid[c] /\ ~records[First(pid[c])].exited
      BY <1>0, <3>1, FirstFound DEF Exited
    <3>3. live[pid[c]] = records[First(pid[c])].owner
      BY <1>0, <3>2 DEF RunningInv
    <3> QED
      BY <1>5, <3>1, <3>3 DEF Check, Status
  <2>3. at'[c] # "reap"
    BY <1>0, <1>5 DEF Check, TypeOK
  <2>4. \A d \in Cmds : Aims(d)' => pid[d] \in Pids /\ (Aims(d) \/ live[pid[d]] = Own(d) \/ d \in misled')
    BY <1>00, <2>1, <2>2, <2>3 DEF Aims
  <2> QED
    BY <2>1, <2>4, QuietAims
<1>6. ASSUME NEW c \in Cmds, NEW p \in Pids, Kill(c, p) PROVE AimInv'
  <2>1. /\ at[c] = "kill" /\ UNCHANGED <<late, pid>> /\ live' = [live EXCEPT ![p] = Helper(c)]
        /\ \A d \in Cmds : d # c => at'[d] = at[d]
    BY <1>0, <1>6 DEF Kill, TypeOK, GuestExec
  <2>2. \A d \in Cmds, q \in Pids : d # c /\ live'[q] = Helper(d) => live[q] = Helper(d)
    BY <1>0, <2>1, Apart DEF TypeOK
  <2>3. \A d \in Cmds : Aims(d)' => Aims(d) /\ pid'[d] = pid[d]
    BY <2>1, <2>2 DEF Aims
  <2> QED
    BY <1>6, <2>3, OwnersAre, ExecAims DEF Kill
<1>7. ASSUME NEW c \in Cmds, Reap(c) PROVE AimInv'
  <2>1. \A d \in Cmds : Aims(d)' => Aims(d)
    BY <1>0, <1>7 DEF Reap, Aims, TypeOK
  <2> QED
    BY <1>0, <1>00, <1>7, <2>1, QuietAims DEF Reap
<1>8. ASSUME NEW c \in Cmds, CleanupCut(c) PROVE AimInv'
  <2>1. late' = late \/ late'.call # "exec" \/ (at[c] = "kill" /\ late'.owner = Helper(c))
    BY <1>8 DEF CleanupCut, Asking
  <2>2. \A d \in Cmds : Aims(d)' => Aims(d)
    BY <1>0, <1>8, <2>1, Apart DEF CleanupCut, Aims, TypeOK
  <2> QED
    BY <1>0, <1>00, <1>8, <2>2, QuietAims DEF CleanupCut
<1>9. CASE LateRequest
  <2>1. CASE late.call = "exec"
    <3>1. late.owner \in Owners /\ UNCHANGED <<at, pid, misled, victim>> /\ late # None /\ late' = None
      BY <1>0, <1>9, <2>1 DEF LateRequest, Request, TypeOK, locals
    <3>2. PICK p \in Pids : GuestExec(late.owner, p)
      BY <1>9, <2>1 DEF LateRequest
    <3>3. \A d \in Cmds, q \in Pids : live'[q] = Helper(d) => live[q] = Helper(d) \/ late.owner = Helper(d)
      BY <1>0, <3>2 DEF GuestExec, TypeOK
    <3>4. \A d \in Cmds : Aims(d)' => Aims(d) /\ pid'[d] = pid[d]
      BY <2>1, <3>1, <3>3 DEF Aims
    <3> QED
      BY <3>1, <3>2, <3>4, ExecAims
  <2>2. CASE late.call # "exec"
    <3>1. \A d \in Cmds : Aims(d)' => Aims(d)
      BY <1>9, <2>2 DEF LateRequest, Aims, locals
    <3> QED
      BY <1>0, <1>00, <1>9, <2>2, <3>1, QuietAims DEF LateRequest, locals
  <2> QED
    BY <2>1, <2>2
<1>10. CASE LateLost \/ UNCHANGED vars
  <2>1. \A d \in Cmds : Aims(d)' => Aims(d)
    BY <1>10 DEF LateLost, Aims, locals, vars
  <2> QED
    BY <1>0, <1>00, <1>10, <2>1, QuietAims DEF LateLost, locals, vars
<1>11. ASSUME NEW p \in Pids, Exit(p) PROVE AimInv'
  <2>1. \A q \in Pids : live'[q] \in {live[q], None}
    BY <1>0, <1>11 DEF Exit, TypeOK
  <2>2. \A d \in Cmds : Aims(d)' => Aims(d)
    BY <1>11, <2>1, OwnersAre, NoneAssumption DEF Exit, Aims, locals
  <2> QED
    BY <1>00, <1>11, <2>1, <2>2, QuietAims DEF Exit, locals
<1>12. ASSUME NEW c \in Cmds, HelperRuns(c) PROVE AimInv'
  <2>1. \A q \in Pids : live'[q] \in {live[q], None}
    BY <1>0, <1>12 DEF HelperRuns, TypeOK
  <2>2. \A d \in Cmds : Aims(d)' => Aims(d)
    BY <1>12, <2>1, OwnersAre, NoneAssumption DEF HelperRuns, Aims, locals
  <2>3. Aims(c)
    BY <1>12 DEF HelperRuns, Aims
  <2>4. victim'[c] \in {None, Own(c)} \/ c \in retaken \union misled
    BY <1>0, <1>12, <2>3 DEF HelperRuns, AimInv, TypeOK
  <2>5. \A d \in Cmds : d # c => victim'[d] = victim[d]
    BY <1>0, <1>12 DEF HelperRuns, TypeOK
  <2> QED
    BY <1>00, <1>12, <2>1, <2>2, <2>4, <2>5, QuietAims DEF HelperRuns, locals
<1> QED
  BY <1>1, <1>2, <1>3, <1>4, <1>5, <1>6, <1>7, <1>8, <1>9, <1>10, <1>11, <1>12 DEF Next, Executing, Guest

LEMMA ExecInit == Init => ExecInv
<1> SUFFICES ASSUME Init PROVE ExecInv
  OBVIOUS
<1>1. TypeOK
  BY EmptySeq DEF Init, TypeOK
<1>2. KnownInv /\ DistinctInv
  BY DEF Init, KnownInv, DistinctInv, Busy
<1>3. HelperInv /\ AimInv
  BY OwnersAre, NoneAssumption DEF Init, HelperInv, AimInv, Aims
<1>4. RunningInv /\ BornInv /\ LeftInv
  BY DEF Init, RunningInv, BornInv, LeftInv
<1>5. Tidy
  BY DEF Init, Tidy, AwaitedInv, UniqueInv, RunsInv, HistoryInv
<1> QED
  BY <1>1, <1>2, <1>3, <1>4, <1>5 DEF ExecInv

LEMMA ExecInductive == Spec => []ExecInv
<1>1. ExecInv /\ [Next]_vars => ExecInv'
  BY TypeStep, HeldStep, AimStep, RecordsStep, TidyStep DEF ExecInv, HeldInv
<1> QED
  BY <1>1, ExecInit, PTL DEF Spec

(***************************************************************************)
(* GuestExec: theorems                                                     *)
(***************************************************************************)
\* When every Execute that was started has delivered its result or was cleaned up
\* without an error, and every status call met the record it meant, the guest agent
\* holds no process record (Execute, cleanupExec, reapExec).
THEOREM Reaped == Spec => []RecordsReaped
<1>1. ExecInv => RecordsReaped
  <2> SUFFICES ASSUME ExecInv, \A c \in Cmds : at[c] \in {"new", "done", "reaped"}, misled = {}
               PROVE  records = <<>>
    BY DEF RecordsReaped
  <2>1. LeftInv /\ records \in Seq(Record)
    BY DEF ExecInv, TypeOK
  <2>2. DOMAIN records = {}
    BY <2>1 DEF LeftInv, Awaited, Excused
  <2> QED
    BY <2>1, <2>2, EmptySeq
<1> QED
  BY <1>1, ExecInductive, PTL

\* Execute returns the result of its own command, unless the call or the cleanup of
\* another one was cut short, which has reported the error, or the guest has given
\* away an ID that an Execute polled.
THEOREM Stale == Spec => []StaleHasCause
<1>1. ExecInv => StaleHasCause
  BY DEF ExecInv, KnownInv, Tidy, HistoryInv, NoFailure, StaleHasCause
<1> QED
  BY <1>1, ExecInductive, PTL

\* The helper that cleanupExec starts signals its own command's process, unless the
\* process ID was given away after cleanupExec's status call, or one of the status
\* calls met another process's record: an ID given away before that call does no
\* harm, whatever else goes wrong.
THEOREM Signals == Spec => []KillsOwn
<1>1. ExecInv => KillsOwn
  BY DEF ExecInv, AimInv, KillsOwn
<1> QED
  BY <1>1, ExecInductive, PTL

\* Every variable of GuestExec keeps its type.
THEOREM ExecTypeCorrect == Spec => []TypeOK
<1>1. ExecInv => TypeOK
  BY DEF ExecInv
<1> QED
  BY <1>1, ExecInductive, PTL

=============================================================================
